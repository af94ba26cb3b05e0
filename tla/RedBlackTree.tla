---------------------------- MODULE RedBlackTree ----------------------------
(***************************************************************************)
(* The red-black tree of a hash ring (hashring/rbtree.go): top-down        *)
(* insertion and deletion, each one loop from the root that rotates and    *)
(* recolours on its way, and the lookup that collects strings in order.    *)
(*                                                                         *)
(* Abstraction.  A tree is a heap: a function from the value of each node  *)
(* to its fields, with the fake root of the two loops under Fake.  Values  *)
(* are unique, so a value serves as the pointer to its node.               *)
(***************************************************************************)
EXTENDS Integers, FiniteSets, TLC

Nil == -1
Fake == -2

EmptyTree == [root |-> Nil, heap |-> <<>>]

NewNode(str, red) == [str |-> str, left |-> Nil, right |-> Nil, red |-> red]

Child(h, n, right) == IF right THEN h[n].right ELSE h[n].left

setChild(h, n, right, c) ==
  IF right THEN [h EXCEPT ![n].right = c] ELSE [h EXCEPT ![n].left = c]

isRed(h, n) == n # Nil /\ h[n].red

Paint(h, n, red) == [h EXCEPT ![n].red = red]

Without(h, keys) == [n \in DOMAIN h \ keys |-> h[n]]
-----------------------------------------------------------------------------
\* The heap after the rotation of the subtree n, and the new root of that subtree.
singleRotate(h, n, dir) ==
  LET new == Child(h, n, ~dir)
      turned == setChild(setChild(h, n, ~dir, Child(h, new, dir)), new, dir, n)
  IN  [heap |-> Paint(Paint(turned, n, TRUE), new, FALSE), root |-> new]

doubleRotate(h, n, dir) ==
  LET inner == singleRotate(h, Child(h, n, ~dir), ~dir)
  IN  singleRotate(setChild(inner.heap, n, ~dir, inner.root), n, dir)

\* setChild of n to the rotated subtree.
Graft(rotated, n, right) == setChild(rotated.heap, n, right, rotated.root)

\* The root becomes the child of the fake root, and black.
FromFake(h) ==
  LET root == h[Fake].right
  IN  [root |-> root,
       heap |-> Without(IF root = Nil THEN h ELSE Paint(h, root, FALSE), {Fake})]

\* Mutant: two red nodes in a row are always resolved by a single rotation.
FixRedSingle(h, node, parent, gparent, ggparent, last) ==
  IF isRed(h, node) /\ isRed(h, parent)
  THEN Graft(singleRotate(h, gparent, ~last), ggparent, h[ggparent].right = gparent)
  ELSE h

FixRed(h, node, parent, gparent, ggparent, last) ==
  IF isRed(h, node) /\ isRed(h, parent)
  THEN Graft(IF node = Child(h, parent, last)
             THEN singleRotate(h, gparent, ~last) ELSE doubleRotate(h, gparent, ~last),
             ggparent, h[ggparent].right = gparent)
  ELSE h

\* A new node at the bottom, or a node whose two children are red with its colours flipped.
Visit(h, val, str, node, parent, dir) ==
  CASE node = Nil -> setChild(h @@ (val :> NewNode(str, TRUE)), parent, dir, val)
    [] node # Nil /\ isRed(h, h[node].left) /\ isRed(h, h[node].right) ->
         Paint(Paint(Paint(h, node, TRUE), h[node].left, FALSE), h[node].right, FALSE)
    [] OTHER -> h

RECURSIVE InsertFrom(_, _, _, _, _, _, _, _, _)
InsertFrom(h, val, str, node, parent, gparent, ggparent, dir, last) ==
  LET visited == Visit(h, val, str, node, parent, dir)
      at == IF node = Nil THEN val ELSE node
      fixed == FixRed(visited, at, parent, gparent, ggparent, last)
      next == at < val
  IN  IF at = val THEN fixed
      ELSE InsertFrom(fixed, val, str, Child(fixed, at, next), at, parent,
                      IF gparent # Nil THEN gparent ELSE ggparent, next, dir)

\* A value that the tree already has keeps its string.
Insert(tree, val, str) ==
  IF tree.root = Nil
  THEN [root |-> val, heap |-> val :> NewNode(str, FALSE)]
  ELSE LET h == tree.heap @@ (Fake :> [NewNode(str, FALSE) EXCEPT !.right = tree.root])
       IN  FromFake(InsertFrom(h, val, str, tree.root, Nil, Nil, Fake, TRUE, TRUE))
-----------------------------------------------------------------------------
\* The new root top of a subtree and the node become red, and the children of top black.
Recolour(h, top, node) ==
  [n \in DOMAIN h |->
     [h[n] EXCEPT !.red = (@ \/ n \in {top, node}) /\ n \notin {h[top].left, h[top].right}]]

\* Both ways to push a red node down to a black node whose sibling is not Nil: the heap.
PushDown(h, node, parent, gparent, sibling, last) ==
  LET dir2 == h[gparent].right = parent
      grafted(rotated) == Recolour(Graft(rotated, gparent, dir2), rotated.root, node)
  IN  CASE isRed(h, Child(h, sibling, last)) -> grafted(doubleRotate(h, parent, last))
        [] ~isRed(h, Child(h, sibling, last)) /\ isRed(h, Child(h, sibling, ~last)) ->
             grafted(singleRotate(h, parent, last))
        [] OTHER -> Paint(Paint(Paint(h, parent, FALSE), sibling, TRUE), node, TRUE)

\* One turn of Delete at node: the heap, and the parent that node has then.
MakeRed(h, node, parent, gparent, dir, last) ==
  LET sibling == Child(h, parent, ~last)
  IN  CASE isRed(h, node) \/ isRed(h, Child(h, node, dir)) -> [heap |-> h, parent |-> parent]
        [] ~isRed(h, node) /\ ~isRed(h, Child(h, node, dir)) /\ isRed(h, Child(h, node, ~dir)) ->
             LET under(rotated) == [heap |-> Graft(rotated, parent, last), parent |-> rotated.root]
             IN  under(singleRotate(h, node, dir))
        [] OTHER -> [heap |-> IF sibling = Nil THEN h
                              ELSE PushDown(h, node, parent, gparent, sibling, last),
                     parent |-> parent]

RECURSIVE DeleteFrom(_, _, _, _, _, _)
DeleteFrom(h, val, node, parent, dir, found) ==
  LET at == Child(h, node, dir)
      next == at < val
      down(made) == DeleteFrom(made.heap, val, at, made.parent, next, found \/ at = val)
  IN  IF at = Nil THEN [heap |-> h, node |-> node, parent |-> parent, found |-> found]
      ELSE down(MakeRed(h, at, node, parent, next, dir))

\* The node found gets the value of the node that is unlinked: a pointer to val becomes
\* a pointer to that value.
Rename(h, val, to) ==
  LET ptr(n) == IF n = val THEN to ELSE n
  IN  [n \in (DOMAIN h \ {val}) \cup {to} |->
         LET from == IF n = to THEN h[val] ELSE h[n]
         IN  [from EXCEPT !.left = ptr(@), !.right = ptr(@)]]

\* Mutant: the string of the node that is unlinked is lost.
MoveUpValue(h, val, node) == Rename(h, val, node)

\* found.val = node.val and found.str = node.str, when the node of val was found.
MoveUp(h, val, node) == Rename([h EXCEPT ![val].str = h[node].str], val, node)

\* The node is unlinked from its parent, and is the one found or moves up to it.
Unlink(h, val, node, parent) ==
  LET remove(unlinked) ==
        IF node = val THEN Without(unlinked, {val}) ELSE MoveUp(unlinked, val, node)
  IN  remove(setChild(h, parent, h[parent].right = node, Child(h, node, h[node].left = Nil)))

\* The heap after the loop of Delete, which ended with end.
EndDelete(end, val) ==
  IF end.found THEN Unlink(end.heap, val, end.node, end.parent) ELSE end.heap

Delete(tree, val) ==
  IF tree.root = Nil THEN tree
  ELSE LET h == tree.heap @@ (Fake :> [NewNode("", TRUE) EXCEPT !.right = tree.root])
       IN  FromFake(EndDelete(DeleteFrom(h, val, Fake, Nil, TRUE, FALSE), val))
-----------------------------------------------------------------------------
\* Mutant: the walk leaves out the point that is at val.
RECURSIVE findNUniqueBeyond(_, _, _, _, _)
findNUniqueBeyond(h, node, n, val, result) ==
  IF Cardinality(result) >= n \/ node = Nil THEN result
  ELSE LET left == IF node > val THEN findNUniqueBeyond(h, h[node].left, n, val, result) ELSE result
       IN  IF Cardinality(left) >= n THEN left
           ELSE findNUniqueBeyond(h, h[node].right, n, val,
                                  IF node > val THEN left \cup {h[node].str} ELSE left)

\* result and the strings of the first nodes from val on, in order, up to n of them.
RECURSIVE findNUniqueAbove(_, _, _, _, _)
findNUniqueAbove(h, node, n, val, result) ==
  IF Cardinality(result) >= n \/ node = Nil THEN result
  ELSE LET left == IF node >= val THEN findNUniqueAbove(h, h[node].left, n, val, result) ELSE result
       IN  IF Cardinality(left) >= n THEN left
           ELSE findNUniqueAbove(h, h[node].right, n, val,
                                 IF node >= val THEN left \cup {h[node].str} ELSE left)
-----------------------------------------------------------------------------
\* The number of black nodes on every path from n to a leaf, or Nil if the paths differ,
\* if a red node has a red child, or if the values below n are not within lo..hi in order.
RECURSIVE BlackHeight(_, _, _, _)
BlackHeight(h, n, lo, hi) ==
  IF n = Nil THEN 0
  ELSE LET left == BlackHeight(h, h[n].left, lo, n - 1)
           right == BlackHeight(h, h[n].right, n + 1, hi)
       IN  IF /\ lo <= n /\ n <= hi
              /\ left = right /\ left # Nil
              /\ h[n].red => ~isRed(h, h[n].left) /\ ~isRed(h, h[n].right)
           THEN left + IF h[n].red THEN 0 ELSE 1
           ELSE Nil

RECURSIVE Reachable(_, _)
Reachable(h, n) ==
  IF n = Nil THEN {} ELSE {n} \cup Reachable(h, h[n].left) \cup Reachable(h, h[n].right)

IsRedBlackTree(tree, max) ==
  /\ BlackHeight(tree.heap, tree.root, 0, max) # Nil
  /\ ~isRed(tree.heap, tree.root)
  /\ Reachable(tree.heap, tree.root) = DOMAIN tree.heap
=============================================================================

------------------------------ MODULE HashRing ------------------------------
(***************************************************************************)
(* The consistent hash ring (hashring/hashring.go): a set of servers, a    *)
(* red-black tree with a node for each replica point, and a checksum.      *)
(* Every operation runs under the lock of the ring and is one step.        *)
(*                                                                         *)
(* Abstractions.  hash[s] lists the hashes of the replica points of s, and *)
(* keys are their hashes.  The checksum is the set of servers it was       *)
(* computed from.                                                          *)
(***************************************************************************)
EXTENDS Positions, RedBlackTree, SequencesExt

CONSTANTS
  Hashings,  \* the hash functions tried: for each, a sequence of positions for each server
  MaxList    \* bound on the lists given to AddRemoveServers

ASSUME HashingsAssumption ==
  \A f \in Hashings : f \in [Server -> Seq(Position)]

VARIABLES
  hash,     \* the hash function: hash[s][i + 1] is that of the replica point i of s
  servers,  \* serverSet
  tree,     \* the red-black tree
  checksum  \* the servers the checksum was computed from

vars == <<hash, servers, tree, checksum>>

Init ==
  /\ hash \in Hashings
  /\ servers = {} /\ checksum = {}
  /\ tree = EmptyTree

addReplicas(t, server) == FoldLeft(LAMBDA u, h : Insert(u, h, server), t, hash[server])

removeReplicas(t, server) == FoldLeft(LAMBDA u, h : Delete(u, h), t, hash[server])

\* The servers and the tree of a ring r.
addServer(r, server) ==
  IF server \in r.servers THEN r
  ELSE [servers |-> r.servers \cup {server}, tree |-> addReplicas(r.tree, server)]

removeServer(r, server) ==
  IF server \in r.servers
  THEN [servers |-> r.servers \ {server}, tree |-> removeReplicas(r.tree, server)]
  ELSE r

This == [servers |-> servers, tree |-> tree]

\* A call that changes the ring computes its checksum.
Becomes(r) ==
  /\ servers' = r.servers /\ tree' = r.tree
  /\ checksum' = IF r = This THEN checksum ELSE r.servers
  /\ UNCHANGED hash

AddServer(server) == Becomes(addServer(This, server))

RemoveServer(server) == Becomes(removeServer(This, server))

AddRemoveServers(add, remove) ==
  Becomes(FoldLeft(removeServer, FoldLeft(addServer, This, add), remove))

Lists == UNION {[1 .. n -> Server] : n \in 0 .. MaxList}

Next ==
  \/ \E s \in Server : AddServer(s) \/ RemoveServer(s)
  \/ \E add, remove \in Lists : AddRemoveServers(add, remove)

Spec == Init /\ [][Next]_vars
-----------------------------------------------------------------------------
\* The servers LookupN returns for a key, as a set: the code takes them from a Go map, in
\* no order.
LookupN(key, n) ==
  IF n >= Cardinality(servers) THEN servers
  ELSE LET unique == findNUniqueAbove(tree.heap, tree.root, n, key, {})
       IN  IF Cardinality(unique) < n
           THEN findNUniqueAbove(tree.heap, tree.root, n, 0, unique) ELSE unique

\* The tree as the owners of Ring.
TreeOwner ==
  [h \in Position |-> IF h \in DOMAIN tree.heap THEN tree.heap[h].str ELSE None]

Abstract == INSTANCE Ring WITH hash <- [s \in Server |-> ToSet(hash[s])], owner <- TreeOwner

\* The tree is a red-black tree after every call: ordered, black at the root, no red node
\* under a red one, and as many black nodes on every path.
TreeIsRedBlack == IsRedBlackTree(tree, HashSize - 1)

\* The hash ring implements Ring: through all rotations of the tree, adding a server adds
\* its points where there are none, and removing it removes exactly its points.
ImplementsRing == Abstract!Spec

\* The distance from a key to the nearest point of a server.
Nearest(key, server) ==
  LET points == {h \in Position : TreeOwner[h] = server}
  IN  CHOOSE d \in Position :
        /\ \E h \in points : d = Distance(key, h)
        /\ \A h \in points : d <= Distance(key, h)

\* LookupN returns the n servers whose points come first from the key on, around the ring;
\* all that have points if they are fewer, and all servers if n is no less than their number.
LookupIsClockwise ==
  LET owners == ToSet([h \in DOMAIN tree.heap |-> tree.heap[h].str])
      first(key, n) ==
        {s \in owners :
           Cardinality({t \in owners : Nearest(key, t) < Nearest(key, s)}) < n}
  IN  \A key \in Position : \A n \in 1 .. Cardinality(Server) :
        LookupN(key, n) = IF n >= Cardinality(servers) THEN servers ELSE first(key, n)

\* A change of the ring moves a key only away from a server that was removed or to one that
\* was added, unless two servers share a point.
MinimalDisruption == Abstract!MinimalDisruption
=============================================================================

----------------------------- MODULE RingProofs -----------------------------
(***************************************************************************)
(* Proofs about Ring, for any servers, any number of positions and any     *)
(* hash function.                                                          *)
(***************************************************************************)
EXTENDS Ring, TLAPS

\* The inductive invariant: the owners are servers of the ring with that position, and no
\* server is without its own, unless it shares one.
RingInv == TypeOK /\ NoGhostOwner /\ OwnsItsPositions

\* Two positions at the same distance from a third are the same.
LEMMA DistanceInjective ==
  ASSUME NEW k \in Position, NEW h \in Position, NEW g \in Position,
         Distance(k, h) = Distance(k, g)
  PROVE  h = g
BY RingAssumption DEF Distance, Position

\* The empty ring satisfies the invariant.
LEMMA InitRing == Init => RingInv
BY RingAssumption DEF Init, RingInv, TypeOK, NoGhostOwner, OwnsItsPositions

\* An update leaves no position to a server that was removed, and takes none from another
\* unless they share it.
LEMMA UpdateRing ==
  ASSUME RingInv, NEW add \in SUBSET Server, NEW remove \in SUBSET Server, Update(add, remove)
  PROVE  RingInv'
<1>1. TypeOK'
  BY DEF RingInv, TypeOK, Update
<1>2. NoGhostOwner'
  <2>. SUFFICES ASSUME NEW h \in Position, owner'[h] # None
                PROVE  owner'[h] \in servers' /\ h \in hash[owner'[h]]
    BY DEF NoGhostOwner, Update
  <2>. DEFINE comers == {s \in add : h \in hash[s]}
  <2>1. ~ \E s \in remove : h \in hash[s]
    BY DEF Update
  <2>2. CASE owner[h] # None \/ comers = {}
    BY <2>1, <2>2 DEF Update, RingInv, NoGhostOwner
  <2>3. CASE ~(owner[h] # None \/ comers = {})
    BY <2>1, <2>3 DEF Update
  <2>. QED BY <2>2, <2>3
<1>3. OwnsItsPositions'
  <2>. SUFFICES ASSUME Disjoint, NEW s \in servers', NEW h \in hash[s]
                PROVE  owner'[h] = s
    BY DEF OwnsItsPositions, Disjoint, Update
  <2>1. s \in Server /\ h \in Position /\ s \notin remove
    BY DEF RingInv, TypeOK, Update
  <2>2. \A t \in Server : h \in hash[t] => t = s
    BY <2>1 DEF Disjoint
  <2>3. ~ \E t \in remove : h \in hash[t]
    BY <2>1, <2>2
  <2>4. CASE s \in servers
    BY <2>1, <2>3, <2>4, RingAssumption DEF RingInv, OwnsItsPositions, Update
  <2>5. CASE s \notin servers
    <3>1. s \in add
      BY <2>5 DEF Update
    <3>2. owner[h] = None
      BY <2>1, <2>2, <2>5 DEF RingInv, NoGhostOwner, TypeOK
    <3>3. {t \in add : h \in hash[t]} = {s}
      BY <2>2, <3>1
    <3>. QED BY <2>1, <2>3, <3>2, <3>3 DEF Update
  <2>. QED BY <2>4, <2>5
<1>. QED BY <1>1, <1>2, <1>3 DEF RingInv

\* A step that leaves the ring alone.
LEMMA StutterRing == RingInv /\ UNCHANGED vars => RingInv'
BY DEF RingInv, TypeOK, NoGhostOwner, OwnsItsPositions, Disjoint, vars

\* The invariant holds throughout.
LEMMA RingAlways == Spec => []RingInv
<1>1. RingInv /\ [Next]_vars => RingInv'
  BY UpdateRing, StutterRing DEF Next
<1>. QED BY InitRing, <1>1, PTL DEF Spec

\* No server that has left the ring owns a position, whatever the hash function and however
\* often servers that share positions come and go.
THEOREM NoGhosts == Spec => []NoGhostOwner
<1>1. RingInv => NoGhostOwner
  BY DEF RingInv
<1>. QED BY RingAlways, <1>1, PTL

\* Without shared positions a server of the ring owns all its positions.
THEOREM AllPositionsOwned == Spec => []OwnsItsPositions
<1>1. RingInv => OwnsItsPositions
  BY DEF RingInv
<1>. QED BY RingAlways, <1>1, PTL

\* The step itself: a key whose owner changes was owned by a server that leaves or goes to
\* one that joins.
LEMMA UpdateMovesLittle ==
  ASSUME RingInv, NEW add \in SUBSET Server, NEW remove \in SUBSET Server, Update(add, remove),
         Disjoint,
         NEW k \in Position, NEW h \in Position, NEW g \in Position,
         IsNearest(k, h), IsNearest(k, g)', owner'[g] # owner[h]
  PROVE  owner[h] \notin servers' \/ owner'[g] \notin servers
<1>. SUFFICES ASSUME owner[h] \in servers', owner'[g] \in servers
              PROVE  FALSE
  OBVIOUS
<1>. DEFINE s == owner[h]
            t == owner'[g]
<1>1. RingInv'
  BY UpdateRing
<1>2. s \in Server /\ h \in hash[s] /\ t \in Server /\ g \in hash[t]
  BY <1>1 DEF RingInv, NoGhostOwner, TypeOK, IsNearest, Update
<1>3. owner'[h] = s
  BY <1>1, <1>2 DEF RingInv, OwnsItsPositions, Disjoint, Update
<1>4. owner[g] = t
  BY <1>2 DEF RingInv, OwnsItsPositions
<1>5. owner[g] # None /\ owner'[h] # None
  BY <1>2, <1>3, <1>4, RingAssumption
<1>6. Distance(k, h) <= Distance(k, g)
  BY <1>5 DEF IsNearest
<1>7. Distance(k, g) <= Distance(k, h)
  BY <1>5 DEF IsNearest
<1>8. Distance(k, h) \in Int /\ Distance(k, g) \in Int
  BY RingAssumption DEF Distance, Position
<1>9. h = g
  BY <1>6, <1>7, <1>8, DistanceInjective
<1>. QED BY <1>3, <1>9

\* Consistent hashing, for every hash function without shared positions: adding and removing
\* servers moves only the keys of the servers that leave or join.
THEOREM LittleMoves == Spec => MinimalDisruption
<1>. DEFINE Moves == Disjoint =>
              \A k, h \in Position :
                IsNearest(k, h) =>
                  \A g \in Position :
                    IsNearest(k, g)' /\ owner'[g] # owner[h] =>
                      owner[h] \notin servers' \/ owner'[g] \notin servers
<1>1. RingInv /\ Next => Moves
  BY UpdateMovesLittle DEF Next
<1>. QED BY RingAlways, <1>1, PTL DEF Spec, MinimalDisruption
=============================================================================

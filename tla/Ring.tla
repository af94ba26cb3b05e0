-------------------------------- MODULE Ring --------------------------------
(***************************************************************************)
(* What a hash ring (hashring/hashring.go) promises, without the tree: an  *)
(* owner for each position that some server of the ring hashes to.  The    *)
(* positions of a server are those of its replica points.  They may        *)
(* coincide with those of another server: the first comer owns them, and   *)
(* the first to leave takes them away.                                     *)
(***************************************************************************)
EXTENDS Positions

VARIABLES
  hash,     \* hash[s]: the positions of server s
  servers,  \* serverSet
  owner     \* owner[h]: the server that owns position h, or None

vars == <<hash, servers, owner>>

Init ==
  /\ hash \in [Server -> SUBSET Position]
  /\ servers = {}
  /\ owner = [h \in Position |-> None]

\* Servers are added, and then servers are removed.
Update(add, remove) ==
  /\ add \cap servers = {} /\ remove \subseteq servers \cup add /\ add \cup remove # {}
  /\ servers' = (servers \cup add) \ remove
  /\ owner' \in [Position -> Server \cup {None}]
  /\ \A h \in Position :
       LET comers == {s \in add : h \in hash[s]}
       IN  IF \E s \in remove : h \in hash[s] THEN owner'[h] = None
           ELSE IF owner[h] # None \/ comers = {} THEN owner'[h] = owner[h]
           ELSE owner'[h] \in comers
  /\ UNCHANGED hash

Next == \E add, remove \in SUBSET Server : Update(add, remove)

Spec == Init /\ [][Next]_vars
-----------------------------------------------------------------------------
\* h is the owned position that is nearest to k: its owner is the owner of a key at k.
IsNearest(k, h) ==
  /\ owner[h] # None
  /\ \A g \in Position : owner[g] # None => Distance(k, h) <= Distance(k, g)

\* No two servers share a position.
Disjoint == \A s, t \in Server : s # t => hash[s] \cap hash[t] = {}

TypeOK ==
  /\ hash \in [Server -> SUBSET Position]
  /\ servers \subseteq Server
  /\ owner \in [Position -> Server \cup {None}]

\* A position is owned by a server of the ring that hashes to it, even when servers share
\* positions: a server that has left the ring owns no key.
NoGhostOwner ==
  \A h \in Position : owner[h] # None => owner[h] \in servers /\ h \in hash[owner[h]]

\* When no two servers share a position, every server of the ring owns all of its own.
OwnsItsPositions ==
  Disjoint => \A s \in servers : \A h \in hash[s] : owner[h] = s

\* A step that changes the owner of a key takes it from a server that leaves the ring, or
\* gives it to one that joins.
MinimalDisruption ==
  [][Disjoint =>
       \A k, h \in Position :
         IsNearest(k, h) =>
           \A g \in Position :
             IsNearest(k, g)' /\ owner'[g] # owner[h] =>
               owner[h] \notin servers' \/ owner'[g] \notin servers]_vars
=============================================================================

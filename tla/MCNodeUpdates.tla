--------------------------- MODULE MCNodeUpdates ---------------------------
(* Instances of NodeUpdates for TLC.                                       *)
EXTENDS NodeUpdates, TLC

\* Goroutines are interchangeable.
Symmetry == Permutations(Thread)

\* Bound: in one behaviour only one address is the subject of applied changes.
OneSubject ==
  LET subjects == UNION {DOMAIN threads[t].applied : t \in Thread} \cup
                  {a \in Address : members[a] # [incarnation |-> 0, status |-> Alive]} \cup
                  DOMAIN changes \cup overlapped
  IN  Cardinality(subjects) <= 1
=============================================================================

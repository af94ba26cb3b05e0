----------------------------- MODULE Membership -----------------------------
(***************************************************************************)
(* What the memberlists of a ringpop cluster promise to the code above     *)
(* them, whatever the network does: a process knows about itself what it   *)
(* alone decides, and about the others it only ever learns, never beyond   *)
(* what they have themselves said, and never back.  Swim implements this   *)
(* specification.                                                          *)
(***************************************************************************)
EXTENDS Member

CONSTANT Node

VARIABLES
  view,         \* view[n]: the memberlist of the process at n, empty when none runs
  incarnation,  \* incarnation[n]: the latest incarnation of n
  running       \* the addresses at which a process runs

vars == <<view, incarnation, running>>

Init ==
  /\ view = [n \in Node |-> [a \in Node |-> [incarnation |-> 0, status |-> Alive]]]
  /\ incarnation = [n \in Node |-> 0]
  /\ running = Node

\* v is a memberlist n may hold when the latest incarnations are latest.
Legitimate(n, v, latest) ==
  /\ n \in DOMAIN v
  /\ v[n].incarnation = latest[n] /\ v[n].status \in {Alive, Leave}
  /\ DOMAIN v \subseteq Node
  /\ \A a \in DOMAIN v : v[a].incarnation <= latest[a]

\* n may reach memberlist w from v: nobody is forgotten, no entry is superseded
\* by its successor's past.
Learns(n, v, w) ==
  \A a \in DOMAIN v : a \in DOMAIN w /\ (a # n => ~ nonLocalOverride(w[a], v[a]))

\* n alone moves, and only n makes incarnations of n.
OnlyAt(n) ==
  /\ view' = [view EXCEPT ![n] = view'[n]]
  /\ incarnation' = [incarnation EXCEPT ![n] = incarnation'[n]]
  /\ incarnation'[n] >= incarnation[n]

\* n learns about others, refutes a suspicion, leaves or rejoins.
Change(n) ==
  /\ n \in running /\ running' = running
  /\ OnlyAt(n)
  /\ Learns(n, view[n], view'[n])
  /\ Legitimate(n, view'[n], incarnation')

\* A process starts and knows itself only.
Start(n) ==
  /\ n \notin running /\ running' = running \cup {n}
  /\ OnlyAt(n)
  /\ DOMAIN view'[n] = {n}
  /\ Legitimate(n, view'[n], incarnation')

\* A process stops and what it knew is gone.
Stop(n) ==
  /\ n \in running /\ running' = running \ {n}
  /\ OnlyAt(n)
  /\ incarnation' = incarnation
  /\ DOMAIN view'[n] = {}

Next == \E n \in Node : Change(n) \/ Start(n) \/ Stop(n)

Spec == Init /\ [][Next]_vars
=============================================================================

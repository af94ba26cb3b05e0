------------------------------ MODULE Requests ------------------------------
(***************************************************************************)
(* A Ringpop instance at work: while it is bootstrapped and destroyed and  *)
(* its ring changes, goroutines of the application handle or forward       *)
(* requests, replicate them, or ask the router for clients.                *)
(***************************************************************************)
EXTENDS Replicator, Router

CONSTANTS Scenarios  \* what is tried: bounds on Bootstrap and on the changes of
                     \* the membership, the work of each goroutine, and the options it uses

ASSUME ScenarioAssumption ==
  \A w \in Scenarios :
    /\ w.bootstraps \in Nat /\ w.changes \in Nat
    /\ w.work \in [Goroutine -> {"handle", "replicate", "route", "none"}]
    /\ w.forward \in [maxRetries : Nat, schedule : Nat, reroute : BOOLEAN]
    /\ w.replica \in [n : Nat, rw : Nat, parallel : BOOLEAN, keys : SUBSET Key]

VARIABLES
  work,   \* work[g]: what goroutine g does
  handle  \* handle[g]: HandleOrForward of goroutine g

vars == <<facade_vars, forward_vars, replica_vars, router_vars, work, handle>>

Init ==
  /\ \E w \in Scenarios :
       /\ work = w.work
       /\ FacadeInit(w.bootstraps, w.changes) /\ ForwardInit(w.forward) /\ ReplicaInit(w.replica)
  /\ RouterInit
  /\ handle = [g \in Goroutine |-> [pc |-> "none", dest |-> Local, key |-> CHOOSE k \in Key : TRUE]]

\* HandleOrForward looks the key up, ...
HandleOrForward(g, k) ==
  /\ handle[g].pc = "none"
  /\ \/ Lookup(k) = {} /\ handle' = [handle EXCEPT ![g].pc = "failed"]
     \/ \E d \in Lookup(k) : handle' = [handle EXCEPT ![g] = [pc |-> "who", dest |-> d, key |-> k]]
  /\ UNCHANGED <<facade_vars, forward_vars, replica_vars, router_vars, work>>

\* ... asks WhoAmI, which may no longer answer, and leaves the request to the caller, if the
\* key is its own, or forwards it.
HandleOr(g) ==
  LET h == handle[g]
  IN  /\ h.pc = "who"
      /\ handle' = [handle EXCEPT ![g].pc =
           IF ~Ready THEN "failed" ELSE IF h.dest = Local THEN "local" ELSE "forwarded"]
      /\ IF Ready /\ h.dest # Local
         THEN ForwardRequests(g, {h.dest}, [d \in Server |-> {h.key}]) /\ UNCHANGED fopts
         ELSE UNCHANGED forward_vars
      /\ UNCHANGED <<facade_vars, replica_vars, router_vars, work>>

HandleStep(g) == (\E k \in Key : HandleOrForward(g, k)) \/ HandleOr(g)

Step(g) ==
  \/ work[g] = "handle" /\ HandleStep(g)
  \/ work[g] = "replicate" /\ ReplicateStep(g) /\ UNCHANGED <<router_vars, work, handle>>
  \/ work[g] = "route" /\ RouterStep(g) /\ UNCHANGED <<replica_vars, work, handle>>

SendStep(g) ==
  \E d \in Server : RequestStep(g, d) /\ UNCHANGED <<replica_vars, router_vars, work, handle>>

InstanceStep ==
  FacadeNext /\ Unsettle /\ UNCHANGED <<fopts, inflight, replica_vars, router_vars, work, handle>>

EventStep ==
  \E d \in Server : RemoveClient(d) /\ UNCHANGED <<replica_vars, work, handle>>

Next ==
  /\ ~crashed
  /\ InstanceStep \/ EventStep \/ \E g \in Goroutine : Step(g) \/ SendStep(g)

Spec == Init /\ [][Next]_vars

\* The goroutines run, and a call ends, if only by its timeout.
FairSpec ==
  /\ Spec
  /\ \A g \in Goroutine : WF_vars(~crashed /\ Step(g))
  /\ \A g \in Goroutine, d \in Server :
       WF_vars(~crashed /\ RequestStep(g, d) /\ UNCHANGED <<replica_vars, router_vars, work, handle>>)
-----------------------------------------------------------------------------
\* Every request that is forwarded returns, whatever becomes of its destination, its keys and
\* this instance: in the end none is in flight.  Only options that ask for more retries than
\* the schedule has entries can end in a panic instead, as does Bootstrap without a node.
InflightDrains ==
  <>[](inflight = 0 \/ (crashed /\ (MaxRetries > RetrySchedule \/ ~node.made)))
=============================================================================

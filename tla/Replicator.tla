----------------------------- MODULE Replicator -----------------------------
(***************************************************************************)
(* Replicated reads and writes (replica/replicator.go): a request goes to  *)
(* the N servers of each key, in parallel or one after the other, and      *)
(* succeeds if enough of them answer.                                      *)
(*                                                                         *)
(* Abstraction.  LookupN answers in no order, so both serial modes send to *)
(* the destinations in any order.                                          *)
(***************************************************************************)
EXTENDS Forwarder, FiniteSetsExt

VARIABLES
  ropts,    \* replica.Options: n, rw (RValue or WValue), parallel; and the keys
  replicate \* replicate[g]: the read or write of g

replica_vars == <<ropts, replicate>>

\* pc: "none", "group" looks up the replicas, "send", "done", "failed".
NoReplicate == [pc |-> "none", todo |-> {}, keysByDest |-> [d \in Server |-> {}]]

ReplicaInit(options) ==
  /\ ropts = options
  /\ replicate = [g \in Goroutine |-> NoReplicate]

Proceed(g, r) == replicate' = [replicate EXCEPT ![g] = r] /\ UNCHANGED ropts

ReadWrite(g) ==
  /\ replicate[g].pc = "none"
  /\ Proceed(g, [replicate[g] EXCEPT !.pc = IF ropts.rw > ropts.n THEN "failed" ELSE "group",
                                     !.todo = ropts.keys])
  /\ UNCHANGED <<facade_vars, forward_vars>>

\* groupReplicas looks up the replicas of one key after the other.
GroupReplica(g, k) ==
  LET dests == IF Ready THEN LookupN(k, ropts.n) ELSE {}
      grouped == [d \in Server |-> replicate[g].keysByDest[d] \cup IF d \in dests THEN {k} ELSE {}]
  IN  /\ replicate[g].pc = "group" /\ k \in replicate[g].todo
      /\ Proceed(g, [replicate[g] EXCEPT !.todo = @ \ {k}, !.keysByDest = grouped])
      /\ UNCHANGED <<facade_vars, forward_vars>>

Destinations(g) == {d \in Server : replicate[g].keysByDest[d] # {}}

\* There must be enough destinations; the parallel mode sends to all of them at once.
Fanout(g) ==
  /\ replicate[g].pc = "group" /\ replicate[g].todo = {}
  /\ IF Cardinality(Destinations(g)) < ropts.rw
     THEN /\ Proceed(g, [replicate[g] EXCEPT !.pc = "failed"])
          /\ UNCHANGED forward_vars
     ELSE /\ Proceed(g, [replicate[g] EXCEPT !.pc = "send"])
          /\ IF ropts.parallel
             THEN ForwardRequests(g, Destinations(g), replicate[g].keysByDest) /\ UNCHANGED fopts
             ELSE UNCHANGED forward_vars
  /\ UNCHANGED facade_vars

\* The serial modes send to the next destination when the last one is done.
SendSerial(g, d) ==
  /\ replicate[g].pc = "send" /\ ~ropts.parallel
  /\ d \in Destinations(g) /\ request[g][d].pc = "none"
  /\ \A e \in Server : request[g][e].pc \in {"none", "done"}
  /\ ForwardRequests(g, {d}, replicate[g].keysByDest)
  /\ UNCHANGED <<facade_vars, replica_vars, fopts>>

Responses(g) == {d \in Server : request[g][d].ok}

\* Mutant: the requests that are done are counted, whatever their outcome.
SatisfiedByDone(g) == Cardinality({d \in Server : request[g][d].pc = "done"}) >= ropts.rw

Satisfied(g) == Cardinality(Responses(g)) >= ropts.rw

EndReadWrite(g) ==
  /\ replicate[g].pc = "send"
  /\ \A d \in Destinations(g) : request[g][d].pc = "done"
  /\ Proceed(g, [replicate[g] EXCEPT !.pc = IF Satisfied(g) THEN "done" ELSE "failed"])
  /\ UNCHANGED <<facade_vars, forward_vars>>

ReplicateStep(g) ==
  \/ ReadWrite(g) \/ (\E k \in Key : GroupReplica(g, k)) \/ Fanout(g)
  \/ (\E d \in Server : SendSerial(g, d)) \/ EndReadWrite(g)
-----------------------------------------------------------------------------
\* A replicated request that succeeds was answered by as many distinct servers as RValue or
\* WValue asks for, unless one of the answers came after a retry that may be rerouted: that
\* one goes to the owner of its keys, which has a request of its own, and is still counted
\* for its first destination.
QuorumIsDistinct ==
  \A g \in Goroutine :
    replicate[g].pc = "done" /\ (fopts.reroute => \A d \in Responses(g) : request[g][d].retries = 0) =>
      Cardinality({request[g][d].dest : d \in Responses(g)}) >= ropts.rw
=============================================================================

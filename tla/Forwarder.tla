----------------------------- MODULE Forwarder -----------------------------
(***************************************************************************)
(* Forwarding requests (forward/forwarder.go, forward/request_sender.go):  *)
(* a request is sent to its destination and, when that fails, sent again   *)
(* after its keys have been looked up anew.                                *)
(*                                                                         *)
(* Abstractions.  A request is named by the goroutine on whose behalf it   *)
(* is sent and by its first destination.  A call succeeds, fails with an   *)
(* error of the application, fails to be forwarded, or times out; a call   *)
(* that was given up may still be served, which nothing here depends on.   *)
(***************************************************************************)
EXTENDS Facade

CONSTANTS Goroutine  \* goroutines of the application

ASSUME GoroutineAssumption == IsFiniteSet(Goroutine)

VARIABLES
  fopts,     \* forward.Options: maxRetries, schedule (its length), reroute
  request,   \* request[g][d]: the request of g first sent to d
  inflight   \* Forwarder.inflight

forward_vars == <<fopts, request, inflight>>

\* pc: "none", "call" waits for the answer, "sleep" before a retry, "lookup", "done".
\* steady (history): the ring was the same, and ready, since the lookup began.
NoRequest == [pc |-> "none", dest |-> Local, keys |-> {}, retries |-> 0, todo |-> {},
              found |-> {}, steady |-> FALSE, ok |-> FALSE]

ForwardInit(options) ==
  /\ fopts = options
  /\ request = [g \in Goroutine |-> [d \in Server |-> NoRequest]]
  /\ inflight = 0

defaultMaxRetries == 3
defaultSchedule == 3

\* mergeDefaultOptions: zero stands for the default, as does the nil schedule (length 0).
MaxRetries == IF fopts.maxRetries = 0 THEN defaultMaxRetries ELSE fopts.maxRetries
RetrySchedule == IF fopts.schedule = 0 THEN defaultSchedule ELSE fopts.schedule

Becomes(g, d, r) == request' = [request EXCEPT ![g][d] = r]

\* ForwardRequest counts the requests of g as in flight and sends each.
ForwardRequests(g, dests, keys) ==
  /\ inflight' = inflight + Cardinality(dests)
  /\ request' = [request EXCEPT ![g] = [d \in Server |->
       IF d \in dests THEN [NoRequest EXCEPT !.pc = "call", !.dest = d, !.keys = keys[d]]
       ELSE @[d]]]

\* Send returns, and decrementInflight never goes below zero.
Finish(g, d, ok) ==
  /\ Becomes(g, d, [request[g][d] EXCEPT !.pc = "done", !.ok = ok])
  /\ inflight' = IF inflight > 0 THEN inflight - 1 ELSE 0

Sent(g, d) == request[g][d].pc = "call"

Succeed(g, d) ==
  /\ Sent(g, d)
  /\ Finish(g, d, TRUE)
  /\ UNCHANGED <<facade_vars, fopts>>

\* The application answers with an error, the call times out, or it fails once too often.
Fail(g, d) ==
  /\ Sent(g, d)
  /\ Finish(g, d, FALSE)
  /\ UNCHANGED <<facade_vars, fopts>>

\* Mutant: one retry more than asked for.
MayRetryOnceMore(r) == r.retries <= MaxRetries

MayRetry(r) == r.retries < MaxRetries

\* The call could not be forwarded: ScheduleRetry sleeps, if the schedule has an entry.
ScheduleRetry(g, d) ==
  /\ Sent(g, d) /\ MayRetry(request[g][d])
  /\ IF request[g][d].retries < RetrySchedule
     THEN Becomes(g, d, [request[g][d] EXCEPT !.pc = "sleep"]) /\ UNCHANGED crashed
     ELSE crashed' = TRUE /\ UNCHANGED request
  /\ UNCHANGED <<lifecycle_vars, ring_vars, emitted, fopts, inflight>>

AttemptRetry(g, d) ==
  LET r == request[g][d]
  IN  /\ r.pc = "sleep"
      /\ Becomes(g, d, [r EXCEPT !.pc = "lookup", !.retries = @ + 1, !.todo = r.keys,
                                 !.found = {}, !.steady = Ready])
      /\ UNCHANGED <<facade_vars, fopts, inflight>>

\* LookupKeys looks the keys up one by one; a key it cannot look up is left out.
LookupKey(g, d, k) ==
  LET r == request[g][d]
  IN  /\ r.pc = "lookup" /\ k \in r.todo
      /\ Becomes(g, d, [r EXCEPT !.todo = @ \ {k}, !.found = @ \cup Lookup(k)])
      /\ UNCHANGED <<facade_vars, fopts, inflight>>

\* Mutant: a request that is rerouted keeps its destination.
NewDestinationOld(r) == r.dest

\* Where the next attempt goes once the keys agree on one destination.
NewDestination(r) == IF fopts.reroute THEN CHOOSE s \in r.found : TRUE ELSE r.dest

Resend(g, d) ==
  LET r == request[g][d]
  IN  /\ r.pc = "lookup" /\ r.todo = {}
      /\ IF Cardinality(r.found) = 1
         THEN Becomes(g, d, [r EXCEPT !.pc = "call", !.dest = NewDestination(r)]) /\ UNCHANGED inflight
         ELSE Finish(g, d, FALSE)
      /\ UNCHANGED <<facade_vars, fopts>>

RequestStep(g, d) ==
  \/ Succeed(g, d) \/ Fail(g, d) \/ ScheduleRetry(g, d)
  \/ AttemptRetry(g, d) \/ (\E k \in Key : LookupKey(g, d, k)) \/ Resend(g, d)

\* History: a change of the ring, or of its being ready, unsettles the lookups under way.
Unsettle ==
  request' = [g \in Goroutine |-> [d \in Server |->
    IF request[g][d].pc = "lookup" /\ <<ring, Ready>>' # <<ring, Ready>>
    THEN [request[g][d] EXCEPT !.steady = FALSE] ELSE request[g][d]]]
-----------------------------------------------------------------------------
\* A retry with rerouting goes to the server that owns all the keys of the request, provided
\* the ring did not change while LookupKeys looked them up one by one.
RetryGoesToOwner ==
  [][\A g \in Goroutine, d \in Server :
       LET r == request[g][d]
       IN  r.pc = "lookup" /\ r.steady /\ fopts.reroute /\ request'[g][d].pc = "call" =>
             \A k \in r.keys : Lookup(k) = {request'[g][d].dest}]_<<request, facade_vars>>
=============================================================================

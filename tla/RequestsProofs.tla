--------------------------- MODULE RequestsProofs ---------------------------
(***************************************************************************)
(* What an instance keeps while goroutines of the application use it, for  *)
(* any servers, keys, goroutines and options: the four safety properties   *)
(* of Facade, Forwarder, Replicator and Router, and that the count of      *)
(* requests in flight is exact.                                            *)
(*                                                                         *)
(* The router and the lifecycle have inductive invariants of their own.    *)
(* The one of the requests says what each goroutine may have under way at  *)
(* each step of its work, so that no request is sent over another one, and *)
(* what a lookup has found while the ring stays as it was.                 *)
(***************************************************************************)
EXTENDS Requests, FiniteSetTheorems, TLAPS

Request ==
  [pc : {"none", "call", "sleep", "lookup", "done"}, dest : Server, keys : SUBSET Key,
   retries : Nat, todo : SUBSET Key, found : SUBSET Server, steady : BOOLEAN, ok : BOOLEAN]

Replicate ==
  [pc : {"none", "group", "send", "done", "failed"}, todo : SUBSET Key,
   keysByDest : [Server -> SUBSET Key]]

Handle ==
  [pc : {"none", "who", "failed", "local", "forwarded"}, dest : Server, key : Key]

\* The ring holds servers only, and so does the change on its way to it.
RingOK == ring \subseteq Server /\ change.server \in Server

RequestsTypeOK ==
  /\ RingOK
  /\ inflight \in Nat /\ fopts.reroute \in BOOLEAN /\ ropts.keys \subseteq Key
  /\ request \in [Goroutine -> [Server -> Request]]
  /\ replicate \in [Goroutine -> Replicate]
  /\ handle \in [Goroutine -> Handle]

Fresh(g) == \A d \in Server : request[g][d] = NoRequest

\* What goroutine g has under way.  It sends its requests only once it has come to the end
\* of its lookups, only to its destinations, and has finished them all when it is done.
WorkInv(g) ==
  /\ replicate[g].pc # "none" => work[g] = "replicate"
  /\ handle[g].pc # "none" => work[g] = "handle"
  /\ replicate[g].pc \in {"none", "group"} /\ handle[g].pc \in {"none", "who"} => Fresh(g)
  /\ replicate[g].pc = "send" =>
       \A d \in Server \ Destinations(g) : request[g][d] = NoRequest
  /\ replicate[g].pc = "done" =>
       /\ \A d \in Server : request[g][d].pc \in {"none", "done"}
       /\ Satisfied(g)

\* A request stays with its first destination until a retry reroutes it, and is answered
\* once it is done.
RequestInv(g, d) ==
  LET r == request[g][d]
  IN  /\ r.pc = "none" => r = NoRequest
      /\ r.pc # "none" /\ (fopts.reroute => r.retries = 0) => r.dest = d
      /\ r.ok => r.pc = "done"
      /\ r.pc = "lookup" => r.retries > 0

\* While the ring stays as it was, a lookup has found the owners of the keys it has done.
LookupInv(g, d) ==
  LET r == request[g][d]
  IN  r.pc = "lookup" /\ r.steady =>
        /\ Ready /\ r.todo \subseteq r.keys
        /\ \A s \in Server : s \in r.found <=> \E k \in r.keys \ r.todo : s \in Lookup(k)

\* The requests that are under way.
UnderWay == {p \in Goroutine \X Server : request[p[1]][p[2]].pc \in {"call", "sleep", "lookup"}}

\* inflight counts the requests that are under way: decrementInflight never finds it at zero.
InflightExact == inflight = Cardinality(UnderWay)

RequestsInv ==
  /\ RequestsTypeOK /\ InflightExact
  /\ \A g \in Goroutine : WorkInv(g)
  /\ \A g \in Goroutine, d \in Server : RequestInv(g, d) /\ LookupInv(g, d)

\* Until Bootstrap sets the state again, it stays what Destroy has made it.
RevivedInv == destroy = "done" => revived \/ state = "destroyed"

\* A destination in the cache accounts for the one client that was not removed.
RouterInv ==
  /\ made \in [Server -> Nat] /\ removals \in [Server -> Nat]
  /\ \A d \in Server : made[d] <= removals[d] + IF d \in cache THEN 1 ELSE 0
-----------------------------------------------------------------------------
\* The record of a goroutine without a request.
LEMMA NoRequestType == NoRequest \in Request /\ NoRequest.pc = "none" /\ NoRequest.ok = FALSE
  BY ServerAssumption DEF NoRequest, Request

\* A lookup depends on the ring and on the instance being ready.
LEMMA LookupUnchanged ==
  ASSUME UNCHANGED ring, Ready' = Ready, NEW k
  PROVE  Lookup(k)' = Lookup(k)
BY DEF Lookup, LookupN, Before

\* Whether an instance is ready depends on its state and its node.
LEMMA ReadyUnchanged ==
  ASSUME UNCHANGED <<state, node>>
  PROVE  Ready' = Ready
BY DEF Ready

\* A lookup finds servers.
LEMMA LookupServers ==
  ASSUME RingOK, NEW k, NEW n
  PROVE  LookupN(k, n) \subseteq Server /\ Lookup(k) \subseteq Server
BY DEF RingOK, Lookup, LookupN

\* In a ring that is not empty every key has an owner: a server no other is nearer than.
LEMMA OwnerExists ==
  ASSUME RingOK, ring # {}, NEW k \in Key
  PROVE  LookupN(k, 1) # {}
<1>1. Distance[k] \in [Server -> Nat]
  BY ServerAssumption DEF Injection
<1> DEFINE D == {Distance[k][s] : s \in ring}
<1>2. D \subseteq Nat /\ D # {}
  BY <1>1 DEF RingOK
<1>3. PICK m \in D : \A n \in D : ~ (<<n, m>> \in OpToRel(<, Nat))
  BY <1>2, NatLessThanWellFounded, WFMin
<1>4. \A n \in D : ~ (n < m)
  BY <1>2, <1>3 DEF OpToRel
<1>5. PICK s \in ring : m = Distance[k][s]
  OBVIOUS
<1>6. Before(k, s) = {}
  BY <1>4, <1>5 DEF Before
<1>7. Cardinality(Before(k, s)) < 1
  BY <1>6, FS_EmptySet
<1> QED BY <1>5, <1>7 DEF LookupN

\* What ready lookups find shows whether the ring is empty, so that a key with no owner
\* never hides behind another one that has one.
LEMMA OwnersTogether ==
  ASSUME RingOK, Ready, NEW k \in Key, NEW j \in Key, Lookup(k) # {}
  PROVE  Lookup(j) # {}
<1>1. ring # {}
  BY DEF Lookup, LookupN
<1> QED BY <1>1, OwnerExists DEF Lookup

\* Only the request that a step is about changes.
LEMMA BecomesOne ==
  ASSUME RequestsTypeOK, NEW g \in Goroutine, NEW d \in Server, NEW r \in Request, Becomes(g, d, r)
  PROVE  /\ request' \in [Goroutine -> [Server -> Request]]
         /\ request'[g][d] = r
         /\ \A h \in Goroutine, e \in Server : h # g \/ e # d => request'[h][e] = request[h][e]
BY DEF RequestsTypeOK, Becomes

\* Only finitely many requests are under way.
LEMMA UnderWayFinite ==
  IsFiniteSet(UnderWay) /\ Cardinality(UnderWay) \in Nat
<1>1. IsFiniteSet(Goroutine \X Server)
  BY ServerAssumption, GoroutineAssumption, FS_Product
<1> QED BY <1>1, FS_Subset, FS_CardinalityType DEF UnderWay
-----------------------------------------------------------------------------
\* The state the invariant of the requests is about, but for the requests themselves.
others == <<ring, change, state, node, fopts, ropts, replicate, handle, work>>

\* What one goroutine does to its own request leaves its work where it is.
LEMMA SendKeeps ==
  ASSUME RequestsInv, NEW g \in Goroutine, NEW d \in Server, NEW r \in Request,
         Becomes(g, d, r), UNCHANGED others,
         inflight' = IF r.pc # "done" THEN inflight ELSE IF inflight > 0 THEN inflight - 1 ELSE 0,
         request[g][d].pc \in {"call", "sleep", "lookup"}, r.pc # "none",
         (fopts.reroute => r.retries = 0) => r.dest = d,
         r.ok => r.pc = "done", r.pc = "lookup" => r.retries > 0,
         r.pc = "lookup" /\ r.steady =>
           /\ Ready /\ r.todo \subseteq r.keys
           /\ \A s \in Server : s \in r.found <=> \E k \in r.keys \ r.todo : s \in Lookup(k)
  PROVE  RequestsInv'
<1> USE DEF RequestsInv
<1>1. /\ request' \in [Goroutine -> [Server -> Request]]
      /\ request'[g][d] = r
      /\ \A h \in Goroutine, e \in Server : h # g \/ e # d => request'[h][e] = request[h][e]
  BY BecomesOne
<1>2. RequestsTypeOK' /\ InflightExact'
  <2>1. <<g, d>> \in UnderWay /\ IsFiniteSet(UnderWay) /\ inflight = Cardinality(UnderWay)
    BY UnderWayFinite DEF UnderWay, InflightExact
  <2>2. UnderWay' = IF r.pc = "done" THEN UnderWay \ {<<g, d>>} ELSE UnderWay
    <3>1. r.pc \in {"call", "sleep", "lookup", "done"}
      BY DEF Request
    <3> QED BY <1>1, <3>1 DEF UnderWay
  <2>3. Cardinality(UnderWay \ {<<g, d>>}) = Cardinality(UnderWay) - 1
    BY <2>1, FS_RemoveElement
  <2>4. Cardinality(UnderWay) \in Nat /\ Cardinality(UnderWay) # 0
    BY <2>1, UnderWayFinite, FS_EmptySet
  <2>5. inflight' \in Nat /\ inflight' = Cardinality(UnderWay')
    BY <2>1, <2>2, <2>3, <2>4
  <2> QED BY <1>1, <2>5 DEF RequestsTypeOK, RingOK, others, InflightExact
<1>3. UNCHANGED <<ring, fopts, ropts, replicate, handle, work>> /\ Ready' = Ready
  BY ReadyUnchanged DEF others
<1>4. ASSUME NEW h \in Goroutine PROVE WorkInv(h)'
  <2>1. WorkInv(h) /\ Destinations(h)' = Destinations(h)
    BY <1>3 DEF Destinations
  <2>2. CASE h # g
    <3>1. \A e \in Server : request'[h][e] = request[h][e]
      BY <1>1, <2>2
    <3>2. Responses(h)' = Responses(h)
      BY <3>1 DEF Responses
    <3>3. Satisfied(h)' <=> Satisfied(h)
      BY <1>3, <3>2 DEF Satisfied
    <3> QED BY <1>3, <2>1, <3>1, <3>3 DEF WorkInv, Fresh
  <2>3. CASE h = g
    <3>1. request[g][d] # NoRequest
      BY NoRequestType
    <3>2. ~Fresh(g) /\ replicate[g].pc # "done"
      BY <2>1, <2>3, <3>1 DEF WorkInv, Fresh
    <3>3. replicate[g].pc = "send" => d \in Destinations(g)
      BY <2>1, <2>3, <3>1 DEF WorkInv
    <3> QED BY <1>1, <1>3, <2>1, <2>3, <3>2, <3>3 DEF WorkInv
  <2> QED BY <2>2, <2>3
<1>5. ASSUME NEW h \in Goroutine, NEW e \in Server PROVE RequestInv(h, e)'
  <2>1. RequestInv(h, e)
    OBVIOUS
  <2> QED BY <1>1, <1>3, <2>1 DEF RequestInv
<1>6. ASSUME NEW h \in Goroutine, NEW e \in Server PROVE LookupInv(h, e)'
  <2>1. LookupInv(h, e)
    OBVIOUS
  <2>2. \A k : Lookup(k)' = Lookup(k)
    BY <1>3, LookupUnchanged
  <2>3. CASE h = g /\ e = d
    BY <1>1, <1>3, <2>2, <2>3 DEF LookupInv
  <2>4. CASE h # g \/ e # d
    BY <1>1, <1>3, <2>1, <2>2, <2>4 DEF LookupInv
  <2> QED BY <2>3, <2>4
<1> QED BY <1>2, <1>4, <1>5, <1>6

\* A step that touches neither the requests nor what they depend on.
LEMMA QuietKeeps ==
  ASSUME RequestsInv, UNCHANGED <<others, request, inflight>>
  PROVE  RequestsInv'
<1> USE DEF RequestsInv
<1>1. UNCHANGED <<ring, change, fopts, ropts, replicate, handle, work, request, inflight>> /\ Ready' = Ready
  BY ReadyUnchanged DEF others
<1>2. RequestsTypeOK' /\ InflightExact'
  BY <1>1 DEF RequestsTypeOK, RingOK, InflightExact, UnderWay
<1>3. ASSUME NEW g \in Goroutine PROVE WorkInv(g)'
  <2>1. WorkInv(g)
    OBVIOUS
  <2> QED BY <1>1, <2>1 DEF WorkInv, Fresh, Destinations, Satisfied, Responses
<1>4. ASSUME NEW g \in Goroutine, NEW d \in Server PROVE RequestInv(g, d)' /\ LookupInv(g, d)'
  <2>1. RequestInv(g, d) /\ LookupInv(g, d) /\ \A k : Lookup(k)' = Lookup(k)
    BY <1>1, LookupUnchanged
  <2> QED BY <1>1, <2>1 DEF RequestInv, LookupInv
<1> QED BY <1>2, <1>3, <1>4

\* The steps of a request: its call ends, fails for good or is tried again, after its keys
\* have been looked up one by one.
LEMMA RequestStepKeeps ==
  ASSUME RequestsInv, NEW g \in Goroutine, NEW d \in Server, RequestStep(g, d),
         UNCHANGED <<replica_vars, router_vars, work, handle>>
  PROVE  RequestsInv' /\ UNCHANGED others
<1> DEFINE r == request[g][d]
<1>1. /\ r \in Request /\ RequestInv(g, d) /\ LookupInv(g, d)
      /\ inflight \in Nat /\ RingOK /\ fopts.reroute \in BOOLEAN
  BY DEF RequestsInv, RequestsTypeOK
<1>2. UNCHANGED others
  BY DEF RequestStep, Succeed, Fail, ScheduleRetry, AttemptRetry, LookupKey, Resend,
         facade_vars, lifecycle_vars, ring_vars, replica_vars, others
<1>3. ASSUME Sent(g, d), NEW ok \in BOOLEAN, Finish(g, d, ok) PROVE RequestsInv'
  <2> DEFINE n == [r EXCEPT !.pc = "done", !.ok = ok]
  <2>1. n \in Request /\ n.pc = "done" /\ n.retries = r.retries /\ n.dest = r.dest
    BY <1>1 DEF Request
  <2>2. Becomes(g, d, n) /\ inflight' = (IF inflight > 0 THEN inflight - 1 ELSE 0) /\ r.pc = "call"
    BY <1>3 DEF Finish, Sent
  <2>3. (fopts.reroute => n.retries = 0) => n.dest = d
    BY <1>1, <2>1, <2>2 DEF RequestInv
  <2> HIDE DEF n
  <2> QED BY <1>2, <2>1, <2>2, <2>3, SendKeeps
<1>4. CASE Succeed(g, d) \/ Fail(g, d)
  BY <1>2, <1>3, <1>4 DEF Succeed, Fail
<1>5. CASE ScheduleRetry(g, d)
  <2> DEFINE n == [r EXCEPT !.pc = "sleep"]
  <2>1. n \in Request /\ n.pc = "sleep" /\ n.retries = r.retries /\ n.dest = r.dest /\ n.ok = r.ok
    BY <1>1 DEF Request
  <2>2. r.pc = "call" /\ inflight' = inflight /\ (Becomes(g, d, n) \/ UNCHANGED request)
    BY <1>5 DEF ScheduleRetry, Sent
  <2>3. ((fopts.reroute => n.retries = 0) => n.dest = d) /\ ~n.ok
    BY <1>1, <2>1, <2>2 DEF RequestInv
  <2> HIDE DEF n
  <2>4. CASE Becomes(g, d, n)
    BY <1>2, <2>1, <2>2, <2>3, <2>4, SendKeeps
  <2> QED BY <1>2, <2>2, <2>4, QuietKeeps
<1>6. CASE AttemptRetry(g, d)
  <2> DEFINE b == Ready
             n == [r EXCEPT !.pc = "lookup", !.retries = @ + 1, !.todo = r.keys,
                            !.found = {}, !.steady = b]
  <2>1. b \in BOOLEAN
    BY DEF Ready
  <2> HIDE DEF b
  <2>2. /\ n \in Request /\ n.pc = "lookup" /\ n.retries = r.retries + 1 /\ n.dest = r.dest
        /\ n.todo = n.keys /\ n.found = {} /\ n.steady = b /\ n.ok = r.ok
    <3>1. r.retries + 1 \in Nat /\ r.keys \in SUBSET Key /\ {} \in SUBSET Server
      BY <1>1 DEF Request
    <3>2. n \in Request
      BY <1>1, <2>1, <3>1 DEF Request
    <3> QED BY <1>1, <3>2 DEF Request
  <2>3. Becomes(g, d, n) /\ r.pc = "sleep" /\ inflight' = inflight
    BY <1>6 DEF AttemptRetry, b
  <2>4. r.retries + 1 > 0 /\ r.retries + 1 # 0
    BY <1>1 DEF Request
  <2>5. ((fopts.reroute => n.retries = 0) => n.dest = d) /\ ~n.ok
    BY <1>1, <2>2, <2>3, <2>4 DEF RequestInv
  <2> HIDE DEF n
  <2>6. n.steady =>
          /\ Ready /\ n.todo \subseteq n.keys
          /\ \A s \in Server : s \in n.found <=> \E k \in n.keys \ n.todo : s \in Lookup(k)
    BY <2>2 DEF b
  <2> QED BY <1>1, <1>2, <2>2, <2>3, <2>4, <2>5, <2>6, SendKeeps
<1>7. CASE \E k \in Key : LookupKey(g, d, k)
  <2>1. PICK k \in Key : LookupKey(g, d, k)
    BY <1>7
  <2> DEFINE n == [r EXCEPT !.todo = @ \ {k}, !.found = @ \cup Lookup(k)]
  <2>2. Lookup(k) \subseteq Server
    BY <1>1, LookupServers
  <2>3. /\ n \in Request /\ n.pc = r.pc /\ n.retries = r.retries /\ n.dest = r.dest
        /\ n.keys = r.keys /\ n.todo = r.todo \ {k} /\ n.found = r.found \cup Lookup(k)
        /\ n.steady = r.steady /\ n.ok = r.ok
    BY <1>1, <2>2 DEF Request
  <2>4. Becomes(g, d, n) /\ r.pc = "lookup" /\ k \in r.todo /\ inflight' = inflight
    BY <2>1 DEF LookupKey
  <2>5. ((fopts.reroute => n.retries = 0) => n.dest = d) /\ ~n.ok /\ n.retries > 0
    BY <1>1, <2>3, <2>4 DEF RequestInv
  <2>6. n.steady =>
          /\ Ready /\ n.todo \subseteq n.keys
          /\ \A s \in Server : s \in n.found <=> \E j \in n.keys \ n.todo : s \in Lookup(j)
    <3> HIDE DEF n
    <3> QED BY <1>1, <2>3, <2>4 DEF LookupInv
  <2> HIDE DEF n
  <2> QED BY <1>1, <1>2, <2>3, <2>4, <2>5, <2>6, SendKeeps
<1>8. CASE Resend(g, d)
  <2>1. r.pc = "lookup" /\ ~r.ok
    BY <1>1, <1>8 DEF Resend, RequestInv
  <2>2. CASE Cardinality(r.found) = 1
    <3> DEFINE n == [r EXCEPT !.pc = "call", !.dest = NewDestination(r)]
    <3>1. NewDestination(r) \in Server /\ (~fopts.reroute => NewDestination(r) = r.dest)
      <4>1. r.found # {}
        <5>1. Cardinality({}) = 0
          BY FS_EmptySet
        <5>2. SUFFICES ASSUME r.found = {} PROVE FALSE
          OBVIOUS
        <5>3. Cardinality({}) = 1
          BY <2>2, <5>2
        <5> QED BY <5>1, <5>3
      <4>2. r.found \subseteq Server /\ r.dest \in Server
        BY <1>1 DEF Request
      <4> QED BY <4>1, <4>2 DEF NewDestination
    <3>2. n \in Request /\ n.pc = "call" /\ n.retries = r.retries /\ n.dest = NewDestination(r) /\ n.ok = r.ok
      BY <1>1, <3>1 DEF Request
    <3>3. Becomes(g, d, n) /\ inflight' = inflight
      BY <1>8, <2>2 DEF Resend
    <3>4. (fopts.reroute => n.retries = 0) => n.dest = d
      BY <1>1, <2>1, <3>1, <3>2 DEF RequestInv
    <3> HIDE DEF n
    <3> QED BY <1>1, <1>2, <2>1, <3>2, <3>3, <3>4, SendKeeps
  <2>3. CASE Cardinality(r.found) # 1
    <3> DEFINE n == [r EXCEPT !.pc = "done", !.ok = FALSE]
    <3>1. n \in Request /\ n.pc = "done" /\ n.retries = r.retries /\ n.dest = r.dest
      BY <1>1 DEF Request
    <3>2. Becomes(g, d, n) /\ inflight' = IF inflight > 0 THEN inflight - 1 ELSE 0
      BY <1>8, <2>3 DEF Resend, Finish
    <3>3. (fopts.reroute => n.retries = 0) => n.dest = d
      BY <1>1, <2>1, <3>1 DEF RequestInv
    <3> HIDE DEF n
    <3> QED BY <1>2, <2>1, <3>1, <3>2, <3>3, SendKeeps
  <2> QED BY <2>2, <2>3
<1> QED BY <1>4, <1>5, <1>6, <1>7, <1>8 DEF RequestStep
-----------------------------------------------------------------------------
\* Goroutine g starts a request for each of dests, where it has had none.
Starts(g, dests) ==
  /\ \A d \in dests :
       /\ request[g][d] = NoRequest
       /\ request'[g][d].pc = "call" /\ request'[g][d].dest = d /\ ~request'[g][d].ok
  /\ \A h \in Goroutine, e \in Server : h # g \/ e \notin dests => request'[h][e] = request[h][e]
  /\ inflight' = inflight + Cardinality(dests)

\* No step but Resend sends a request that was sent before.
NoneResent ==
  \A g \in Goroutine, d \in Server : request'[g][d] = request[g][d] \/ request[g][d] = NoRequest

\* A goroutine that sends nothing leaves the count of requests as it is.
LEMMA StartsNone ==
  ASSUME RequestsTypeOK, NEW g \in Goroutine, UNCHANGED <<request, inflight>>
  PROVE  Starts(g, {})
BY FS_EmptySet DEF Starts, RequestsTypeOK

\* ForwardRequest starts a request for each destination and leaves the others alone.
LEMMA ForwardStarts ==
  ASSUME RequestsTypeOK, NEW g \in Goroutine, NEW dests \in SUBSET Server,
         NEW keys \in [Server -> SUBSET Key], ForwardRequests(g, dests, keys),
         \A d \in dests : request[g][d] = NoRequest
  PROVE  request' \in [Goroutine -> [Server -> Request]] /\ Starts(g, dests)
<1> DEFINE n(d) == [NoRequest EXCEPT !.pc = "call", !.dest = d, !.keys = keys[d]]
<1>1. \A d \in dests : n(d) \in Request /\ n(d).pc = "call" /\ n(d).dest = d /\ ~n(d).ok
  BY DEF NoRequest, Request
<1>2. request' = [request EXCEPT ![g] =
        [d \in Server |-> IF d \in dests THEN n(d) ELSE request[g][d]]]
  BY DEF ForwardRequests, RequestsTypeOK
<1> HIDE DEF n
<1>3. request' \in [Goroutine -> [Server -> Request]]
  <2>1. [d \in Server |-> IF d \in dests THEN n(d) ELSE request[g][d]] \in [Server -> Request]
    BY <1>1 DEF RequestsTypeOK
  <2> QED BY <1>2, <2>1 DEF RequestsTypeOK
<1>4. \A d \in dests : request'[g][d] = n(d)
  BY <1>2 DEF RequestsTypeOK
<1>5. \A h \in Goroutine, e \in Server :
        h # g \/ e \notin dests => request'[h][e] = request[h][e]
  BY <1>2 DEF RequestsTypeOK
<1>6. inflight' = inflight + Cardinality(dests)
  BY DEF ForwardRequests
<1> QED BY <1>1, <1>3, <1>4, <1>5, <1>6 DEF Starts

\* Each request that is started is counted.
LEMMA StartsCounted ==
  ASSUME RequestsTypeOK, InflightExact, NEW g \in Goroutine, NEW dests \in SUBSET Server,
         Starts(g, dests)
  PROVE  InflightExact' /\ inflight' \in Nat
<1> DEFINE new == {g} \X dests
<1>1. IsFiniteSet(dests) /\ IsFiniteSet({g}) /\ Cardinality({g}) = 1 /\ Cardinality(dests) \in Nat
  BY ServerAssumption, FS_Subset, FS_Singleton, FS_CardinalityType
<1>2. IsFiniteSet(new) /\ Cardinality(new) = Cardinality(dests)
  <2>1. IsFiniteSet(new) /\ Cardinality(new) = Cardinality({g}) * Cardinality(dests)
    BY <1>1, FS_Product
  <2> QED BY <1>1, <2>1
<1>3. UnderWay' = UnderWay \cup new
  BY DEF UnderWay, Starts
<1>4. UnderWay \cap new = {}
  <2> SUFFICES ASSUME NEW d \in dests PROVE <<g, d>> \notin UnderWay
    BY DEF UnderWay
  <2> QED BY NoRequestType DEF UnderWay, Starts
<1> HIDE DEF new
<1>5. Cardinality(UnderWay \cup new) = Cardinality(UnderWay) + Cardinality(new) - Cardinality({})
  BY <1>2, <1>4, UnderWayFinite, FS_Union
<1> QED BY <1>1, <1>2, <1>3, <1>5, UnderWayFinite, FS_EmptySet DEF InflightExact, Starts

\* A step of the work of one goroutine starts at most requests that were not sent before.
LEMMA WorkKeeps ==
  ASSUME RequestsInv, NEW g \in Goroutine, NEW dests \in SUBSET Server, Starts(g, dests),
         request' \in [Goroutine -> [Server -> Request]],
         replicate' \in [Goroutine -> Replicate], handle' \in [Goroutine -> Handle],
         UNCHANGED <<ring, change, state, node, fopts, ropts, work>>,
         \A h \in Goroutine \ {g} : replicate'[h] = replicate[h] /\ handle'[h] = handle[h],
         WorkInv(g)'
  PROVE  RequestsInv' /\ NoneResent
<1> USE DEF RequestsInv
<1>1. ASSUME NEW h \in Goroutine \ {g} PROVE WorkInv(h)'
  <2>1. WorkInv(h)
    OBVIOUS
  <2>2. /\ \A e \in Server : request'[h][e] = request[h][e]
        /\ replicate'[h] = replicate[h] /\ handle'[h] = handle[h]
    BY DEF Starts
  <2>3. Responses(h)' = Responses(h)
    BY <2>2 DEF Responses
  <2>4. (Satisfied(h)' <=> Satisfied(h)) /\ Destinations(h)' = Destinations(h)
    BY <2>2, <2>3 DEF Satisfied, Destinations
  <2>5. Fresh(h)' <=> Fresh(h)
    BY <2>2 DEF Fresh
  <2> HIDE DEF RequestsInv
  <2> QED BY <2>1, <2>2, <2>4, <2>5 DEF WorkInv
<1>2. ASSUME NEW h \in Goroutine, NEW e \in Server PROVE RequestInv(h, e)' /\ LookupInv(h, e)'
  <2>1. RequestInv(h, e) /\ LookupInv(h, e) /\ Ready' = Ready
    BY ReadyUnchanged
  <2>2. \A k : Lookup(k)' = Lookup(k)
    BY <2>1, LookupUnchanged
  <2>3. CASE h # g \/ e \notin dests
    <3>1. request'[h][e] = request[h][e]
      BY <2>3 DEF Starts
    <3> QED BY <2>1, <2>2, <3>1 DEF RequestInv, LookupInv
  <2>4. CASE h = g /\ e \in dests
    <3>1. request'[h][e].pc = "call" /\ request'[h][e].dest = e /\ ~request'[h][e].ok
      BY <2>4 DEF Starts
    <3> QED BY <3>1 DEF RequestInv, LookupInv
  <2> QED BY <2>3, <2>4
<1>3. InflightExact' /\ inflight' \in Nat
  BY StartsCounted
<1>4. RequestsTypeOK'
  BY <1>3 DEF RequestsTypeOK, RingOK
<1>5. NoneResent
  BY DEF NoneResent, Starts
<1> QED BY <1>1, <1>2, <1>3, <1>4, <1>5

\* HandleOrForward: it forwards at most one request, its first.
LEMMA HandleStepKeeps ==
  ASSUME RequestsInv, NEW g \in Goroutine, work[g] = "handle", HandleStep(g)
  PROVE  RequestsInv' /\ NoneResent
<1>1. RequestsTypeOK /\ RingOK /\ WorkInv(g) /\ handle[g] \in Handle /\ inflight \in Nat
  BY DEF RequestsInv, RequestsTypeOK
<1>2. replicate[g].pc = "none"
  BY <1>1 DEF WorkInv
<1>3. CASE \E k \in Key : HandleOrForward(g, k)
  <2>1. PICK k \in Key : HandleOrForward(g, k)
    BY <1>3
  <2>2. Lookup(k) \subseteq Server
    BY <1>1, LookupServers
  <2>3. PICK h \in Handle : handle' = [handle EXCEPT ![g] = h] /\ h.pc \in {"failed", "who"}
    <3>1. CASE handle' = [handle EXCEPT ![g].pc = "failed"]
      <4> DEFINE h == [handle[g] EXCEPT !.pc = "failed"]
      <4>1. h \in Handle /\ h.pc = "failed" /\ handle' = [handle EXCEPT ![g] = h]
        BY <1>1, <3>1 DEF Handle
      <4> HIDE DEF h
      <4> QED BY <4>1
    <3>2. CASE \E d \in Lookup(k) : handle' = [handle EXCEPT ![g] = [pc |-> "who", dest |-> d, key |-> k]]
      <4>1. PICK d \in Lookup(k) : handle' = [handle EXCEPT ![g] = [pc |-> "who", dest |-> d, key |-> k]]
        BY <3>2
      <4> DEFINE h == [pc |-> "who", dest |-> d, key |-> k]
      <4>2. h \in Handle /\ h.pc = "who" /\ handle' = [handle EXCEPT ![g] = h]
        BY <2>2, <4>1 DEF Handle
      <4> HIDE DEF h
      <4> QED BY <4>2
    <3> QED BY <2>1, <3>1, <3>2 DEF HandleOrForward
  <2>4. handle[g].pc = "none" /\ UNCHANGED <<ring, change, state, node, fopts, inflight, request, ropts, replicate, work>>
    BY <2>1 DEF HandleOrForward, facade_vars, lifecycle_vars, ring_vars, forward_vars, replica_vars
  <2>5. /\ handle' \in [Goroutine -> Handle] /\ handle'[g] = h
        /\ \A j \in Goroutine \ {g} : handle'[j] = handle[j]
    BY <1>1, <2>3 DEF RequestsTypeOK
  <2>6. WorkInv(g)'
    BY <1>1, <1>2, <2>4, <2>5 DEF WorkInv, Fresh
  <2>7. Starts(g, {}) /\ request' \in [Goroutine -> [Server -> Request]]
        /\ replicate' \in [Goroutine -> Replicate]
    BY <1>1, <2>4, StartsNone DEF RequestsTypeOK
  <2> QED BY <2>4, <2>5, <2>6, <2>7, WorkKeeps
<1>4. CASE HandleOr(g)
  <2> DEFINE h == handle[g]
             dests == IF Ready /\ h.dest # Local THEN {h.dest} ELSE {}
             keys == [d \in Server |-> {h.key}]
  <2>1. dests \subseteq Server /\ keys \in [Server -> SUBSET Key]
    BY <1>1 DEF Handle
  <2>2. PICK to \in {"failed", "local", "forwarded"} : handle' = [handle EXCEPT ![g].pc = to]
    BY <1>4 DEF HandleOr
  <2>3. h.pc = "who" /\ UNCHANGED <<ring, change, state, node, fopts, ropts, replicate, work>>
    BY <1>4 DEF HandleOr, facade_vars, lifecycle_vars, ring_vars, forward_vars, replica_vars
  <2>4. request' \in [Goroutine -> [Server -> Request]] /\ Starts(g, dests)
    <3>1. CASE Ready /\ h.dest # Local
      <4>1. ForwardRequests(g, dests, keys)
        BY <1>4, <3>1 DEF HandleOr
      <4>2. \A d \in dests : request[g][d] = NoRequest
        BY <1>1, <1>2, <2>1, <2>3 DEF WorkInv, Fresh
      <4> HIDE DEF keys, dests
      <4> QED BY <1>1, <2>1, <4>1, <4>2, ForwardStarts
    <3>2. CASE ~ (Ready /\ h.dest # Local)
      <4>1. dests = {} /\ UNCHANGED <<request, inflight>>
        BY <1>4, <3>2 DEF HandleOr, forward_vars
      <4> HIDE DEF dests
      <4> QED BY <1>1, <4>1, StartsNone DEF RequestsTypeOK
    <3> QED BY <3>1, <3>2
  <2>5. [h EXCEPT !.pc = to] \in Handle /\ [h EXCEPT !.pc = to].pc = to
    BY <1>1 DEF Handle
  <2>6. /\ handle' \in [Goroutine -> Handle] /\ handle'[g].pc = to
        /\ \A j \in Goroutine \ {g} : handle'[j] = handle[j]
    BY <1>1, <2>2, <2>5 DEF RequestsTypeOK
  <2>7. WorkInv(g)' /\ replicate' \in [Goroutine -> Replicate]
    BY <1>1, <1>2, <2>3, <2>6 DEF WorkInv, RequestsTypeOK
  <2> HIDE DEF dests
  <2> QED BY <2>1, <2>3, <2>4, <2>6, <2>7, WorkKeeps
<1> QED BY <1>3, <1>4 DEF HandleStep

\* A step of a read or write that changes nothing but its own record.
LEMMA ProceedKeeps ==
  ASSUME RequestsInv, NEW g \in Goroutine, NEW p \in Replicate, Proceed(g, p),
         NEW dests \in SUBSET Server, Starts(g, dests),
         request' \in [Goroutine -> [Server -> Request]],
         UNCHANGED <<ring, change, state, node, fopts, handle, work>>,
         replicate'[g] = p => WorkInv(g)'
  PROVE  RequestsInv' /\ NoneResent
<1>1. RequestsTypeOK
  BY DEF RequestsInv
<1>2. /\ replicate' \in [Goroutine -> Replicate] /\ replicate'[g] = p /\ UNCHANGED ropts
      /\ \A h \in Goroutine \ {g} : replicate'[h] = replicate[h]
  BY <1>1 DEF Proceed, RequestsTypeOK
<1>3. handle' \in [Goroutine -> Handle]
  BY <1>1 DEF RequestsTypeOK
<1> QED BY <1>2, <1>3, WorkKeeps

\* A replicated read or write: it looks up its destinations, sends to them at once or one
\* after the other, and counts the answers when all are done.
LEMMA ReplicateStepKeeps ==
  ASSUME RequestsInv, NEW g \in Goroutine, work[g] = "replicate", ReplicateStep(g),
         UNCHANGED <<router_vars, work, handle>>
  PROVE  RequestsInv' /\ NoneResent
<1> DEFINE r == replicate[g]
<1>1. RequestsTypeOK /\ WorkInv(g) /\ r \in Replicate
  BY DEF RequestsInv, RequestsTypeOK
<1>2. handle[g].pc = "none" /\ \A d \in Server : RequestInv(g, d)
  BY <1>1 DEF WorkInv, RequestsInv
<1>3. UNCHANGED <<ring, change, state, node, fopts, handle, work>>
  BY DEF ReplicateStep, ReadWrite, GroupReplica, Fanout, SendSerial, EndReadWrite,
         facade_vars, lifecycle_vars, ring_vars, forward_vars
<1>4. /\ request \in [Goroutine -> [Server -> Request]] /\ inflight \in Nat
      /\ RingOK /\ ropts.keys \subseteq Key
  BY <1>1 DEF RequestsTypeOK
<1>5. ASSUME NEW p \in Replicate, Proceed(g, p), UNCHANGED <<request, inflight>>,
             replicate'[g] = p => WorkInv(g)'
      PROVE  RequestsInv' /\ NoneResent
  <2>1. Starts(g, {}) /\ request' \in [Goroutine -> [Server -> Request]]
    BY <1>1, <1>4, <1>5, StartsNone
  <2> QED BY <1>3, <1>5, <2>1, ProceedKeeps
<1>6. CASE ReadWrite(g)
  <2>1. PICK to \in {"failed", "group"} : Proceed(g, [r EXCEPT !.pc = to, !.todo = ropts.keys])
    BY <1>6 DEF ReadWrite
  <2> DEFINE p == [r EXCEPT !.pc = to, !.todo = ropts.keys]
  <2>2. p \in Replicate /\ p.pc = to
    BY <1>1, <1>4 DEF Replicate
  <2>3. r.pc = "none" /\ UNCHANGED <<request, inflight>>
    BY <1>6 DEF ReadWrite, forward_vars
  <2>4. Fresh(g)'
    BY <1>1, <1>2, <2>3 DEF WorkInv, Fresh
  <2> HIDE DEF p
  <2>5. replicate'[g] = p => WorkInv(g)'
    BY <1>2, <1>3, <2>2, <2>4 DEF WorkInv
  <2> QED BY <1>5, <2>1, <2>2, <2>3, <2>5 DEF p
<1>7. CASE \E k \in Key : GroupReplica(g, k)
  <2>1. PICK k \in Key : GroupReplica(g, k)
    BY <1>7
  <2> DEFINE dests == IF Ready THEN LookupN(k, ropts.n) ELSE {}
             grouped == [d \in Server |-> r.keysByDest[d] \cup IF d \in dests THEN {k} ELSE {}]
             p == [r EXCEPT !.todo = @ \ {k}, !.keysByDest = grouped]
  <2>2. grouped \in [Server -> SUBSET Key]
    <3> HIDE DEF dests
    <3> QED BY <1>1 DEF Replicate
  <2>3. Proceed(g, p) /\ r.pc = "group" /\ UNCHANGED <<request, inflight>>
    BY <2>1 DEF GroupReplica, forward_vars
  <2> HIDE DEF grouped
  <2>4. p \in Replicate /\ p.pc = "group"
    BY <1>1, <2>2, <2>3 DEF Replicate
  <2>5. Fresh(g)'
    BY <1>1, <1>2, <2>3 DEF WorkInv, Fresh
  <2> HIDE DEF p
  <2>6. replicate'[g] = p => WorkInv(g)'
    BY <1>2, <1>3, <2>4, <2>5 DEF WorkInv
  <2> QED BY <1>5, <2>3, <2>4, <2>6
<1>8. CASE Fanout(g)
  <2>1. r.pc = "group" /\ Fresh(g)
    BY <1>1, <1>2, <1>8 DEF Fanout, WorkInv
  <2>2. CASE Proceed(g, [r EXCEPT !.pc = "failed"]) /\ UNCHANGED forward_vars
    <3> DEFINE p == [r EXCEPT !.pc = "failed"]
    <3>1. p \in Replicate /\ p.pc = "failed"
      BY <1>1 DEF Replicate
    <3>2. Proceed(g, p) /\ UNCHANGED <<request, inflight>>
      BY <2>2 DEF forward_vars
    <3> HIDE DEF p
    <3>3. replicate'[g] = p => WorkInv(g)'
      BY <1>2, <1>3, <3>1 DEF WorkInv
    <3> QED BY <1>5, <3>1, <3>2, <3>3
  <2>3. CASE /\ Proceed(g, [r EXCEPT !.pc = "send"])
             /\ \/ ForwardRequests(g, Destinations(g), r.keysByDest)
                \/ UNCHANGED forward_vars
    <3> DEFINE p == [r EXCEPT !.pc = "send"]
               dests == Destinations(g)
    <3>1. /\ p \in Replicate /\ p.pc = "send" /\ p.keysByDest = r.keysByDest
          /\ r.keysByDest \in [Server -> SUBSET Key]
      BY <1>1 DEF Replicate
    <3>2. dests \in SUBSET Server
      BY DEF Destinations
    <3>3. /\ request' \in [Goroutine -> [Server -> Request]]
          /\ Starts(g, dests) \/ Starts(g, {})
      <4>1. CASE ForwardRequests(g, Destinations(g), r.keysByDest)
        <5>1. \A d \in dests : request[g][d] = NoRequest
          BY <2>1, <3>2 DEF Fresh
        <5>2. ForwardRequests(g, dests, r.keysByDest)
          BY <4>1
        <5> HIDE DEF dests
        <5> QED BY <1>1, <3>1, <3>2, <5>1, <5>2, ForwardStarts
      <4>2. CASE UNCHANGED forward_vars
        BY <1>1, <1>4, <4>2, StartsNone DEF forward_vars
      <4> QED BY <2>3, <4>1, <4>2
    <3>4. replicate'[g] = p => Destinations(g)' = dests
      <4> HIDE DEF p
      <4> QED BY <3>1 DEF Destinations
    <3> HIDE DEF p, dests
    <3>5. replicate'[g] = p => WorkInv(g)'
      <4>1. \A d \in Server \ dests : request'[g][d] = NoRequest
        BY <2>1, <3>3 DEF Fresh, Starts
      <4> QED BY <1>2, <1>3, <3>1, <3>4, <4>1 DEF WorkInv
    <3>6. Proceed(g, p)
      BY <2>3 DEF p
    <3> QED BY <1>3, <3>1, <3>2, <3>3, <3>5, <3>6, ProceedKeeps
  <2> QED BY <1>8, <2>2, <2>3 DEF Fanout
<1>9. CASE \E d \in Server : SendSerial(g, d)
  <2>1. PICK d \in Server : SendSerial(g, d)
    BY <1>9
  <2>2. /\ r.pc = "send" /\ d \in Destinations(g) /\ ForwardRequests(g, {d}, r.keysByDest)
        /\ request[g][d].pc = "none" /\ UNCHANGED <<replicate, ropts>>
    BY <2>1 DEF SendSerial, replica_vars
  <2>3. r.keysByDest \in [Server -> SUBSET Key] /\ {d} \in SUBSET Server
    BY <1>1 DEF Replicate
  <2>4. \A e \in {d} : request[g][e] = NoRequest
    BY <1>2, <2>2 DEF RequestInv
  <2>5. request' \in [Goroutine -> [Server -> Request]] /\ Starts(g, {d})
    BY <1>1, <2>2, <2>3, <2>4, ForwardStarts
  <2>6. WorkInv(g)'
    BY <1>1, <1>2, <1>3, <2>2, <2>5 DEF WorkInv, Destinations, Starts
  <2>7. replicate' \in [Goroutine -> Replicate] /\ handle' \in [Goroutine -> Handle]
    BY <1>1, <1>3, <2>2 DEF RequestsTypeOK
  <2> QED BY <1>3, <2>2, <2>3, <2>5, <2>6, <2>7, WorkKeeps
<1>10. CASE EndReadWrite(g)
  <2>1. PICK to \in {"done", "failed"} :
          Proceed(g, [r EXCEPT !.pc = to]) /\ (to = "done" => Satisfied(g))
    BY <1>10 DEF EndReadWrite
  <2> DEFINE p == [r EXCEPT !.pc = to]
  <2>2. p \in Replicate /\ p.pc = to
    BY <1>1 DEF Replicate
  <2>3. r.pc = "send" /\ UNCHANGED <<request, inflight>> /\ \A d \in Destinations(g) : request[g][d].pc = "done"
    BY <1>10 DEF EndReadWrite, forward_vars
  <2>4. \A d \in Server : request'[g][d].pc \in {"none", "done"}
    BY <1>1, <2>3, NoRequestType DEF WorkInv
  <2>5. Proceed(g, p) /\ UNCHANGED ropts
    BY <2>1 DEF Proceed
  <2>6. to = "done" => Satisfied(g)'
    BY <2>1, <2>3, <2>5 DEF Satisfied, Responses
  <2> HIDE DEF p
  <2>7. replicate'[g] = p => WorkInv(g)'
    BY <1>2, <1>3, <2>2, <2>4, <2>6 DEF WorkInv
  <2> QED BY <1>5, <2>2, <2>3, <2>5, <2>7
<1> QED BY <1>6, <1>7, <1>8, <1>9, <1>10 DEF ReplicateStep
-----------------------------------------------------------------------------
\* The ring is changed by the servers of changes and of joins only.
LEMMA RingStep ==
  ASSUME RingOK, FacadeNext
  PROVE  RingOK'
<1> USE DEF RingOK
<1>1. CASE MakeNode
  BY <1>1 DEF MakeNode
<1>2. CASE NodeBootstrap
  BY <1>2, ServerAssumption DEF NodeBootstrap
<1>3. CASE Bootstrap \/ NoIdentity \/ SetInitialized \/ NodeMissing \/ EndBootstrap \/ DestroyNode \/ SetDestroyed
  BY <1>3 DEF Bootstrap, NoIdentity, SetInitialized, NodeMissing, EndBootstrap, DestroyNode,
              SetDestroyed, ring_vars
<1>4. CASE \E s \in Server, leaving \in BOOLEAN : ReceiveChange(s, leaving)
  BY <1>4 DEF ReceiveChange
<1>5. CASE ApplyChange \/ IgnoreChange
  <2>1. change' = NoChange /\ NoChange.server \in Server
    BY <1>5, ServerAssumption DEF ApplyChange, IgnoreChange, NoChange
  <2>2. ring' \subseteq Server
    BY <1>5 DEF ApplyChange, IgnoreChange
  <2> QED BY <2>1, <2>2
<1> QED BY <1>1, <1>2, <1>3, <1>4, <1>5 DEF FacadeNext, BootstrapStep

\* Bootstrap, Destroy and changes of the membership touch no request, but a change of the
\* ring unsettles the lookups that are under way.
LEMMA InstanceStepKeeps ==
  ASSUME RequestsInv, InstanceStep
  PROVE  /\ RequestsInv'
         /\ \A g \in Goroutine, d \in Server : request'[g][d].pc = request[g][d].pc
<1> USE DEF RequestsInv
<1>1. UNCHANGED <<fopts, inflight, ropts, replicate, work, handle>>
  BY DEF InstanceStep, replica_vars
<1>2. RingOK'
  BY RingStep DEF InstanceStep, RequestsTypeOK
<1>3. request' = [g \in Goroutine |-> [d \in Server |->
        IF request[g][d].pc = "lookup" /\ <<ring, Ready>>' # <<ring, Ready>>
        THEN [request[g][d] EXCEPT !.steady = FALSE] ELSE request[g][d]]]
  BY DEF InstanceStep, Unsettle
<1>4. ASSUME NEW g \in Goroutine, NEW d \in Server
      PROVE  /\ request'[g][d] \in Request
             /\ request'[g][d].pc = request[g][d].pc /\ request'[g][d].dest = request[g][d].dest
             /\ request'[g][d].retries = request[g][d].retries
             /\ request'[g][d].ok = request[g][d].ok
             /\ request[g][d].pc # "lookup" \/ request'[g][d].steady => request'[g][d] = request[g][d]
             /\ request[g][d].pc = "lookup" /\ request'[g][d].steady => ring' = ring /\ Ready' = Ready
  <2> DEFINE r == request[g][d]
             n == [r EXCEPT !.steady = FALSE]
  <2>1. r \in Request
    BY DEF RequestsTypeOK
  <2>2. /\ n \in Request /\ n.steady = FALSE /\ n.pc = r.pc /\ n.dest = r.dest
        /\ n.retries = r.retries /\ n.ok = r.ok
    BY <2>1 DEF Request
  <2>3. request'[g][d] = IF r.pc = "lookup" /\ <<ring, Ready>>' # <<ring, Ready>> THEN n ELSE r
    BY <1>3
  <2> HIDE DEF n
  <2>4. CASE r.pc = "lookup" /\ <<ring, Ready>>' # <<ring, Ready>>
    BY <2>2, <2>3, <2>4
  <2>5. CASE ~ (r.pc = "lookup" /\ <<ring, Ready>>' # <<ring, Ready>>)
    BY <2>1, <2>3, <2>5
  <2> QED BY <2>4, <2>5
<1>5. \A g \in Goroutine, d \in Server :
        /\ request'[g][d].pc = request[g][d].pc /\ request'[g][d].dest = request[g][d].dest
        /\ request'[g][d].retries = request[g][d].retries /\ request'[g][d].ok = request[g][d].ok
        /\ request[g][d].pc # "lookup" => request'[g][d] = request[g][d]
  BY <1>4
<1>6. RequestsTypeOK'
  <2>1. request' \in [Goroutine -> [Server -> Request]]
    BY <1>3, <1>4
  <2> QED BY <1>1, <1>2, <2>1 DEF RequestsTypeOK
<1>7. ASSUME NEW g \in Goroutine PROVE WorkInv(g)'
  <2>1. WorkInv(g) /\ Destinations(g)' = Destinations(g) /\ Responses(g)' = Responses(g)
    BY <1>1, <1>5 DEF Destinations, Responses
  <2>2. \A d \in Server : request[g][d] = NoRequest => request'[g][d] = NoRequest
    BY <1>5, NoRequestType
  <2>3. Satisfied(g)' <=> Satisfied(g)
    BY <1>1, <2>1 DEF Satisfied
  <2> HIDE DEF RequestsInv
  <2> QED BY <1>1, <1>5, <2>1, <2>2, <2>3 DEF WorkInv, Fresh
<1>8. ASSUME NEW g \in Goroutine, NEW d \in Server PROVE RequestInv(g, d)'
  <2>1. RequestInv(g, d)
    OBVIOUS
  <2> HIDE DEF RequestsInv
  <2> QED BY <1>1, <1>5, <2>1 DEF RequestInv
<1>9. ASSUME NEW g \in Goroutine, NEW d \in Server PROVE LookupInv(g, d)'
  <2>1. LookupInv(g, d)
    OBVIOUS
  <2> SUFFICES ASSUME request'[g][d].pc = "lookup", request'[g][d].steady PROVE LookupInv(g, d)'
    BY DEF LookupInv
  <2>2. ring' = ring /\ Ready' = Ready /\ request'[g][d] = request[g][d]
    BY <1>4, <1>5
  <2>3. \A k : Lookup(k)' = Lookup(k)
    BY <2>2, LookupUnchanged
  <2> QED BY <2>1, <2>2, <2>3 DEF LookupInv
<1>10. InflightExact'
  <2>1. UnderWay' = UnderWay
    BY <1>5 DEF UnderWay
  <2> QED BY <1>1, <2>1 DEF InflightExact
<1> QED BY <1>5, <1>6, <1>7, <1>8, <1>9, <1>10

\* An instance starts with no work done.
LEMMA InitRequests == Init => RequestsInv
<1> SUFFICES ASSUME Init PROVE RequestsInv
  OBVIOUS
<1>1. PICK w \in Scenarios :
        FacadeInit(w.bootstraps, w.changes) /\ ForwardInit(w.forward) /\ ReplicaInit(w.replica)
  BY DEF Init
<1>2. /\ fopts = w.forward /\ ropts = w.replica /\ inflight = 0
      /\ request = [g \in Goroutine |-> [d \in Server |-> NoRequest]]
      /\ replicate = [g \in Goroutine |-> NoReplicate]
      /\ ring = {} /\ change = NoChange
  BY <1>1 DEF FacadeInit, ForwardInit, ReplicaInit
<1> DEFINE key == CHOOSE k \in Key : TRUE
           h == [pc |-> "none", dest |-> Local, key |-> key]
<1>3. handle = [g \in Goroutine |-> h] /\ h \in Handle /\ h.pc = "none"
  <2>1. key \in Key
    BY ServerAssumption
  <2>2. handle = [g \in Goroutine |-> h]
    BY DEF Init
  <2> HIDE DEF key
  <2> QED BY <2>1, <2>2, ServerAssumption DEF Handle
<1>4. NoReplicate \in Replicate /\ NoReplicate.pc = "none"
  BY DEF NoReplicate, Replicate
<1>5. RequestsTypeOK
  <2>1. fopts.reroute \in BOOLEAN /\ ropts.keys \subseteq Key
    BY <1>2, ScenarioAssumption
  <2>2. RingOK
    BY <1>2, ServerAssumption DEF RingOK, NoChange
  <2> HIDE DEF h
  <2> QED BY <1>2, <1>3, <1>4, <2>1, <2>2, NoRequestType DEF RequestsTypeOK
<1> HIDE DEF h
<1>6. ASSUME NEW g \in Goroutine PROVE WorkInv(g)
  BY <1>2, <1>3, <1>4 DEF WorkInv, Fresh
<1>7. ASSUME NEW g \in Goroutine, NEW d \in Server PROVE RequestInv(g, d) /\ LookupInv(g, d)
  BY <1>2, NoRequestType DEF RequestInv, LookupInv
<1>8. InflightExact
  <2>1. UnderWay = {}
    BY <1>2, NoRequestType DEF UnderWay
  <2> QED BY <1>2, <2>1, FS_EmptySet DEF InflightExact
<1> QED BY <1>5, <1>6, <1>7, <1>8 DEF RequestsInv

\* A step of one request leaves the others alone, and sends it again in Resend only.
LEMMA OneRequestSteps ==
  ASSUME RequestsTypeOK, NEW g \in Goroutine, NEW d \in Server, RequestStep(g, d),
         NEW h \in Goroutine, NEW e \in Server, request'[h][e] # request[h][e]
  PROVE  h = g /\ e = d
<1>1. (\E n : Becomes(g, d, n)) \/ UNCHANGED request
  BY DEF RequestStep, Succeed, Fail, ScheduleRetry, AttemptRetry, LookupKey, Resend, Finish
<1>2. PICK n : Becomes(g, d, n)
  BY <1>1
<1> QED BY <1>2 DEF Becomes, RequestsTypeOK

\* Of the steps a request takes in its lookup, only the last one calls again.
LEMMA CallsAgain ==
  ASSUME RequestsTypeOK, NEW g \in Goroutine, NEW d \in Server, RequestStep(g, d),
         request[g][d].pc = "lookup", request'[g][d].pc = "call"
  PROVE  Resend(g, d)
<1> DEFINE r == request[g][d]
<1>1. r \in Request
  BY DEF RequestsTypeOK
<1>2. ~ AttemptRetry(g, d) /\ ~ Sent(g, d)
  BY DEF AttemptRetry, Sent
<1>3. ASSUME NEW k \in Key, LookupKey(g, d, k) PROVE FALSE
  <2> DEFINE n == [r EXCEPT !.todo = @ \ {k}, !.found = @ \cup Lookup(k)]
  <2>1. n.pc = r.pc
    BY <1>1 DEF Request
  <2>2. Becomes(g, d, n)
    BY <1>3 DEF LookupKey
  <2> HIDE DEF n
  <2>3. request'[g][d] = n
    BY <2>2 DEF Becomes, RequestsTypeOK
  <2> QED BY <2>1, <2>3
<1> QED BY <1>2, <1>3 DEF RequestStep, Succeed, Fail, ScheduleRetry

\* Every step keeps the invariant of the requests, and only Resend sends one again.
LEMMA RequestsStep ==
  ASSUME RequestsInv, [Next]_vars
  PROVE  /\ RequestsInv'
         /\ \A g \in Goroutine, d \in Server :
              request[g][d].pc = "lookup" /\ request'[g][d].pc = "call" =>
                Resend(g, d) /\ UNCHANGED <<ring, state, node>>
<1> DEFINE OnlyResend ==
      \A g \in Goroutine, d \in Server :
        request[g][d].pc = "lookup" /\ request'[g][d].pc = "call" =>
          Resend(g, d) /\ UNCHANGED <<ring, state, node>>
<1> USE DEF others, facade_vars, lifecycle_vars, ring_vars, forward_vars, replica_vars
<1>1. CASE InstanceStep
  BY <1>1, InstanceStepKeeps
<1>2. ASSUME UNCHANGED <<others, request, inflight>> PROVE RequestsInv' /\ OnlyResend
  BY <1>2, QuietKeeps
<1>3. ASSUME NoneResent PROVE OnlyResend
  BY <1>3, NoRequestType DEF NoneResent
<1>4. CASE EventStep
  <2>1. UNCHANGED <<others, request, inflight>>
    BY <1>4 DEF EventStep, RemoveClient
  <2> QED BY <1>2, <2>1
<1>5. ASSUME NEW g \in Goroutine, Step(g) PROVE RequestsInv' /\ OnlyResend
  <2> HIDE DEF OnlyResend
  <2>1. CASE work[g] = "handle" /\ HandleStep(g)
    BY <1>3, <2>1, HandleStepKeeps
  <2>2. CASE work[g] = "replicate" /\ ReplicateStep(g) /\ UNCHANGED <<router_vars, work, handle>>
    BY <1>3, <2>2, ReplicateStepKeeps
  <2>3. CASE RouterStep(g) /\ UNCHANGED <<replica_vars, work, handle>>
    <3>1. UNCHANGED <<others, request, inflight>>
      BY <2>3 DEF RouterStep, GetClient, ReadCache, MakeClient
    <3> QED BY <1>2, <3>1
  <2> QED BY <1>5, <2>1, <2>2, <2>3 DEF Step
<1>6. ASSUME NEW g \in Goroutine, SendStep(g) PROVE RequestsInv' /\ OnlyResend
  <2>1. PICK d \in Server : RequestStep(g, d)
    BY <1>6 DEF SendStep
  <2>2. RequestsInv' /\ UNCHANGED others
    BY <1>6, <2>1, RequestStepKeeps DEF SendStep
  <2>3. ASSUME NEW h \in Goroutine, NEW e \in Server,
               request[h][e].pc = "lookup", request'[h][e].pc = "call"
        PROVE  Resend(h, e)
    <3>1. h = g /\ e = d
      BY <2>1, <2>3, OneRequestSteps DEF RequestsInv
    <3> QED BY <2>1, <2>3, <3>1, CallsAgain DEF RequestsInv
  <2> QED BY <2>2, <2>3
<1>7. CASE UNCHANGED vars
  <2>1. UNCHANGED <<others, request, inflight>>
    BY <1>7 DEF vars
  <2> QED BY <1>2, <2>1
<1> QED BY <1>1, <1>4, <1>5, <1>6, <1>7 DEF Next

\* The invariant of the requests holds in every reachable state.
LEMMA RequestsAlways == Spec => []RequestsInv
  BY InitRequests, RequestsStep, PTL DEF Spec
-----------------------------------------------------------------------------
\* A replicated read or write that succeeds was answered by as many distinct servers as it
\* asked for, unless an answer came after a retry that may be rerouted: the replicator sends
\* one request to each destination and counts each answer once.
THEOREM DistinctQuorum == Spec => []QuorumIsDistinct
<1>1. RequestsInv => QuorumIsDistinct
  <2> SUFFICES ASSUME RequestsInv, NEW g \in Goroutine, replicate[g].pc = "done",
                      fopts.reroute => \A d \in Responses(g) : request[g][d].retries = 0
               PROVE  Cardinality({request[g][d].dest : d \in Responses(g)}) >= ropts.rw
    BY DEF QuorumIsDistinct
  <2>1. ASSUME NEW d \in Responses(g) PROVE request[g][d].dest = d
    BY <2>1 DEF Responses, RequestsInv, RequestInv
  <2>2. {request[g][d].dest : d \in Responses(g)} = Responses(g)
    BY <2>1
  <2>3. Satisfied(g)
    BY DEF RequestsInv, WorkInv
  <2> QED BY <2>2, <2>3 DEF Satisfied
<1> QED BY <1>1, RequestsAlways, PTL

\* The forwarder's count of inflight requests is exact, however the requests, the retries and
\* the callers interleave: decrementInflight never finds it at zero.
THEOREM InflightCounts == Spec => []InflightExact
<1>1. RequestsInv => InflightExact
  BY DEF RequestsInv
<1> QED BY <1>1, RequestsAlways, PTL

\* What LookupKeys has found when it ends is the owner of each of the keys.
LEMMA ResendToOwner ==
  ASSUME RequestsInv, NEW g \in Goroutine, NEW d \in Server, Resend(g, d),
         request[g][d].steady, fopts.reroute, request'[g][d].pc = "call",
         NEW k \in request[g][d].keys
  PROVE  Lookup(k) = {request'[g][d].dest}
<1> DEFINE r == request[g][d]
           n == [r EXCEPT !.pc = "call", !.dest = NewDestination(r)]
           z == [r EXCEPT !.pc = "done", !.ok = FALSE]
<1>1. r \in Request /\ RingOK /\ RequestsTypeOK /\ LookupInv(g, d)
  BY DEF RequestsInv, RequestsTypeOK
<1>2. r.keys \subseteq Key /\ r.found \subseteq Server /\ n.dest = NewDestination(r) /\ z.pc = "done"
  BY <1>1 DEF Request
<1>3. r.pc = "lookup" /\ r.todo = {}
  BY DEF Resend
<1>4. /\ Ready
      /\ \A s \in Server : s \in r.found <=> \E j \in r.keys : s \in Lookup(j)
  BY <1>1, <1>3 DEF LookupInv
<1>5. Cardinality(r.found) = 1 /\ Becomes(g, d, n)
  <2>1. ASSUME Becomes(g, d, z) PROVE FALSE
    <3> HIDE DEF z
    <3>1. request'[g][d] = z
      BY <1>1, <2>1 DEF Becomes, RequestsTypeOK
    <3> QED BY <1>2, <3>1
  <2> QED BY <2>1 DEF Resend, Finish
<1>6. request'[g][d].dest = NewDestination(r)
  <2> HIDE DEF n
  <2>1. request'[g][d] = n
    BY <1>1, <1>5 DEF Becomes, RequestsTypeOK
  <2> QED BY <1>2, <2>1
<1>7. PICK s : r.found = {s}
  <2>1. IsFiniteSet(r.found)
    BY <1>2, ServerAssumption, FS_Subset
  <2> QED BY <1>5, <2>1, FS_Singleton
<1>8. request'[g][d].dest = s /\ s \in Server
  BY <1>2, <1>6, <1>7 DEF NewDestination
<1>9. PICK j \in r.keys : s \in Lookup(j)
  BY <1>4, <1>7, <1>8
<1>10. Lookup(k) # {}
  <2>1. k \in Key /\ j \in Key /\ Lookup(j) # {}
    BY <1>2, <1>9
  <2> QED BY <1>1, <1>4, <2>1, OwnersTogether
<1>11. Lookup(k) \subseteq {s}
  <2>1. Lookup(k) \subseteq Server
    BY <1>1, LookupServers
  <2> QED BY <1>4, <1>7, <2>1
<1> QED BY <1>8, <1>10, <1>11

\* A retry with rerouting goes to the server that owns all the keys of the request, provided
\* the ring did not change while LookupKeys looked them up one by one.
THEOREM RetriesFollowKeys == Spec => RetryGoesToOwner
<1> DEFINE ToOwner ==
      \A g \in Goroutine, d \in Server :
        LET r == request[g][d]
        IN  r.pc = "lookup" /\ r.steady /\ fopts.reroute /\ request'[g][d].pc = "call" =>
              \A k \in r.keys : Lookup(k) = {request'[g][d].dest}
<1>1. RequestsInv /\ [Next]_vars => [ToOwner]_<<request, facade_vars>>
  <2> SUFFICES ASSUME RequestsInv, [Next]_vars PROVE ToOwner
    OBVIOUS
  <2> SUFFICES ASSUME NEW g \in Goroutine, NEW d \in Server,
                      request[g][d].pc = "lookup", request[g][d].steady, fopts.reroute,
                      request'[g][d].pc = "call", NEW k \in request[g][d].keys
               PROVE  Lookup(k) = {request'[g][d].dest}
    OBVIOUS
  <2>1. Resend(g, d)
    BY RequestsStep
  <2> QED BY <2>1, ResendToOwner
<1> QED BY <1>1, RequestsAlways, PTL DEF Spec, RetryGoesToOwner
-----------------------------------------------------------------------------
\* Only the steps of the instance change its state.
LEMMA LifecycleSteps ==
  ASSUME [Next]_vars
  PROVE  FacadeNext \/ UNCHANGED lifecycle_vars
<1> USE DEF facade_vars
<1>1. ASSUME NEW g \in Goroutine, Step(g) PROVE UNCHANGED lifecycle_vars
  <2>1. CASE HandleStep(g)
    BY <2>1 DEF HandleStep, HandleOrForward, HandleOr
  <2>2. CASE ReplicateStep(g)
    BY <2>2 DEF ReplicateStep, ReadWrite, GroupReplica, Fanout, SendSerial, EndReadWrite
  <2>3. CASE RouterStep(g)
    BY <2>3 DEF RouterStep, GetClient, ReadCache, MakeClient
  <2> QED BY <1>1, <2>1, <2>2, <2>3 DEF Step
<1>2. ASSUME NEW g \in Goroutine, SendStep(g) PROVE UNCHANGED lifecycle_vars
  BY <1>2 DEF SendStep, RequestStep, Succeed, Fail, ScheduleRetry, AttemptRetry, LookupKey, Resend
<1>3. EventStep => UNCHANGED lifecycle_vars
  BY DEF EventStep, RemoveClient
<1>4. UNCHANGED vars => UNCHANGED lifecycle_vars
  BY DEF vars
<1> QED BY <1>1, <1>2, <1>3, <1>4 DEF Next, InstanceStep

\* An instance that Destroy has shut down answers lookups only if Bootstrap, which takes no
\* lock between its steps, has set its state since.
THEOREM DestroyedStaysDestroyed == Spec => []DestroyedServesOnlyIfRevived
<1>1. Init => RevivedInv
  BY DEF Init, FacadeInit, RevivedInv
<1>2. RevivedInv /\ [Next]_vars => RevivedInv'
  <2> SUFFICES ASSUME RevivedInv, [Next]_vars PROVE RevivedInv'
    OBVIOUS
  <2> USE DEF RevivedInv
  <2>1. CASE FacadeNext
    <3> USE DEF lifecycle_vars
    <3>1. CASE BootstrapStep
      BY <3>1 DEF BootstrapStep, Bootstrap, NoIdentity, MakeNode, SetInitialized, NodeMissing,
                  NodeBootstrap, EndBootstrap, SetState
    <3>2. CASE DestroyNode \/ SetDestroyed
      BY <3>2 DEF DestroyNode, SetDestroyed
    <3>3. CASE (\E s \in Server, leaving \in BOOLEAN : ReceiveChange(s, leaving))
               \/ ApplyChange \/ IgnoreChange
      BY <3>3 DEF ReceiveChange, ApplyChange, IgnoreChange
    <3> QED BY <2>1, <3>1, <3>2, <3>3 DEF FacadeNext
  <2>2. CASE UNCHANGED lifecycle_vars
    BY <2>2 DEF lifecycle_vars
  <2> QED BY <2>1, <2>2, LifecycleSteps
<1>3. RevivedInv => DestroyedServesOnlyIfRevived
  BY DEF RevivedInv, DestroyedServesOnlyIfRevived, Ready
<1> QED BY <1>1, <1>2, <1>3, PTL DEF Spec

\* All callers of GetClient share one client for each destination: a second one is made only
\* after the first was removed, because the cache is read again under the write lock.
THEOREM OneClientEach == Spec => []OneClientPerDestination
<1>1. Init => RouterInv
  BY DEF Init, RouterInit, RouterInv
<1>2. RouterInv /\ [Next]_vars => RouterInv'
  <2> SUFFICES ASSUME RouterInv, [Next]_vars PROVE RouterInv'
    OBVIOUS
  <2>1. ASSUME UNCHANGED <<cache, made, removals>> PROVE RouterInv'
    BY <2>1 DEF RouterInv
  <2>2. CASE InstanceStep
    BY <2>1, <2>2 DEF InstanceStep, router_vars
  <2>3. CASE EventStep
    BY <2>3 DEF EventStep, RemoveClient, RouterInv
  <2>4. ASSUME NEW g \in Goroutine, RouterStep(g) PROVE RouterInv'
    <3>1. CASE (\E k \in Key : GetClient(g, k)) \/ ReadCache(g)
      BY <2>1, <3>1 DEF GetClient, ReadCache
    <3>2. CASE MakeClient(g)
      BY <3>2 DEF MakeClient, Cached, RouterInv
    <3> QED BY <2>4, <3>1, <3>2 DEF RouterStep
  <2>5. ASSUME NEW g \in Goroutine, HandleStep(g) PROVE UNCHANGED router_vars
    BY <2>5 DEF HandleStep, HandleOrForward, HandleOr
  <2>6. CASE UNCHANGED vars
    BY <2>1, <2>6 DEF vars, router_vars
  <2> QED BY <2>1, <2>2, <2>3, <2>4, <2>5, <2>6 DEF Next, Step, SendStep, router_vars
<1>3. RouterInv => OneClientPerDestination
  BY DEF RouterInv, OneClientPerDestination
<1> QED BY <1>1, <1>2, <1>3, PTL DEF Spec
=============================================================================

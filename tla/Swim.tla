-------------------------------- MODULE Swim --------------------------------
(***************************************************************************)
(* The SWIM gossip protocol of ringpop (package swim): every node's        *)
(* memberlist, disseminator and suspicion timers, the ping and ping-req    *)
(* exchanges between the nodes, and processes that crash, restart, leave   *)
(* and rejoin.                                                             *)
(*                                                                         *)
(* Abstractions.                                                           *)
(*  - A handler runs in one step on its node.                              *)
(*  - A change list never names an address twice (it is read from a map or *)
(*    from the memberlist), so it is a map from addresses to changes.      *)
(*  - A checksum is the memberlist it is computed from: farmhash does not  *)
(*    collide.                                                             *)
(*  - A clock value counts for its order only.  clock[n] is the last       *)
(*    reading n took for an incarnation number; the next one is later, or  *)
(*    the same when ClockSteps allows two readings in one millisecond.     *)
(*  - The memberlist iterator picks any pingable member.                   *)
(***************************************************************************)
EXTENDS Member, FiniteSets, Functions

CONSTANTS
  Node,             \* addresses
  PFactor,          \* disseminator.pFactor
  PingRequestSize,  \* Options.PingRequestSize
  ClockSteps,       \* how far a clock may have moved since the last reading
  Crashing,         \* the nodes whose process may crash
  Administered,     \* the nodes that are told to leave and to rejoin
  MaxIncarnation,   \* bound on clock readings
  MaxRpcs,          \* bound on calls in flight when another one starts
  MaxLosses         \* bound on failures of calls to processes that are ready

ASSUME NodeAssumption == IsFiniteSet(Node) /\ Node # {}
ASSUME ParameterAssumption ==
  /\ PFactor \in Nat /\ PingRequestSize \in Nat \ {0}
  /\ ClockSteps \in SUBSET Nat
  /\ Crashing \in SUBSET Node /\ Administered \in SUBSET Node
  /\ MaxIncarnation \in Nat /\ MaxRpcs \in Nat /\ MaxLosses \in Nat

VARIABLES
  nodes,   \* nodes[n]: memberlist, disseminator and suspicion of process n
  state,   \* state[n]: "down", "joining" (bootstrapping) or "ready"
  clock,   \* clock[n]: n's last clock reading
  pinger,  \* pinger[n]: where n's pingNextMember is
  rpcs,    \* the ping and ping-req calls in flight
  losses   \* how many calls have failed although the callee was ready

vars == <<nodes, state, clock, pinger, rpcs, losses>>

\* The map f, and g where f is silent.
Overlay(f, g) ==
  [a \in DOMAIN f \cup DOMAIN g |-> IF a \in DOMAIN f THEN f[a] ELSE g[a]]

-----------------------------------------------------------------------------
(* memberlist.go.  s is the state of one node, local its address.          *)

\* Mutant: the iterator may return the local node.
PingableWithSelf(s, local) == {a \in DOMAIN s.members : isReachable(s.members[a])}

Pingable(s, local) == {a \in DOMAIN s.members \ {local} : isReachable(s.members[a])}

Incarnation(s, local) ==
  IF local \in DOMAIN s.members THEN s.members[local].incarnation ELSE -1

\* Mutant: a refutation counts on from the suspicion instead of reading the clock.
AppliedCounting(s, local, changes, now) ==
  LET refuted(a) == a \in DOMAIN s.members /\ localOverride(a, local, changes[a])
      applies(a) == \/ a \notin DOMAIN s.members
                    \/ refuted(a)
                    \/ nonLocalOverride(s.members[a], changes[a])
  IN  [a \in {b \in DOMAIN changes : applies(b)} |->
         IF refuted(a)
           THEN [changes[a] EXCEPT !.incarnation = changes[a].incarnation + 1, !.status = Alive]
           ELSE changes[a]]

\* Mutant: of two entries with the same incarnation the later to arrive wins.
AppliedLastWins(s, local, changes, now) ==
  LET refuted(a) == a \in DOMAIN s.members /\ localOverride(a, local, changes[a])
      applies(a) == \/ a \notin DOMAIN s.members
                    \/ refuted(a)
                    \/ changes[a].incarnation >= s.members[a].incarnation
  IN  [a \in {b \in DOMAIN changes : applies(b)} |->
         IF refuted(a) THEN [changes[a] EXCEPT !.incarnation = now, !.status = Alive]
                       ELSE changes[a]]

\* The changes that Update applies: new members wholesale, refutations of
\* suspicions of the local node at the time now, and what supersedes.
Applied(s, local, changes, now) ==
  LET known(a)   == a \in DOMAIN s.members
      refuted(a) == known(a) /\ localOverride(a, local, changes[a])
      applies(a) == \/ ~known(a)
                    \/ refuted(a)
                    \/ nonLocalOverride(s.members[a], changes[a])
  IN  [a \in {b \in DOMAIN changes : applies(b)} |->
         IF refuted(a) THEN [changes[a] EXCEPT !.incarnation = now, !.status = Alive]
                       ELSE changes[a]]

\* Does Update read the clock?
Refutes(s, local, changes) ==
  /\ local \in DOMAIN changes \cap DOMAIN s.members
  /\ localOverride(local, local, changes[local])

-----------------------------------------------------------------------------
(* disseminator.go                                                         *)

\* ceil(log10(k)) for k >= 1
CeilLog10(k) == Cardinality({e \in 0 .. k : 10^e < k})

MaxPropagations(s, local) ==
  PFactor * CeilLog10(Cardinality(Pingable(s, local)) + 1)

issueChanges(s) == [a \in DOMAIN s.changes |-> s.changes[a].change]

\* s after one more propagation of its changes about the addresses in issued
bumpPiggybackCounters(s, issued) ==
  LET spent == {a \in issued \cap DOMAIN s.changes : s.changes[a].p + 1 >= s.maxP}
  IN  [s EXCEPT !.changes =
         [a \in DOMAIN s.changes \ spent |->
            IF a \in issued THEN [s.changes[a] EXCEPT !.p = @ + 1] ELSE s.changes[a]]]

FullSync(s, local) ==
  [a \in DOMAIN s.members |->
     [source |-> local, sourceIncarnation |-> Incarnation(s, local),
      incarnation |-> s.members[a].incarnation, status |-> s.members[a].status]]

filterChangesFromSender(changes, source, incarnation) ==
  LET kept == {a \in DOMAIN changes : ~ /\ changes[a].source = source
                                        /\ changes[a].sourceIncarnation = incarnation}
  IN  Restrict(changes, kept)

\* The changes in the response to request req of node `sender`.
IssuedAsReceiver(s, local, sender, req) ==
  LET changes == filterChangesFromSender(issueChanges(s), sender, req.incarnation)
  IN  IF DOMAIN changes # {} \/ s.members = req.checksum
        THEN changes ELSE FullSync(s, local)

\* s after that response: full syncs are not counted.
IssueAsReceiver(s, sender, req) ==
  bumpPiggybackCounters(s,
    DOMAIN filterChangesFromSender(issueChanges(s), sender, req.incarnation))

-----------------------------------------------------------------------------
(* node.go, suspicion.go                                                   *)

\* Mutant: a change that is still being disseminated is not replaced.
handleChangesKeepsOld(s, local, applied) ==
  LET suspects == {a \in DOMAIN applied : applied[a].status = Suspect}
      started  == suspects \ (DOMAIN s.timers \cup {local})
      kept     == DOMAIN s.timers \ (DOMAIN applied \ suspects)
      timer(a) == [incarnation |-> applied[a].incarnation, fired |-> FALSE]
  IN  [s EXCEPT
        !.changes = Overlay(@, [a \in DOMAIN applied |-> [change |-> applied[a], p |-> 0]]),
        !.timers  = Overlay([a \in started |-> timer(a)], Restrict(@, kept)),
        !.maxP    = MaxPropagations(s, local)]

\* Mutant: the timer of a suspect that leaves is not stopped.
handleChangesForgetsLeave(s, local, applied) ==
  LET suspects == {a \in DOMAIN applied : applied[a].status = Suspect}
      started  == suspects \ (DOMAIN s.timers \cup {local})
      stopped  == {a \in DOMAIN applied : applied[a].status \in {Alive, Faulty}}
      timer(a) == [incarnation |-> applied[a].incarnation, fired |-> FALSE]
  IN  [s EXCEPT
        !.changes = Overlay([a \in DOMAIN applied |-> [change |-> applied[a], p |-> 0]], @),
        !.timers  = Overlay([a \in started |-> timer(a)], Restrict(@, DOMAIN @ \ stopped)),
        !.maxP    = MaxPropagations(s, local)]

\* Mutant: no timer is started for a suspect.
handleChangesNoTimer(s, local, applied) ==
  [s EXCEPT
     !.changes = Overlay([a \in DOMAIN applied |-> [change |-> applied[a], p |-> 0]], @),
     !.maxP    = MaxPropagations(s, local)]

\* Record every applied change; stop the timers of members that are no
\* longer suspect, start one for suspects that have none.
handleChanges(s, local, applied) ==
  LET suspects == {a \in DOMAIN applied : applied[a].status = Suspect}
      stopped  == DOMAIN applied \ suspects
      started  == suspects \ (DOMAIN s.timers \cup {local})
      adjusts  == \E a \in DOMAIN applied : applied[a].status # Faulty
  IN  [s EXCEPT
        !.changes = Overlay([a \in DOMAIN applied |-> [change |-> applied[a], p |-> 0]], @),
        !.timers  = Overlay([a \in started |-> [incarnation |-> applied[a].incarnation,
                                                fired |-> FALSE]],
                            Restrict(@, DOMAIN @ \ stopped)),
        !.maxP    = IF adjusts THEN MaxPropagations(s, local) ELSE @]

Update(s, local, changes, now) ==
  LET applied == Applied(s, local, changes, now)
      members == Overlay([a \in DOMAIN applied |-> AsMember(applied[a])], s.members)
  IN  handleChanges([s EXCEPT !.members = members], local, applied)

\* A list of one change made by the local node.
MakeChange(s, local, address, incarnation, status) ==
  [a \in {address} |->
     [source |-> local, sourceIncarnation |-> Incarnation(s, local),
      incarnation |-> incarnation, status |-> status]]

\* Mutant: the join list replaces what the node knows.
AddJoinListReplaces(s, local, list, now) ==
  [s EXCEPT !.members = Overlay([a \in DOMAIN list |-> AsMember(list[a])], @)]

\* Join lists are not disseminated.
AddJoinList(s, local, list, now) ==
  LET u == Update(s, local, list, now)
      cleared == DOMAIN Applied(s, local, list, now) \ {local}
  IN  [u EXCEPT !.changes = Restrict(@, DOMAIN @ \ cleared)]

-----------------------------------------------------------------------------
(* A process that has just started, and the calls between processes.       *)

Empty == [a \in {} |-> a]

NewNode == [members |-> Empty, changes |-> Empty, maxP |-> PFactor,
            timers |-> Empty, expired |-> {}]

Idle == [phase |-> "idle", target |-> "none", helpers |-> 0, errs |-> 0]

\* What a ping or ping-req request says of its sender n in state s.
Request(s, n) ==
  [incarnation |-> Incarnation(s, n), checksum |-> s.members, changes |-> issueChanges(s)]

NoRequest == [incarnation |-> -1, checksum |-> Empty, changes |-> Empty]

\* A call from src to dst.  stage: "request" (on its way), for a ping-req
\* "relay" and "relayed" (the helper's own ping, via, and its answer), "reply"
\* (answered, with changes back), or "dead" (its handler crashed).
\* waiter: "collecting", "detached" (its answer is still applied, but
\* indirectPing has returned) or "gone" (nobody waits for the answer).
Call(kind, src, dst, target, req) ==
  [kind |-> kind, src |-> src, dst |-> dst, target |-> target, stage |-> "request",
   waiter |-> "collecting", out |-> req, via |-> NoRequest, ok |-> FALSE, back |-> Empty]

\* The clock readings Update may take at n.
Readings(n) == {clock[n] + d : d \in ClockSteps} \cap 0 .. MaxIncarnation
Now(s, n, changes) == IF Refutes(s, n, changes) THEN Readings(n) ELSE {clock[n]}

RoomForCall == Cardinality(rpcs) < MaxRpcs

\* What is left of call r when its caller gives up: a request may still arrive,
\* a handler that has begun carries on.
Abandoned(r) ==
  IF r.stage \in {"request", "relay", "relayed"}
    THEN {[r EXCEPT !.waiter = "gone"]} ELSE {}

\* What is left of the ping that the helper of ping-req r has given up on.
AbandonedRelay(r) ==
  IF r.stage = "relay"
    THEN Abandoned(Call("ping", r.dst, r.target, r.target, r.via)) ELSE {}

\* The answer of r's handler, unless nobody waits for it.
Answered(r, ok, changes) ==
  IF r.waiter = "gone" THEN {}
  ELSE {[r EXCEPT !.stage = "reply", !.ok = ok, !.back = changes, !.via = NoRequest]}

Replace(r, S) == (rpcs \ {r}) \cup S
-----------------------------------------------------------------------------
(* Actions                                                                 *)

\* Every process has bootstrapped and all of them know each other.
Init ==
  /\ nodes = [n \in Node |->
       LET joined == [NewNode EXCEPT
                        !.members = [a \in Node |-> [incarnation |-> 0, status |-> Alive]]]
       IN  [joined EXCEPT !.maxP = MaxPropagations(joined, n)]]
  /\ state  = [n \in Node |-> "ready"]
  /\ clock  = [n \in Node |-> 0]
  /\ pinger = [n \in Node |-> Idle]
  /\ rpcs   = {}
  /\ losses = 0

\* n's node state becomes s; it took the clock reading now.
Becomes(n, s, now) ==
  /\ nodes' = [nodes EXCEPT ![n] = s]
  /\ clock' = [clock EXCEPT ![n] = now]

\* A call to d fails or times out, for no fault of d if d is ready.
Fails(d) ==
  IF state[d] = "ready" THEN losses < MaxLosses /\ losses' = losses + 1
                        ELSE UNCHANGED losses

\* pingNextMember: n sends a ping to t.
Ping(n, t) ==
  /\ state[n] = "ready" /\ pinger[n] = Idle
  /\ t \in Pingable(nodes[n], n)
  /\ RoomForCall
  /\ rpcs' = rpcs \cup {Call("ping", n, t, t, Request(nodes[n], n))}
  /\ pinger' = [pinger EXCEPT ![n] = [Idle EXCEPT !.phase = "ping", !.target = t]]
  /\ UNCHANGED <<nodes, state, clock, losses>>

\* handlePing at d of request req from `sender`, at time now: the changes of the request
\* are applied, then those of the response, pingResponse, are issued.
handlePing(d, sender, req, now) ==
  /\ state[d] = "ready"
  /\ Becomes(d, IssueAsReceiver(Update(nodes[d], d, req.changes, now), sender, req), now)
  /\ UNCHANGED <<state, pinger, losses>>

pingResponse(d, sender, req, now) ==
  IssuedAsReceiver(Update(nodes[d], d, req.changes, now), d, sender, req)

HandlePing(r) ==
  /\ r.kind = "ping" /\ r.stage = "request"
  /\ \E now \in Now(nodes[r.dst], r.dst, r.out.changes) :
       /\ handlePing(r.dst, r.src, r.out, now)
       /\ rpcs' = Replace(r, Answered(r, TRUE, pingResponse(r.dst, r.src, r.out, now)))

\* Mutant: the changes in the response are not applied.
PingOkDeaf(r) ==
  /\ r.kind = "ping" /\ r.stage = "reply"
  /\ Becomes(r.src, bumpPiggybackCounters(nodes[r.src], DOMAIN r.out.changes), clock[r.src])
  /\ pinger' = [pinger EXCEPT ![r.src] = Idle]
  /\ rpcs' = Replace(r, {})
  /\ UNCHANGED <<state, losses>>

\* The ping was answered in time.
PingOk(r) ==
  /\ r.kind = "ping" /\ r.stage = "reply"
  /\ \E now \in Now(nodes[r.src], r.src, r.back) :
       Becomes(r.src, Update(bumpPiggybackCounters(nodes[r.src], DOMAIN r.out.changes),
                             r.src, r.back, now), now)
  /\ pinger' = [pinger EXCEPT ![r.src] = Idle]
  /\ rpcs' = Replace(r, {})
  /\ UNCHANGED <<state, losses>>

\* The ping failed or timed out: ask PingRequestSize random pingable members.
PingFailed(r) ==
  /\ r.kind = "ping" /\ r.waiter = "collecting"
  /\ LET n == r.src
         candidates == Pingable(nodes[n], n) \ {r.dst}
         enough(P) == \/ Cardinality(P) = PingRequestSize
                      \/ P = candidates /\ Cardinality(P) < PingRequestSize
         requests(P) == {Call("ping-req", n, h, r.dst, Request(nodes[n], n)) : h \in P}
     IN  \E P \in SUBSET candidates :
           /\ enough(P)
           /\ rpcs' = Replace(r, Abandoned(r) \cup requests(P))
           /\ pinger' = [pinger EXCEPT ![n] = [@ EXCEPT !.phase = "ping-req",
                                                        !.helpers = Cardinality(P)]]
  /\ Fails(r.dst)
  /\ UNCHANGED <<nodes, state, clock>>

\* handlePingRequest, first half: the helper pings the target.
HandlePingRequest(r) ==
  /\ r.kind = "ping-req" /\ r.stage = "request"
  /\ state[r.dst] = "ready"
  /\ \E now \in Now(nodes[r.dst], r.dst, r.out.changes) :
       LET s == Update(nodes[r.dst], r.dst, r.out.changes, now)
       IN  /\ Becomes(r.dst, s, now)
           /\ rpcs' = Replace(r, {[r EXCEPT !.stage = "relay", !.via = Request(s, r.dst)]})
  /\ UNCHANGED <<state, pinger, losses>>

\* The target handles the helper's ping.
HandleRelayedPing(r) ==
  /\ r.stage = "relay"
  /\ \E now \in Now(nodes[r.target], r.target, r.via.changes) :
       /\ handlePing(r.target, r.dst, r.via, now)
       /\ rpcs' = Replace(r, {[r EXCEPT !.stage = "relayed",
                                        !.back = pingResponse(r.target, r.dst, r.via, now)]})

\* handlePingRequest, second half, after a successful ping of the target.
RelayOk(r) ==
  /\ r.stage = "relayed"
  /\ \E now \in Now(nodes[r.dst], r.dst, r.back) :
       LET s == Update(bumpPiggybackCounters(nodes[r.dst], DOMAIN r.via.changes),
                       r.dst, r.back, now)
       IN  /\ Becomes(r.dst, IssueAsReceiver(s, r.src, r.out), now)
           /\ rpcs' = Replace(r, Answered(r, TRUE, IssuedAsReceiver(s, r.dst, r.src, r.out)))
  /\ UNCHANGED <<state, pinger, losses>>

\* handlePingRequest, second half, after a failed ping of the target.
RelayFailed(r) ==
  /\ r.stage \in {"relay", "relayed"}
  /\ Becomes(r.dst, IssueAsReceiver(nodes[r.dst], r.src, r.out), clock[r.dst])
  /\ LET answer == Answered(r, FALSE, IssuedAsReceiver(nodes[r.dst], r.dst, r.src, r.out))
     IN  rpcs' = Replace(r, answer \cup AbandonedRelay(r))
  /\ Fails(r.target)
  /\ UNCHANGED <<state, pinger>>

\* A ping-req is answered.  The first ok ends indirectPing.
PingRequestOk(r) ==
  /\ r.kind = "ping-req" /\ r.stage = "reply"
  /\ \E now \in Now(nodes[r.src], r.src, r.back) :
       Becomes(r.src, Update(nodes[r.src], r.src, r.back, now), now)
  /\ LET reached == r.ok /\ r.waiter = "collecting"
         detach(q) == IF q.src = r.src /\ q.waiter = "collecting" /\ reached
                        THEN [q EXCEPT !.waiter = "detached"] ELSE q
     IN  /\ rpcs' = {detach(q) : q \in rpcs \ {r}}
         /\ pinger' = IF reached THEN [pinger EXCEPT ![r.src] = Idle] ELSE pinger
  /\ UNCHANGED <<state, losses>>

\* A ping-req failed or timed out (the counters are raised in this case).
PingRequestFailed(r) ==
  /\ r.kind = "ping-req" /\ r.waiter # "gone"
  /\ Becomes(r.src, bumpPiggybackCounters(nodes[r.src], DOMAIN r.out.changes), clock[r.src])
  /\ pinger' = IF r.waiter = "collecting"
                 THEN [pinger EXCEPT ![r.src].errs = @ + 1] ELSE pinger
  /\ rpcs' = Replace(r, Abandoned(r))
  /\ Fails(r.dst)
  /\ UNCHANGED state

\* Mutant: indirectPing does not wait for all answers.
IndirectPingDoneEarly(n) ==
  /\ pinger[n].phase = "ping-req"
  /\ pinger' = [pinger EXCEPT ![n] = Idle]
  /\ LET t == pinger[n].target
         suspect == MakeChange(nodes[n], n, t, nodes[n].members[t].incarnation, Suspect)
     IN  nodes' = IF pinger[n].errs = PingRequestSize THEN nodes
                  ELSE [nodes EXCEPT ![n] = Update(nodes[n], n, suspect, clock[n])]
  /\ UNCHANGED <<state, clock, rpcs, losses>>

\* Mutant: an inconclusive indirect ping makes the target suspect.
IndirectPingDoneHarsh(n) ==
  /\ pinger[n].phase = "ping-req"
  /\ \A r \in rpcs : r.src = n => r.waiter # "collecting"
  /\ pinger' = [pinger EXCEPT ![n] = Idle]
  /\ LET t == pinger[n].target
         suspect == MakeChange(nodes[n], n, t, nodes[n].members[t].incarnation, Suspect)
     IN  nodes' = [nodes EXCEPT ![n] = Update(nodes[n], n, suspect, clock[n])]
  /\ UNCHANGED <<state, clock, rpcs, losses>>

\* All ping-reqs have ended and none reached the target.
IndirectPingDone(n) ==
  /\ pinger[n].phase = "ping-req"
  /\ \A r \in rpcs : r.src = n => r.waiter # "collecting"
  /\ pinger' = [pinger EXCEPT ![n] = Idle]
  /\ LET t == pinger[n].target
         suspect == MakeChange(nodes[n], n, t, nodes[n].members[t].incarnation, Suspect)
     IN  nodes' = IF pinger[n].errs = PingRequestSize THEN nodes
                  ELSE [nodes EXCEPT ![n] = Update(nodes[n], n, suspect, clock[n])]
  /\ UNCHANGED <<state, clock, rpcs, losses>>
-----------------------------------------------------------------------------
\* A request nobody waits for is lost, or refused by a process that is not ready.
LoseRequest(r) ==
  /\ r.stage = "request" /\ r.waiter = "gone"
  /\ rpcs' = Replace(r, {})
  /\ UNCHANGED <<nodes, state, clock, pinger, losses>>

\* The suspicion timer of a goes off at n and its callback starts to run ...
Expire(n, a) ==
  /\ a \in DOMAIN nodes[n].timers /\ ~nodes[n].timers[a].fired
  /\ LET s == nodes[n]
         fired == [incarnation |-> s.timers[a].incarnation, fired |-> TRUE]
         e == [address |-> a, incarnation |-> s.timers[a].incarnation]
     IN  nodes' = [nodes EXCEPT ![n] = [s EXCEPT !.timers[a] = fired,
                                                 !.expired = s.expired \cup {e}]]
  /\ UNCHANGED <<state, clock, pinger, rpcs, losses>>

\* ... and declares the member faulty, however long that takes.
DeclareFaulty(n, e) ==
  /\ e \in nodes[n].expired
  /\ LET s == [nodes[n] EXCEPT !.expired = @ \ {e}]
         faulty == MakeChange(s, n, e.address, e.incarnation, Faulty)
     IN  nodes' = [nodes EXCEPT ![n] = Update(s, n, faulty, clock[n])]
  /\ UNCHANGED <<state, clock, pinger, rpcs, losses>>

\* What the crash of n leaves of call r.
SurvivesCrash(r, n) ==
  LET dead == [r EXCEPT !.stage = "dead", !.via = NoRequest, !.back = Empty]
  IN  IF r.dst = n /\ r.stage \in {"relay", "relayed"}
        THEN AbandonedRelay(r) \cup (IF r.waiter = "gone" THEN {} ELSE {dead})
      ELSE IF r.src = n /\ r.waiter # "gone" THEN Abandoned(r)
      ELSE {r}

Crash(n) ==
  /\ state[n] # "down"
  /\ state'  = [state EXCEPT ![n] = "down"]
  /\ nodes'  = [nodes EXCEPT ![n] = NewNode]
  /\ pinger' = [pinger EXCEPT ![n] = Idle]
  /\ rpcs'   = UNION {SurvivesCrash(r, n) : r \in rpcs}
  /\ UNCHANGED <<clock, losses>>

\* Mutant: n declares itself alive in the incarnation it already has.
ReincarnateSame(n, s) ==
  \E now \in Readings(n) :
    LET alive == MakeChange(s, n, n, Incarnation(s, n), Alive)
    IN  Becomes(n, Update(s, n, alive, now), now)

\* Reincarnate: n reads its clock and declares itself alive.
Reincarnate(n, s) ==
  \E now \in Readings(n) :
    LET source == IF n \in DOMAIN s.members THEN Incarnation(s, n) ELSE now
        alive == [a \in {n} |-> [source |-> n, sourceIncarnation |-> source,
                                 incarnation |-> now, status |-> Alive]]
    IN  Becomes(n, Update(s, n, alive, now), now)

\* A new process on n's address starts its Bootstrap.
Restart(n) ==
  /\ state[n] = "down"
  /\ Reincarnate(n, NewNode)
  /\ state' = [state EXCEPT ![n] = "joining"]
  /\ UNCHANGED <<pinger, rpcs, losses>>

\* p answers a join request of n, and n adds p's memberlist to its own; the
\* last of its join requests completes n's Bootstrap.
Join(n, p) ==
  /\ state[n] = "joining" /\ state[p] # "down" /\ p # n
  /\ LET list == FullSync(nodes[p], p)
     IN  \E now \in Now(nodes[n], n, list) :
           Becomes(n, AddJoinList(nodes[n], n, list, now), now)
  /\ \E s \in {"joining", "ready"} : state' = [state EXCEPT ![n] = s]
  /\ UNCHANGED <<pinger, rpcs, losses>>

\* adminLeaveHandler
LeaveCluster(n) ==
  /\ state[n] # "down"
  /\ LET leave == MakeChange(nodes[n], n, n, Incarnation(nodes[n], n), Leave)
     IN  nodes' = [nodes EXCEPT ![n] = Update(nodes[n], n, leave, clock[n])]
  /\ UNCHANGED <<state, clock, pinger, rpcs, losses>>

\* adminJoinHandler
Rejoin(n) ==
  /\ state[n] # "down"
  /\ Reincarnate(n, nodes[n])
  /\ UNCHANGED <<state, pinger, rpcs, losses>>

Gossip ==
  \/ \E n, t \in Node : Ping(n, t)
  \/ \E r \in rpcs : HandlePing(r)
  \/ \E r \in rpcs : PingOk(r)
  \/ \E r \in rpcs : PingFailed(r)
  \/ \E r \in rpcs : HandlePingRequest(r)
  \/ \E r \in rpcs : HandleRelayedPing(r)
  \/ \E r \in rpcs : RelayOk(r)
  \/ \E r \in rpcs : RelayFailed(r)
  \/ \E r \in rpcs : PingRequestOk(r)
  \/ \E r \in rpcs : PingRequestFailed(r)
  \/ \E r \in rpcs : LoseRequest(r)
  \/ \E n \in Node : IndirectPingDone(n)

Suspicion ==
  \/ \E n, a \in Node : Expire(n, a)
  \/ \E n \in Node : \E e \in nodes[n].expired : DeclareFaulty(n, e)

Lifecycle ==
  \/ \E n \in Crashing : Crash(n) \/ Restart(n)
  \/ \E n \in Administered : LeaveCluster(n) \/ Rejoin(n)
  \/ \E n \in Crashing, p \in Node : Join(n, p)

Next == Gossip \/ Suspicion \/ Lifecycle

Spec == Init /\ [][Next]_vars

\* The gossip loop pings every pingable member again and again (the iterator
\* visits each once per round), a process that is ready answers, a call to one
\* that is not fails, no request stays on the wire for ever, and timers go off.
\* Calls to ready processes need not fail.
Fairness ==
  /\ \A n, t \in Node : SF_vars(Ping(n, t))
  /\ WF_vars(\E r \in rpcs : LoseRequest(r))
  /\ \A n \in Node :
       /\ WF_vars(\E r \in rpcs : r.src = n /\ r.waiter = "collecting" /\ HandlePing(r))
       /\ WF_vars(\E r \in rpcs : r.src = n /\ PingOk(r))
       /\ WF_vars(\E r \in rpcs : r.src = n /\ state[r.dst] # "ready" /\ PingFailed(r))
       /\ WF_vars(IndirectPingDone(n))
       /\ WF_vars(\E a \in Node : Expire(n, a))
       /\ WF_vars(\E e \in nodes[n].expired : DeclareFaulty(n, e))

FairSpec == Spec /\ Fairness
-----------------------------------------------------------------------------
(* Properties                                                              *)

\* a map from some of the addresses to elements of S
IsMap(f, S) == DOMAIN f \subseteq Node /\ f \in [DOMAIN f -> S]

IsNode(s) ==
  /\ s = [members |-> s.members, changes |-> s.changes, maxP |-> s.maxP,
          timers |-> s.timers, expired |-> s.expired]
  /\ IsMap(s.members, MemberRecord)
  /\ IsMap(s.changes, [change : ChangeRecord(Node), p : Nat])
  /\ s.maxP \in Nat
  /\ IsMap(s.timers, [incarnation : Nat, fired : BOOLEAN])
  /\ s.expired \subseteq [address : Node, incarnation : Nat]

IsRequest(q) ==
  /\ q = [incarnation |-> q.incarnation, checksum |-> q.checksum, changes |-> q.changes]
  /\ q.incarnation \in Int
  /\ IsMap(q.checksum, MemberRecord) /\ IsMap(q.changes, ChangeRecord(Node))

IsCall(r) ==
  /\ r = [kind |-> r.kind, src |-> r.src, dst |-> r.dst, target |-> r.target,
          stage |-> r.stage, waiter |-> r.waiter, out |-> r.out, via |-> r.via,
          ok |-> r.ok, back |-> r.back]
  /\ r.src \in Node /\ r.dst \in Node /\ r.target \in Node
  /\ r.kind \in {"ping", "ping-req"}
  /\ r.stage \in {"request", "relay", "relayed", "reply", "dead"}
  /\ r.waiter \in {"collecting", "detached", "gone"} /\ r.ok \in BOOLEAN
  /\ IsRequest(r.out) /\ IsRequest(r.via) /\ IsMap(r.back, ChangeRecord(Node))

IsPinger(p) ==
  p \in [phase : {"idle", "ping", "ping-req"}, target : Node \cup {"none"},
         helpers : Nat, errs : Nat]

\* The types of a node's memberlist, disseminator and suspicion state, of its gossip
\* loop and of the calls between nodes; who is being pinged is a known member.
TypeOK ==
  /\ nodes = [n \in Node |-> nodes[n]]
  /\ state \in [Node -> {"down", "joining", "ready"}]
  /\ clock \in [Node -> Nat]
  /\ pinger = [n \in Node |-> pinger[n]]
  /\ losses \in 0 .. MaxLosses
  /\ \A n \in Node :
       /\ IsNode(nodes[n]) /\ IsPinger(pinger[n])
       /\ pinger[n].phase # "idle" => pinger[n].target \in DOMAIN nodes[n].members
  /\ \A r \in rpcs : IsCall(r)

\* Incarnations of members known to a process in state s, or told by changes.
KnownUpTo(s, limit) ==
  /\ \A a \in DOMAIN s.members : s.members[a].incarnation <= limit[a]
  /\ \A a \in DOMAIN s.changes : s.changes[a].change.incarnation <= limit[a]
  /\ \A a \in DOMAIN s.timers  : s.timers[a].incarnation <= limit[a]
  /\ \A e \in s.expired        : e.incarnation <= limit[e.address]

ToldUpTo(changes, limit) == \A a \in DOMAIN changes : changes[a].incarnation <= limit[a]

CallUpTo(r, limit) ==
  ToldUpTo(r.out.changes, limit) /\ ToldUpTo(r.via.changes, limit) /\ ToldUpTo(r.back, limit)

\* Only the node itself makes its incarnation numbers: no memberlist, change,
\* timer or message, however stale or late, holds an incarnation of a node above
\* the last reading of its clock, and while it runs that reading is its own
\* incarnation (Update's refutation and Reincarnate are the only sources).
NoFutureIncarnation ==
  /\ \A n \in Node : KnownUpTo(nodes[n], clock)
  /\ \A r \in rpcs : CallUpTo(r, clock)
  /\ \A n \in Node : state[n] # "down" => Incarnation(nodes[n], n) = clock[n]

\* A running node never believes itself suspect or faulty, whatever it is told
\* (localOverride is consulted before the precedence rules).
SelfNeverSuspect ==
  \A n \in Node : state[n] # "down" =>
    n \in DOMAIN nodes[n].members /\ nodes[n].members[n].status \in {Alive, Leave}

PiggybacksBeliefs(s) ==
  \A a \in DOMAIN s.changes :
    a \in DOMAIN s.members /\ AsMember(s.changes[a].change) = s.members[a]

\* A node piggybacks what it believes: each change in its disseminator is its
\* current entry for that member, never a superseded one (Apply and RecordChange
\* see the same applied changes).
DisseminatesCurrentView == \A n \in Node : PiggybacksBeliefs(nodes[n])

TimesSuspects(s) ==
  /\ DOMAIN s.timers = {a \in DOMAIN s.members : s.members[a].status = Suspect}
  /\ \A a \in DOMAIN s.timers : s.timers[a].incarnation <= s.members[a].incarnation

\* Suspicion timers exist for the suspects and for no other member, and none is
\* armed for a later incarnation than the one suspected (handleChanges starts and
\* stops them; entries are not removed when they fire).
TimersMatchSuspects == \A n \in Node : TimesSuspects(nodes[n])

HasSuspected(s, e) ==
  /\ e.address \in DOMAIN s.members
  /\ ~ nonLocalOverride(s.members[e.address],
                        [incarnation |-> e.incarnation, status |-> Suspect])

\* Faulty is only ever declared of an incarnation that this process has seen
\* suspected, and never of itself: a callback that runs late finds an entry at
\* least as new as the suspicion that armed its timer.
ExpiryFollowsSuspicion ==
  \A n \in Node : \A e \in nodes[n].expired : HasSuspected(nodes[n], e) /\ e.address # n

\* While a process runs, what it believes of another node is never replaced by
\* older knowledge, in whatever order and however late changes, full syncs, join
\* lists and timer callbacks arrive; and its own incarnation never goes back.
ViewsNeverRegress ==
  [][\A n \in Node : state[n] # "down" /\ state'[n] # "down" =>
       \A a \in DOMAIN nodes[n].members :
         /\ a \in DOMAIN nodes'[n].members
         /\ IF a = n
              THEN nodes'[n].members[a].incarnation >= nodes[n].members[a].incarnation
              ELSE ~ nonLocalOverride(nodes'[n].members[a], nodes[n].members[a])]_vars

\* The addresses at which a process runs.
Up == {n \in Node : state[n] # "down"}

\* The memberlists of the running processes.
M == INSTANCE Membership WITH
       view <- [n \in Node |-> nodes[n].members],
       incarnation <- clock,
       running <- Up

\* The gossip protocol keeps the promises of Membership: each of its steps changes
\* the memberlist of at most one process, and as Membership allows (Update applied to
\* pings, answers, ping-reqs, full syncs, join lists, timers and admin requests).
ImplementsMembership == M!Spec

\* Who can still act on a call: a caller that waits is running and calls another
\* process, a helper that is pinging the target is running; nobody answers a
\* caller that is gone.
CallOk(r, up) ==
  /\ r.waiter # "gone" => r.src \in up /\ r.src # r.dst
  /\ r.waiter = "gone" => r.stage \in {"request", "relay", "relayed"}
  /\ r.stage \in {"relay", "relayed"} => r.kind = "ping-req" /\ r.dst \in up

\* A crash leaves nothing behind at the node, and the calls and gossip loops that go
\* on are those of processes that run: the inductive part of the invariants above.
ActorsRun ==
  /\ \A n \in Node : n \notin Up => nodes[n] = NewNode
  /\ \A n \in Node : pinger[n].phase # "idle" => n \in Up /\ pinger[n].target # n
  /\ \A r \in rpcs : CallOk(r, Up)

\* A ping that a gossip loop waits for.
IsPingLoop(r) == r.kind = "ping" /\ r.waiter = "collecting"

\* The gossip loop of a process waits for what it is doing, one ping or its ping-reqs:
\* a node never has two pings of its own outstanding, whatever fails, is late or
\* answers out of order, and no ping outlives its loop (pingNextMember's check of
\* pinging, SendPing's and sendPingRequests' selects).
LoopsWait ==
  /\ \A r \in rpcs : r.kind = "ping" => r.waiter # "detached"
  /\ \A r \in rpcs : r.waiter = "collecting" => pinger[r.src].phase = r.kind
  /\ \A q, r \in rpcs : IsPingLoop(q) /\ IsPingLoop(r) /\ q.src = r.src => q = r

\* "If all helper nodes are unreachable, the indirectPing is inconclusive"
\* (pingNextMember): then the target is not suspected.
InconclusiveNeverSuspects ==
  [][\A n \in Node : IndirectPingDone(n) /\ pinger[n].helpers > 0
                     /\ pinger[n].errs = pinger[n].helpers => UNCHANGED nodes]_vars

\* A suspect is on its way to faulty: a timer that has not gone off, or a callback
\* that has not run, will declare the incarnation that is suspected.
SuspicionIsTimed ==
  \A n \in Node : \A a \in DOMAIN nodes[n].timers :
    LET i == nodes[n].members[a].incarnation
    IN  \/ nodes[n].timers[a].incarnation = i /\ ~nodes[n].timers[a].fired
        \/ [address |-> a, incarnation |-> i] \in nodes[n].expired

Running == {n \in Node : state[n] = "ready"}

\* All running processes have the same memberlist.
Agreement == \A n, m \in Running : nodes[n].members = nodes[m].members

\* Two running processes that have given up on each other.
GivenUp == \E n, m \in Running :
  n # m /\ n \notin Pingable(nodes[m], m) /\ m \notin Pingable(nodes[n], n)

\* A process that would need a clock reading beyond the bound of the model.
OutOfReadings == \E n \in Node : Readings(n) = {}

\* Once calls stop failing, the running processes come to agree on every member and
\* stay so, unless two of them have declared each other faulty: those never
\* exchange a ping again (pingable members only; there is no healing).
Converges == <>[](Agreement \/ GivenUp \/ OutOfReadings)

\* A process that has crashed for good is, for good, no longer pinged by those that
\* stay up (suspicion, its timer and MakeFaulty).
CrashDetected ==
  \A n, m \in Node :
    <>[](state[m] = "down" /\ state[n] = "ready") => <>[](m \notin Pingable(nodes[n], n))
=============================================================================

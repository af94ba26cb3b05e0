----------------------------- MODULE SwimProofs -----------------------------
(***************************************************************************)
(* The steps of Swim that a process takes by itself (suspicions, timers,   *)
(* leaves, rejoins, crashes, restarts, joins) preserve the inductive       *)
(* invariant; with what SwimLemmas says of the other actions follow the    *)
(* invariants of Swim, and that Swim implements Membership.                *)
(***************************************************************************)
EXTENDS SwimLemmas

-----------------------------------------------------------------------------
(* Steps of a process by itself                                            *)

\* The one change that a process makes by itself.
LEMMA MakeChangeFacts ==
  ASSUME NEW s, NEW n \in Node, NEW address \in Node, NEW inc \in Nat, NEW status \in Status,
         IsMap(s.members, MemberRecord), NEW c, c = MakeChange(s, n, address, inc, status)
  PROVE  /\ IsMap(c, ChangeRecord(Node)) /\ \A a \in DOMAIN c : a = address
         /\ c[address].incarnation = inc /\ c[address].status = status
<1>1. Incarnation(s, n) \in Int
  BY IncarnationType
<1>2. c[address] = [source |-> n, sourceIncarnation |-> Incarnation(s, n),
                    incarnation |-> inc, status |-> status]
  BY DEF MakeChange
<1>3. c[address] \in ChangeRecord(Node)
  BY <1>1, <1>2 DEF ChangeRecord
<1>4. c = [a \in {address} |-> c[address]]
  BY DEF MakeChange
<1>5. DOMAIN c = {address} /\ c \in [{address} -> ChangeRecord(Node)]
  BY <1>3, <1>4
<1>6. IsMap(c, ChangeRecord(Node))
  BY <1>5 DEF IsMap
<1>7. c[address].incarnation = inc /\ c[address].status = status
  BY <1>2
<1> QED
  BY <1>5, <1>6, <1>7

\* A process evolves when it declares another one suspect or faulty, or itself as having
\* left.
LEMMA MakeChangeEvolves ==
  ASSUME Inv, NEW n \in Up, NEW s, Healthy(n, s, clock), s.members = nodes[n].members,
         NEW address \in Node, NEW inc \in Nat, NEW status \in Status,
         inc <= clock[address], address = n => status \in {Alive, Leave},
         NEW c, c = MakeChange(s, n, address, inc, status),
         nodes' = [nodes EXCEPT ![n] = Update(s, n, c, clock[n])],
         clock' = clock, state' = state
  PROVE  Evolves(n)
<1>1. n \in Node /\ clock \in [Node -> Nat] /\ IsMap(s.members, MemberRecord)
  BY DEF Up, Inv, Base, Healthy, IsNode
<1>2. /\ IsMap(c, ChangeRecord(Node)) /\ \A a \in DOMAIN c : a = address
      /\ c[address].incarnation = inc /\ c[address].status = status
  BY <1>1, MakeChangeFacts
<1>3. ToldUpTo(c, clock)
  BY <1>2 DEF ToldUpTo
<1>4. ~ Refutes(nodes[n], n, c)
  BY <1>2 DEF Refutes, localOverride, Alive, Suspect, Faulty, Leave
<1>5. clock[n] \in Now(nodes[n], n, c)
  BY <1>4 DEF Now
<1>6. Becomes(n, Update(s, n, c, clock[n]), clock[n])
  BY <1>1 DEF Becomes
<1> QED
  BY <1>2, <1>3, <1>5, <1>6, UpdateEvolves

\* Indirect pinging is over and the target was not reached.
LEMMA IndirectPingDoneInv ==
  ASSUME Inv, NEW n \in Node, IndirectPingDone(n)
  PROVE  Inv' /\ (nodes' = nodes \/ Evolves(n))
<1> DEFINE t == pinger[n].target
<1>1. /\ n \in Up /\ t \in DOMAIN nodes[n].members \ {n}
      /\ Healthy(n, nodes[n], clock)
  BY DEF IndirectPingDone, Inv, PingersInv, NodesInv
<1>2. /\ t \in Node /\ nodes[n].members[t].incarnation \in Nat
      /\ nodes[n].members[t].incarnation <= clock[t]
  BY <1>1 DEF Healthy, IsNode, IsMap, MemberRecord, KnownUpTo
<1>3. /\ state' = state /\ clock' = clock /\ rpcs' = rpcs /\ losses' = losses
      /\ pinger' = [pinger EXCEPT ![n] = Idle]
  BY DEF IndirectPingDone
<1>4. /\ pinger' = [m \in Node |-> pinger'[m]]
      /\ \A m \in Node : pinger'[m] = pinger[m] \/ pinger'[m] = Idle
      /\ IsPinger(Idle) /\ Idle.phase = "idle"
  BY <1>3 DEF Inv, PingersInv, IsPinger, Idle
<1>5. CASE nodes' = nodes
  <2>1. Up' = Up
    BY <1>3 DEF Up
  <2>2. PingersInv'
    BY <1>4, <1>5, <2>1 DEF Inv, PingersInv
  <2> QED
    BY <1>3, <1>5, <2>2, QuietInv DEF Inv, Base, CallsInv
<1>6. CASE nodes' # nodes
  <2>1. PICK c : /\ c = MakeChange(nodes[n], n, t, nodes[n].members[t].incarnation, Suspect)
                 /\ nodes' = [nodes EXCEPT ![n] = Update(nodes[n], n, c, clock[n])]
    BY <1>6 DEF IndirectPingDone
  <2>2. Suspect \in Status
    BY DEF Status
  <2>3. Evolves(n)
    BY <1>1, <1>2, <1>3, <2>1, <2>2, MakeChangeEvolves
  <2>4. PingersInv'
    BY <1>4, <2>3, EvolvesPingers DEF Inv, PingersInv
  <2>5. \A q \in rpcs' : GoodCall(q, clock', Up')
    BY <1>3, <2>3, EvolvesCalls
  <2> QED
    BY <1>3, <2>3, <2>4, <2>5, EvolvesInv DEF Inv, Base
<1> QED
  BY <1>5, <1>6

\* A step of one process that touches neither calls nor gossip loops.
LEMMA AloneInv ==
  ASSUME Inv, NEW n \in Node, Evolves(n), pinger' = pinger, rpcs' = rpcs, losses' = losses
  PROVE  Inv'
<1>1. PingersInv'
  BY EvolvesPingers DEF Inv, PingersInv
<1>2. \A q \in rpcs' : GoodCall(q, clock', Up')
  BY EvolvesCalls
<1> QED
  BY <1>1, <1>2, EvolvesInv DEF Inv, Base

\* A suspicion timer goes off.
LEMMA ExpireInv ==
  ASSUME Inv, NEW n \in Node, NEW a \in Node, Expire(n, a)
  PROVE  Inv' /\ Evolves(n)
<1>0. PICK s, e :
        s = nodes[n] /\ e = [address |-> a, incarnation |-> s.timers[a].incarnation]
  OBVIOUS
<1>1. Healthy(n, s, clock) /\ DOMAIN nodes = Node /\ a \in DOMAIN s.timers
  BY <1>0 DEF Inv, NodesInv, Expire
<1>2. n \in Up
  BY <1>0, <1>1, NewNodeFacts, EmptyMap DEF Inv, NodesInv, NewNode
<1>3. /\ a \in DOMAIN s.members /\ s.members[a].status = Suspect
      /\ s.timers[a].incarnation <= s.members[a].incarnation
      /\ s.timers[a] \in [incarnation : Nat, fired : BOOLEAN]
      /\ s.members[a] \in MemberRecord
      /\ s.timers[a].incarnation <= clock[a]
  BY <1>1 DEF Healthy, TimesSuspects, KnownUpTo, IsNode, IsMap
<1>4. a # n
  BY <1>0, <1>2, <1>3 DEF Inv, NodesInv, Own, Alive, Suspect, Leave
<1>5. PICK t, timers :
        /\ timers = [s.timers EXCEPT ![a] = [incarnation |-> s.timers[a].incarnation,
                                             fired |-> TRUE]]
        /\ t = [s EXCEPT !.timers = timers, !.expired = s.expired \cup {e}]
  OBVIOUS
<1>6. nodes' = [nodes EXCEPT ![n] = t]
  BY <1>0, <1>5 DEF Expire
<1>7. /\ IsMap(timers, [incarnation : Nat, fired : BOOLEAN]) /\ DOMAIN timers = DOMAIN s.timers
      /\ \A b \in DOMAIN timers : timers[b].incarnation = s.timers[b].incarnation
  BY <1>1, <1>3, <1>5 DEF Healthy, IsNode, IsMap
<1>8. /\ t.members = s.members /\ t.changes = s.changes /\ t.maxP = s.maxP
      /\ t.timers = timers /\ t.expired = s.expired \cup {e}
      /\ t = [members |-> t.members, changes |-> t.changes, maxP |-> t.maxP,
              timers |-> t.timers, expired |-> t.expired]
  BY <1>1, <1>5 DEF Healthy, IsNode
<1>9. Healthy(n, t, clock)
  <2>1. IsNode(t)
    BY <1>0, <1>1, <1>3, <1>7, <1>8 DEF Healthy, IsNode
  <2>k. KnownUpTo(t, clock)
    BY <1>0, <1>1, <1>3, <1>7, <1>8, SMTT(30) DEF Healthy, KnownUpTo
  <2>2. PiggybacksBeliefs(t) /\ TimesSuspects(t)
    BY <1>0, <1>1, <1>3, <1>7, <1>8, ZenonT(60) DEF Healthy, PiggybacksBeliefs, TimesSuspects
  <2>3. HasSuspected(t, e)
    <3>1. ~ nonLocalOverride(s.members[a],
                             [incarnation |-> s.timers[a].incarnation, status |-> Suspect])
      BY <1>3, PrecedenceType DEF nonLocalOverride, MemberRecord, Status
    <3> QED
      BY <1>0, <1>3, <1>8, <3>1 DEF HasSuspected
  <2>4. \A x \in t.expired : HasSuspected(t, x) /\ x.address # n
    BY <1>0, <1>1, <1>4, <1>8, <2>3 DEF Healthy, HasSuspected
  <2> QED
    BY <2>1, <2>k, <2>2, <2>4 DEF Healthy
<1>10. Becomes(n, t, clock[n]) /\ state' = state
  BY <1>6 DEF Expire, Becomes, Inv, Base
<1>11. Evolves(n)
  BY <1>0, <1>2, <1>8, <1>9, <1>10, BumpEvolves
<1> QED
  BY <1>11, AloneInv DEF Expire

\* The callback of a suspicion timer runs.
LEMMA DeclareFaultyInv ==
  ASSUME Inv, NEW n \in Node, NEW e \in nodes[n].expired, DeclareFaulty(n, e)
  PROVE  Inv' /\ Evolves(n)
<1>1. /\ Healthy(n, nodes[n], clock) /\ e.address # n
      /\ e \in [address : Node, incarnation : Nat] /\ e.incarnation <= clock[e.address]
  BY DEF Inv, NodesInv, Healthy, IsNode, KnownUpTo
<1>2. n \in Up
  BY DEF Inv, NodesInv, NewNode
<1>3. PICK s, c :
        /\ s = [nodes[n] EXCEPT !.expired = @ \ {e}]
        /\ c = MakeChange(s, n, e.address, e.incarnation, Faulty)
        /\ nodes' = [nodes EXCEPT ![n] = Update(s, n, c, clock[n])]
  BY DEF DeclareFaulty
<1>4. /\ s.members = nodes[n].members /\ s.changes = nodes[n].changes
      /\ s.maxP = nodes[n].maxP /\ s.timers = nodes[n].timers
      /\ s.expired = nodes[n].expired \ {e}
      /\ s = [members |-> s.members, changes |-> s.changes, maxP |-> s.maxP,
              timers |-> s.timers, expired |-> s.expired]
  <2> DEFINE v == nodes[n]
  <2>1. v = [members |-> v.members, changes |-> v.changes, maxP |-> v.maxP,
             timers |-> v.timers, expired |-> v.expired]
    BY <1>1 DEF Healthy, IsNode
  <2>2. s = [v EXCEPT !.expired = v.expired \ {e}]
    BY <1>3
  <2> HIDE DEF v
  <2>3. /\ s.members = v.members /\ s.changes = v.changes /\ s.maxP = v.maxP
        /\ s.timers = v.timers /\ s.expired = v.expired \ {e}
        /\ s = [members |-> s.members, changes |-> s.changes, maxP |-> s.maxP,
                timers |-> s.timers, expired |-> s.expired]
    BY <2>1, <2>2
  <2> QED BY <2>3 DEF v
<1>5. Healthy(n, s, clock)
  <2>1. IsNode(s)
    BY <1>1, <1>4 DEF Healthy, IsNode
  <2>2. KnownUpTo(s, clock) /\ PiggybacksBeliefs(s) /\ TimesSuspects(s)
    BY <1>1, <1>4 DEF Healthy, KnownUpTo, PiggybacksBeliefs, TimesSuspects
  <2>3. \A x \in s.expired : HasSuspected(s, x) /\ x.address # n
    BY <1>1, <1>4 DEF Healthy, HasSuspected
  <2> QED
    BY <2>1, <2>2, <2>3 DEF Healthy
<1>6. Faulty \in Status /\ e.address \in Node /\ e.incarnation \in Nat
  BY <1>1 DEF Status
<1>7. clock' = clock /\ state' = state
  BY DEF DeclareFaulty
<1>8. Evolves(n)
  BY <1>1, <1>2, <1>3, <1>4, <1>5, <1>6, <1>7, MakeChangeEvolves
<1> QED
  BY <1>8, AloneInv DEF DeclareFaulty

\* A node leaves the cluster.
LEMMA LeaveClusterInv ==
  ASSUME Inv, NEW n \in Node, LeaveCluster(n)
  PROVE  Inv' /\ Evolves(n)
<1>1. n \in Up
  BY DEF LeaveCluster, Up
<1>2. Healthy(n, nodes[n], clock) /\ Own(n, nodes[n], clock) /\ clock \in [Node -> Nat]
  BY <1>1 DEF Inv, NodesInv, Base
<1>3. PICK inc, c :
        /\ inc = Incarnation(nodes[n], n)
        /\ c = MakeChange(nodes[n], n, n, inc, Leave)
        /\ nodes' = [nodes EXCEPT ![n] = Update(nodes[n], n, c, clock[n])]
  BY DEF LeaveCluster
<1>4. inc \in Nat /\ inc <= clock[n]
  BY <1>2, <1>3 DEF Own, Incarnation
<1>5. clock' = clock /\ state' = state /\ Leave \in Status
  BY DEF LeaveCluster, Status
<1>6. Evolves(n)
  BY <1>1, <1>2, <1>3, <1>4, <1>5, MakeChangeEvolves
<1> QED
  BY <1>6, AloneInv DEF LeaveCluster

\* The change list by which n declares itself alive at the time now.
Declares(alive, n, now) ==
  /\ IsMap(alive, ChangeRecord(Node)) /\ \A a \in DOMAIN alive : a = n
  /\ n \in DOMAIN alive /\ alive[n].incarnation = now /\ alive[n].status = Alive

\* A process that declares itself alive at the time now, either while it runs or as
\* the first thing it does, knows itself in that incarnation.
LEMMA ReincarnateOwn ==
  ASSUME NEW s, NEW n \in Node, NEW before, NEW now \in Nat, NEW limit,
         before \in [Node -> Nat], limit = [before EXCEPT ![n] = now], before[n] <= now,
         Healthy(n, s, before), n \in DOMAIN s.members => Own(n, s, before),
         NEW alive, Declares(alive, n, now),
         NEW u, u = Update(s, n, alive, now)
  PROVE  /\ Healthy(n, u, limit) /\ Own(n, u, limit)
         /\ M!Learns(n, s.members, u.members)
         /\ \A a \in DOMAIN u.members : a \in DOMAIN s.members \/ a = n
<1>1. Later(before, limit) /\ limit[n] = now /\ limit \in [Node -> Nat] /\ now <= limit[n]
  BY DEF Later
<1>2. Healthy(n, s, limit) /\ ToldUpTo(alive, limit)
  BY <1>1, HealthyLater DEF ToldUpTo, Declares
<1>3. Updatable(s, n, alive)
  BY DEF Updatable, Healthy, Declares
<1>4. n \notin DOMAIN s.timers
  BY DEF Healthy, TimesSuspects, Own, Alive, Suspect, Leave
<1>5. Healthy(n, u, limit)
  BY <1>1, <1>2, <1>3, <1>4, UpdateHealthy
<1>6. M!Learns(n, s.members, u.members)
  BY <1>1, <1>2, <1>3, UpdateLearns
<1>7. PICK A : A = Applied(s, n, alive, now)
  OBVIOUS
<1>8. u.members = Overlay(Entries(A), s.members)
  BY <1>3, <1>7, UpdateFields DEF Updatable
<1>9. /\ \A a \in DOMAIN A : a = n /\ A[n] = alive[n]
      /\ n \in DOMAIN A <=> \/ n \notin DOMAIN s.members
                            \/ nonLocalOverride(s.members[n], alive[n])
  BY <1>7 DEF Applied, Declares, localOverride, Alive, Suspect, Faulty
<1>10. \A a \in DOMAIN u.members : a \in DOMAIN s.members \/ a = n
  BY <1>8, <1>9 DEF Overlay, Entries
<1>11. Own(n, u, limit)
  <2>1. CASE n \in DOMAIN A
    <3>1. n \in DOMAIN u.members /\ u.members[n] = AsMember(alive[n])
      BY <1>8, <1>9, <2>1 DEF Overlay, Entries
    <3> QED
      BY <1>1, <3>1 DEF AsMember, Own, Declares
  <2>2. CASE n \notin DOMAIN A
    <3>1. n \in DOMAIN s.members /\ ~ nonLocalOverride(s.members[n], alive[n])
      BY <1>9, <2>2
    <3>2. Own(n, s, before)
      BY <3>1
    <3>3. n \in DOMAIN u.members /\ u.members[n] = s.members[n]
      BY <1>8, <2>2, <3>1 DEF Overlay, Entries
    <3>4. before[n] = now
      BY <3>1, <3>2 DEF nonLocalOverride, Own, Declares
    <3> QED
      BY <1>1, <3>2, <3>3, <3>4 DEF Own
  <2> QED
    BY <2>1, <2>2
<1> QED
  BY <1>5, <1>6, <1>10, <1>11

\* Reincarnate at n in state s.
LEMMA ReincarnateStep ==
  ASSUME Inv, NEW n \in Node, NEW s, Healthy(n, s, clock),
         n \in DOMAIN s.members => Own(n, s, clock), Reincarnate(n, s)
  PROVE  /\ nodes' = [nodes EXCEPT ![n] = nodes'[n]]
         /\ clock' = [clock EXCEPT ![n] = clock'[n]] /\ Later(clock, clock')
         /\ Healthy(n, nodes'[n], clock') /\ Own(n, nodes'[n], clock')
         /\ M!Learns(n, s.members, nodes'[n].members)
         /\ \A a \in DOMAIN nodes'[n].members : a \in DOMAIN s.members \/ a = n
<1>1. clock \in [Node -> Nat] /\ DOMAIN nodes = Node
  BY DEF Inv, Base, NodesInv
<1>2. PICK now, source, alive, u :
        /\ now \in Readings(n)
        /\ source = IF n \in DOMAIN s.members THEN Incarnation(s, n) ELSE now
        /\ alive = [a \in {n} |-> [source |-> n, sourceIncarnation |-> source,
                                   incarnation |-> now, status |-> Alive]]
        /\ u = Update(s, n, alive, now)
        /\ Becomes(n, u, now)
  BY DEF Reincarnate
<1>3. now \in Nat /\ clock[n] <= now
  BY <1>1, <1>2, ParameterAssumption DEF Readings
<1>4. source \in Int
  <2>1. Incarnation(s, n) \in Int
    BY IncarnationType DEF Healthy, IsNode
  <2> QED
    BY <1>2, <1>3, <2>1
<1>5. Declares(alive, n, now)
  <2>1. DOMAIN alive = {n}
        /\ alive[n] = [source |-> n, sourceIncarnation |-> source,
                       incarnation |-> now, status |-> Alive]
    BY <1>2
  <2>2. alive[n] \in ChangeRecord(Node)
    BY <1>3, <1>4, <2>1 DEF ChangeRecord, Status
  <2>3. alive = [a \in {n} |-> alive[n]]
    BY <1>2
  <2>4. IsMap(alive, ChangeRecord(Node))
    BY <2>1, <2>2, <2>3 DEF IsMap
  <2> QED
    BY <2>1, <2>4 DEF Declares
<1>6. PICK limit : limit = [clock EXCEPT ![n] = now]
  OBVIOUS
<1>u. u = Update(s, n, alive, now)
  BY <1>2
<1>l. Later(clock, limit)
  BY <1>1, <1>3, <1>6 DEF Later
<1>7. /\ Healthy(n, u, limit) /\ Own(n, u, limit)
      /\ M!Learns(n, s.members, u.members)
      /\ \A a \in DOMAIN u.members : a \in DOMAIN s.members \/ a = n
  BY <1>1, <1>u, <1>3, <1>5, <1>6, ReincarnateOwn
<1>8. nodes'[n] = u /\ clock' = limit /\ clock'[n] = now
  BY <1>1, <1>2, <1>6 DEF Becomes
<1>9. /\ nodes' = [nodes EXCEPT ![n] = nodes'[n]]
      /\ clock' = [clock EXCEPT ![n] = clock'[n]]
  BY <1>2, <1>8 DEF Becomes
<1> QED
  BY <1>l, <1>7, <1>8, <1>9

\* A node rejoins the cluster.
LEMMA RejoinInv ==
  ASSUME Inv, NEW n \in Node, Rejoin(n)
  PROVE  Inv' /\ Evolves(n)
<1>1. n \in Up /\ Healthy(n, nodes[n], clock) /\ Own(n, nodes[n], clock)
  BY DEF Rejoin, Up, Inv, NodesInv
<1>2. /\ nodes' = [nodes EXCEPT ![n] = nodes'[n]]
      /\ clock' = [clock EXCEPT ![n] = clock'[n]] /\ Later(clock, clock')
      /\ Healthy(n, nodes'[n], clock') /\ Own(n, nodes'[n], clock')
      /\ M!Learns(n, nodes[n].members, nodes'[n].members)
  BY <1>1, ReincarnateStep DEF Rejoin
<1>3. state' \in [Node -> {"down", "joining", "ready"}] /\ Up' = Up
  BY DEF Rejoin, Up, Inv, Base
<1>4. Evolves(n)
  BY <1>1, <1>2, <1>3 DEF Evolves
<1> QED
  BY <1>4, AloneInv DEF Rejoin

\* A call stays good when more processes run.
LEMMA GoodCallMore ==
  ASSUME NEW r, NEW limit, NEW up, NEW u2, up \subseteq u2, GoodCall(r, limit, up)
  PROVE  GoodCall(r, limit, u2)
BY DEF GoodCall, CallOk

\* A process starts at n and knows itself only.
Starts(n) ==
  /\ n \notin Up /\ Up' = Up \cup {n}
  /\ nodes' = [nodes EXCEPT ![n] = nodes'[n]]
  /\ clock' = [clock EXCEPT ![n] = clock'[n]]
  /\ Later(clock, clock')
  /\ Healthy(n, nodes'[n], clock') /\ Own(n, nodes'[n], clock')
  /\ \A a \in DOMAIN nodes'[n].members : a = n

\* A new process starts its Bootstrap.
LEMMA RestartInv ==
  ASSUME Inv, NEW n \in Node, Restart(n)
  PROVE  Inv' /\ Starts(n)
<1>1. n \notin Up /\ Healthy(n, NewNode, clock) /\ DOMAIN NewNode.members = {}
  BY NewNodeFacts DEF Restart, Up
<1>2. /\ nodes' = [nodes EXCEPT ![n] = nodes'[n]]
      /\ clock' = [clock EXCEPT ![n] = clock'[n]] /\ Later(clock, clock')
      /\ Healthy(n, nodes'[n], clock') /\ Own(n, nodes'[n], clock')
      /\ \A a \in DOMAIN nodes'[n].members : a = n
  <2>1. Reincarnate(n, NewNode)
    BY DEF Restart
  <2>2. \A a \in DOMAIN nodes'[n].members : a \in DOMAIN NewNode.members \/ a = n
    BY <1>1, <2>1, ReincarnateStep
  <2> QED
    BY <1>1, <2>1, <2>2, ReincarnateStep
<1>3. state' \in [Node -> {"down", "joining", "ready"}] /\ Up' = Up \cup {n}
  BY DEF Restart, Up, Inv, Base
<1>4. Starts(n)
  BY <1>1, <1>2, <1>3 DEF Starts
<1>5. \A m \in Node \ {n} : nodes'[m] = nodes[m] /\ clock'[m] = clock[m]
  BY <1>2 DEF Inv, NodesInv, Base
<1>6. NodesInv'
  <2>1. ASSUME NEW m \in Node
        PROVE  /\ Healthy(m, nodes'[m], clock')
               /\ m \in Up' => Own(m, nodes'[m], clock')
               /\ m \notin Up' => nodes'[m] = NewNode
    <3>1. CASE m = n
      BY <1>2, <1>3, <3>1
    <3>2. CASE m # n
      <4>1. Healthy(m, nodes[m], clock')
        BY <1>2, HealthyLater DEF Inv, NodesInv
      <4> QED
        BY <1>3, <1>5, <3>2, <4>1 DEF Inv, NodesInv, Own
    <3> QED
      BY <3>1, <3>2
  <2>2. nodes' = [m \in Node |-> nodes'[m]]
    BY <1>2 DEF Inv, NodesInv
  <2> QED
    BY <2>1, <2>2 DEF NodesInv
<1>7. PingersInv'
  <2>1. pinger' = pinger
    BY DEF Restart
  <2>2. \A m \in Node : pinger[m].phase # "idle" => m \in Up'
           /\ pinger[m].target \in DOMAIN nodes'[m].members \ {m}
    BY <1>1, <1>3, <1>5 DEF Inv, PingersInv
  <2> QED
    BY <2>1, <2>2 DEF Inv, PingersInv
<1>8. CallsInv'
  <2>1. ASSUME NEW r \in rpcs
        PROVE  GoodCall(r, clock', Up')
    <3>1. GoodCall(r, clock', Up)
      BY <1>2, GoodCallLater DEF Inv, CallsInv
    <3>2. Up \subseteq Up'
      BY <1>3
    <3> QED
      BY <3>1, <3>2, GoodCallMore
  <2> QED
    BY <2>1 DEF Restart, CallsInv
<1>9. Base'
  BY <1>2, <1>3 DEF Restart, Inv, Base, Later
<1> QED
  BY <1>4, <1>6, <1>7, <1>8, <1>9 DEF Inv

\* A process adds the memberlist of another one to its own.
LEMMA JoinInv ==
  ASSUME Inv, NEW n \in Node, NEW p \in Node, Join(n, p)
  PROVE  Inv' /\ Evolves(n)
<1>1. n \in Up /\ Healthy(n, nodes[n], clock) /\ Healthy(p, nodes[p], clock)
  BY DEF Join, Up, Inv, NodesInv
<1>2. PICK list : list = FullSync(nodes[p], p)
  OBVIOUS
<1>3. IsMap(list, ChangeRecord(Node)) /\ ToldUpTo(list, clock)
  BY <1>1, <1>2, FullSyncFacts
<1>4. PICK now \in Now(nodes[n], n, list) : Becomes(n, AddJoinList(nodes[n], n, list, now), now)
  BY <1>2 DEF Join
<1>5. PICK u, t, limit : /\ u = Update(nodes[n], n, list, now)
                         /\ t = AddJoinList(nodes[n], n, list, now)
                         /\ limit = [clock EXCEPT ![n] = now]
  OBVIOUS
<1>6. /\ now \in Nat /\ Later(clock, limit)
      /\ Healthy(n, u, limit) /\ Own(n, u, limit)
      /\ M!Learns(n, nodes[n].members, u.members)
  BY <1>1, <1>3, <1>5, Told
<1>7. Healthy(n, t, limit) /\ t.members = u.members
  BY <1>5, <1>6, JoinListHealthy
<1>8. Own(n, t, limit) /\ M!Learns(n, nodes[n].members, t.members)
  BY <1>6, <1>7 DEF Own
<1>9. state' \in [Node -> {"down", "joining", "ready"}] /\ Up' = Up
  BY DEF Join, Up, Inv, Base
<1>10. Evolves(n)
  BY <1>1, <1>4, <1>5, <1>6, <1>7, <1>8, <1>9, BecomesEvolves
<1> QED
  BY <1>10, AloneInv DEF Join

\* What a crash of n leaves of a call is good without n.
LEMMA SurvivesGood ==
  ASSUME NEW r, NEW limit, NEW up, NEW n, NEW u2, u2 = up \ {n}, GoodCall(r, limit, up),
         NEW q \in SurvivesCrash(r, n)
  PROVE  GoodCall(q, limit, u2)
<1>1. CASE r.dst = n /\ r.stage \in {"relay", "relayed"}
  <2>1. CASE q \in AbandonedRelay(r)
    BY <2>1, AbandonedRelayGood
  <2>2. CASE /\ r.waiter # "gone"
             /\ q = [r EXCEPT !.stage = "dead", !.via = NoRequest, !.back = Empty]
    <3>1. /\ q.kind = r.kind /\ q.src = r.src /\ q.dst = r.dst /\ q.target = r.target
          /\ q.stage = "dead" /\ q.waiter = r.waiter /\ q.out = r.out /\ q.via = NoRequest
          /\ q.ok = r.ok /\ q.back = Empty
          /\ q = [kind |-> q.kind, src |-> q.src, dst |-> q.dst, target |-> q.target,
                  stage |-> q.stage, waiter |-> q.waiter, out |-> q.out, via |-> q.via,
                  ok |-> q.ok, back |-> q.back]
      BY <2>2 DEF GoodCall, IsCall
    <3>2. IsCall(q)
      BY <3>1, NoRequestFacts DEF GoodCall, IsCall
    <3>3. CallUpTo(q, limit)
      BY <3>1, NoRequestFacts DEF GoodCall, CallUpTo
    <3>4. CallOk(q, u2)
      BY <1>1, <2>2, <3>1 DEF GoodCall, CallOk
    <3> QED
      BY <3>2, <3>3, <3>4 DEF GoodCall
  <2> QED
    BY <1>1, <2>1, <2>2 DEF SurvivesCrash
<1>2. CASE ~ (r.dst = n /\ r.stage \in {"relay", "relayed"}) /\ r.src = n /\ r.waiter # "gone"
  <2>1. q \in Abandoned(r)
    BY <1>2 DEF SurvivesCrash
  <2>2. r.stage \in {"relay", "relayed"} => r.dst \in u2
    BY <1>2 DEF GoodCall, CallOk
  <2> QED
    BY <2>1, <2>2, AbandonedGood
<1>3. CASE ~ (r.dst = n /\ r.stage \in {"relay", "relayed"}) /\ ~ (r.src = n /\ r.waiter # "gone")
  <2>1. q = r
    BY <1>3 DEF SurvivesCrash
  <2> QED
    BY <1>3, <2>1 DEF GoodCall, CallOk
<1> QED
  BY <1>1, <1>2, <1>3

\* The process at n stops and leaves nothing behind.
Stops(n) ==
  /\ n \in Up /\ Up' = Up \ {n}
  /\ nodes' = [nodes EXCEPT ![n] = NewNode] /\ clock' = clock

\* A process crashes.
LEMMA CrashInv ==
  ASSUME Inv, NEW n \in Node, Crash(n)
  PROVE  Inv' /\ Stops(n)
<1>1. state' \in [Node -> {"down", "joining", "ready"}] /\ n \in Up /\ Up' = Up \ {n}
  BY DEF Crash, Up, Inv, Base
<1>2. Stops(n)
  BY <1>1 DEF Stops, Crash
<1>3. NodesInv'
  <2>1. Healthy(n, NewNode, clock)
    BY NewNodeFacts
  <2>2. /\ nodes' = [m \in Node |-> nodes'[m]] /\ nodes'[n] = NewNode
        /\ \A m \in Node \ {n} : nodes'[m] = nodes[m]
    BY <1>2 DEF Stops, Inv, NodesInv
  <2> QED
    BY <1>2, <2>1, <2>2 DEF Stops, Inv, NodesInv
<1>4. PingersInv'
  <2>1. /\ pinger' = [m \in Node |-> pinger'[m]] /\ pinger'[n] = Idle
        /\ \A m \in Node \ {n} : pinger'[m] = pinger[m] /\ nodes'[m] = nodes[m]
    BY DEF Crash, Inv, PingersInv, NodesInv
  <2>2. IsPinger(Idle) /\ Idle.phase = "idle"
    BY DEF Idle, IsPinger
  <2> QED
    BY <1>1, <2>1, <2>2 DEF Inv, PingersInv
<1>5. CallsInv'
  <2>1. ASSUME NEW q \in rpcs'
        PROVE  GoodCall(q, clock', Up')
    <3>1. PICK r \in rpcs : q \in SurvivesCrash(r, n)
      BY DEF Crash
    <3>2. GoodCall(r, clock, Up)
      BY DEF Inv, CallsInv
    <3>3. GoodCall(q, clock, Up')
      BY <1>1, <3>1, <3>2, SurvivesGood
    <3> QED
      BY <1>2, <3>3 DEF Stops
  <2> QED
    BY <2>1 DEF CallsInv
<1>6. Base'
  BY <1>1 DEF Crash, Inv, Base
<1> QED
  BY <1>2, <1>3, <1>4, <1>5, <1>6 DEF Inv
-----------------------------------------------------------------------------
(* Who waits for which call                                                *)

\* The gossip loops still wait when a call is replaced by what a handler or a caller
\* that gave up leaves of it.
LEMMA ReplaceLoops ==
  ASSUME LoopsWait, NEW r \in rpcs, NEW S, rpcs' = Replace(r, S),
         \A q \in rpcs : q.src \in Node,
         \A n \in Node : pinger'[n].phase = pinger[n].phase,
         \A q \in S : \/ q.waiter = "gone"
                      \/ q.waiter = r.waiter /\ q.kind = r.kind /\ q.src = r.src,
         \A p, q \in S : p.waiter # "gone" /\ q.waiter # "gone" => p = q
  PROVE  LoopsWait'
<1>1. ASSUME NEW q \in rpcs'
      PROVE  /\ q.kind = "ping" => q.waiter # "detached"
             /\ q.waiter = "collecting" => pinger'[q.src].phase = q.kind
  BY DEF LoopsWait, Replace
<1>2. ASSUME NEW p \in rpcs', NEW q \in rpcs', IsPingLoop(p), IsPingLoop(q), p.src = q.src
      PROVE  p = q
  <2>1. CASE p \in rpcs \ {r} /\ q \in rpcs \ {r}
    BY <1>2, <2>1 DEF LoopsWait
  <2>2. CASE p \in S /\ q \in S
    BY <1>2, <2>2 DEF IsPingLoop
  <2>3. ASSUME NEW x \in rpcs \ {r}, NEW y \in S, IsPingLoop(x), IsPingLoop(y), x.src = y.src
        PROVE  FALSE
    <3>1. IsPingLoop(r) /\ r.src = x.src
      BY <2>3 DEF IsPingLoop
    <3> QED
      BY <2>3, <3>1 DEF LoopsWait
  <2> QED
    BY <1>2, <2>1, <2>2, <2>3 DEF Replace
<1> QED
  BY <1>1, <1>2 DEF LoopsWait

\* They still wait when the gossip loop of n has ended and nobody waits for n's calls.
LEMMA IdleLoops ==
  ASSUME LoopsWait, NEW n \in Node, \A q \in rpcs : q.src \in Node,
         \A m \in Node : m # n => pinger'[m].phase = pinger[m].phase,
         \A q \in rpcs' : /\ q.waiter = "collecting" => q.src # n
                          /\ q.kind = "ping" => q.waiter # "detached"
                          /\ q.waiter = "collecting" =>
                               \E r \in rpcs : /\ r.kind = q.kind /\ r.src = q.src
                                               /\ r.waiter = "collecting"
                                               /\ q.kind = "ping" => q = r
  PROVE  LoopsWait'
<1>1. ASSUME NEW q \in rpcs', q.waiter = "collecting"
      PROVE  pinger'[q.src].phase = q.kind
  BY <1>1 DEF LoopsWait
<1>2. ASSUME NEW p \in rpcs', NEW q \in rpcs', IsPingLoop(p), IsPingLoop(q), p.src = q.src
      PROVE  p = q
  BY <1>2 DEF LoopsWait, IsPingLoop
<1> QED
  BY <1>1, <1>2 DEF LoopsWait

\* Nobody waits for what is left of a call that is given up.
LEMMA LeftOvers ==
  ASSUME NEW r, IsCall(r)
  PROVE  /\ \A q \in Abandoned(r) : q.waiter = "gone"
         /\ \A q \in AbandonedRelay(r) : q.waiter = "gone"
BY DEF IsCall, Abandoned, AbandonedRelay, Call

\* An answer has the kind, the caller and the waiter of its call.
LEMMA AnswerKeeps ==
  ASSUME NEW r, IsCall(r), NEW ok \in BOOLEAN, NEW changes,
         NEW A, A = Answered(r, ok, changes)
  PROVE  /\ \A q \in A : q.waiter = r.waiter /\ q.kind = r.kind /\ q.src = r.src
         /\ \A p, q \in A : p = q
BY DEF IsCall, Answered

\* The steps of handlers, and a lost request.
LEMMA HandlersLoops ==
  ASSUME Inv, LoopsWait, NEW r \in rpcs,
         \/ HandlePing(r) \/ HandlePingRequest(r) \/ HandleRelayedPing(r)
         \/ RelayOk(r) \/ RelayFailed(r) \/ LoseRequest(r)
  PROVE  LoopsWait'
<1>1. IsCall(r)
  BY DEF Inv, CallsInv, GoodCall
<1>s. \A q \in rpcs : q.src \in Node
  BY DEF Inv, CallsInv, GoodCall, IsCall
<1>2. CASE HandlePing(r)
  <2>1. PICK A, ch : \E ok \in BOOLEAN : A = Answered(r, ok, ch) /\ rpcs' = Replace(r, A)
    BY <1>2 DEF HandlePing, handlePing, pingResponse
  <2>2. pinger' = pinger
    BY <1>2 DEF HandlePing, handlePing, pingResponse
  <2>3. /\ \A q \in A : q.waiter = r.waiter /\ q.kind = r.kind /\ q.src = r.src
        /\ \A p, q \in A : p = q
    BY <1>1, <2>1, AnswerKeeps
  <2> QED
    BY <2>1, <2>2, <2>3, <1>s, ReplaceLoops
<1>3. CASE HandlePingRequest(r)
  <2>1. PICK v : rpcs' = Replace(r, {[r EXCEPT !.stage = "relay", !.via = v]})
    BY <1>3 DEF HandlePingRequest
  <2>2. PICK c : c = [r EXCEPT !.stage = "relay", !.via = v]
    OBVIOUS
  <2>3. c.waiter = r.waiter /\ c.kind = r.kind /\ c.src = r.src
    BY <1>1, <2>2 DEF IsCall
  <2>4. rpcs' = Replace(r, {c}) /\ pinger' = pinger
    BY <1>3, <2>1, <2>2 DEF HandlePingRequest
  <2> QED
    BY <2>3, <2>4, <1>s, ReplaceLoops
<1>4. CASE HandleRelayedPing(r)
  <2>1. PICK ch : rpcs' = Replace(r, {[r EXCEPT !.stage = "relayed", !.back = ch]})
    BY <1>4 DEF HandleRelayedPing, handlePing, pingResponse
  <2>2. PICK c : c = [r EXCEPT !.stage = "relayed", !.back = ch]
    OBVIOUS
  <2>3. c.waiter = r.waiter /\ c.kind = r.kind /\ c.src = r.src
    BY <1>1, <2>2 DEF IsCall
  <2>4. rpcs' = Replace(r, {c}) /\ pinger' = pinger
    BY <1>4, <2>1, <2>2 DEF HandleRelayedPing, handlePing, pingResponse
  <2> QED
    BY <2>3, <2>4, <1>s, ReplaceLoops
<1>5. CASE RelayOk(r)
  <2>1. PICK A, ch : \E ok \in BOOLEAN : A = Answered(r, ok, ch) /\ rpcs' = Replace(r, A)
    BY <1>5 DEF RelayOk
  <2>2. pinger' = pinger
    BY <1>5 DEF RelayOk
  <2>3. /\ \A q \in A : q.waiter = r.waiter /\ q.kind = r.kind /\ q.src = r.src
        /\ \A p, q \in A : p = q
    BY <1>1, <2>1, AnswerKeeps
  <2> QED
    BY <2>1, <2>2, <2>3, <1>s, ReplaceLoops
<1>6. CASE RelayFailed(r)
  <2>1. PICK A, ch : \E ok \in BOOLEAN :
          A = Answered(r, ok, ch) /\ rpcs' = Replace(r, A \cup AbandonedRelay(r))
    BY <1>6 DEF RelayFailed
  <2>2. PICK S : S = A \cup AbandonedRelay(r)
    OBVIOUS
  <2>a. /\ \A q \in A : q.waiter = r.waiter /\ q.kind = r.kind /\ q.src = r.src
        /\ \A p, q \in A : p = q
    BY <1>1, <2>1, AnswerKeeps
  <2>b. \A q \in AbandonedRelay(r) : q.waiter = "gone"
    BY <1>1, LeftOvers
  <2>3. /\ \A q \in S : \/ q.waiter = "gone"
                        \/ q.waiter = r.waiter /\ q.kind = r.kind /\ q.src = r.src
        /\ \A p, q \in S : p.waiter # "gone" /\ q.waiter # "gone" => p = q
    BY <2>2, <2>a, <2>b
  <2>4. rpcs' = Replace(r, S) /\ pinger' = pinger
    BY <1>6, <2>1, <2>2 DEF RelayFailed
  <2> QED
    BY <2>3, <2>4, <1>s, ReplaceLoops
<1>7. CASE LoseRequest(r)
  BY <1>7, <1>s, ReplaceLoops DEF LoseRequest
<1> QED
  BY <1>2, <1>3, <1>4, <1>5, <1>6, <1>7

\* A gossip loop starts a ping.
LEMMA PingLoops ==
  ASSUME Inv, LoopsWait, NEW n \in Node, NEW t \in Node, Ping(n, t)
  PROVE  LoopsWait'
<1>1. PICK c : c = Call("ping", n, t, t, Request(nodes[n], n))
  OBVIOUS
<1>2. c.kind = "ping" /\ c.src = n /\ c.waiter = "collecting"
  BY <1>1 DEF Call
<1>3. rpcs' = rpcs \cup {c} /\ pinger[n].phase = "idle"
  BY <1>1 DEF Ping, Idle
<1>4. /\ pinger'[n].phase = "ping"
      /\ \A m \in Node \ {n} : pinger'[m] = pinger[m]
  BY DEF Ping, Inv, PingersInv, Idle
<1>5. \A r \in rpcs : r.src \in Node /\ r.kind \in {"ping", "ping-req"}
  BY DEF Inv, CallsInv, GoodCall, IsCall
<1>6. \A r \in rpcs : r.waiter = "collecting" => r.src # n
  BY <1>3, <1>5 DEF LoopsWait
<1> QED
  BY <1>2, <1>3, <1>4, <1>5, <1>6 DEF LoopsWait, IsPingLoop

\* A ping is answered and the gossip loop ends.
LEMMA PingOkLoops ==
  ASSUME Inv, LoopsWait, NEW r \in rpcs, PingOk(r)
  PROVE  LoopsWait'
<1>1. r.kind = "ping" /\ r.waiter = "collecting" /\ r.src \in Node
  BY DEF PingOk, Inv, CallsInv, GoodCall, CallOk, IsCall, LoopsWait
<1>2. /\ rpcs' = rpcs \ {r} /\ \A q \in rpcs : q.src \in Node
      /\ \A m \in Node : m # r.src => pinger'[m].phase = pinger[m].phase
  BY DEF PingOk, Replace, Inv, PingersInv, CallsInv, GoodCall, IsCall
<1>3. \A q \in rpcs' : q.waiter = "collecting" => q.src # r.src
  BY <1>1, <1>2 DEF LoopsWait, IsPingLoop
<1> QED
  BY <1>1, <1>2, <1>3, IdleLoops DEF LoopsWait

\* A gossip loop goes on from its ping to ping-reqs.
LEMMA PingFailedLoops ==
  ASSUME Inv, LoopsWait, NEW r \in rpcs, PingFailed(r)
  PROVE  LoopsWait'
<1>1. IsCall(r) /\ r.kind = "ping" /\ r.waiter = "collecting" /\ r.src \in Node
  BY DEF PingFailed, Inv, CallsInv, GoodCall, IsCall
<1> DEFINE n == r.src
<1> DEFINE req(h) == Call("ping-req", n, h, r.dst, Request(nodes[n], n))
<1>a. PICK P \in SUBSET (Pingable(nodes[n], n) \ {r.dst}) :
        /\ rpcs' = Replace(r, Abandoned(r) \cup {req(h) : h \in P})
        /\ pinger' = [pinger EXCEPT ![n] = [@ EXCEPT !.phase = "ping-req",
                                                     !.helpers = Cardinality(P)]]
  BY DEF PingFailed
<1>b. PICK S : S = {req(h) : h \in P}
  OBVIOUS
<1>2. /\ rpcs' = Replace(r, Abandoned(r) \cup S)
      /\ \A q \in S : q.kind = "ping-req" /\ q.src = n /\ q.waiter = "collecting"
  BY <1>a, <1>b DEF Call
<1>3. pinger'[n].phase = "ping-req" /\ \A m \in Node \ {n} : pinger'[m] = pinger[m]
  <2>1. pinger'[n] = [pinger[n] EXCEPT !.phase = "ping-req", !.helpers = Cardinality(P)]
    BY <1>1, <1>a DEF Inv, PingersInv
  <2>2. IsPinger(pinger[n])
    BY <1>1 DEF Inv, PingersInv
  <2> QED
    BY <1>1, <1>a, <2>1, <2>2 DEF Inv, PingersInv, IsPinger
<1>4. \A q \in Abandoned(r) : q.kind = "ping" /\ q.waiter = "gone"
  BY <1>1 DEF Abandoned, IsCall
<1>5. \A q \in rpcs : q.src \in Node
  BY DEF Inv, CallsInv, GoodCall, IsCall
<1>6. \A q \in rpcs \ {r} : q.waiter = "collecting" => q.src # n
  BY <1>1 DEF LoopsWait, IsPingLoop
<1> QED
  BY <1>2, <1>3, <1>4, <1>5, <1>6 DEF LoopsWait, IsPingLoop, Replace

\* A ping-req is answered; if it reached the target, the others are detached.
LEMMA PingRequestOkLoops ==
  ASSUME Inv, LoopsWait, NEW r \in rpcs, PingRequestOk(r)
  PROVE  LoopsWait'
<1>1. IsCall(r) /\ r.kind = "ping-req" /\ r.src \in Node
  BY DEF PingRequestOk, Inv, CallsInv, GoodCall, IsCall
<1>2. \A q \in rpcs : q.src \in Node /\ IsCall(q)
  BY DEF Inv, CallsInv, GoodCall, IsCall
<1>3. CASE ~ (r.ok /\ r.waiter = "collecting")
  <2>1. rpcs' = Replace(r, {}) /\ pinger' = pinger
    BY <1>3 DEF PingRequestOk, Replace
  <2> QED
    BY <1>2, <2>1, ReplaceLoops
<1>4. CASE r.ok /\ r.waiter = "collecting"
  <2> DEFINE detach(q) == IF q.src = r.src /\ q.waiter = "collecting"
                            THEN [q EXCEPT !.waiter = "detached"] ELSE q
  <2>1. rpcs' = {detach(q) : q \in rpcs \ {r}} /\ pinger' = [pinger EXCEPT ![r.src] = Idle]
    BY <1>4 DEF PingRequestOk
  <2>2. \A m \in Node : m # r.src => pinger'[m].phase = pinger[m].phase
    BY <2>1 DEF Inv, PingersInv
  <2>3. ASSUME NEW c \in rpcs'
        PROVE  /\ c.waiter = "collecting" => c.src # r.src
               /\ c.kind = "ping" => c.waiter # "detached"
               /\ c.waiter = "collecting" => c \in rpcs
    <3>1. PICK q \in rpcs \ {r} : c = detach(q)
      BY <2>1
    <3>2. CASE q.src = r.src /\ q.waiter = "collecting"
      <4>1. c.waiter = "detached" /\ c.kind = q.kind
        BY <1>2, <3>1, <3>2 DEF IsCall
      <4>2. q.kind = "ping-req"
        BY <1>1, <1>4, <3>2 DEF LoopsWait
      <4> QED
        BY <4>1, <4>2
    <3>3. CASE ~ (q.src = r.src /\ q.waiter = "collecting")
      BY <3>1, <3>3 DEF LoopsWait
    <3> QED
      BY <3>2, <3>3
  <2> QED
    BY <1>1, <1>2, <2>2, <2>3, IdleLoops
<1> QED
  BY <1>3, <1>4

\* A ping-req fails.
LEMMA PingRequestFailedLoops ==
  ASSUME Inv, LoopsWait, NEW r \in rpcs, PingRequestFailed(r)
  PROVE  LoopsWait'
<1>1. IsCall(r) /\ \A q \in rpcs : q.src \in Node
  BY DEF Inv, CallsInv, GoodCall, IsCall
<1>2. \A m \in Node : pinger'[m].phase = pinger[m].phase
  <2>1. CASE r.waiter = "collecting"
    BY <1>1, <2>1 DEF PingRequestFailed, Inv, PingersInv, IsPinger
  <2>2. CASE r.waiter # "collecting"
    BY <2>2 DEF PingRequestFailed
  <2> QED
    BY <2>1, <2>2
<1>3. rpcs' = Replace(r, Abandoned(r))
  BY DEF PingRequestFailed
<1>4. \A q \in Abandoned(r) : q.waiter = "gone"
  BY <1>1, LeftOvers
<1> QED
  BY <1>1, <1>2, <1>3, <1>4, ReplaceLoops

\* A gossip loop ends after its ping-reqs.
LEMMA IndirectPingDoneLoops ==
  ASSUME Inv, LoopsWait, NEW n \in Node, IndirectPingDone(n)
  PROVE  LoopsWait'
<1>1. /\ rpcs' = rpcs /\ \A q \in rpcs : q.src \in Node
      /\ \A m \in Node : m # n => pinger'[m].phase = pinger[m].phase
  BY DEF IndirectPingDone, Inv, CallsInv, GoodCall, IsCall, PingersInv
<1>2. \A q \in rpcs : q.waiter = "collecting" => q.src # n
  BY DEF IndirectPingDone
<1> QED
  BY <1>1, <1>2, IdleLoops DEF LoopsWait

\* A process crashes.
LEMMA CrashLoops ==
  ASSUME Inv, LoopsWait, NEW n \in Node, Crash(n)
  PROVE  LoopsWait'
<1>1. /\ \A q \in rpcs : q.src \in Node
      /\ \A m \in Node : m # n => pinger'[m].phase = pinger[m].phase
  BY DEF Crash, Inv, CallsInv, GoodCall, IsCall, PingersInv
<1>2. ASSUME NEW q \in rpcs'
      PROVE  /\ q.waiter = "collecting" => q.src # n
             /\ q.kind = "ping" => q.waiter # "detached"
             /\ q.waiter = "collecting" =>
                  \E r \in rpcs : /\ r.kind = q.kind /\ r.src = q.src
                                  /\ r.waiter = "collecting"
                                  /\ q.kind = "ping" => q = r
  <2>1. PICK r \in rpcs : q \in SurvivesCrash(r, n)
    BY DEF Crash
  <2>2. IsCall(r) /\ CallOk(r, Up)
    BY DEF Inv, CallsInv, GoodCall
  <2>3. CASE q.waiter = "gone"
    BY <2>3
  <2>4. CASE q.waiter # "gone" /\ r.dst = n /\ r.stage \in {"relay", "relayed"}
    <3>1. /\ r.waiter # "gone"
          /\ q = [r EXCEPT !.stage = "dead", !.via = NoRequest, !.back = Empty]
      BY <2>1, <2>2, <2>4, LeftOvers DEF SurvivesCrash
    <3>2. q.kind = r.kind /\ q.src = r.src /\ q.waiter = r.waiter
      BY <2>2, <3>1 DEF IsCall
    <3> QED
      BY <2>2, <2>4, <3>1, <3>2 DEF CallOk
  <2>5. CASE q.waiter # "gone" /\ ~ (r.dst = n /\ r.stage \in {"relay", "relayed"})
    <3>1. q = r /\ ~ (r.src = n /\ r.waiter # "gone")
      BY <2>1, <2>2, <2>5, LeftOvers DEF SurvivesCrash
    <3> QED
      BY <2>5, <3>1 DEF LoopsWait
  <2> QED
    BY <2>3, <2>4, <2>5
<1> QED
  BY <1>1, <1>2, IdleLoops

\* Steps that touch neither calls nor gossip loops.
LEMMA SameLoops ==
  ASSUME LoopsWait, rpcs' = rpcs, pinger' = pinger
  PROVE  LoopsWait'
BY DEF LoopsWait

-----------------------------------------------------------------------------
(* Every step                                                              *)

\* What a step does to the processes: nothing, or one of them evolves, starts or stops.
Step ==
  \/ nodes' = nodes /\ clock' = clock /\ Up' = Up
  \/ \E n \in Node : Evolves(n) \/ Starts(n) \/ Stops(n)

\* The calls of gossip.
LEMMA GossipStep ==
  ASSUME Inv, LoopsWait, Gossip
  PROVE  Inv' /\ LoopsWait' /\ Step
<1>0. \A r \in rpcs : r.src \in Node /\ r.dst \in Node /\ r.target \in Node
  BY DEF Inv, CallsInv, GoodCall, IsCall
<1>1. CASE \E n, t \in Node : Ping(n, t)
  BY <1>1, PingInv, PingLoops DEF Ping, Step, Up
<1>2. CASE \E r \in rpcs : HandlePing(r)
  BY <1>0, <1>2, HandlePingInv, HandlersLoops DEF Step
<1>3. CASE \E r \in rpcs : PingOk(r)
  BY <1>0, <1>3, PingOkInv, PingOkLoops DEF Step
<1>4. CASE \E r \in rpcs : PingFailed(r)
  BY <1>4, PingFailedInv, PingFailedLoops DEF PingFailed, Step, Up
<1>5. CASE \E r \in rpcs : HandlePingRequest(r)
  BY <1>0, <1>5, HandlePingRequestInv, HandlersLoops DEF Step
<1>6. CASE \E r \in rpcs : HandleRelayedPing(r)
  BY <1>0, <1>6, HandleRelayedPingInv, HandlersLoops DEF Step
<1>7. CASE \E r \in rpcs : RelayOk(r)
  BY <1>0, <1>7, RelayOkInv, HandlersLoops DEF Step
<1>8. CASE \E r \in rpcs : RelayFailed(r)
  BY <1>0, <1>8, RelayFailedInv, HandlersLoops DEF Step
<1>9. CASE \E r \in rpcs : PingRequestOk(r)
  BY <1>0, <1>9, PingRequestOkInv, PingRequestOkLoops DEF Step
<1>10. CASE \E r \in rpcs : PingRequestFailed(r)
  BY <1>0, <1>10, PingRequestFailedInv, PingRequestFailedLoops DEF Step
<1>11. CASE \E r \in rpcs : LoseRequest(r)
  <2>1. PICK r \in rpcs : LoseRequest(r)
    BY <1>11
  <2>2. Inv' /\ LoopsWait'
    BY <2>1, LoseRequestInv, HandlersLoops
  <2>3. Step
    BY <2>1 DEF LoseRequest, Step, Up
  <2> QED BY <2>2, <2>3
<1>12. CASE \E n \in Node : IndirectPingDone(n)
  BY <1>12, IndirectPingDoneInv, IndirectPingDoneLoops DEF IndirectPingDone, Step, Up
<1> QED
  BY <1>1, <1>2, <1>3, <1>4, <1>5, <1>6, <1>7, <1>8, <1>9, <1>10, <1>11, <1>12 DEF Gossip

\* Suspicion timers, crashes, restarts and administration.
LEMMA OtherStep ==
  ASSUME Inv, LoopsWait, Suspicion \/ Lifecycle
  PROVE  Inv' /\ LoopsWait' /\ Step
<1>0. Crashing \subseteq Node /\ Administered \subseteq Node
  BY ParameterAssumption
<1>1. CASE \E n, a \in Node : Expire(n, a)
  BY <1>1, ExpireInv, SameLoops DEF Expire, Step
<1>2. CASE \E n \in Node : \E e \in nodes[n].expired : DeclareFaulty(n, e)
  BY <1>2, DeclareFaultyInv, SameLoops DEF DeclareFaulty, Step
<1>3. CASE \E n \in Crashing : Crash(n)
  BY <1>0, <1>3, CrashInv, CrashLoops DEF Step
<1>4. CASE \E n \in Crashing : Restart(n)
  BY <1>0, <1>4, RestartInv, SameLoops DEF Restart, Step
<1>5. CASE \E n \in Administered : LeaveCluster(n)
  BY <1>0, <1>5, LeaveClusterInv, SameLoops DEF LeaveCluster, Step
<1>6. CASE \E n \in Administered : Rejoin(n)
  BY <1>0, <1>6, RejoinInv, SameLoops DEF Rejoin, Step
<1>7. CASE \E n \in Crashing, p \in Node : Join(n, p)
  BY <1>0, <1>7, JoinInv, SameLoops DEF Join, Step
<1> QED
  BY <1>1, <1>2, <1>3, <1>4, <1>5, <1>6, <1>7 DEF Suspicion, Lifecycle

\* The invariant is inductive.
LEMMA NextStep ==
  ASSUME Inv, LoopsWait, [Next]_vars
  PROVE  Inv' /\ LoopsWait' /\ Step
<1>1. CASE UNCHANGED vars
  BY <1>1 DEF vars, Inv, Base, NodesInv, PingersInv, CallsInv, LoopsWait, Step, Up
<1> QED
  BY <1>1, GossipStep, OtherStep DEF Next

-----------------------------------------------------------------------------
(* Initial states                                                          *)

\* A process that knows every node in its first incarnation is healthy.
LEMMA JoinedFacts ==
  ASSUME NEW n \in Node, NEW limit \in [Node -> Nat],
         NEW members \in [Node -> MemberRecord],
         \A a \in Node : /\ members[a].incarnation = 0 /\ members[a].status = Alive
                         /\ limit[a] = 0,
         NEW maxP \in Nat,
         NEW s, s = [members |-> members, changes |-> Empty, maxP |-> maxP,
                     timers |-> Empty, expired |-> {}]
  PROVE  Healthy(n, s, limit) /\ Own(n, s, limit)
<1>2. /\ s = [members |-> s.members, changes |-> s.changes, maxP |-> s.maxP,
              timers |-> s.timers, expired |-> s.expired]
      /\ s.members = members /\ s.changes = Empty /\ s.maxP = maxP
      /\ s.timers = Empty /\ s.expired = {}
  <2>1. /\ s.members = members /\ s.changes = Empty /\ s.maxP = maxP
        /\ s.timers = Empty /\ s.expired = {}
    OBVIOUS
  <2> QED
    BY <2>1
<1>3. IsMap(members, MemberRecord)
  BY DEF IsMap
<1>4. \A S : IsMap(Empty, S) /\ DOMAIN Empty = {}
  BY EmptyMap
<1>5. IsNode(s)
  BY <1>2, <1>3, <1>4 DEF IsNode
<1>6. KnownUpTo(s, limit) /\ PiggybacksBeliefs(s)
  BY <1>2, <1>4 DEF KnownUpTo, PiggybacksBeliefs
<1>7. TimesSuspects(s)
  BY <1>2, <1>4 DEF TimesSuspects, Alive, Suspect
<1> QED
  BY <1>2, <1>5, <1>6, <1>7 DEF Healthy, Own

\* The invariant holds initially.
LEMMA InitInv ==
  ASSUME Init
  PROVE  Inv /\ LoopsWait
<1>1. Up = Node
  BY DEF Init, Up
<1>2. Base
  <2>1. state \in [Node -> {"down", "joining", "ready"}] /\ clock \in [Node -> Nat]
    BY DEF Init
  <2>2. losses = 0 /\ MaxLosses \in Nat
    BY ParameterAssumption DEF Init
  <2> QED
    BY <2>1, <2>2 DEF Base
<1>3. NodesInv
  <2>1. ASSUME NEW n \in Node
        PROVE  Healthy(n, nodes[n], clock) /\ Own(n, nodes[n], clock)
    <3>1. PICK members, joined, maxP, s :
            /\ members = [a \in Node |-> [incarnation |-> 0, status |-> Alive]]
            /\ joined = [NewNode EXCEPT !.members = members]
            /\ maxP = MaxPropagations(joined, n)
            /\ s = [joined EXCEPT !.maxP = maxP]
            /\ nodes[n] = s
      BY DEF Init
    <3>2. joined.members = members /\ IsMap(members, MemberRecord)
      BY <3>1 DEF NewNode, IsMap, MemberRecord, Status
    <3>3. maxP \in Nat
      BY <3>1, <3>2, MaxPropagationsType, ZenonT(60)
    <3>4. s = [members |-> members, changes |-> Empty, maxP |-> maxP,
               timers |-> Empty, expired |-> {}]
      BY <3>1, ZenonT(60) DEF NewNode
    <3>5. /\ clock \in [Node -> Nat] /\ members \in [Node -> MemberRecord]
          /\ \A a \in Node : /\ members[a].incarnation = 0 /\ members[a].status = Alive
                             /\ clock[a] = 0
      BY <3>1 DEF Init, MemberRecord, Status
    <3>s. nodes[n] = s
      BY <3>1
    <3>6. Healthy(n, s, clock) /\ Own(n, s, clock)
      BY <3>3, <3>4, <3>5, JoinedFacts
    <3> QED
      BY <3>s, <3>6
  <2>2. nodes = [n \in Node |-> nodes[n]]
    BY DEF Init
  <2> QED
    BY <1>1, <2>1, <2>2 DEF NodesInv
<1>4. PingersInv
  BY DEF Init, PingersInv, IsPinger, Idle
<1> QED
  BY <1>2, <1>3, <1>4 DEF Init, Inv, CallsInv, LoopsWait

-----------------------------------------------------------------------------
(* Theorems                                                                *)

\* The inductive invariant is one: it holds in every reachable state.
THEOREM Invariance == Spec => [](Inv /\ LoopsWait)
<1>1. Init => Inv /\ LoopsWait
  BY InitInv
<1>2. (Inv /\ LoopsWait) /\ [Next]_vars => (Inv /\ LoopsWait)'
  BY NextStep
<1> QED
  BY <1>1, <1>2, PTL DEF Spec

\* The types are as stated (all handlers, timers and lifecycle operations).
THEOREM TypeCorrect == Spec => []TypeOK
<1>1. Inv => TypeOK
  BY DEF Inv, Base, NodesInv, PingersInv, CallsInv, Healthy, GoodCall, TypeOK
<1> QED
  BY <1>1, Invariance, PTL

\* No incarnation of a node is known anywhere before the node has made it (Update's
\* refutation and Reincarnate), for any number of nodes, losses and crashes.
THEOREM IncarnationsOwned == Spec => []NoFutureIncarnation
<1>1. Inv => NoFutureIncarnation
  BY DEF Inv, NodesInv, CallsInv, Healthy, GoodCall, Own, NoFutureIncarnation,
         Incarnation, Up
<1> QED
  BY <1>1, Invariance, PTL

\* A running process never takes itself for suspect or faulty (localOverride).
THEOREM NeverSelfSuspect == Spec => []SelfNeverSuspect
<1>1. Inv => SelfNeverSuspect
  BY DEF Inv, NodesInv, Own, SelfNeverSuspect, Up
<1> QED
  BY <1>1, Invariance, PTL

\* What a process piggybacks is what it believes (Apply and RecordChange).
THEOREM CurrentDissemination == Spec => []DisseminatesCurrentView
<1>1. Inv => DisseminatesCurrentView
  BY DEF Inv, NodesInv, Healthy, DisseminatesCurrentView
<1> QED
  BY <1>1, Invariance, PTL

\* Exactly the suspects have suspicion timers (handleChanges, suspicion.go).
THEOREM TimersExact == Spec => []TimersMatchSuspects
<1>1. Inv => TimersMatchSuspects
  BY DEF Inv, NodesInv, Healthy, TimersMatchSuspects
<1> QED
  BY <1>1, Invariance, PTL

\* Faulty is only declared of what was suspected, and never of oneself (suspicion.go).
THEOREM ExpirySound == Spec => []ExpiryFollowsSuspicion
<1>1. Inv => ExpiryFollowsSuspicion
  BY DEF Inv, NodesInv, Healthy, ExpiryFollowsSuspicion
<1> QED
  BY <1>1, Invariance, PTL

\* Calls and gossip loops belong to processes that run (MakeCall, pingNextMember).
THEOREM OnlyRunningAct == Spec => []ActorsRun
<1>1. Inv => ActorsRun
  BY DEF Inv, NodesInv, PingersInv, CallsInv, GoodCall, ActorsRun
<1> QED
  BY <1>1, Invariance, PTL

\* A node has at most one ping of its own outstanding (pingNextMember).
THEOREM OnePingAtATime == Spec => []LoopsWait
BY Invariance, PTL

\* While a process runs, its knowledge of the others and its own incarnation never
\* go back (Update and nonLocalOverride).
THEOREM NoRegression == Spec => ViewsNeverRegress
<1> DEFINE Forward ==
      \A n \in Node : state[n] # "down" /\ state'[n] # "down" =>
        \A a \in DOMAIN nodes[n].members :
          /\ a \in DOMAIN nodes'[n].members
          /\ IF a = n
               THEN nodes'[n].members[a].incarnation >= nodes[n].members[a].incarnation
               ELSE ~ nonLocalOverride(nodes'[n].members[a], nodes[n].members[a])
<1>1. ASSUME Inv, LoopsWait, [Next]_vars
      PROVE  Forward
  <2>1. Inv' /\ Step
    BY <1>1, NextStep
  <2>2. SUFFICES ASSUME NEW n \in Up, n \in Up', NEW a \in DOMAIN nodes[n].members
                 PROVE  /\ a \in DOMAIN nodes'[n].members
                        /\ a = n => nodes'[n].members[a].incarnation >= nodes[n].members[a].incarnation
                        /\ a # n => ~ nonLocalOverride(nodes'[n].members[a], nodes[n].members[a])
    BY DEF Up
  <2>3. n \in Node /\ Own(n, nodes[n], clock) /\ Own(n, nodes'[n], clock')
    BY <1>1, <2>1, <2>2 DEF Inv, NodesInv, Up
  <2>4. Later(clock, clock')
    BY <1>1, <2>1 DEF Step, Evolves, Starts, Stops, Inv, Base, Later
  <2>5. nodes'[n] = nodes[n] \/ M!Learns(n, nodes[n].members, nodes'[n].members)
    <3>0. DOMAIN nodes = Node
      BY <1>1 DEF Inv, NodesInv
    <3>1. CASE nodes' = nodes
      BY <3>1
    <3>2. ASSUME NEW m \in Node, Evolves(m)
          PROVE  nodes'[n] = nodes[n] \/ M!Learns(n, nodes[n].members, nodes'[n].members)
      BY <2>3, <3>0, <3>2 DEF Evolves
    <3>3. ASSUME NEW m \in Node, Starts(m) \/ Stops(m)
          PROVE  nodes'[n] = nodes[n]
      <4>1. m # n
        BY <2>2, <3>3 DEF Starts, Stops
      <4> QED
        BY <2>3, <3>0, <3>3, <4>1 DEF Starts, Stops
    <3> QED
      BY <2>1, <3>1, <3>2, <3>3 DEF Step
  <2>6. IsEntry(nodes[n].members[a])
    BY <1>1, <2>3 DEF Inv, NodesInv, Healthy, IsNode, IsMap, MemberRecord, IsEntry
  <2>7. a \in DOMAIN nodes'[n].members
    BY <2>5 DEF M!Learns
  <2>8. ASSUME a = n
        PROVE  nodes'[n].members[a].incarnation >= nodes[n].members[a].incarnation
    BY <2>3, <2>4, <2>8 DEF Own, Later
  <2>9. ASSUME a # n
        PROVE  ~ nonLocalOverride(nodes'[n].members[a], nodes[n].members[a])
    BY <2>5, <2>6, <2>9, OverrideIrreflexive, SameOrder DEF M!Learns
  <2> QED
    BY <2>7, <2>8, <2>9
<1>2. Inv /\ LoopsWait /\ [Next]_vars => [Forward]_vars
  BY <1>1
<1> QED
  BY <1>2, Invariance, PTL DEF Spec, ViewsNeverRegress

\* A memberlist that is healthy and knows its owner is legitimate.
LEMMA OwnLegitimate ==
  ASSUME NEW n, NEW s, NEW limit, Healthy(n, s, limit), Own(n, s, limit)
  PROVE  M!Legitimate(n, s.members, limit)
BY DEF Healthy, IsNode, IsMap, KnownUpTo, Own, M!Legitimate, M!Alive, M!Leave, Alive, Leave

\* Each step of Swim is a step of Membership or leaves its variables alone.
LEMMA StepRefines ==
  ASSUME Inv, Inv', Step
  PROVE  [M!Next]_(M!vars)
<1> DEFINE view == [m \in Node |-> nodes[m].members]
<1>0. DOMAIN nodes = Node /\ DOMAIN nodes' = Node /\ clock \in [Node -> Nat]
  BY DEF Inv, NodesInv, Base
<1>1. CASE nodes' = nodes /\ clock' = clock /\ Up' = Up
  BY <1>1 DEF M!vars
<1>2. ASSUME NEW n \in Node, nodes' = [nodes EXCEPT ![n] = nodes'[n]],
             clock' = [clock EXCEPT ![n] = clock'[n]], clock[n] <= clock'[n]
      PROVE  M!OnlyAt(n)
  <2>1. \A m \in Node : m # n => view'[m] = view[m]
    BY <1>0, <1>2
  <2>2. view' = [view EXCEPT ![n] = view'[n]]
    BY <2>1
  <2>3. clock'[n] >= clock[n]
    BY <1>0, <1>2 DEF Inv, Base
  <2> QED
    BY <1>2, <2>2, <2>3 DEF M!OnlyAt
<1>3. ASSUME NEW n \in Node, Evolves(n)
      PROVE  M!Change(n)
  <2>1. M!OnlyAt(n)
    BY <1>2, <1>3 DEF Evolves, Later
  <2>2. M!Legitimate(n, nodes'[n].members, clock')
    BY <1>3, OwnLegitimate DEF Evolves
  <2>3. view[n] = nodes[n].members /\ view'[n] = nodes'[n].members
    OBVIOUS
  <2> QED
    BY <1>3, <2>1, <2>2, <2>3 DEF Evolves, M!Change
<1>4. ASSUME NEW n \in Node, Starts(n)
      PROVE  M!Start(n)
  <2>1. M!OnlyAt(n)
    BY <1>2, <1>4 DEF Starts, Later
  <2>2. M!Legitimate(n, nodes'[n].members, clock')
    BY <1>4, OwnLegitimate DEF Starts
  <2>3. view[n] = nodes[n].members /\ view'[n] = nodes'[n].members
    OBVIOUS
  <2>4. DOMAIN nodes'[n].members = {n}
    BY <1>4 DEF Starts, Own
  <2> QED
    BY <1>4, <2>1, <2>2, <2>3, <2>4 DEF Starts, M!Start
<1>5. ASSUME NEW n \in Node, Stops(n)
      PROVE  M!Stop(n)
  <2>1. nodes' = [nodes EXCEPT ![n] = nodes'[n]] /\ clock' = [clock EXCEPT ![n] = clock'[n]]
        /\ clock[n] <= clock'[n] /\ nodes'[n] = NewNode
    BY <1>0, <1>5 DEF Stops
  <2>2. M!OnlyAt(n)
    BY <1>2, <2>1
  <2>3. view'[n] = NewNode.members
    BY <2>1
  <2>4. DOMAIN NewNode.members = {}
    BY NewNodeFacts
  <2> QED
    BY <1>5, <2>2, <2>3, <2>4 DEF Stops, M!Stop
<1> QED
  BY <1>1, <1>3, <1>4, <1>5 DEF Step, M!Next

\* Swim implements Membership: whatever is lost, late, duplicated by a caller that gave
\* up, or interrupted by a crash, a step changes the memberlist of at most one process,
\* and that memberlist only learns (Update).
THEOREM Refinement == Spec => ImplementsMembership
<1>1. Init => M!Init
  <2>1. ASSUME Init
        PROVE  /\ [n \in Node |-> nodes[n].members]
                    = [n \in Node |-> [a \in Node |-> [incarnation |-> 0, status |-> Alive]]]
               /\ clock = [n \in Node |-> 0] /\ Up = Node
    BY <2>1 DEF Init, Up, NewNode
  <2> QED
    BY <2>1 DEF M!Init, M!Alive, Alive
<1>2. (Inv /\ LoopsWait) /\ (Inv /\ LoopsWait)' /\ [Next]_vars => [M!Next]_(M!vars)
  BY NextStep, StepRefines
<1> QED
  BY <1>1, <1>2, Invariance, PTL DEF Spec, ImplementsMembership, M!Spec
=============================================================================

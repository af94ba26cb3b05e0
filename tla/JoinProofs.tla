----------------------------- MODULE JoinProofs -----------------------------
(***************************************************************************)
(* What Join keeps for every set of addresses and all bootstrap options:   *)
(* the three safety properties of a bootstrap (swim/node.go, Bootstrap;    *)
(* swim/join_sender.go), from one inductive invariant.                     *)
(***************************************************************************)
EXTENDS Join, TLAPS

\* The types of the variables that are not flags, but for size and opts, which play no part
\* in the three properties.
JoinTypeOK ==
  /\ hosts \subseteq Peer \cup {Local}
  /\ pc \in {"bootstrap", "top", "group", "delay", "joined", "set", "done", "failed"}
  /\ call \in [Peer -> {"none", "sent", "answered", "added", "joined", "failed"}]
  /\ nodesJoined \in [Peer -> Nat] /\ merged \in [Peer -> Nat]

\* No goroutine of JoinGroup outlives its group (JoinGroup waits for all of them), and no host
\* is known before the provider is asked.
CallsInGroup ==
  /\ pc # "group" => \A n \in Peer : call[n] = "none"
  /\ pc = "bootstrap" => hosts = {}

\* No node that has joined was, or can be, drawn a second time: it has been called at most
\* once, and it has left the lists of the round.
DrawnOnce(n) ==
  /\ nodesJoined[n] > 0 => call[n] = "none"
  /\ nodesJoined[n] <= 1
  /\ nodesJoined[n] > 0 \/ call[n] # "none" => n \notin preferred \cup nonPreferred

\* This is so while the first round with an answer lasts, and for ever when no listed host
\* is a preferred one.
RoundInv == ~again \/ CollectPreferredNodes = {} => \A n \in Peer : DrawnOnce(n)

\* JoinCluster has not gone past its check for destroyed unless Destroy overtook it.
DestroyInv ==
  /\ gossiping => pc \in {"set", "done"}
  /\ destroyed => \/ overtaken
                  \/ SingleNodeCluster(hosts)
                  \/ pc \in {"bootstrap", "top", "delay", "failed"}

JoinInv == JoinTypeOK /\ CallsInGroup /\ CountedWereMerged /\ RoundInv /\ DestroyInv
-----------------------------------------------------------------------------
\* A bootstrap starts with no hosts, no calls and no joined nodes.
LEMMA JoinInvInit == Init => JoinInv
<1> SUFFICES ASSUME Init PROVE JoinInv
  OBVIOUS
<1> USE DEF Init
<1>1. JoinTypeOK /\ CallsInGroup /\ CountedWereMerged
  BY DEF JoinTypeOK, CallsInGroup, CountedWereMerged
<1>2. RoundInv
  BY DEF RoundInv, DrawnOnce
<1>3. DestroyInv
  BY DEF DestroyInv
<1> QED BY <1>1, <1>2, <1>3 DEF JoinInv

\* SelectGroup takes the nodes it draws out of the lists of the round.
LEMMA DrawnLeaves ==
  ASSUME NEW group, NEW p, NEW q, SelectGroup(group, p, q)
  PROVE  /\ group \subseteq p \cup q
         /\ preferred' \cup nonPreferred' = (p \cup q) \ group
  BY DEF SelectGroup

\* A round begins with no node that has joined, unless it is a later round with a preferred
\* host: CollectPreferredNodes does not ask who has joined, CollectPotentialNodes does.
LEMMA JoinGroupKeepsInv == JoinInv /\ JoinGroup => JoinInv'
<1> SUFFICES ASSUME JoinInv, JoinGroup PROVE JoinInv'
  OBVIOUS
<1> USE DEF JoinInv
<1> DEFINE init == preferred = {} /\ nonPreferred = {}
           p == IF init THEN CollectPreferredNodes ELSE preferred
           q == IF init THEN CollectNonPreferredNodes(Joined) ELSE nonPreferred
<1>1. PICK group \in SUBSET Peer :
        /\ SelectGroup(group, p, q)
        /\ call' = [n \in Peer |-> IF n \in group THEN "sent" ELSE "none"]
  BY DEF JoinGroup
<1>2. /\ again' = (again \/ (init /\ Joined # {}))
      /\ pc = "top" /\ pc' = "group" /\ ~destroyed
      /\ UNCHANGED <<nodesJoined, merged, hosts, gossiping, destroyed, overtaken>>
  BY DEF JoinGroup, CheckDestroyed, sender_vars, node_vars, destroy_vars
<1>3. \A n \in Peer : call[n] = "none"
  BY <1>2 DEF CallsInGroup
<1>4. JoinTypeOK' /\ CallsInGroup'
  BY <1>1, <1>2 DEF JoinTypeOK, CallsInGroup
<1>5. CountedWereMerged'
  BY <1>1, <1>2, <1>3 DEF CountedWereMerged, JoinTypeOK
<1>6. DestroyInv'
  BY <1>2 DEF DestroyInv
<1>7. RoundInv'
  <2> SUFFICES ASSUME ~again' \/ CollectPreferredNodes = {}, NEW n \in Peer
               PROVE  DrawnOnce(n)'
    BY <1>2 DEF RoundInv, CollectPreferredNodes
  <2>1. DrawnOnce(n)
    BY <1>2 DEF RoundInv, JoinTypeOK
  <2>2. nodesJoined[n] > 0 => n \notin p \cup q
    <3>1. CASE init /\ CollectPreferredNodes = {}
      BY <3>1 DEF CollectNonPreferredNodes, CollectPotentialNodes, Joined
    <3>2. CASE init /\ CollectPreferredNodes # {}
      BY <1>2, <3>2 DEF Joined
    <3>3. CASE ~init
      BY <2>1, <3>3 DEF DrawnOnce
    <3> QED BY <3>1, <3>2, <3>3
  <2>3. group \subseteq p \cup q /\ preferred' \cup nonPreferred' = (p \cup q) \ group
    <3> HIDE DEF p, q
    <3> QED BY <1>1, DrawnLeaves
  <2>4. call'[n] # "none" => n \in group
    BY <1>1
  <2> QED
    <3> HIDE DEF p, q
    <3> QED BY <1>2, <2>1, <2>2, <2>3, <2>4 DEF DrawnOnce
<1> QED BY <1>4, <1>5, <1>6, <1>7

\* A goroutine of JoinGroup moves its own call on; AddJoinList is the one step that merges.
LEMMA CallsKeepInv == JoinInv /\ Calls => JoinInv'
<1> SUFFICES ASSUME JoinInv, NEW n \in Peer,
                    Answer(n) \/ Fail(n) \/ AddJoinList(n) \/ Report(n)
             PROVE  JoinInv'
  BY DEF Calls
<1> USE DEF JoinInv, JoinTypeOK
<1>1. PICK next \in {"answered", "failed", "added", "joined"} :
        /\ call[n] # "none" /\ call' = [call EXCEPT ![n] = next]
        /\ merged' = [merged EXCEPT ![n] = @ + IF next = "added" THEN 1 ELSE 0]
        /\ next = "joined" <=> call[n] = "added"
        /\ call[n] # "joined"
  <2>1. CASE Answer(n)
    BY <2>1 DEF Answer
  <2>2. CASE Fail(n)
    BY <2>2 DEF Fail
  <2>3. CASE AddJoinList(n)
    BY <2>3 DEF AddJoinList
  <2>4. CASE Report(n)
    BY <2>4 DEF Report
  <2> QED BY <2>1, <2>2, <2>3, <2>4
<1>2. UNCHANGED <<pc, nodesJoined, hosts, preferred, nonPreferred, again, gossiping, destroyed, overtaken>>
  BY DEF Answer, Fail, AddJoinList, Report, sender_vars, round_vars, node_vars, destroy_vars
<1>3. JoinTypeOK'
  BY <1>1, <1>2
<1>4. CallsInGroup'
  BY <1>1, <1>2 DEF CallsInGroup
<1>5. CountedWereMerged'
  BY <1>1, <1>2 DEF CountedWereMerged
<1>6. RoundInv'
  BY <1>1, <1>2 DEF RoundInv, DrawnOnce, CollectPreferredNodes
<1>7. DestroyInv'
  BY <1>2 DEF DestroyInv
<1> QED BY <1>3, <1>4, <1>5, <1>6, <1>7

\* JoinGroup returns: the goroutines that reported a success are the nodes that are counted.
LEMMA EndGroupKeepsInv == JoinInv /\ EndGroup => JoinInv'
<1> SUFFICES ASSUME JoinInv, EndGroup PROVE JoinInv'
  OBVIOUS
<1> USE DEF JoinInv, JoinTypeOK
<1> DEFINE joined == [n \in Peer |-> nodesJoined[n] + IF call[n] = "joined" THEN 1 ELSE 0]
<1>1. /\ pc = "group" /\ pc' \in {"joined", "failed", "delay"}
      /\ nodesJoined' = joined
      /\ \A n \in Peer : call[n] \in {"none", "joined", "failed"}
      /\ call' = [n \in Peer |-> "none"]
      /\ UNCHANGED <<merged, hosts, preferred, nonPreferred, again, gossiping, destroyed, overtaken>>
  BY DEF EndGroup, NextRound, sender_vars, round_vars, node_vars, destroy_vars
<1>2. JoinTypeOK' /\ CallsInGroup'
  BY <1>1 DEF CallsInGroup
<1>3. CountedWereMerged'
  BY <1>1 DEF CountedWereMerged
<1>4. RoundInv'
  BY <1>1 DEF RoundInv, DrawnOnce, CollectPreferredNodes
<1>5. DestroyInv'
  BY <1>1 DEF DestroyInv
<1> QED BY <1>2, <1>3, <1>4, <1>5

\* Every step of a bootstrap, and of the Destroy beside it, keeps the invariant.
LEMMA JoinInvStep == JoinInv /\ [Next]_vars => JoinInv'
<1> SUFFICES ASSUME JoinInv, [Next]_vars PROVE JoinInv'
  OBVIOUS
<1> DEFINE Quiet == UNCHANGED <<nodesJoined, preferred, nonPreferred, again, call, merged>>
<1> USE DEF JoinInv, sender_vars, round_vars, call_vars, node_vars, destroy_vars
<1>1. CASE Bootstrap
  <2>1. /\ pc = "bootstrap" /\ Quiet /\ UNCHANGED <<gossiping, destroyed, overtaken>>
        /\ \/ pc' = "failed" /\ UNCHANGED hosts
           \/ pc' = "top" /\ hosts' \subseteq Peer \cup {Local}
           \/ pc' = "joined" /\ hosts' \subseteq Peer \cup {Local} /\ SingleNodeCluster(hosts')
    BY <1>1 DEF Bootstrap
  <2>2. JoinTypeOK' /\ CallsInGroup' /\ CountedWereMerged'
    BY <2>1 DEF JoinTypeOK, CallsInGroup, CountedWereMerged
  <2>3. RoundInv'
    BY <2>1 DEF RoundInv, DrawnOnce, CollectPreferredNodes, CallsInGroup
  <2>4. DestroyInv'
    BY <2>1 DEF DestroyInv, SingleNodeCluster
  <2> QED BY <2>2, <2>3, <2>4
<1>2. CASE JoinGroup
  BY <1>2, JoinGroupKeepsInv
<1>3. CASE Calls
  BY <1>3, CallsKeepInv
<1>4. CASE EndGroup
  BY <1>4, EndGroupKeepsInv
<1>5. CASE GiveUpDestroyed \/ Delay \/ StartGossip \/ SetReady \/ Expire \/ Stop \/ Destroy \/ UNCHANGED vars
  <2>1. Quiet /\ UNCHANGED hosts
    BY <1>5 DEF GiveUpDestroyed, Delay, StartGossip, SetReady, Expire, Stop, Destroy, vars
  <2>2. /\ pc' \in {"bootstrap", "top", "group", "delay", "joined", "set", "done", "failed"}
        /\ pc = "group" \/ pc' = "bootstrap" => pc' = pc
    BY <1>5 DEF GiveUpDestroyed, Delay, StartGossip, SetReady, Expire, Stop, Destroy, vars, JoinTypeOK
  <2>3. JoinTypeOK' /\ CallsInGroup' /\ CountedWereMerged'
    <3>1. JoinTypeOK'
      BY <2>1, <2>2 DEF JoinTypeOK
    <3>2. CallsInGroup'
      BY <2>1, <2>2 DEF CallsInGroup
    <3>3. CountedWereMerged'
      BY <2>1 DEF CountedWereMerged
    <3> QED BY <3>1, <3>2, <3>3
  <2>4. RoundInv'
    BY <2>1 DEF RoundInv, DrawnOnce, CollectPreferredNodes
  <2>5. DestroyInv'
    <3> USE DEF DestroyInv, JoinTypeOK
    <3>1. SingleNodeCluster(hosts)' <=> SingleNodeCluster(hosts)
      BY <2>1
    <3>2. CASE GiveUpDestroyed \/ Delay
      BY <3>1, <3>2 DEF GiveUpDestroyed, Delay
    <3>3. CASE StartGossip \/ SetReady
      BY <3>1, <3>3 DEF StartGossip, SetReady
    <3>4. CASE Expire \/ UNCHANGED vars
      BY <3>1, <3>4 DEF Expire, vars
    <3>5. CASE Stop
      BY <3>1, <3>5 DEF Stop
    <3>6. CASE Destroy
      <4>1. overtaken' <=> pc \in {"group", "joined", "set", "done"}
        BY <3>6 DEF Destroy
      <4> QED BY <3>6, <4>1 DEF Destroy
    <3> QED BY <1>5, <3>2, <3>3, <3>4, <3>5, <3>6
  <2> QED BY <2>3, <2>4, <2>5
<1> QED BY <1>1, <1>2, <1>3, <1>4, <1>5 DEF Next, JoinCluster

\* The invariant of a bootstrap holds in every reachable state.
LEMMA JoinInvariant == Spec => []JoinInv
  BY JoinInvInit, JoinInvStep, PTL DEF Spec
-----------------------------------------------------------------------------
\* What JoinCluster counts it has merged, for every set of hosts: the count of a node is the
\* number of times AddJoinList was given its list, whatever times out when.
THEOREM MergedWhatIsCounted == Spec => []CountedWereMerged
<1>1. JoinInv => CountedWereMerged
  BY DEF JoinInv
<1> QED BY <1>1, JoinInvariant, PTL

\* A node is counted twice only if a later round has begun and a listed host is preferred.
THEOREM RepeatsNeedARound == Spec => []RepeatsOnlyInLaterRounds
<1>1. JoinInv => RepeatsOnlyInLaterRounds
  BY DEF JoinInv, JoinTypeOK, RoundInv, DrawnOnce, RepeatsOnlyInLaterRounds
<1> QED BY <1>1, JoinInvariant, PTL

\* Bootstrap starts the gossip of a destroyed node only if Destroy overtook its last check,
\* or if it never checks.
THEOREM DestroyStopsBootstrap == Spec => []DestroyedRarelyGossips
<1>1. JoinInv => DestroyedRarelyGossips
  BY DEF JoinInv, DestroyInv, DestroyedRarelyGossips
<1> QED BY <1>1, JoinInvariant, PTL
=============================================================================

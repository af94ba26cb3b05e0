-------------------------------- MODULE Join --------------------------------
(***************************************************************************)
(* Bootstrapping a node (swim/node.go, Bootstrap; swim/join_sender.go):    *)
(* the bootstrap hosts are called in groups, in parallel, until enough of  *)
(* them have answered, the time is over, or the node is destroyed by       *)
(* another goroutine.                                                      *)
(*                                                                         *)
(* Abstractions.  The slices of nodes of a round are sets, since TakeNode  *)
(* draws at random, and nodesJoined, in which a node may come twice,       *)
(* counts the occurrences of each node.  A provider lists an address once. *)
(* Time is the one question JoinCluster asks, whether maxJoinDuration is   *)
(* over; a call may time out at any moment.  A call whose goroutine has    *)
(* given up leaves the goroutine of MakeCall blocked on its channel for    *)
(* ever and has no other effect.                                           *)
(***************************************************************************)
EXTENDS Integers, FiniteSets, FiniteSetsExt, Functions

CONSTANTS
  Local,    \* the address of this node
  Near,     \* the other addresses a discover provider may list on the host of this node
  Far,      \* the addresses it may list on other hosts
  Options   \* the BootstrapOptions tried: records of size, parallelismFactor, stopped

Peer == Near \cup Far

ASSUME AddressAssumption == /\ Local \notin Peer /\ Near \cap Far = {}
                            /\ IsFiniteSet(Peer)

ASSUME OptionsAssumption ==
  Options \subseteq [size : Nat, parallelismFactor : Nat, stopped : BOOLEAN]

VARIABLES
  opts,              \* BootstrapOptions
  hosts,             \* bootstrapHostsMap: the addresses the provider has listed
  pc,                \* the step Bootstrap takes next
  size,              \* joinSender.size
  preferred,         \* roundPreferredNodes
  nonPreferred,      \* roundNonPreferredNodes
  call,              \* call[n]: the goroutine of JoinGroup that calls n
  nodesJoined,       \* nodesJoined[n]: how often n has been counted
  again,             \* history: a round has begun after some node had joined
  merged,            \* history: merged[n] is how often the list of n was added
  expired,           \* maxJoinDuration is over
  gossiping, ready,  \* the gossip loop runs; node.state.ready
  stopped, destroyed, \* Destroy has stopped the gossip loop; node.state.destroyed
  overtaken          \* history: destroyed after Bootstrap had last asked

sender_vars == <<opts, hosts, size>>
round_vars == <<preferred, nonPreferred, again>>
call_vars == <<call, merged>>
node_vars == <<gossiping, ready>>
destroy_vars == <<stopped, destroyed, overtaken>>
vars == <<pc, nodesJoined, expired, sender_vars, round_vars, call_vars, node_vars, destroy_vars>>

\* "bootstrap"; JoinCluster: "top" of the loop, "group" waits for a group, "delay";
\* Bootstrap: "joined" starts gossip, "set" sets ready; "done" and "failed".
Ended == pc \in {"done", "failed"}

Total(counts) == FoldFunction(+, 0, counts)

Joined == {n \in Peer : nodesJoined[n] > 0}
-----------------------------------------------------------------------------
defaultJoinSize == 3
defaultParallelismFactor == 2

SelectInt(opt, def) == IF opt = 0 THEN def ELSE opt

ParallelismFactor == SelectInt(opts.parallelismFactor, defaultParallelismFactor)

Init ==
  /\ opts \in Options
  /\ hosts = {} /\ size = 0
  /\ pc = "bootstrap"
  /\ preferred = {} /\ nonPreferred = {} /\ again = FALSE
  /\ call = [n \in Peer |-> "none"]
  /\ nodesJoined = [n \in Peer |-> 0] /\ merged = [n \in Peer |-> 0]
  /\ expired = FALSE
  /\ gossiping = FALSE /\ ready = FALSE
  /\ stopped = FALSE /\ destroyed = FALSE /\ overtaken = FALSE

CollectPotentialNodes(joined) == hosts \ ({Local} \cup joined)

CollectPreferredNodes == hosts \cap Far

CollectNonPreferredNodes(joined) ==
  IF CollectPreferredNodes = {} THEN CollectPotentialNodes(joined) ELSE hosts \cap Near

SingleNodeCluster(listed) == listed = {Local}

\* The provider lists some hosts, or fails; newJoinSender counts those that can be joined.
Bootstrap ==
  /\ pc = "bootstrap"
  /\ \E listed \in SUBSET (Peer \cup {Local}) :
       \/ listed = {} /\ pc' = "failed" /\ UNCHANGED sender_vars
       \/ /\ listed # {}
          /\ hosts' = listed
          /\ size' = Min({SelectInt(opts.size, defaultJoinSize), Cardinality(listed \ {Local})})
          /\ pc' = IF SingleNodeCluster(listed) THEN "joined" ELSE "top"
          /\ UNCHANGED opts
  /\ UNCHANGED <<nodesJoined, expired, round_vars, call_vars, node_vars, destroy_vars>>

\* Mutant: the nodes of a group stay in their round.
SelectGroupKeeps(group, p, q) ==
  LET want == (size - Total(nodesJoined)) * ParallelismFactor
  IN  /\ group \subseteq p \cup q
      /\ Cardinality(group) = Min({want, Cardinality(p \cup q)})
      /\ group \subseteq p \/ p \subseteq group
      /\ preferred' = p /\ nonPreferred' = q

\* group can be drawn from the preferred nodes p and, when these are used up, from the
\* others q.
SelectGroup(group, p, q) ==
  LET want == (size - Total(nodesJoined)) * ParallelismFactor
  IN  /\ group \subseteq p \cup q
      /\ Cardinality(group) = Min({want, Cardinality(p \cup q)})
      /\ group \subseteq p \/ p \subseteq group
      /\ preferred' = p \ group /\ nonPreferred' = q \ group

\* Mutant: JoinCluster never asks whether the node was destroyed.
CheckDestroyedNever == FALSE

CheckDestroyed == destroyed

\* JoinCluster ends with an error for a destroyed node.
GiveUpDestroyed ==
  /\ pc = "top" /\ CheckDestroyed
  /\ pc' = "failed"
  /\ UNCHANGED <<nodesJoined, expired, sender_vars, round_vars, call_vars, node_vars, destroy_vars>>

\* JoinGroup begins a round when the last one is used up, selects a group and calls it.
JoinGroup ==
  /\ pc = "top" /\ ~CheckDestroyed
  /\ LET init == preferred = {} /\ nonPreferred = {}
         p == IF init THEN CollectPreferredNodes ELSE preferred
         q == IF init THEN CollectNonPreferredNodes(Joined) ELSE nonPreferred
     IN  /\ \E group \in SUBSET Peer :
              /\ SelectGroup(group, p, q)
              /\ call' = [n \in Peer |-> IF n \in group THEN "sent" ELSE "none"]
         /\ again' = (again \/ (init /\ Joined # {}))
  /\ pc' = "group"
  /\ UNCHANGED <<nodesJoined, merged, expired, sender_vars, node_vars, destroy_vars>>

\* The host that is called answers with its membership; the answer is on its way.
Answer(n) ==
  /\ call[n] = "sent"
  /\ call' = [call EXCEPT ![n] = "answered"]
  /\ UNCHANGED <<pc, nodesJoined, merged, expired, sender_vars, round_vars, node_vars, destroy_vars>>

\* Mutant: a call that timed out is counted.
FailCounted(n) ==
  /\ call[n] \in {"sent", "answered"}
  /\ call' = [call EXCEPT ![n] = "joined"]
  /\ UNCHANGED <<pc, nodesJoined, merged, expired, sender_vars, round_vars, node_vars, destroy_vars>>

\* The call fails, or its context is done first.
Fail(n) ==
  /\ call[n] \in {"sent", "answered"}
  /\ call' = [call EXCEPT ![n] = "failed"]
  /\ UNCHANGED <<pc, nodesJoined, merged, expired, sender_vars, round_vars, node_vars, destroy_vars>>

\* The goroutine that called n adds its list to the memberlist.
AddJoinList(n) ==
  /\ call[n] = "answered"
  /\ call' = [call EXCEPT ![n] = "added"]
  /\ merged' = [merged EXCEPT ![n] = @ + 1]
  /\ UNCHANGED <<pc, nodesJoined, expired, sender_vars, round_vars, node_vars, destroy_vars>>

\* It reports its success.
Report(n) ==
  /\ call[n] = "added"
  /\ call' = [call EXCEPT ![n] = "joined"]
  /\ UNCHANGED <<pc, nodesJoined, merged, expired, sender_vars, round_vars, node_vars, destroy_vars>>

\* Mutant: the time is only looked at after a group of which a call succeeded.
NextRoundPatient(joined) ==
  IF Total(joined) >= size THEN "joined"
  ELSE IF expired /\ (\E n \in Peer : call[n] = "joined") THEN "failed" ELSE "delay"

\* What JoinCluster does after a group: it has joined enough, ends at the time limit, or
\* waits before the next group.
NextRound(joined) ==
  IF Total(joined) >= size THEN "joined"
  ELSE IF expired THEN "failed" ELSE "delay"

EndGroup ==
  /\ pc = "group"
  /\ \A n \in Peer : call[n] \in {"none", "joined", "failed"}
  /\ LET successes == {n \in Peer : call[n] = "joined"}
         joined == [n \in Peer |-> nodesJoined[n] + IF n \in successes THEN 1 ELSE 0]
     IN  nodesJoined' = joined /\ pc' = NextRound(joined)
  /\ call' = [n \in Peer |-> "none"]
  /\ UNCHANGED <<merged, expired, sender_vars, round_vars, node_vars, destroy_vars>>

Delay ==
  /\ pc = "delay"
  /\ pc' = "top"
  /\ UNCHANGED <<nodesJoined, expired, sender_vars, round_vars, call_vars, node_vars, destroy_vars>>

\* maxJoinDuration passes.
Expire ==
  /\ ~expired /\ ~Ended
  /\ expired' = TRUE
  /\ UNCHANGED <<pc, nodesJoined, sender_vars, round_vars, call_vars, node_vars, destroy_vars>>

\* Bootstrap starts gossip, unless it was asked not to, and then sets ready.
StartGossip ==
  /\ pc = "joined"
  /\ gossiping' = ~opts.stopped
  /\ pc' = "set"
  /\ UNCHANGED <<nodesJoined, expired, ready, sender_vars, round_vars, call_vars, destroy_vars>>

SetReady ==
  /\ pc = "set"
  /\ ready' = TRUE
  /\ pc' = "done"
  /\ UNCHANGED <<nodesJoined, expired, gossiping, sender_vars, round_vars, call_vars, destroy_vars>>

\* Another goroutine calls Destroy, which stops gossip ...
Stop ==
  /\ ~stopped
  /\ stopped' = TRUE
  /\ gossiping' = FALSE
  /\ UNCHANGED <<pc, nodesJoined, expired, ready, destroyed, overtaken, sender_vars, round_vars, call_vars>>

\* ... and then sets destroyed.
Destroy ==
  /\ stopped /\ ~destroyed
  /\ destroyed' = TRUE
  /\ overtaken' = (pc \in {"group", "joined", "set", "done"})
  /\ UNCHANGED <<pc, nodesJoined, expired, stopped, sender_vars, round_vars, call_vars, node_vars>>
-----------------------------------------------------------------------------
JoinCluster == GiveUpDestroyed \/ JoinGroup \/ EndGroup \/ Delay

Calls == \E n \in Peer : Answer(n) \/ Fail(n) \/ AddJoinList(n) \/ Report(n)

Next ==
  \/ Bootstrap \/ JoinCluster \/ StartGossip \/ SetReady
  \/ Calls \/ Expire
  \/ Stop \/ Destroy

Spec == Init /\ [][Next]_vars

\* The goroutine of Bootstrap runs, every call ends (its context has a timeout), and the
\* time passes.
FairSpec ==
  /\ Spec
  /\ WF_vars(Bootstrap \/ JoinCluster \/ StartGossip \/ SetReady)
  /\ \A n \in Peer : WF_vars(Fail(n) \/ AddJoinList(n) \/ Report(n))
  /\ WF_vars(Expire)
-----------------------------------------------------------------------------
\* What JoinCluster counts it has merged: a node comes in nodesJoined exactly as often as
\* AddJoinList was given its list (a stopped node ignores it), but for the answers of the group that is still
\* running.  An answer that comes after the timeout is neither merged nor counted.
CountedWereMerged ==
  \A n \in Peer : merged[n] = nodesJoined[n] + IF call[n] \in {"added", "joined"} THEN 1 ELSE 0

\* Within one round no node is joined twice.  A node is counted twice only after a second
\* round has begun, and only if the bootstrap hosts are not all on the host of this node:
\* CollectPotentialNodes leaves out the joined nodes, the other two lists do not.
RepeatsOnlyInLaterRounds ==
  (\E n \in Peer : nodesJoined[n] > 1) => again /\ CollectPreferredNodes # {}

\* A destroyed node gossips only if Destroy overtook the last time JoinCluster asked, or
\* if the node is alone, since JoinCluster then never asks.
DestroyedRarelyGossips ==
  destroyed /\ gossiping => overtaken \/ SingleNodeCluster(hosts)

\* BootstrapOptions.JoinSize, "Minimum number of nodes to join to satisfy a bootstrap."
\* (swim/node.go): a completed bootstrap has joined that many nodes, or all there are.
JoinsEnoughNodes ==
  pc \in {"joined", "set", "done"} => Cardinality(Joined) >= size

\* Bootstrap returns: whatever the hosts do, JoinCluster ends at the latest with the first
\* group that ends after maxJoinDuration.
Returns == <>Ended
=============================================================================

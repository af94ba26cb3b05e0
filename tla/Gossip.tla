------------------------------- MODULE Gossip -------------------------------
(***************************************************************************)
(* The gossip loops of one node (swim/gossip.go), the iterator over its    *)
(* members (swim/memberlist_iter.go) and the flag that is to keep pings    *)
(* apart (swim/node.go, pingNextMember).  Gossip is started and stopped,   *)
(* and single periods are run, by calls that overlap: Bootstrap, Start and *)
(* Stop of the node, and the admin endpoints.  The iterator has no lock,   *)
(* and flags are read and set under separate acquisitions of theirs.       *)
(*                                                                         *)
(* Abstractions.  What a ping finds out is left to Swim: here it ends some *)
(* time.  Members join and fail at any time; one that has failed does not  *)
(* recover.  Delays are any, so the loop that only adjusts them is left    *)
(* out.                                                                    *)
(***************************************************************************)
EXTENDS Integers, FiniteSets, SequencesExt

CONSTANTS
  Local,   \* the address of the node
  Known,   \* the other members it knows at first
  Late,    \* the members that join later
  Unsteady,  \* the members that may fail
  Loop,    \* bound on the period loops that run at the same time
  Caller,  \* bound on the calls that run at the same time
  Ticking  \* the calls that may be requests to run one period

ASSUME MemberAssumption == /\ Local \notin Known \cup Late /\ Known \cap Late = {}
                           /\ IsFiniteSet(Known \cup Late)

ASSUME ActorAssumption == Loop \cap Caller = {} /\ Ticking \subseteq Caller

Actor == Loop \cup Caller

VARIABLES
  list,      \* memberlist.members.list
  pingable,  \* the other members that are alive or suspect
  index,     \* memberlistIter.currentIndex
  stopped,   \* gossip.state.stopped
  pinging,   \* node.state.pinging
  actors,    \* actors[x]: where goroutine x is
  panicked,  \* an index was out of range: the process is gone
  seen,      \* history: the members visited in this round of the iterator
  due,       \* history: the members there were when the round began
  raced      \* history: two periods were at once between their begin and their ping,
             \* after which seen and due are not kept

list_vars == <<list, pingable>>
iter_vars == <<index, seen, due>>
vars == <<list_vars, iter_vars, stopped, pinging, actors, panicked, raced>>

\* A loop is at "check" while it sleeps, and is "idle" when it has ended.  A period goes
\* through "next", "flag", "set" and "ping"; a call of Start through
\* "start", "run" and "spawn", one of Stop through "stop" and "halt".
Step == {"idle", "check", "next", "flag", "set", "ping",
         "start", "run", "spawn", "stop", "halt"}

Idle == [pc |-> "idle", visited |-> {}, limit |-> 0, target |-> Local]

At(x, pc) == ~panicked /\ actors[x].pc = pc

Goto(x, pc) == actors' = [actors EXCEPT ![x].pc = pc]

Choosing(x) == actors[x].pc \in {"next", "flag", "set"}

\* A loop sleeps after its period, the tick handler returns.
AfterPeriod(x) == IF x \in Loop THEN [Idle EXCEPT !.pc = "check"] ELSE Idle
-----------------------------------------------------------------------------
\* The members are shuffled and gossip is stopped.
Init ==
  /\ list \in SetToSeqs(Known \cup {Local})
  /\ pingable = Known
  /\ index = -1
  /\ stopped = TRUE /\ pinging = FALSE
  /\ actors = [x \in Actor |-> Idle]
  /\ panicked = FALSE /\ raced = FALSE
  /\ seen = {} /\ due = ToSet(list)

\* A period begins: Next reads how many members it will visit at most.
BeginPeriod(x) ==
  /\ actors' = [actors EXCEPT ![x] = [Idle EXCEPT !.pc = "next", !.limit = Len(list)]]
  /\ raced' = (raced \/ \E y \in Actor \ {x} : Choosing(y))
  /\ seen' = IF raced' THEN {} ELSE seen
  /\ due' = IF raced' THEN {} ELSE due

\* Mutant: the loop does not ask again whether gossip was stopped.
CheckStoppedOnce(x) ==
  /\ At(x, "check")
  /\ BeginPeriod(x)
  /\ UNCHANGED <<list_vars, index, stopped, pinging, panicked>>

\* RunProtocolPeriodLoop: one turn of a loop begins, or the loop ends.
CheckStopped(x) ==
  /\ At(x, "check")
  /\ IF stopped
       THEN actors' = [actors EXCEPT ![x] = Idle] /\ UNCHANGED <<seen, due, raced>>
       ELSE BeginPeriod(x)
  /\ UNCHANGED <<list_vars, index, stopped, pinging, panicked>>

\* tickHandler runs one period.
Tick(x) ==
  /\ At(x, "idle")
  /\ BeginPeriod(x)
  /\ UNCHANGED <<list_vars, index, stopped, pinging, panicked>>

\* Mutant: the new round begins one member too early.
AdvanceEarly ==
  IF index + 2 >= Len(list)
    THEN /\ index' = 0 /\ list' \in SetToSeqs(ToSet(list))
         /\ due' = IF raced THEN {} ELSE ToSet(list)
    ELSE index' = index + 1 /\ UNCHANGED <<list, due>>

\* Mutant: the new round begins one member too late.
AdvanceLate ==
  IF index >= Len(list)
    THEN /\ index' = 0 /\ list' \in SetToSeqs(ToSet(list))
         /\ due' = IF raced THEN {} ELSE ToSet(list)
    ELSE index' = index + 1 /\ UNCHANGED <<list, due>>

\* The index after the current one; at the end the members are shuffled and a new round
\* begins.
Advance ==
  IF index + 1 >= Len(list)
    THEN /\ index' = 0 /\ list' \in SetToSeqs(ToSet(list))
         /\ due' = IF raced THEN {} ELSE ToSet(list)
    ELSE index' = index + 1 /\ UNCHANGED <<list, due>>

\* Two goroutines write the index at once: it may be any.
AdvanceRaced ==
  /\ index' \in 0 .. Len(list)
  /\ UNCHANGED <<list, due>>

\* What Next goes on with after a member that is pingable, and after another one.
Found(m) == [Idle EXCEPT !.pc = "flag", !.target = m]
Passed(x, m) == [actors[x] EXCEPT !.visited = @ \cup {m}]

\* memberlistIter.Next, one turn: the member at the next index is the one to ping if it
\* is pingable.  An index out of range is the end of the process.
Visit(x) ==
  /\ At(x, "next") /\ Cardinality(actors[x].visited) < actors[x].limit
  /\ \/ Advance
     \/ (\E y \in Actor \ {x} : At(y, "next")) /\ AdvanceRaced
  /\ IF index' >= Len(list')
       THEN panicked' = TRUE /\ UNCHANGED <<actors, seen>>
       ELSE LET member == list'[index' + 1]
            IN  /\ seen' = IF raced THEN {} ELSE {member} \cup (IF index' <= index THEN {} ELSE seen)
                /\ actors' = [actors EXCEPT ![x] =
                     IF member \in pingable THEN Found(member) ELSE Passed(x, member)]
                /\ UNCHANGED panicked
  /\ UNCHANGED <<pingable, stopped, pinging, raced>>

\* As many members were visited as there were at the start, and none is pingable.
NonePingable(x) ==
  /\ At(x, "next") /\ Cardinality(actors[x].visited) >= actors[x].limit
  /\ actors' = [actors EXCEPT ![x] = AfterPeriod(x)]
  /\ UNCHANGED <<list_vars, iter_vars, stopped, pinging, panicked, raced>>

\* Mutant: the flag is not asked.
CheckPingingNot(x) ==
  /\ At(x, "flag")
  /\ Goto(x, "set")
  /\ UNCHANGED <<list_vars, iter_vars, stopped, pinging, panicked, raced>>

\* pingNextMember gives up if a ping is under way ...
CheckPinging(x) ==
  /\ At(x, "flag")
  /\ IF pinging THEN actors' = [actors EXCEPT ![x] = AfterPeriod(x)] ELSE Goto(x, "set")
  /\ UNCHANGED <<list_vars, iter_vars, stopped, pinging, panicked, raced>>

\* ... sets the flag and pings ...
SetPinging(x) ==
  /\ At(x, "set")
  /\ pinging' = TRUE
  /\ Goto(x, "ping")
  /\ UNCHANGED <<list_vars, iter_vars, stopped, panicked, raced>>

\* Mutant: a ping that ends in one of the early returns leaves the flag set.
EndPingKeepsFlag(x) ==
  /\ At(x, "ping")
  /\ pinging' \in {FALSE, pinging}
  /\ actors' = [actors EXCEPT ![x] = AfterPeriod(x)]
  /\ UNCHANGED <<list_vars, iter_vars, stopped, panicked, raced>>

\* ... and clears it however the ping ends.
EndPing(x) ==
  /\ At(x, "ping")
  /\ pinging' = FALSE
  /\ actors' = [actors EXCEPT ![x] = AfterPeriod(x)]
  /\ UNCHANGED <<list_vars, iter_vars, stopped, panicked, raced>>
-----------------------------------------------------------------------------
\* A call of gossip.Start or gossip.Stop; the deprecated /admin/gossip looks which of
\* them it will be, which is then no longer certain.
Call(x) ==
  /\ At(x, "idle")
  /\ Goto(x, "start") \/ Goto(x, "stop")
  /\ UNCHANGED <<list_vars, iter_vars, stopped, pinging, panicked, raced>>

\* gossip.Start returns if gossip is started already ...
Start(x) ==
  /\ At(x, "start")
  /\ Goto(x, IF stopped THEN "run" ELSE "idle")
  /\ UNCHANGED <<list_vars, iter_vars, stopped, pinging, panicked, raced>>

\* Mutant: a loop that has not ended yet is left to go on.
SetRunningOnly(x) ==
  /\ At(x, "run")
  /\ stopped' = FALSE
  /\ Goto(x, "idle")
  /\ UNCHANGED <<list_vars, iter_vars, pinging, panicked, raced>>

\* ... clears stopped ...
SetRunning(x) ==
  /\ At(x, "run")
  /\ stopped' = FALSE
  /\ Goto(x, "spawn")
  /\ UNCHANGED <<list_vars, iter_vars, pinging, panicked, raced>>

\* ... and starts a loop.
Spawn(x) ==
  /\ At(x, "spawn")
  /\ \E g \in Loop :
       /\ At(g, "idle")
       /\ actors' = [actors EXCEPT ![x] = Idle, ![g].pc = "check"]
  /\ UNCHANGED <<list_vars, iter_vars, stopped, pinging, panicked, raced>>

\* gossip.Stop returns if gossip is stopped already ...
Stop(x) ==
  /\ At(x, "stop")
  /\ Goto(x, IF stopped THEN "idle" ELSE "halt")
  /\ UNCHANGED <<list_vars, iter_vars, stopped, pinging, panicked, raced>>

\* ... and sets stopped; the loops end when they look.
SetStopped(x) ==
  /\ At(x, "halt")
  /\ stopped' = TRUE
  /\ Goto(x, "idle")
  /\ UNCHANGED <<list_vars, iter_vars, pinging, panicked, raced>>

\* memberlist.Apply inserts a member it does not know anywhere but at the end.
Join(m) ==
  /\ ~panicked /\ m \notin ToSet(list)
  /\ \E i \in 1 .. Len(list) : list' = InsertAt(list, i, m)
  /\ pingable' = pingable \cup {m}
  /\ UNCHANGED <<iter_vars, stopped, pinging, actors, panicked, raced>>

\* A member becomes faulty or leaves.
Fail(m) ==
  /\ ~panicked /\ m \in pingable
  /\ pingable' = pingable \ {m}
  /\ UNCHANGED <<list, iter_vars, stopped, pinging, actors, panicked, raced>>

Period(x) ==
  Visit(x) \/ NonePingable(x) \/ CheckPinging(x) \/ SetPinging(x) \/ EndPing(x)

Control(x) == Start(x) \/ SetRunning(x) \/ Spawn(x) \/ Stop(x) \/ SetStopped(x)

Next ==
  \/ \E x \in Loop : CheckStopped(x)
  \/ \E x \in Actor : Period(x)
  \/ \E x \in Ticking : Tick(x)
  \/ \E x \in Caller : Call(x) \/ Control(x)
  \/ \E m \in Late : Join(m)
  \/ \E m \in Unsteady : Fail(m)

Spec == Init /\ [][Next]_vars

\* Loops wake up from their sleep, pings end and calls return.
FairSpec ==
  /\ Spec
  /\ \A x \in Loop : WF_vars(CheckStopped(x))
  /\ \A x \in Actor : WF_vars(Period(x))
  /\ \A x \in Caller : WF_vars(Control(x))
-----------------------------------------------------------------------------
\* However calls of Start and Stop overlap, and however late old loops wake up, gossip
\* that is not stopped has a loop, or a call of Start that is about to start one.
GossipRuns ==
  ~stopped => \/ \E x \in Loop : actors[x].pc # "idle"
              \/ \E x \in Caller : actors[x].pc = "spawn"

\* The flag is set only while some period is at its ping: an old ping never keeps the
\* node from pinging for good.
FlagNotStuck == pinging => \E x \in Actor : actors[x].pc = "ping"

\* Two pings are under way at once only if two periods have passed the test of the flag
\* together.
OnePingUnlessRaced ==
  ~raced => \A x, y \in Actor : actors[x].pc = "ping" /\ actors[y].pc = "ping" => x = y

\* The iterator runs over the end of the list only if two periods have used it at once.
InRangeUnlessRaced == panicked => raced

\* A round of the iterator ends only when it has visited every member there was when it
\* began, although members are inserted before and after the current index meanwhile.
RoundVisitsAll == [][~ (seen \subseteq seen') => due \subseteq seen \/ raced']_vars

\* Loops end once gossip is stopped for good, those included that slept through a
\* Stop and a Start.  Two periods that have met in the iterator could, with one unlucky
\* shuffle after the other, take members from each other for ever.
LoopsEnd ==
  (<>[]stopped) => <>[](raced \/ \A x \in Loop : actors[x].pc = "idle")

Pinged(m) == \E x \in Actor : actors[x].pc = "ping" /\ actors[x].target = m

\* One loop runs and nobody else runs periods.
Alone ==
  /\ ~stopped /\ ~panicked
  /\ Cardinality({x \in Actor : actors[x].pc # "idle"}) = 1

\* A node whose only loop goes on pings every member that stays pingable again and
\* again, whatever the shuffles.
EveryMemberPinged ==
  \A m \in Known \cup Late : (<>[](Alone /\ m \in pingable)) => []<>Pinged(m)
=============================================================================

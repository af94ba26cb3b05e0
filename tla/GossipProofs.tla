---------------------------- MODULE GossipProofs ----------------------------
(***************************************************************************)
(* Proofs about the gossip loops of a node, for any number of loops and of *)
(* calls that overlap, and any members.                                    *)
(*                                                                         *)
(* That at most one ping is under way unless two periods raced is made     *)
(* inductive by how the flag works: until then no two periods are between  *)
(* their begin and their ping, the flag is set whenever one is at its      *)
(* ping, and none that has passed the test of the flag meets one there.    *)
(* That also keeps the iterator to one period at a time, until which the   *)
(* members it has passed are the ones in front of its index: that makes    *)
(* inductive that it stays in range and leaves no member out.              *)
(***************************************************************************)
EXTENDS Gossip, FiniteSetTheorems, SequenceTheorems, TLAPS

\* Each goroutine is somewhere.
ActorsOK ==
  /\ actors = [x \in Actor |-> actors[x]]
  /\ \A x \in Actor : "pc" \in DOMAIN actors[x]

\* What keeps pings apart until two periods meet before theirs.
FlagInv ==
  ~raced =>
    /\ \A x, y \in Actor : Choosing(x) /\ Choosing(y) => x = y
    /\ \A x, y \in Actor : actors[x].pc \in {"set", "ping"} /\ actors[y].pc = "ping" => x = y
    /\ \A x \in Actor : actors[x].pc = "ping" => pinging = TRUE

GossipInv == ActorsOK /\ raced \in BOOLEAN /\ GossipRuns /\ FlagNotStuck /\ FlagInv

\* Goroutine x goes to a step and the others stay where they are.
Moves(x, pc) ==
  /\ ActorsOK' /\ actors'[x].pc = pc
  /\ \A y \in Actor \ {x} : actors'[y] = actors[y]
-----------------------------------------------------------------------------
\* Going to another step moves the goroutine there.
LEMMA GotoMoves ==
  ASSUME ActorsOK, NEW x \in Actor, NEW pc, Goto(x, pc)
  PROVE  Moves(x, pc)
BY DEF ActorsOK, Goto, Moves

\* Beginning or ending a period moves the goroutine.
LEMMA AssignMoves ==
  ASSUME ActorsOK, NEW x \in Actor, NEW r, "pc" \in DOMAIN r,
         actors' = [actors EXCEPT ![x] = r]
  PROVE  Moves(x, r.pc)
BY DEF ActorsOK, Moves

\* A period that ends leaves a loop asleep and a call idle.
LEMMA AfterPeriodMoves ==
  ASSUME ActorsOK, NEW x \in Actor, actors' = [actors EXCEPT ![x] = AfterPeriod(x)]
  PROVE  Moves(x, IF x \in Loop THEN "check" ELSE "idle")
<1> DEFINE r == AfterPeriod(x)
<1>1. "pc" \in DOMAIN r /\ r.pc = IF x \in Loop THEN "check" ELSE "idle"
  BY DEF AfterPeriod, Idle
<1>2. actors' = [actors EXCEPT ![x] = r]
  OBVIOUS
<1> HIDE DEF r
<1>3. Moves(x, r.pc)
  BY <1>1, <1>2, AssignMoves
<1> QED BY <1>1, <1>3

\* A period that begins moves the goroutine to its first step and notes a race.
LEMMA BeginMoves ==
  ASSUME ActorsOK, NEW x \in Actor, BeginPeriod(x)
  PROVE  Moves(x, "next")
<1> DEFINE r == [Idle EXCEPT !.pc = "next", !.limit = Len(list)]
<1>1. "pc" \in DOMAIN r /\ r.pc = "next"
  BY DEF Idle
<1>2. actors' = [actors EXCEPT ![x] = r]
  BY DEF BeginPeriod
<1> HIDE DEF r
<1>3. Moves(x, r.pc)
  BY <1>1, <1>2, AssignMoves
<1> QED BY <1>1, <1>3

\* A turn of the iterator leaves the goroutine there or moves it on to the flag.
LEMMA VisitMoves ==
  ASSUME ActorsOK, NEW x \in Actor, Visit(x)
  PROVE  UNCHANGED actors \/ Moves(x, "next") \/ Moves(x, "flag")
<1>1. CASE index' >= Len(list')
  BY <1>1 DEF Visit
<1>2. CASE ~ (index' >= Len(list'))
  <2> DEFINE m == list'[index' + 1]
             f == Found(m)
             n == Passed(x, m)
  <2>1. "pc" \in DOMAIN f /\ f.pc = "flag"
    BY DEF Idle, Found
  <2>2. "pc" \in DOMAIN n /\ n.pc = "next"
    BY DEF ActorsOK, Visit, At, Passed
  <2>3. actors' = [actors EXCEPT ![x] = IF m \in pingable THEN f ELSE n]
    BY <1>2 DEF Visit
  <2> HIDE DEF f, n, m
  <2>4. actors' = [actors EXCEPT ![x] = f] => Moves(x, f.pc)
    BY <2>1, AssignMoves
  <2>5. actors' = [actors EXCEPT ![x] = n] => Moves(x, n.pc)
    BY <2>2, AssignMoves
  <2> QED BY <2>1, <2>2, <2>3, <2>4, <2>5
<1> QED BY <1>1, <1>2
-----------------------------------------------------------------------------
\* A goroutine that is not about to start a loop, and a loop that does not end, leave
\* gossip running.
LEMMA MoveRuns ==
  ASSUME GossipRuns, NEW x \in Actor, NEW pc, Moves(x, pc), UNCHANGED stopped,
         x \in Loop => pc # "idle", actors[x].pc # "spawn"
  PROVE  GossipRuns'
BY ActorAssumption DEF GossipRuns, Moves, Actor

\* A goroutine that is not at its ping leaves the flag to the one that is.
LEMMA MoveFlag ==
  ASSUME FlagNotStuck, NEW x \in Actor, NEW pc, Moves(x, pc), UNCHANGED pinging,
         actors[x].pc # "ping"
  PROVE  FlagNotStuck'
BY DEF FlagNotStuck, Moves

\* A goroutine that leaves its period, or goes on to the flag, disturbs no ping.
LEMMA MovePings ==
  ASSUME FlagInv, NEW x \in Actor, NEW pc, Moves(x, pc), UNCHANGED <<raced, pinging>>,
         pc \notin {"next", "flag", "set", "ping"} \/ (Choosing(x) /\ pc \in {"next", "flag"})
  PROVE  FlagInv'
BY DEF FlagInv, Moves, Choosing

\* A period that begins meets another one before its ping, or notes none.
LEMMA BeginPings ==
  ASSUME FlagInv, raced \in BOOLEAN, NEW x \in Actor, Moves(x, "next"), UNCHANGED pinging,
         raced' = (raced \/ \E y \in Actor \ {x} : Choosing(y))
  PROVE  FlagInv' /\ raced' \in BOOLEAN
<1>1. raced' \in BOOLEAN
  BY Zenon
<1>2. ~raced' => ~raced /\ \A y \in Actor \ {x} : ~Choosing(y)
  BY Zenon
<1> QED BY <1>1, <1>2 DEF FlagInv, Moves, Choosing

\* The goroutine that passes the flag finds nobody at a ping.
LEMMA FlagPings ==
  ASSUME FlagInv, NEW x \in Actor, Moves(x, "set"), UNCHANGED <<raced, pinging>>,
         ~pinging, actors[x].pc = "flag"
  PROVE  FlagInv'
BY DEF FlagInv, Moves, Choosing

\* The goroutine that sets the flag is the only one at a ping.
LEMMA SetPings ==
  ASSUME FlagInv, NEW x \in Actor, Moves(x, "ping"), UNCHANGED raced,
         pinging' = TRUE, actors[x].pc = "set"
  PROVE  FlagInv'
BY DEF FlagInv, Moves, Choosing

\* The goroutine that clears the flag was the only one at a ping.
LEMMA EndPings ==
  ASSUME FlagInv, NEW x \in Actor, NEW pc, Moves(x, pc), UNCHANGED raced,
         actors[x].pc = "ping", pc \notin {"next", "flag", "set", "ping"}
  PROVE  FlagInv'
BY DEF FlagInv, Moves, Choosing

\* A step that leaves the goroutines, the flag and stopped alone keeps the invariant.
LEMMA QuietKeeps ==
  ASSUME GossipInv, UNCHANGED <<actors, pinging, stopped, raced>>
  PROVE  GossipInv'
BY DEF GossipInv, ActorsOK, GossipRuns, FlagNotStuck, FlagInv, Choosing

\* A move that touches neither the flag nor stopped keeps the invariant.
LEMMA MoveKeeps ==
  ASSUME GossipInv, NEW x \in Actor, NEW pc, Moves(x, pc),
         UNCHANGED <<stopped, pinging, raced>>,
         actors[x].pc \notin {"spawn", "ping"}, x \in Loop => pc # "idle",
         pc \notin {"next", "flag", "set", "ping"} \/ (Choosing(x) /\ pc \in {"next", "flag"})
  PROVE  GossipInv'
BY MoveRuns, MoveFlag, MovePings DEF GossipInv, Moves
-----------------------------------------------------------------------------
\* A node that has not started gossip satisfies the invariant.
LEMMA InitGossip == Init => GossipInv
<1> SUFFICES ASSUME Init PROVE GossipInv
  OBVIOUS
<1>1. actors = [x \in Actor |-> Idle] /\ stopped = TRUE /\ pinging = FALSE /\ raced = FALSE
  BY DEF Init
<1>2. "pc" \in DOMAIN Idle /\ Idle.pc = "idle"
  BY DEF Idle
<1>3. \A x \in Actor : actors[x].pc = "idle"
  BY <1>1, <1>2
<1>4. ActorsOK
  BY <1>1, <1>2 DEF ActorsOK
<1> QED BY <1>1, <1>3, <1>4 DEF GossipInv, GossipRuns, FlagNotStuck, FlagInv, Choosing

\* The steps of a period keep the invariant.
LEMMA PeriodKeeps ==
  ASSUME GossipInv, NEW x \in Actor, Period(x)
  PROVE  GossipInv'
<1> USE DEF GossipInv
<1> DEFINE after == IF x \in Loop THEN "check" ELSE "idle"
<1>1. after \in {"check", "idle"} /\ (x \in Loop => after # "idle")
  OBVIOUS
<1> HIDE DEF after
<1>2. CASE Visit(x)
  <2>1. actors[x].pc = "next" /\ UNCHANGED <<stopped, pinging, raced>>
    BY <1>2 DEF Visit, At
  <2>2. UNCHANGED actors \/ Moves(x, "next") \/ Moves(x, "flag")
    BY <1>2, VisitMoves
  <2> QED BY <2>1, <2>2, MoveKeeps, QuietKeeps DEF Choosing
<1>3. CASE NonePingable(x)
  <2>1. Moves(x, after)
    BY <1>3, AfterPeriodMoves DEF NonePingable, after
  <2> QED BY <1>1, <1>3, <2>1, MoveKeeps DEF NonePingable, At
<1>4. CASE CheckPinging(x)
  <2>1. actors[x].pc = "flag" /\ UNCHANGED <<stopped, pinging, raced>>
    BY <1>4 DEF CheckPinging, At
  <2>2. CASE pinging
    <3>1. Moves(x, after)
      BY <1>4, <2>2, AfterPeriodMoves DEF CheckPinging, after
    <3> QED BY <1>1, <2>1, <3>1, MoveKeeps
  <2>3. CASE ~pinging
    <3>1. Moves(x, "set")
      BY <1>4, <2>3, GotoMoves DEF CheckPinging
    <3> QED BY <2>1, <2>3, <3>1, MoveRuns, MoveFlag, FlagPings DEF Moves
  <2> QED BY <2>2, <2>3
<1>5. CASE SetPinging(x)
  <2>1. actors[x].pc = "set" /\ pinging' = TRUE /\ UNCHANGED <<stopped, raced>>
    BY <1>5 DEF SetPinging, At
  <2>2. Moves(x, "ping")
    BY <1>5, GotoMoves DEF SetPinging
  <2>3. FlagNotStuck'
    BY <2>2 DEF FlagNotStuck, Moves
  <2> QED BY <2>1, <2>2, <2>3, MoveRuns, SetPings DEF Moves
<1>6. CASE EndPing(x)
  <2>1. actors[x].pc = "ping" /\ pinging' = FALSE /\ UNCHANGED <<stopped, raced>>
    BY <1>6 DEF EndPing, At
  <2>2. Moves(x, after)
    BY <1>6, AfterPeriodMoves DEF EndPing, after
  <2>3. FlagNotStuck'
    BY <2>1 DEF FlagNotStuck
  <2> QED BY <1>1, <2>1, <2>2, <2>3, MoveRuns, EndPings DEF Moves
<1> QED BY <1>2, <1>3, <1>4, <1>5, <1>6 DEF Period

\* A period that begins, in a loop that wakes up or for a tick, keeps the invariant, and
\* so does a loop that ends because gossip is stopped.
LEMMA BeginKeeps ==
  ASSUME GossipInv, NEW x \in Actor,
         (x \in Loop /\ CheckStopped(x)) \/ (x \in Ticking /\ Tick(x))
  PROVE  GossipInv'
<1> USE DEF GossipInv
<1>1. actors[x].pc \in {"check", "idle"} /\ UNCHANGED <<stopped, pinging>>
  BY DEF CheckStopped, Tick, At
<1>2. CASE BeginPeriod(x)
  <2>1. Moves(x, "next")
    BY <1>2, BeginMoves
  <2>2. raced' = (raced \/ \E y \in Actor \ {x} : Choosing(y))
    BY <1>2 DEF BeginPeriod
  <2>3. FlagInv' /\ raced' \in BOOLEAN
    BY <1>1, <2>1, <2>2, BeginPings
  <2> QED BY <1>1, <2>1, <2>3, MoveRuns, MoveFlag DEF Moves
<1>3. CASE stopped /\ actors' = [actors EXCEPT ![x] = Idle] /\ UNCHANGED raced
  <2> DEFINE r == Idle
  <2>1. "pc" \in DOMAIN r /\ r.pc = "idle"
    BY DEF Idle
  <2>2. Moves(x, "idle")
    BY <1>3, <2>1, AssignMoves
  <2>3. GossipRuns'
    BY <1>1, <1>3 DEF GossipRuns
  <2> QED BY <1>1, <1>3, <2>2, <2>3, MoveFlag, MovePings DEF Moves
<1> QED BY <1>2, <1>3 DEF CheckStopped, Tick

\* The steps of calls to Start and Stop keep the invariant.
LEMMA ControlKeeps ==
  ASSUME GossipInv, NEW x \in Caller, Call(x) \/ Control(x)
  PROVE  GossipInv'
<1> USE DEF GossipInv
<1>1. x \in Actor /\ x \notin Loop
  BY ActorAssumption DEF Actor
<1>2. CASE Call(x)
  <2>1. Moves(x, "start") \/ Moves(x, "stop")
    BY <1>1, <1>2, GotoMoves DEF Call
  <2> QED BY <1>1, <1>2, <2>1, MoveKeeps DEF Call, At
<1>3. CASE Start(x)
  <2>1. Moves(x, "run") \/ Moves(x, "idle")
    BY <1>1, <1>3, GotoMoves DEF Start
  <2> QED BY <1>1, <1>3, <2>1, MoveKeeps DEF Start, At
<1>4. CASE SetRunning(x)
  <2>1. actors[x].pc = "run" /\ UNCHANGED <<pinging, raced>>
    BY <1>4 DEF SetRunning, At
  <2>2. Moves(x, "spawn")
    BY <1>1, <1>4, GotoMoves DEF SetRunning
  <2>3. GossipRuns'
    BY <2>2 DEF GossipRuns, Moves
  <2> QED BY <1>1, <2>1, <2>2, <2>3, MoveFlag, MovePings DEF Moves
<1>5. CASE Spawn(x)
  <2>1. actors[x].pc = "spawn" /\ UNCHANGED <<stopped, pinging, raced>>
    BY <1>5 DEF Spawn, At
  <2>2. PICK g \in Loop : /\ actors[g].pc = "idle"
                         /\ actors' = [actors EXCEPT ![x] = Idle, ![g].pc = "check"]
    BY <1>5 DEF Spawn, At
  <2> DEFINE r == Idle
  <2>3. "pc" \in DOMAIN r /\ r.pc = "idle" /\ g \in Actor /\ g # x
    BY <1>1 DEF Idle, Actor
  <2> HIDE DEF r
  <2>4. actors' = [actors EXCEPT ![x] = r, ![g].pc = "check"]
    BY <2>2 DEF r
  <2>5. /\ ActorsOK' /\ actors'[x].pc = "idle" /\ actors'[g].pc = "check"
        /\ \A y \in Actor \ {x, g} : actors'[y] = actors[y]
    BY <1>1, <2>3, <2>4 DEF ActorsOK
  <2>6. GossipRuns'
    BY <2>5 DEF GossipRuns
  <2>7. FlagNotStuck'
    BY <2>1, <2>2, <2>3, <2>5 DEF FlagNotStuck
  <2>8. FlagInv'
    BY <2>1, <2>5 DEF FlagInv, Choosing
  <2> QED BY <2>1, <2>5, <2>6, <2>7, <2>8
<1>6. CASE Stop(x)
  <2>1. Moves(x, "idle") \/ Moves(x, "halt")
    BY <1>1, <1>6, GotoMoves DEF Stop
  <2> QED BY <1>1, <1>6, <2>1, MoveKeeps DEF Stop, At
<1>7. CASE SetStopped(x)
  <2>1. actors[x].pc = "halt" /\ stopped' = TRUE /\ UNCHANGED <<pinging, raced>>
    BY <1>7 DEF SetStopped, At
  <2>2. Moves(x, "idle")
    BY <1>1, <1>7, GotoMoves DEF SetStopped
  <2>3. GossipRuns'
    BY <2>1 DEF GossipRuns
  <2> QED BY <1>1, <2>1, <2>2, <2>3, MoveFlag, MovePings DEF Moves
<1> QED BY <1>2, <1>3, <1>4, <1>5, <1>6, <1>7 DEF Control

\* The invariant holds in every reachable state.
LEMMA GossipAlways == Spec => []GossipInv
<1>1. GossipInv /\ Next => GossipInv'
  <2> SUFFICES ASSUME GossipInv, Next PROVE GossipInv'
    OBVIOUS
  <2>1. CASE \E m \in Late : Join(m)
    BY <2>1, QuietKeeps DEF Join
  <2>2. CASE \E m \in Unsteady : Fail(m)
    BY <2>2, QuietKeeps DEF Fail
  <2>3. Loop \subseteq Actor /\ Ticking \subseteq Actor
    BY ActorAssumption DEF Actor
  <2> QED BY <2>1, <2>2, <2>3, PeriodKeeps, BeginKeeps, ControlKeeps DEF Next
<1>2. GossipInv /\ UNCHANGED vars => GossipInv'
  BY QuietKeeps DEF vars
<1> QED BY <1>1, <1>2, InitGossip, PTL DEF Spec
-----------------------------------------------------------------------------
\* However many calls of Start and Stop overlap, gossip that is not stopped has a loop,
\* or a call that is about to start one.
THEOREM GossipNeverDies == Spec => []GossipRuns
  BY GossipAlways, PTL DEF GossipInv

\* The flag of pingNextMember is set only while some period is at its ping.
THEOREM FlagIsCleared == Spec => []FlagNotStuck
  BY GossipAlways, PTL DEF GossipInv

\* Two pings of a node are under way at once only if two of its periods were between
\* their begin and their ping at once.
THEOREM PingsKeptApart == Spec => []OnePingUnlessRaced
<1>1. GossipInv => OnePingUnlessRaced
  BY DEF GossipInv, FlagInv, OnePingUnlessRaced
<1> QED BY <1>1, GossipAlways, PTL
-----------------------------------------------------------------------------
Members == Known \cup Late \cup {Local}

\* The list is never empty, and holds members only.
ListOK == list \in Seq(Members) /\ list # <<>>

\* The members that were due are still in the list, and those up to the index were seen.
PassedSeen ==
  /\ due \subseteq ToSet(list)
  /\ \A i \in 1 .. Len(list) : i <= index + 1 /\ list[i] \in due => list[i] \in seen

\* Until two periods use the iterator at once, its index is in the list.
IterInv ==
  /\ ListOK
  /\ index \in Int /\ index >= -1
  /\ InRangeUnlessRaced
  /\ ~raced => index < Len(list) /\ PassedSeen

\* The members of a list.
LEMMA ListMembers ==
  ASSUME NEW S, NEW s \in Seq(S), s # <<>>
  PROVE  /\ Len(s) \in Nat \ {0} /\ DOMAIN s = 1 .. Len(s)
         /\ ToSet(s) \subseteq S /\ ToSet(s) # {}
         /\ \A x : x \in ToSet(s) <=> \E i \in 1 .. Len(s) : s[i] = x
<1>1. Len(s) \in Nat \ {0}
  BY EmptySeq
<1>2. s \in [1 .. Len(s) -> S]
  BY LenProperties
<1>3. s[1] \in ToSet(s)
  BY <1>1, <1>2 DEF ToSet
<1> QED BY <1>1, <1>2, <1>3 DEF ToSet

\* A shuffle of a finite set is a list of its elements that leaves none out.
LEMMA Shuffled ==
  ASSUME NEW S, IsFiniteSet(S), S # {}, NEW s \in SetToSeqs(S)
  PROVE  s \in Seq(S) /\ s # <<>> /\ ToSet(s) = S
<1> DEFINE n == Cardinality(S)
<1>1. n \in Nat /\ n # 0
  BY FS_CardinalityType, FS_EmptySet
<1>2. s \in [1 .. n -> S] /\ \A i, j \in 1 .. n : i # j => s[i] # s[j]
  BY DEF SetToSeqs
<1>3. IsFiniteSet(1 .. n) /\ Cardinality(1 .. n) = n
  BY <1>1, FS_Interval
<1> HIDE DEF n
<1>4. s \in Injection(1 .. n, S)
  BY <1>2 DEF Injection, IsInjective
<1>5. s \in Surjection(1 .. n, S)
  BY <1>3, <1>4, FS_Injection DEF n
<1>6. s \in Seq(S)
  BY <1>1, <1>2
<1>7. s # <<>>
  BY <1>1, <1>2
<1>8. ToSet(s) = S
  BY <1>2, <1>5 DEF ToSet, Surjection
<1> QED BY <1>6, <1>7, <1>8

\* t is s with m in front of its i-th element.
HasInserted(t, s, i, m) ==
  /\ Len(t) = Len(s) + 1
  /\ \A j \in 1 .. Len(t) : t[j] = IF j < i THEN s[j] ELSE IF j = i THEN m ELSE s[j - 1]

\* Inserting a member moves those behind its place up by one, and the others not at all.
LEMMA Inserted ==
  ASSUME NEW S, NEW s \in Seq(S), s # <<>>, NEW i \in 1 .. Len(s), NEW m \in S,
         NEW t, t = InsertAt(s, i, m)
  PROVE  t \in Seq(S) /\ HasInserted(t, s, i, m)
<1> DEFINE a == SubSeq(s, 1, i - 1)
           c == SubSeq(s, i, Len(s))
           b == a \o <<m>>
<1>1. Len(s) \in Nat \ {0} /\ \A j \in 1 .. Len(s) : s[j] \in S
  BY ListMembers, ElementOfSeq
<1>2. a \in Seq(S) /\ Len(a) = i - 1 /\ \A j \in 1 .. i - 1 : a[j] = s[j]
  BY <1>1, SubSeqProperties
<1>3. c \in Seq(S) /\ Len(c) = Len(s) - i + 1 /\ \A j \in 1 .. Len(s) - i + 1 : c[j] = s[i + j - 1]
  BY <1>1, SubSeqProperties
<1>4. <<m>> \in Seq(S) /\ Len(<<m>>) = 1 /\ <<m>>[1] = m
  OBVIOUS
<1> HIDE DEF a, c
<1>5. b \in Seq(S) /\ Len(b) = i /\ \A j \in 1 .. i : b[j] = IF j < i THEN s[j] ELSE m
  BY <1>1, <1>2, <1>4, ConcatProperties
<1> HIDE DEF b
<1>6. t = b \o c
  BY DEF a, b, c, InsertAt
<1>7. /\ t \in Seq(S) /\ Len(t) = Len(b) + Len(c)
      /\ \A j \in 1 .. Len(b) + Len(c) : t[j] = IF j <= Len(b) THEN b[j] ELSE c[j - Len(b)]
  <2>1. b \in Seq(S) /\ c \in Seq(S)
    BY <1>3, <1>5
  <2>2. b \o c \in Seq(S) /\ Len(b \o c) = Len(b) + Len(c)
    BY <2>1, ConcatProperties
  <2>3. \A j \in 1 .. Len(b) + Len(c) : (b \o c)[j] = IF j <= Len(b) THEN b[j] ELSE c[j - Len(b)]
    BY <2>1, ConcatProperties, Zenon
  <2> QED BY <1>6, <2>2, <2>3
<1>8. Len(t) = Len(s) + 1
  BY <1>1, <1>3, <1>5, <1>7
<1>9. ASSUME NEW j \in 1 .. Len(s) + 1
      PROVE  t[j] = IF j < i THEN s[j] ELSE IF j = i THEN m ELSE s[j - 1]
  <2>1. CASE j <= i
    BY <1>1, <1>3, <1>5, <1>7, <2>1
  <2>2. CASE j > i
    <3>1. t[j] = c[j - i]
      BY <1>1, <1>3, <1>5, <1>7, <2>2
    <3>2. j - i \in 1 .. Len(s) - i + 1 /\ i + (j - i) - 1 = j - 1
      BY <1>1, <2>2
    <3>3. c[j - i] = s[i + (j - i) - 1]
      BY <1>3, <3>2
    <3> QED BY <2>2, <3>1, <3>2, <3>3
  <2> QED BY <1>1, <2>1, <2>2
<1> QED BY <1>7, <1>8, <1>9 DEF HasInserted

\* A node starts with its index in front of a shuffled list of itself and those it knows.
LEMMA InitIter == Init => IterInv
<1> SUFFICES ASSUME Init PROVE IterInv
  OBVIOUS
<1>1. IsFiniteSet(Known \cup {Local}) /\ Known \cup {Local} # {}
  <2>1. IsFiniteSet(Known)
    BY MemberAssumption, FS_Subset
  <2> QED BY <2>1, FS_AddElement
<1>2. list \in Seq(Known \cup {Local}) /\ list # <<>>
  BY <1>1, Shuffled DEF Init
<1>3. list \in Seq(Members)
  BY <1>2, SeqMonotonic DEF Members
<1>4. Len(list) \in Nat \ {0}
  BY <1>2, ListMembers
<1>5. index = -1 /\ panicked = FALSE /\ due = ToSet(list)
  BY DEF Init
<1>6. InRangeUnlessRaced
  BY <1>5 DEF InRangeUnlessRaced
<1> QED BY <1>2, <1>3, <1>4, <1>5, <1>6 DEF IterInv, ListOK, PassedSeen

\* Next goes on by one member, or has passed all that were due and begins a new round.
LEMMA AdvanceKeeps ==
  ASSUME IterInv, ~raced, Advance, NEW seenNext,
         seenNext = {list'[index' + 1]} \cup (IF index' <= index THEN {} ELSE seen)
  PROVE  /\ ListOK' /\ index' \in Nat /\ index' < Len(list')
         /\ due' \subseteq ToSet(list')
         /\ \A i \in 1 .. Len(list') : i <= index' + 1 /\ list'[i] \in due' => list'[i] \in seenNext
         /\ seen \subseteq seenNext \/ due \subseteq seen
<1> USE DEF IterInv, ListOK, PassedSeen
<1>1. Len(list) \in Nat \ {0} /\ ToSet(list) \subseteq Members /\ ToSet(list) # {}
  BY ListMembers
<1>2. \A x : x \in ToSet(list) <=> \E i \in 1 .. Len(list) : list[i] = x
  BY ListMembers
<1>3. CASE index + 1 >= Len(list)
  <2>1. index' = 0 /\ list' \in SetToSeqs(ToSet(list)) /\ due' = ToSet(list)
    BY <1>3 DEF Advance
  <2>2. IsFiniteSet(Members)
    BY MemberAssumption, FS_AddElement DEF Members
  <2>3. IsFiniteSet(ToSet(list))
    BY <1>1, <2>2, FS_Subset
  <2>4. list' \in Seq(ToSet(list)) /\ list' # <<>> /\ ToSet(list') = ToSet(list)
    BY <1>1, <2>1, <2>3, Shuffled
  <2>5. list' \in Seq(Members)
    BY <1>1, <2>4, SeqMonotonic
  <2>6. Len(list') \in Nat \ {0}
    BY <2>4, ListMembers
  <2>7. index >= 0 /\ due \subseteq seen
    BY <1>1, <1>2, <1>3
  <2>8. seenNext = {list'[1]}
    BY <2>1, <2>7
  <2> QED BY <2>1, <2>4, <2>5, <2>6, <2>7, <2>8
<1>4. CASE ~ (index + 1 >= Len(list))
  <2>1. index' = index + 1 /\ UNCHANGED <<list, due>>
    BY <1>4 DEF Advance
  <2>2. seenNext = {list[index' + 1]} \cup seen
    BY <2>1
  <2> QED BY <1>1, <1>4, <2>1, <2>2
<1> QED BY <1>3, <1>4

\* One turn of the iterator.  Two periods turn it at once only after a race was noted.
LEMMA VisitIter ==
  ASSUME GossipInv, IterInv, NEW x \in Actor, Visit(x)
  PROVE  IterInv' /\ (seen \subseteq seen' \/ due \subseteq seen \/ raced')
<1>1. actors[x].pc = "next" /\ raced' = raced /\ ~panicked
  BY DEF Visit, At
<1>2. raced \/ Advance
  BY <1>1 DEF Visit, At, GossipInv, FlagInv, Choosing
<1>3. CASE raced
  <2> USE DEF IterInv, ListOK
  <2>1. Len(list) \in Nat \ {0} /\ ToSet(list) \subseteq Members /\ ToSet(list) # {}
    BY ListMembers
  <2>2. IsFiniteSet(ToSet(list))
    <3>1. IsFiniteSet(Members)
      BY MemberAssumption, FS_AddElement DEF Members
    <3> QED BY <2>1, <3>1, FS_Subset
  <2>3. index' \in Nat /\ (list' = list \/ list' \in SetToSeqs(ToSet(list)))
    BY <2>1 DEF Visit, Advance, AdvanceRaced
  <2>4. list' \in SetToSeqs(ToSet(list)) => list' \in Seq(ToSet(list)) /\ list' # <<>>
    BY <2>1, <2>2, Shuffled
  <2>5. ListOK'
    BY <2>1, <2>3, <2>4, SeqMonotonic
  <2> QED BY <1>1, <1>3, <2>3, <2>5 DEF InRangeUnlessRaced
<1>4. CASE ~raced
  <2> DEFINE seenNext == {list'[index' + 1]} \cup (IF index' <= index THEN {} ELSE seen)
  <2>1. /\ ListOK' /\ index' \in Nat /\ index' < Len(list')
        /\ due' \subseteq ToSet(list')
        /\ \A i \in 1 .. Len(list') : i <= index' + 1 /\ list'[i] \in due' => list'[i] \in seenNext
        /\ seen \subseteq seenNext \/ due \subseteq seen
    <3> HIDE DEF seenNext
    <3> QED BY <1>2, <1>4, AdvanceKeeps DEF seenNext
  <2>2. Len(list') \in Nat
    BY <2>1, ListMembers DEF ListOK
  <2>3. seen' = seenNext /\ panicked' = panicked
    BY <1>4, <2>1, <2>2 DEF Visit
  <2> HIDE DEF seenNext
  <2> QED BY <1>1, <2>1, <2>3 DEF IterInv, PassedSeen, InRangeUnlessRaced
<1> QED BY <1>3, <1>4

\* A member that joins is not due, and none that was due comes to stand before the index.
LEMMA JoinIter ==
  ASSUME IterInv, NEW m \in Late, Join(m)
  PROVE  IterInv'
<1> USE DEF IterInv, ListOK
<1>1. m \in Members /\ m \notin ToSet(list)
  BY DEF Join, Members
<1>2. PICK i \in 1 .. Len(list) : list' = InsertAt(list, i, m)
  BY DEF Join
<1>3. UNCHANGED <<index, seen, due, panicked, raced>>
  BY DEF Join, iter_vars
<1>4. Len(list) \in Nat \ {0} /\ \A x : x \in ToSet(list) <=> \E j \in 1 .. Len(list) : list[j] = x
  BY ListMembers
<1>5. /\ list' \in Seq(Members) /\ Len(list') = Len(list) + 1
      /\ \A j \in 1 .. Len(list') :
           list'[j] = IF j < i THEN list[j] ELSE IF j = i THEN m ELSE list[j - 1]
  <2>1. list' \in Seq(Members) /\ HasInserted(list', list, i, m)
    BY <1>1, <1>2, Inserted
  <2> QED BY <2>1 DEF HasInserted
<1>6. list' # <<>>
  BY <1>4, <1>5
<1>7. \A x : x \in ToSet(list') <=> \E j \in 1 .. Len(list') : list'[j] = x
  BY <1>5, <1>6, ListMembers
<1>8. ToSet(list) \subseteq ToSet(list')
  <2> SUFFICES ASSUME NEW j \in 1 .. Len(list) PROVE list[j] \in ToSet(list')
    BY <1>4
  <2>1. CASE j < i
    BY <1>4, <1>5, <1>7, <2>1
  <2>2. CASE j >= i
    <3>1. j + 1 \in 1 .. Len(list') /\ list'[j + 1] = list[j]
      BY <1>4, <1>5, <2>2
    <3> QED BY <1>7, <3>1
  <2> QED BY <2>1, <2>2
<1>9. PassedSeen => PassedSeen'
  <2> SUFFICES ASSUME PassedSeen, NEW j \in 1 .. Len(list'), j <= index + 1, list'[j] \in due
               PROVE  list'[j] \in seen
    BY <1>3, <1>8 DEF PassedSeen
  <2>1. j # i
    <3>1. m \notin due
      BY <1>1 DEF PassedSeen
    <3>2. j = i => list'[j] = m
      BY <1>5
    <3> QED BY <3>1, <3>2
  <2>2. CASE j < i
    BY <1>4, <1>5, <2>2 DEF PassedSeen
  <2>3. CASE j > i
    <3>1. j - 1 \in 1 .. Len(list) /\ list'[j] = list[j - 1] /\ j - 1 <= index + 1
      BY <1>4, <1>5, <2>3
    <3> QED BY <3>1 DEF PassedSeen
  <2> QED BY <1>4, <2>1, <2>2, <2>3
<1> QED BY <1>3, <1>4, <1>5, <1>6, <1>9 DEF InRangeUnlessRaced

\* A step that leaves the list and the iterator alone, and at most notes a race, keeps the
\* invariant.
LEMMA QuietIter ==
  ASSUME IterInv, raced \in BOOLEAN, raced' \in BOOLEAN, raced => raced',
         UNCHANGED <<list, index, panicked>>, ~raced' => UNCHANGED <<seen, due>>
  PROVE  IterInv' /\ (seen \subseteq seen' \/ raced')
BY DEF IterInv, ListOK, InRangeUnlessRaced, PassedSeen

\* A period that begins notes a race, after which seen and due are not kept, or none.
LEMMA BeginIter ==
  ASSUME raced \in BOOLEAN, NEW x \in Actor, BeginPeriod(x)
  PROVE  raced' \in BOOLEAN /\ (raced => raced') /\ (~raced' => UNCHANGED <<seen, due>>)
<1>1. raced' = (raced \/ \E y \in Actor \ {x} : Choosing(y))
  BY DEF BeginPeriod
<1>2. raced' \in BOOLEAN /\ (raced => raced')
  BY <1>1, Zenon
<1>3. ~raced' => UNCHANGED <<seen, due>>
  BY DEF BeginPeriod
<1> QED BY <1>2, <1>3

\* Every step keeps what is known of the iterator, and none starts a round before the last
\* one has visited all that were due.
LEMMA IterStep ==
  ASSUME GossipInv, IterInv, [Next]_vars
  PROVE  IterInv' /\ (seen \subseteq seen' \/ due \subseteq seen \/ raced')
<1>1. raced \in BOOLEAN /\ Loop \subseteq Actor /\ Ticking \subseteq Actor
  BY ActorAssumption DEF GossipInv, Actor
<1>2. ASSUME NEW x \in Loop, CheckStopped(x)
      PROVE  IterInv' /\ (seen \subseteq seen' \/ raced')
  <2>1. UNCHANGED <<list, index, panicked>>
    BY <1>2 DEF CheckStopped, list_vars
  <2>2. CASE BeginPeriod(x)
    BY <1>1, <2>1, <2>2, BeginIter, QuietIter
  <2>3. CASE UNCHANGED <<seen, due, raced>>
    BY <1>1, <2>1, <2>3, QuietIter
  <2> QED BY <1>2, <2>2, <2>3 DEF CheckStopped
<1>3. ASSUME NEW x \in Ticking, Tick(x)
      PROVE  IterInv' /\ (seen \subseteq seen' \/ raced')
  <2>1. UNCHANGED <<list, index, panicked>> /\ BeginPeriod(x)
    BY <1>3 DEF Tick, list_vars
  <2> QED BY <1>1, <2>1, BeginIter, QuietIter
<1>4. ASSUME NEW x \in Actor, Period(x), ~Visit(x)
      PROVE  UNCHANGED <<list, index, seen, due, panicked, raced>>
  BY <1>4 DEF Period, NonePingable, CheckPinging, SetPinging, EndPing, list_vars, iter_vars
<1>5. ASSUME NEW x \in Caller, Call(x) \/ Control(x)
      PROVE  UNCHANGED <<list, index, seen, due, panicked, raced>>
  BY <1>5 DEF Call, Control, Start, SetRunning, Spawn, Stop, SetStopped, list_vars, iter_vars
<1>6. ASSUME NEW m \in Unsteady, Fail(m)
      PROVE  UNCHANGED <<list, index, seen, due, panicked, raced>>
  BY <1>6 DEF Fail, iter_vars
<1>7. UNCHANGED vars => UNCHANGED <<list, index, seen, due, panicked, raced>>
  BY DEF vars, list_vars, iter_vars
<1>8. ASSUME NEW m \in Late, Join(m)
      PROVE  IterInv' /\ seen \subseteq seen'
  <2>1. UNCHANGED seen
    BY <1>8 DEF Join, iter_vars
  <2> QED BY <1>8, <2>1, JoinIter
<1>9. UNCHANGED <<list, index, seen, due, panicked, raced>> => IterInv' /\ seen \subseteq seen'
  BY DEF IterInv, ListOK, InRangeUnlessRaced, PassedSeen
<1>10. ASSUME NEW x \in Actor, Period(x)
       PROVE  IterInv' /\ (seen \subseteq seen' \/ due \subseteq seen \/ raced')
  <2>1. CASE Visit(x)
    BY <2>1, VisitIter
  <2>2. CASE ~Visit(x)
    BY <1>4, <1>9, <1>10, <2>2
  <2> QED BY <2>1, <2>2
<1>11. CASE UNCHANGED vars \/ \E x \in Caller : Call(x) \/ Control(x)
  BY <1>5, <1>7, <1>9, <1>11
<1>12. CASE \E m \in Unsteady : Fail(m)
  BY <1>6, <1>9, <1>12
<1> HIDE DEF IterInv
<1> QED BY <1>2, <1>3, <1>8, <1>10, <1>11, <1>12 DEF Next

\* The invariant of the iterator holds in every reachable state.
LEMMA IterAlways == Spec => []IterInv
<1>1. GossipInv /\ IterInv /\ [Next]_vars => IterInv'
  BY IterStep
<1> QED BY <1>1, InitIter, GossipAlways, PTL DEF Spec

\* The iterator of the memberlist runs over the end of the list only if two periods have
\* used it at once, however members are shuffled and inserted.
THEOREM IteratorInRange == Spec => []InRangeUnlessRaced
<1>1. IterInv => InRangeUnlessRaced
  BY DEF IterInv
<1> QED BY <1>1, IterAlways, PTL

\* A round of the iterator ends only when it has visited every member there was when it
\* began, whatever members are inserted meanwhile and wherever, or after a race.
THEOREM RoundIsComplete == Spec => RoundVisitsAll
<1>1. GossipInv /\ IterInv /\ [Next]_vars
        => [~ (seen \subseteq seen') => due \subseteq seen \/ raced']_vars
  BY IterStep
<1> QED BY <1>1, GossipAlways, IterAlways, PTL DEF Spec, RoundVisitsAll
=============================================================================

------------------------- MODULE NodeUpdatesProofs -------------------------
(***************************************************************************)
(* Proofs about the goroutines that update the memberlist of one process,  *)
(* for any number of goroutines, members, and bounds on lists and          *)
(* incarnations.                                                           *)
(*                                                                         *)
(* Update reacts to its changes after it has released the members lock.    *)
(* The inductive invariant says, for an address of which no two Updates    *)
(* overlapped, that at most one goroutine is busy with it, that what this  *)
(* goroutine has applied is what the memberlist holds, and that the ring,  *)
(* the disseminator and the timers each agree with the memberlist, unless  *)
(* that goroutine has still to come to them.  For the timers it says that  *)
(* the memberlist never falls behind a suspicion that was once applied.    *)
(***************************************************************************)
EXTENDS NodeUpdates, TLAPS

CallbackRecord == [address : Remote, incarnation : Nat]

TimerRecord == [incarnation : Nat, fired : BOOLEAN]

ChangeMap == UNION {[D -> MemberRecord] : D \in SUBSET Address}

ThreadRecord ==
  [pc : {"idle", "checked", "checksum", "emit", "react", "timer", "clear"},
   cause : SUBSET CallbackRecord, join : BOOLEAN, applied : ChangeMap,
   left : SUBSET Address, now : Address]

UpdatesTypeOK ==
  /\ members \in [Address -> MemberRecord]
  /\ threads \in [Thread -> ThreadRecord]
  /\ expired \subseteq CallbackRecord
  /\ DOMAIN timers \subseteq Remote /\ \A a \in DOMAIN timers : timers[a] \in TimerRecord
  /\ halts \in Nat

\* Where goroutine t is in its Update.
StageInv(t) ==
  LET r == threads[t]
  IN  /\ r.pc \in {"idle", "checked"} => ~r.join /\ r.applied = Empty /\ r.left = {}
      /\ r.left \subseteq DOMAIN r.applied
      /\ r.pc = "timer" => r.now \in DOMAIN r.applied

\* The process never suspects itself: it refutes.
LocalInv == members[Local].status # Suspect

SuspicionInv == ~enabled => timers = Empty /\ halts > 0

\* Addresses goroutine t has applied a change of, but has not told the ring of ...
Unemitted(t) ==
  IF threads[t].pc \in {"checksum", "emit"} THEN DOMAIN threads[t].applied ELSE {}

\* ... or not the disseminator.
Unrecorded(t) ==
  IF threads[t].pc \in {"react", "timer"} THEN threads[t].left ELSE Unemitted(t)

AddressInv(a) ==
  a \notin overlapped =>
    /\ \A t, u \in Thread : a \in Busy(t) /\ a \in Busy(u) => t = u
    /\ \A t \in Thread : a \in Busy(t) => threads[t].applied[a] = members[a]
    /\ (\A t \in Thread : a \notin Unemitted(t)) => RingFollows(a)
    /\ (\A t \in Thread : a \notin Unrecorded(t)) => ChangesFollow(a)
    /\ (\A t \in Thread : a \notin Pending(t)) => TimersFollow(a)

\* The memberlist is not older than a suspicion of incarnation i of a.
Held(a, i) == ~ nonLocalOverride(members[a], [incarnation |-> i, status |-> Suspect])

HeldInv ==
  /\ \A t \in Thread : \A a \in DOMAIN threads[t].applied \ {Local} :
       ~ nonLocalOverride(members[a], threads[t].applied[a])
  /\ \A a \in DOMAIN timers : Held(a, timers[a].incarnation)
  /\ \A e \in expired : Held(e.address, e.incarnation)
  /\ \A t \in Thread : At(t, "checked") =>
       \A e \in threads[t].cause : Held(e.address, e.incarnation)

UpdatesInv ==
  /\ UpdatesTypeOK /\ LocalInv /\ SuspicionInv /\ HeldInv /\ ChecksumCurrent
  /\ \A t \in Thread : StageInv(t)
  /\ \A a \in Address : AddressInv(a)
-----------------------------------------------------------------------------
\* What the operators on maps return.
LEMMA EmptyMap == DOMAIN Empty = {} /\ Empty \in ChangeMap
<1>1. DOMAIN Empty = {} /\ Empty \in [{} -> MemberRecord]
  BY DEF Empty
<1> QED BY <1>1 DEF ChangeMap

\* Overlay takes the left map where both have an address.
LEMMA OverlayMap ==
  ASSUME NEW f, NEW g
  PROVE  /\ DOMAIN Overlay(f, g) = DOMAIN f \cup DOMAIN g
         /\ \A a \in DOMAIN f : Overlay(f, g)[a] = f[a]
         /\ \A a \in DOMAIN g \ DOMAIN f : Overlay(f, g)[a] = g[a]
BY DEF Overlay

\* A map of one entry.
LEMMA EntryMap ==
  ASSUME NEW a, NEW c
  PROVE  DOMAIN Entry(a, c) = {a} /\ Entry(a, c)[a] = c
BY DEF Entry

\* Drop forgets one address and keeps the others.
LEMMA DropMap ==
  ASSUME NEW f, NEW a
  PROVE  /\ DOMAIN Drop(f, a) = DOMAIN f \ {a}
         /\ \A b \in DOMAIN f \ {a} : Drop(f, a)[b] = f[b]
BY DEF Drop, Restrict

\* The entries of a map of changes are entries of the memberlist.
LEMMA ChangeMapElement ==
  ASSUME NEW f \in ChangeMap
  PROVE  DOMAIN f \subseteq Address /\ \A a \in DOMAIN f : f[a] \in MemberRecord
BY DEF ChangeMap

\* A goroutine that is not in Update has applied nothing.
LEMMA IdleThreadType ==
  /\ IdleThread \in ThreadRecord /\ IdleThread.pc = "idle" /\ IdleThread.cause = {}
  /\ IdleThread.join = FALSE /\ IdleThread.applied = Empty /\ IdleThread.left = {}
<1>1. Local \in Address
  BY DEF Address
<1> QED BY <1>1, EmptyMap DEF IdleThread, ThreadRecord

\* A memberlist that is not older than an entry stays so when a newer one takes its place.
LEMMA NewerHolds ==
  ASSUME NEW m \in MemberRecord, NEW c \in MemberRecord, NEW n \in MemberRecord,
         nonLocalOverride(m, n), ~ nonLocalOverride(m, c)
  PROVE  ~ nonLocalOverride(n, c)
<1>1. \A s \in Status : statePrecedence(s) \in 0 .. 3
  BY DEF statePrecedence, Status, Alive, Suspect, Faulty, Leave
<1> QED BY <1>1 DEF nonLocalOverride, MemberRecord

\* No entry supersedes itself.
LEMMA NotNewerThanItself ==
  ASSUME NEW m \in MemberRecord
  PROVE  ~ nonLocalOverride(m, m)
<1>1. statePrecedence(m.status) \in 0 .. 3
  BY DEF statePrecedence, Status, Alive, Suspect, Faulty, Leave, MemberRecord
<1> QED BY <1>1 DEF nonLocalOverride, MemberRecord
-----------------------------------------------------------------------------
\* What a goroutine has still to do with an address makes it busy with it.
LEMMA ToDoIsBusy ==
  ASSUME NEW t \in Thread, StageInv(t), threads[t] \in ThreadRecord
  PROVE  /\ Unemitted(t) \subseteq Unrecorded(t) /\ Unrecorded(t) \subseteq Pending(t)
         /\ Pending(t) \subseteq Busy(t) /\ Busy(t) \subseteq DOMAIN threads[t].applied
BY DEF StageInv, ThreadRecord, Unemitted, Unrecorded, Pending, Busy, At

\* A goroutine that does not move is busy with the same addresses as before.
LEMMA SameThread ==
  ASSUME NEW t \in Thread, threads'[t] = threads[t]
  PROVE  /\ Busy(t)' = Busy(t) /\ Pending(t)' = Pending(t)
         /\ Unemitted(t)' = Unemitted(t) /\ Unrecorded(t)' = Unrecorded(t)
         /\ StageInv(t) => StageInv(t)'
BY DEF Unemitted, Unrecorded, Pending, Busy, At, StageInv

\* A step of goroutine t with an address: it may finish what it had to do with it.
LEMMA ThreadWithAddress ==
  ASSUME NEW a \in Address, AddressInv(a), NEW t \in Thread, StageInv(t), threads[t] \in ThreadRecord,
         \A u \in Thread \ {t} : threads'[u] = threads[u],
         members' = members, overlapped' = overlapped,
         a \in Busy(t)' => a \in Busy(t) /\ threads'[t].applied[a] = threads[t].applied[a],
         a \notin Unemitted(t)' /\ (IF a \in Unemitted(t) THEN threads[t].applied[a] = members[a] ELSE RingFollows(a))
           => RingFollows(a)',
         a \notin Unrecorded(t)' /\ (IF a \in Unrecorded(t) THEN threads[t].applied[a] = members[a] ELSE ChangesFollow(a))
           => ChangesFollow(a)',
         a \notin Pending(t)' /\ (IF a \in Pending(t) THEN threads[t].applied[a] = members[a] ELSE TimersFollow(a))
           => TimersFollow(a)'
  PROVE  AddressInv(a)'
<1> SUFFICES ASSUME a \notin overlapped
    PROVE  /\ \A u, v \in Thread : a \in Busy(u)' /\ a \in Busy(v)' => u = v
           /\ \A u \in Thread : a \in Busy(u)' => threads'[u].applied[a] = members[a]
           /\ (\A u \in Thread : a \notin Unemitted(u)') => RingFollows(a)'
           /\ (\A u \in Thread : a \notin Unrecorded(u)') => ChangesFollow(a)'
           /\ (\A u \in Thread : a \notin Pending(u)') => TimersFollow(a)'
  BY DEF AddressInv
<1>1. /\ \A u, v \in Thread : a \in Busy(u) /\ a \in Busy(v) => u = v
      /\ \A u \in Thread : a \in Busy(u) => threads[u].applied[a] = members[a]
      /\ (\A u \in Thread : a \notin Unemitted(u)) => RingFollows(a)
      /\ (\A u \in Thread : a \notin Unrecorded(u)) => ChangesFollow(a)
      /\ (\A u \in Thread : a \notin Pending(u)) => TimersFollow(a)
  BY DEF AddressInv
<1>2. \A u \in Thread \ {t} :
        /\ Busy(u)' = Busy(u) /\ Pending(u)' = Pending(u)
        /\ Unemitted(u)' = Unemitted(u) /\ Unrecorded(u)' = Unrecorded(u)
  BY SameThread
<1>3. a \in Unemitted(t) \/ a \in Unrecorded(t) \/ a \in Pending(t) => threads[t].applied[a] = members[a]
  BY <1>1, ToDoIsBusy
<1>4. \A u, v \in Thread : a \in Busy(u)' /\ a \in Busy(v)' => u = v
  BY <1>1, <1>2
<1>5. \A u \in Thread : a \in Busy(u)' => threads'[u].applied[a] = members[a]
  BY <1>1, <1>2
<1>6. ASSUME \A u \in Thread : a \notin Unemitted(u)' PROVE RingFollows(a)'
  BY <1>1, <1>2, <1>3, <1>6
<1>7. ASSUME \A u \in Thread : a \notin Unrecorded(u)' PROVE ChangesFollow(a)'
  BY <1>1, <1>2, <1>3, <1>7
<1>8. ASSUME \A u \in Thread : a \notin Pending(u)' PROVE TimersFollow(a)'
  BY <1>1, <1>2, <1>3, <1>8
<1> QED BY <1>4, <1>5, <1>6, <1>7, <1>8
-----------------------------------------------------------------------------
\* What the invariant says of the addresses is left to each step.
LEMMA ReactKeeps ==
  ASSUME UpdatesInv, NEW t \in Thread, NEW n \in ThreadRecord, threads' = [threads EXCEPT ![t] = n],
         UNCHANGED <<members, enabled, halts>>, expired' \subseteq expired,
         n.pc # "checksum",
         checksum' = members \/ (checksum' = checksum /\ threads[t].pc # "checksum"),
         n.applied = threads[t].applied \/ n.applied = Empty,
         n.pc = "checked" => \A e \in n.cause : Held(e.address, e.incarnation),
         DOMAIN timers' \subseteq Remote, ~enabled => timers' = Empty,
         \A a \in DOMAIN timers' : timers'[a] \in TimerRecord /\ Held(a, timers'[a].incarnation),
         StageInv(t)', \A a \in Address : AddressInv(a)'
  PROVE  UpdatesInv'
<1>1. threads \in [Thread -> ThreadRecord] /\ UpdatesTypeOK
  BY DEF UpdatesInv, UpdatesTypeOK
<1>2. threads'[t] = n /\ \A u \in Thread \ {t} : threads'[u] = threads[u]
  BY <1>1
<1>3. UpdatesTypeOK'
  BY <1>1, <1>2 DEF UpdatesTypeOK
<1>4. LocalInv' /\ SuspicionInv'
  BY DEF UpdatesInv, LocalInv, SuspicionInv
<1>5. HeldInv'
  <2>1. \A a, i : Held(a, i) => Held(a, i)'
    BY DEF Held
  <2>2. ASSUME NEW u \in Thread, NEW a \in DOMAIN threads'[u].applied \ {Local}
        PROVE  ~ nonLocalOverride(members'[a], threads'[u].applied[a])
    BY <1>2, EmptyMap DEF UpdatesInv, HeldInv
  <2>3. \A e \in expired' : Held(e.address, e.incarnation)
    BY DEF UpdatesInv, HeldInv
  <2>4. ASSUME NEW u \in Thread, threads'[u].pc = "checked", NEW e \in threads'[u].cause
        PROVE  Held(e.address, e.incarnation)
    BY <1>2, <2>4 DEF UpdatesInv, HeldInv, At
  <2> HIDE DEF Held
  <2> QED BY <2>1, <2>2, <2>3, <2>4 DEF HeldInv, At
<1>6. ChecksumCurrent'
  BY <1>2 DEF UpdatesInv, ChecksumCurrent, At
<1>7. \A u \in Thread : StageInv(u)'
  BY <1>2, SameThread DEF UpdatesInv
<1> QED BY <1>3, <1>4, <1>5, <1>6, <1>7 DEF UpdatesInv

\* Steps that touch no goroutine.
LEMMA QuietKeeps ==
  ASSUME UpdatesInv, UNCHANGED <<members, checksum, threads, overlapped>>,
         expired' \subseteq CallbackRecord, halts' \in Nat, ~enabled' => halts' > 0,
         \A e \in expired' : Held(e.address, e.incarnation),
         DOMAIN timers' \subseteq Remote, ~enabled' => timers' = Empty,
         \A a \in DOMAIN timers' : timers'[a] \in TimerRecord /\ Held(a, timers'[a].incarnation),
         \A a \in Address : /\ RingFollows(a) => RingFollows(a)'
                            /\ ChangesFollow(a) => ChangesFollow(a)'
                            /\ TimersFollow(a) => TimersFollow(a)'
  PROVE  UpdatesInv'
<1>1. UpdatesTypeOK'
  BY DEF UpdatesInv, UpdatesTypeOK
<1>2. LocalInv' /\ SuspicionInv' /\ ChecksumCurrent'
  BY DEF UpdatesInv, LocalInv, SuspicionInv, ChecksumCurrent, At
<1>3. HeldInv'
  <2>1. \A a, i : Held(a, i) => Held(a, i)'
    BY DEF Held
  <2>2. \A t \in Thread : \A a \in DOMAIN threads'[t].applied \ {Local} :
          ~ nonLocalOverride(members'[a], threads'[t].applied[a])
    BY DEF UpdatesInv, HeldInv
  <2>3. \A t \in Thread : threads'[t].pc = "checked" =>
          \A e \in threads'[t].cause : Held(e.address, e.incarnation)
    BY DEF UpdatesInv, HeldInv, At
  <2> QED BY <2>1, <2>2, <2>3 DEF HeldInv, At
<1>4. \A t \in Thread :
        /\ Busy(t)' = Busy(t) /\ Pending(t)' = Pending(t)
        /\ Unemitted(t)' = Unemitted(t) /\ Unrecorded(t)' = Unrecorded(t)
        /\ StageInv(t)'
  BY SameThread DEF UpdatesInv
<1>5. ASSUME NEW a \in Address PROVE AddressInv(a)'
  <2>1. AddressInv(a)
    BY DEF UpdatesInv
  <2> QED BY <1>4, <2>1 DEF AddressInv
<1> QED BY <1>1, <1>2, <1>3, <1>4, <1>5 DEF UpdatesInv

\* Timers that stay as they are keep what the invariant says of them.
LEMMA SameTimers ==
  ASSUME UpdatesInv, timers' = timers
  PROVE  /\ DOMAIN timers' \subseteq Remote /\ (~enabled => timers' = Empty)
         /\ \A a \in DOMAIN timers' : timers'[a] \in TimerRecord /\ Held(a, timers'[a].incarnation)
BY DEF UpdatesInv, UpdatesTypeOK, HeldInv, SuspicionInv

\* An Update begins with the check of Stopped(), and has applied nothing yet.
LEMMA BeginKeeps ==
  ASSUME UpdatesInv, NEW t \in Thread, NEW cause \in SUBSET CallbackRecord, Begin(t, cause),
         \A e \in cause : Held(e.address, e.incarnation), expired' \subseteq expired,
         UNCHANGED <<members_vars, changes, timers, node_vars>>
  PROVE  UpdatesInv'
<1> DEFINE n == [IdleThread EXCEPT !.pc = "checked", !.cause = cause]
<1> USE DEF members_vars, node_vars
<1>1. /\ n \in ThreadRecord /\ n.pc = "checked" /\ n.cause = cause /\ n.applied = Empty
      /\ n.join = FALSE /\ n.left = {}
  BY IdleThreadType DEF ThreadRecord
<1>2. threads' = [threads EXCEPT ![t] = n] /\ threads[t].pc = "idle"
  BY DEF Begin, At
<1> HIDE DEF n
<1>3. threads'[t] = n /\ \A u \in Thread \ {t} : threads'[u] = threads[u]
  BY <1>2 DEF UpdatesInv, UpdatesTypeOK
<1>4. StageInv(t) /\ threads[t] \in ThreadRecord
  BY DEF UpdatesInv, UpdatesTypeOK
<1>5. Busy(t)' = {} /\ Busy(t) = {}
  BY <1>1, <1>2, <1>3, <1>4, EmptyMap DEF Busy, Pending, At, StageInv
<1>6. ASSUME NEW a \in Address PROVE AddressInv(a)'
  <2>1. AddressInv(a)
    BY DEF UpdatesInv
  <2>2. /\ RingFollows(a) => RingFollows(a)'
        /\ ChangesFollow(a) => ChangesFollow(a)'
        /\ TimersFollow(a) => TimersFollow(a)'
    BY DEF RingFollows, ChangesFollow, TimersFollow
  <2>3. a \notin Unemitted(t) /\ a \notin Unrecorded(t) /\ a \notin Pending(t)
    BY <1>4, <1>5, ToDoIsBusy
  <2> QED BY <1>3, <1>4, <1>5, <2>1, <2>2, <2>3, ThreadWithAddress
<1>7. StageInv(t)'
  BY <1>1, <1>3, EmptyMap DEF StageInv
<1> QED BY <1>1, <1>2, <1>6, <1>7, SameTimers, ReactKeeps

\* ComputeChecksum takes the members lock again.
LEMMA ComputeChecksumKeeps ==
  ASSUME UpdatesInv, NEW t \in Thread, ComputeChecksum(t)
  PROVE  UpdatesInv'
<1> DEFINE r == threads[t]
           n == [r EXCEPT !.pc = "emit"]
<1>1. UNCHANGED <<members, ring, overlapped, changes, timers, expired, enabled, halts>> /\ checksum' = members
  BY DEF ComputeChecksum, node_vars
<1>2. r \in ThreadRecord /\ StageInv(t) /\ threads' = [threads EXCEPT ![t] = n] /\ r.pc = "checksum"
  BY DEF UpdatesInv, UpdatesTypeOK, ComputeChecksum, Goto, At
<1>3. /\ n \in ThreadRecord /\ n.pc = "emit" /\ n.applied = r.applied /\ n.join = r.join
      /\ n.left = r.left
  BY <1>2 DEF ThreadRecord
<1> HIDE DEF n
<1>4. threads'[t] = n /\ \A u \in Thread \ {t} : threads'[u] = threads[u]
  BY <1>2 DEF UpdatesInv, UpdatesTypeOK
<1>5. /\ Busy(t)' = Busy(t) /\ Pending(t)' = Pending(t)
      /\ Unemitted(t)' = Unemitted(t) /\ Unrecorded(t)' = Unrecorded(t)
  BY <1>2, <1>3, <1>4 DEF Busy, Pending, Unemitted, Unrecorded, At
<1>6. StageInv(t)'
  BY <1>2, <1>3, <1>4 DEF StageInv
<1>7. ASSUME NEW a \in Address PROVE AddressInv(a)'
  <2>1. AddressInv(a)
    BY DEF UpdatesInv
  <2>2. /\ RingFollows(a) => RingFollows(a)'
        /\ ChangesFollow(a) => ChangesFollow(a)'
        /\ TimersFollow(a) => TimersFollow(a)'
    BY <1>1 DEF RingFollows, ChangesFollow, TimersFollow
  <2> QED BY <1>1, <1>2, <1>3, <1>4, <1>5, <2>1, <2>2, ThreadWithAddress
<1> QED BY <1>1, <1>2, <1>3, <1>6, <1>7, SameTimers, ReactKeeps

\* The listeners are told: the ring follows what was applied.
LEMMA EmitKeeps ==
  ASSUME UpdatesInv, NEW t \in Thread, Emit(t)
  PROVE  UpdatesInv'
<1> DEFINE r == threads[t]
           n == [r EXCEPT !.pc = "react", !.left = DOMAIN r.applied]
           add == {a \in DOMAIN r.applied : r.applied[a].status = Alive}
           remove == {a \in DOMAIN r.applied : r.applied[a].status \in {Faulty, Leave}}
<1>1. /\ UNCHANGED <<members, checksum, overlapped, changes, timers, expired, enabled, halts>>
      /\ ring' = (ring \cup add) \ remove
  BY DEF Emit, node_vars
<1>2. r \in ThreadRecord /\ StageInv(t) /\ threads' = [threads EXCEPT ![t] = n] /\ r.pc = "emit"
  BY DEF UpdatesInv, UpdatesTypeOK, Emit, At
<1>3. /\ n \in ThreadRecord /\ n.pc = "react" /\ n.applied = r.applied /\ n.join = r.join
      /\ n.left = DOMAIN r.applied
  <2>1. DOMAIN r.applied \subseteq Address
    BY <1>2, ChangeMapElement DEF ThreadRecord
  <2> QED BY <1>2, <2>1 DEF ThreadRecord
<1> HIDE DEF n
<1>4. threads'[t] = n /\ \A u \in Thread \ {t} : threads'[u] = threads[u]
  BY <1>2 DEF UpdatesInv, UpdatesTypeOK
<1>5. /\ Busy(t)' = Busy(t) /\ Pending(t)' = Pending(t)
      /\ Unemitted(t) = DOMAIN r.applied /\ Unrecorded(t)' = Unrecorded(t)
  BY <1>2, <1>3, <1>4 DEF Busy, Pending, Unemitted, Unrecorded, At
<1>6. StageInv(t)'
  BY <1>2, <1>3, <1>4 DEF StageInv
<1>7. ASSUME NEW a \in Address PROVE AddressInv(a)'
  <2>1. AddressInv(a)
    BY DEF UpdatesInv
  <2>2. /\ ChangesFollow(a) => ChangesFollow(a)'
        /\ TimersFollow(a) => TimersFollow(a)'
    BY <1>1 DEF ChangesFollow, TimersFollow
  <2>3. (IF a \in Unemitted(t) THEN r.applied[a] = members[a] ELSE RingFollows(a)) => RingFollows(a)'
    BY <1>1, <1>5 DEF RingFollows, Alive, Faulty, Leave
  <2> QED BY <1>1, <1>2, <1>3, <1>4, <1>5, <2>1, <2>2, <2>3, ThreadWithAddress
<1> QED BY <1>1, <1>2, <1>3, <1>6, <1>7, SameTimers, ReactKeeps

\* handleChanges records one of the changes in the disseminator.
LEMMA RecordChangeKeeps ==
  ASSUME UpdatesInv, NEW t \in Thread, NEW b \in Address, RecordChange(t, b)
  PROVE  UpdatesInv'
<1> DEFINE r == threads[t]
           n == [r EXCEPT !.pc = "timer", !.now = b, !.left = @ \ {b}]
<1>1. /\ UNCHANGED <<members, checksum, ring, overlapped, timers, expired, enabled, halts>>
      /\ changes' = Overlay(Entry(b, r.applied[b]), changes)
  BY DEF RecordChange, members_vars, node_vars
<1>2. /\ r \in ThreadRecord /\ StageInv(t) /\ threads' = [threads EXCEPT ![t] = n]
      /\ r.pc = "react" /\ b \in r.left
  BY DEF UpdatesInv, UpdatesTypeOK, RecordChange, At
<1>3. /\ n \in ThreadRecord /\ n.pc = "timer" /\ n.applied = r.applied /\ n.join = r.join
      /\ n.left = r.left \ {b} /\ n.now = b
  BY <1>2 DEF ThreadRecord
<1> HIDE DEF n
<1>4. threads'[t] = n /\ \A u \in Thread \ {t} : threads'[u] = threads[u]
  BY <1>2 DEF UpdatesInv, UpdatesTypeOK
<1>5. /\ Busy(t)' = Busy(t) /\ Pending(t)' = Pending(t)
      /\ Unemitted(t)' = Unemitted(t) /\ Unrecorded(t)' = Unrecorded(t) \ {b}
      /\ b \in Unrecorded(t)
  BY <1>2, <1>3, <1>4 DEF Busy, Pending, Unemitted, Unrecorded, At
<1>6. StageInv(t)'
  BY <1>2, <1>3, <1>4 DEF StageInv
<1>7. ASSUME NEW a \in Address PROVE AddressInv(a)'
  <2>1. AddressInv(a)
    BY DEF UpdatesInv
  <2>2. /\ RingFollows(a) => RingFollows(a)'
        /\ TimersFollow(a) => TimersFollow(a)'
    BY <1>1 DEF RingFollows, TimersFollow
  <2>3. /\ DOMAIN changes' = {b} \cup DOMAIN changes /\ changes'[b] = r.applied[b]
        /\ a \in DOMAIN changes \ {b} => changes'[a] = changes[a]
    <3> DEFINE e == Entry(b, r.applied[b])
    <3>1. DOMAIN e = {b} /\ e[b] = r.applied[b]
      BY EntryMap
    <3> HIDE DEF e
    <3>2. changes' = Overlay(e, changes)
      BY <1>1 DEF e
    <3>3. /\ DOMAIN Overlay(e, changes) = DOMAIN e \cup DOMAIN changes
          /\ \A c \in DOMAIN e : Overlay(e, changes)[c] = e[c]
          /\ \A c \in DOMAIN changes \ DOMAIN e : Overlay(e, changes)[c] = changes[c]
      BY OverlayMap
    <3> QED BY <3>1, <3>2, <3>3
  <2>4. a \notin Unrecorded(t)'
        /\ (IF a \in Unrecorded(t) THEN r.applied[a] = members[a] ELSE ChangesFollow(a))
          => ChangesFollow(a)'
    BY <1>1, <1>5, <2>3 DEF ChangesFollow
  <2> QED BY <1>1, <1>2, <1>3, <1>4, <1>5, <2>1, <2>2, <2>4, ThreadWithAddress
<1> QED BY <1>1, <1>2, <1>3, <1>6, <1>7, SameTimers, ReactKeeps

\* What the end of the handling of one change makes of a goroutine.
LEMMA HandledThread ==
  ASSUME NEW t \in Thread, threads[t] \in ThreadRecord, StageInv(t), threads[t].pc = "timer",
         threads'[t] = Handled(threads[t])
  PROVE  /\ threads'[t] \in ThreadRecord /\ StageInv(t)'
         /\ threads'[t].pc \in {"react", "clear", "idle"}
         /\ threads'[t].applied = threads[t].applied \/ (threads'[t].applied = Empty /\ Busy(t)' = {})
         /\ Busy(t)' \subseteq Busy(t) /\ Pending(t)' = threads[t].left
         /\ Pending(t) = threads[t].left \cup {threads[t].now}
         /\ Unrecorded(t)' = Unrecorded(t) /\ Unemitted(t)' = Unemitted(t)
<1> DEFINE r == threads[t]
           n == [r EXCEPT !.pc = "react", !.now = Local]
           z == [r EXCEPT !.pc = "clear", !.now = Local, !.left = DOMAIN r.applied \ {Local}]
<1>1. r.left \subseteq DOMAIN r.applied /\ r.now \in DOMAIN r.applied /\ DOMAIN r.applied \subseteq Address
  BY ChangeMapElement DEF StageInv, ThreadRecord
<1>2. /\ n \in ThreadRecord /\ n.pc = "react" /\ n.left = r.left /\ n.join = r.join
      /\ n.applied = r.applied
  BY DEF ThreadRecord, Address
<1>3. /\ z \in ThreadRecord /\ z.pc = "clear" /\ z.left = DOMAIN r.applied \ {Local} /\ z.join = r.join
      /\ z.applied = r.applied
  BY <1>1 DEF ThreadRecord, Address
<1>4. \/ threads'[t] = n
      \/ r.left = {} /\ r.join /\ threads'[t] = z
      \/ r.left = {} /\ threads'[t] = IdleThread
  BY DEF Handled
<1> HIDE DEF n, z
<1> USE DEF Busy, Pending, Unemitted, Unrecorded, At, StageInv
<1>5. CASE threads'[t] = n
  BY <1>1, <1>2, <1>5
<1>6. CASE r.left = {} /\ r.join /\ threads'[t] = z
  BY <1>1, <1>3, <1>6
<1>7. CASE r.left = {} /\ threads'[t] = IdleThread
  BY <1>1, <1>7, IdleThreadType, EmptyMap
<1> QED BY <1>4, <1>5, <1>6, <1>7

\* What suspicion.Start and suspicion.Stop make of the timers.
LEMMA TimerEffect ==
  ASSUME UpdatesInv, NEW b \in Address, NEW c \in MemberRecord,
         b # Local => ~ nonLocalOverride(members[b], c),
         IF c.status = Suspect THEN SuspicionStart(b, c) ELSE SuspicionStop(b)
  PROVE  /\ DOMAIN timers' \subseteq Remote /\ (~enabled => timers' = Empty)
         /\ \A a \in DOMAIN timers' : timers'[a] \in TimerRecord /\ Held(a, timers'[a].incarnation)
         /\ \A a : a # b => (a \in DOMAIN timers' <=> a \in DOMAIN timers)
         /\ c.status # Suspect => b \notin DOMAIN timers'
         /\ c.status = Suspect => b \in DOMAIN timers' \/ b = Local \/ ~enabled
<1>1. /\ DOMAIN timers \subseteq Remote /\ (~enabled => timers = Empty)
      /\ \A a \in DOMAIN timers : timers[a] \in TimerRecord /\ Held(a, timers[a].incarnation)
  BY DEF UpdatesInv, UpdatesTypeOK, HeldInv, SuspicionInv
<1>2. CASE c.status = Suspect /\ enabled /\ b # Local /\ b \notin DOMAIN timers
  <2> DEFINE i == [incarnation |-> c.incarnation, fired |-> FALSE]
             e == Entry(b, i)
  <2>1. timers' = Overlay(e, timers)
    BY <1>2 DEF SuspicionStart
  <2>2. i \in TimerRecord /\ i.incarnation = c.incarnation
    BY DEF TimerRecord, MemberRecord
  <2>3. Held(b, c.incarnation)
    BY <1>2 DEF Held, nonLocalOverride
  <2>4. DOMAIN e = {b} /\ e[b] = i
    BY EntryMap
  <2> HIDE DEF i, e
  <2>5. /\ DOMAIN Overlay(e, timers) = DOMAIN e \cup DOMAIN timers
        /\ \A a \in DOMAIN e : Overlay(e, timers)[a] = e[a]
        /\ \A a \in DOMAIN timers \ DOMAIN e : Overlay(e, timers)[a] = timers[a]
    BY OverlayMap
  <2>6. /\ DOMAIN timers' = {b} \cup DOMAIN timers /\ timers'[b] = i
        /\ \A a \in DOMAIN timers \ {b} : timers'[a] = timers[a]
    BY <2>1, <2>4, <2>5
  <2> QED BY <1>1, <1>2, <2>2, <2>3, <2>6 DEF Address
<1>3. CASE c.status = Suspect /\ ~ (enabled /\ b # Local /\ b \notin DOMAIN timers)
  <2>1. timers' = timers
    BY <1>3 DEF SuspicionStart
  <2> QED BY <1>1, <1>3, <2>1
<1>4. CASE c.status # Suspect
  <2>1. timers' = Drop(timers, b)
    BY <1>4 DEF SuspicionStop
  <2>2. /\ DOMAIN timers' = DOMAIN timers \ {b}
        /\ \A a \in DOMAIN timers \ {b} : timers'[a] = timers[a]
    BY <2>1, DropMap
  <2>3. ~enabled => timers' = Empty
    BY <1>1, <2>1 DEF Drop, Restrict, Empty
  <2> QED BY <1>1, <1>4, <2>2, <2>3
<1> QED BY <1>2, <1>3, <1>4

\* handleChanges moves the timer of the change it has recorded.
LEMMA AdjustTimerKeeps ==
  ASSUME UpdatesInv, NEW t \in Thread, AdjustTimer(t)
  PROVE  UpdatesInv'
<1> DEFINE r == threads[t]
           n == Handled(r)
           b == r.now
           c == r.applied[b]
<1>1. /\ UNCHANGED <<members, checksum, ring, overlapped, changes, expired, enabled, halts>>
      /\ IF c.status = Suspect THEN SuspicionStart(b, c) ELSE SuspicionStop(b)
  BY DEF AdjustTimer, members_vars, node_vars
<1>2. /\ r \in ThreadRecord /\ StageInv(t) /\ threads' = [threads EXCEPT ![t] = n]
      /\ r.pc = "timer" /\ HeldInv /\ LocalInv /\ SuspicionInv
  BY DEF UpdatesInv, UpdatesTypeOK, AdjustTimer, At
<1>3. threads'[t] = n /\ \A u \in Thread \ {t} : threads'[u] = threads[u]
  BY <1>2 DEF UpdatesInv, UpdatesTypeOK
<1> HIDE DEF n
<1>4. /\ threads'[t] \in ThreadRecord /\ StageInv(t)'
      /\ threads'[t].pc \in {"react", "clear", "idle"}
      /\ threads'[t].applied = threads[t].applied \/ (threads'[t].applied = Empty /\ Busy(t)' = {})
      /\ Busy(t)' \subseteq Busy(t) /\ Pending(t)' = threads[t].left
      /\ Pending(t) = threads[t].left \cup {b}
      /\ Unrecorded(t)' = Unrecorded(t) /\ Unemitted(t)' = Unemitted(t)
  BY <1>2, <1>3, HandledThread DEF n
<1>5. b \in DOMAIN r.applied /\ b \in Address /\ c \in MemberRecord
  BY <1>2, ChangeMapElement DEF StageInv, ThreadRecord
<1>6. b # Local => ~ nonLocalOverride(members[b], c)
  BY <1>2, <1>5 DEF HeldInv
<1> HIDE DEF b, c
<1>7. /\ DOMAIN timers' \subseteq Remote /\ (~enabled => timers' = Empty)
      /\ \A a \in DOMAIN timers' : timers'[a] \in TimerRecord /\ Held(a, timers'[a].incarnation)
      /\ \A a : a # b => (a \in DOMAIN timers' <=> a \in DOMAIN timers)
      /\ c.status # Suspect => b \notin DOMAIN timers'
      /\ c.status = Suspect => b \in DOMAIN timers' \/ b = Local \/ ~enabled
  BY <1>1, <1>5, <1>6, TimerEffect
<1>8. ASSUME NEW a \in Address PROVE AddressInv(a)'
  <2>1. AddressInv(a)
    BY DEF UpdatesInv
  <2>2. /\ RingFollows(a) => RingFollows(a)'
        /\ ChangesFollow(a) => ChangesFollow(a)'
    BY <1>1 DEF RingFollows, ChangesFollow
  <2>3. ASSUME a = b, r.applied[a] = members[a] PROVE TimersFollow(a)'
    <3>1. members'[a] = c /\ UNCHANGED halts
      BY <1>1, <2>3 DEF c
    <3>2. c.status = Suspect => a # Local
      BY <1>1, <1>2, <3>1 DEF LocalInv
    <3> QED BY <1>2, <1>7, <2>3, <3>1, <3>2 DEF TimersFollow, SuspicionInv
  <2>4. ASSUME a # b, TimersFollow(a) PROVE TimersFollow(a)'
    BY <1>1, <1>7, <2>4 DEF TimersFollow
  <2>5. a \notin Pending(t)'
        /\ (IF a \in Pending(t) THEN r.applied[a] = members[a] ELSE TimersFollow(a))
          => TimersFollow(a)'
    BY <1>4, <2>3, <2>4
  <2>6. a \in Busy(t)' => a \in Busy(t) /\ threads'[t].applied[a] = threads[t].applied[a]
    BY <1>4
  <2> QED BY <1>1, <1>2, <1>3, <1>4, <2>1, <2>2, <2>5, <2>6, ThreadWithAddress
<1> QED BY <1>1, <1>2, <1>3, <1>4, <1>7, <1>8, ReactKeeps

\* AddJoinList clears one of the changes it recorded.
LEMMA ClearChangeKeeps ==
  ASSUME UpdatesInv, NEW t \in Thread, NEW b \in Address, ClearChange(t, b)
  PROVE  UpdatesInv'
<1> DEFINE r == threads[t]
           z == [r EXCEPT !.left = @ \ {b}]
           n == IF r.left = {b} THEN IdleThread ELSE z
<1>1. /\ UNCHANGED <<members, checksum, ring, overlapped, timers, expired, enabled, halts>>
      /\ changes' = Drop(changes, b)
  BY DEF ClearChange, members_vars, node_vars
<1>2. /\ r \in ThreadRecord /\ StageInv(t) /\ threads' = [threads EXCEPT ![t] = n]
      /\ r.pc = "clear" /\ b \in r.left
  <2>1. threads' = [threads EXCEPT ![t] = n]
    BY DEF ClearChange
  <2> QED BY <2>1 DEF UpdatesInv, UpdatesTypeOK, ClearChange, At
<1>3. /\ z \in ThreadRecord /\ z.pc = "clear" /\ z.applied = r.applied /\ z.join = r.join
      /\ z.left = r.left \ {b}
  BY <1>2 DEF ThreadRecord
<1> HIDE DEF z
<1>4. /\ n \in ThreadRecord /\ n.pc \in {"idle", "clear"}
      /\ n.applied = r.applied \/ (n.pc = "idle" /\ n.applied = Empty)
  BY <1>3, IdleThreadType
<1>5. threads'[t] = n /\ \A u \in Thread \ {t} : threads'[u] = threads[u]
  BY <1>2 DEF UpdatesInv, UpdatesTypeOK
<1>6. StageInv(t)'
  BY <1>2, <1>3, <1>5, IdleThreadType, EmptyMap DEF StageInv
<1>7. /\ Busy(t)' \subseteq Busy(t) /\ Pending(t)' = {} /\ Pending(t) = {}
      /\ n.pc = "idle" => Busy(t)' = {}
      /\ Unrecorded(t)' = {} /\ Unrecorded(t) = {} /\ Unemitted(t)' = {} /\ Unemitted(t) = {}
  BY <1>2, <1>3, <1>5, IdleThreadType, EmptyMap DEF Busy, Pending, Unemitted, Unrecorded, At
<1> HIDE DEF n
<1>8. ASSUME NEW a \in Address PROVE AddressInv(a)'
  <2>1. AddressInv(a)
    BY DEF UpdatesInv
  <2>2. /\ RingFollows(a) => RingFollows(a)'
        /\ TimersFollow(a) => TimersFollow(a)'
    BY <1>1 DEF RingFollows, TimersFollow
  <2>3. ChangesFollow(a) => ChangesFollow(a)'
    <3>1. DOMAIN Drop(changes, b) = DOMAIN changes \ {b}
          /\ \A c \in DOMAIN changes \ {b} : Drop(changes, b)[c] = changes[c]
      BY DropMap
    <3> QED BY <1>1, <3>1 DEF ChangesFollow
  <2>4. a \in Busy(t)' => a \in Busy(t) /\ threads'[t].applied[a] = threads[t].applied[a]
    BY <1>4, <1>5, <1>7
  <2> QED BY <1>1, <1>2, <1>5, <1>7, <2>1, <2>2, <2>3, <2>4, ThreadWithAddress
<1> QED BY <1>1, <1>2, <1>4, <1>6, <1>8, SameTimers, ReactKeeps
-----------------------------------------------------------------------------
\* What Update applies of a list: of other members only what is newer, and never that the
\* process itself is suspect.
LEMMA AppliedChanges ==
  ASSUME UpdatesTypeOK, NEW list \in ChangeMap, NEW now \in Nat
  PROVE  /\ Applied(list, now) \in ChangeMap
         /\ \A a \in DOMAIN Applied(list, now) \ {Local} :
              nonLocalOverride(members[a], Applied(list, now)[a])
         /\ Local \in DOMAIN Applied(list, now) => Applied(list, now)[Local].status # Suspect
<1> DEFINE refuted(a) == a \in DOMAIN members /\ localOverride(a, Local, list[a])
           applies(a) == a \notin DOMAIN members \/ refuted(a) \/ nonLocalOverride(members[a], list[a])
           D == {b \in DOMAIN list : applies(b)}
           alive == [incarnation |-> now, status |-> Alive]
<1>1. Applied(list, now) = [a \in D |-> IF refuted(a) THEN alive ELSE list[a]]
  BY DEF Applied
<1>2. D \subseteq Address /\ DOMAIN members = Address /\ alive \in MemberRecord /\ alive.status = Alive
      /\ \A a \in D : list[a] \in MemberRecord
  BY ChangeMapElement DEF UpdatesTypeOK, MemberRecord, Status
<1>3. \A a \in D \ {Local} : ~refuted(a) /\ nonLocalOverride(members[a], list[a])
  BY <1>2 DEF localOverride
<1>4. Local \in D /\ ~refuted(Local) => list[Local].status # Suspect
  BY <1>2 DEF localOverride
<1> HIDE DEF refuted, D, alive
<1>5. Applied(list, now) \in [D -> MemberRecord]
  BY <1>1, <1>2
<1> QED BY <1>1, <1>2, <1>3, <1>4, <1>5 DEF ChangeMap, Alive, Suspect

\* Update applies its changes under the members lock.
LEMMA ApplyKeeps ==
  ASSUME UpdatesInv, NEW t \in Thread, NEW list \in ChangeMap, NEW join \in BOOLEAN,
         Apply(t, list, join)
  PROVE  UpdatesInv'
<1>1. PICK now \in {clock, clock + 1} \cap 0 .. MaxIncarnation :
        LET applied == Applied(list, now)
        IN  /\ members' = Overlay(applied, members)
            /\ threads' = [threads EXCEPT ![t] =
                 IF applied = Empty THEN IdleThread
                 ELSE [IdleThread EXCEPT !.pc = "checksum", !.join = join, !.applied = applied]]
            /\ overlapped' = overlapped \cup
                 (DOMAIN applied \cap UNION {Busy(u) : u \in Thread \ {t}})
  BY DEF Apply
<1> DEFINE applied == Applied(list, now)
           z == [IdleThread EXCEPT !.pc = "checksum", !.join = join, !.applied = applied]
           n == IF applied = Empty THEN IdleThread ELSE z
<1>2. /\ UNCHANGED <<checksum, ring, changes, timers, expired, enabled, halts>>
      /\ threads[t].pc = "checked"
  BY DEF Apply, node_vars, At
<1>3. UpdatesTypeOK /\ threads[t] \in ThreadRecord /\ StageInv(t)
  BY DEF UpdatesInv, UpdatesTypeOK
<1>4. now \in Nat
  OBVIOUS
<1>5. /\ applied \in ChangeMap
      /\ \A a \in DOMAIN applied \ {Local} : nonLocalOverride(members[a], applied[a])
      /\ Local \in DOMAIN applied => applied[Local].status # Suspect
  BY <1>3, <1>4, AppliedChanges
<1>6. members' = Overlay(applied, members) /\ threads' = [threads EXCEPT ![t] = n]
      /\ overlapped' = overlapped \cup (DOMAIN applied \cap UNION {Busy(u) : u \in Thread \ {t}})
  BY <1>1
<1> HIDE DEF applied
<1>7. z \in ThreadRecord /\ z.pc = "checksum" /\ z.applied = applied /\ z.left = {}
  BY <1>5, IdleThreadType DEF ThreadRecord
<1> HIDE DEF z
<1>8. /\ n \in ThreadRecord /\ n.applied = applied /\ n.left = {}
      /\ IF applied = Empty THEN n = IdleThread ELSE n.pc = "checksum"
  BY <1>7, IdleThreadType
<1> HIDE DEF n
<1>9. threads'[t] = n /\ \A u \in Thread \ {t} : threads'[u] = threads[u]
  BY <1>3, <1>6 DEF UpdatesTypeOK
<1>10. DOMAIN applied \subseteq Address /\ \A a \in DOMAIN applied : applied[a] \in MemberRecord
  BY <1>5, ChangeMapElement
<1>11. /\ members' \in [Address -> MemberRecord]
       /\ \A a \in DOMAIN applied : members'[a] = applied[a]
       /\ \A a \in Address \ DOMAIN applied : members'[a] = members[a]
  BY <1>3, <1>6, <1>10 DEF Overlay, UpdatesTypeOK
<1>12. UpdatesTypeOK'
  BY <1>2, <1>3, <1>6, <1>8, <1>11 DEF UpdatesTypeOK
<1>13. LocalInv' /\ SuspicionInv'
  BY <1>2, <1>5, <1>11 DEF UpdatesInv, LocalInv, SuspicionInv, Address
<1>14. ASSUME NEW a \in Remote, NEW c \in MemberRecord, ~ nonLocalOverride(members[a], c)
       PROVE  ~ nonLocalOverride(members'[a], c)
  <2>1. a \in Address /\ a # Local /\ members[a] \in MemberRecord
    BY <1>3, LocalAssumption DEF Address, UpdatesTypeOK
  <2> QED BY <1>5, <1>10, <1>11, <1>14, <2>1, NewerHolds
<1>15. HeldInv'
  <2>1. ASSUME NEW u \in Thread, NEW a \in DOMAIN threads'[u].applied \ {Local}
        PROVE  ~ nonLocalOverride(members'[a], threads'[u].applied[a])
    <3>1. CASE u = t
      BY <1>8, <1>9, <1>10, <1>11, <3>1, NotNewerThanItself
    <3>2. CASE u # t
      <4>1. threads[u].applied \in ChangeMap /\ threads'[u] = threads[u]
        BY <1>3, <1>9, <3>2 DEF UpdatesTypeOK, ThreadRecord
      <4>2. a \in Remote /\ threads[u].applied[a] \in MemberRecord
        BY <4>1, ChangeMapElement DEF Address
      <4>3. ~ nonLocalOverride(members[a], threads[u].applied[a])
        BY <4>1 DEF UpdatesInv, HeldInv
      <4> QED BY <1>14, <4>1, <4>2, <4>3
    <3> QED BY <3>1, <3>2
  <2>2. ASSUME NEW a \in Remote, NEW i \in Nat, Held(a, i) PROVE Held(a, i)'
    <3>1. [incarnation |-> i, status |-> Suspect] \in MemberRecord
      BY DEF MemberRecord, Status
    <3> QED BY <1>14, <2>2, <3>1 DEF Held
  <2>3. \A a \in DOMAIN timers : Held(a, timers[a].incarnation)'
    <3>1. \A a \in DOMAIN timers : a \in Remote /\ timers[a].incarnation \in Nat /\ Held(a, timers[a].incarnation)
      BY DEF UpdatesInv, UpdatesTypeOK, HeldInv, TimerRecord
    <3> QED BY <1>2, <2>2, <3>1
  <2>4. ASSUME NEW e \in CallbackRecord, Held(e.address, e.incarnation)
        PROVE  Held(e.address, e.incarnation)'
    BY <2>2, <2>4 DEF CallbackRecord
  <2>5. \A e \in expired' : Held(e.address, e.incarnation)'
    BY <1>2, <2>4 DEF UpdatesInv, UpdatesTypeOK, HeldInv
  <2>6. ASSUME NEW u \in Thread, threads'[u].pc = "checked", NEW e \in threads'[u].cause
        PROVE  Held(e.address, e.incarnation)'
    <3>1. threads'[u] = threads[u]
      BY <1>8, <1>9, <2>6, IdleThreadType
    <3>2. e \in CallbackRecord /\ Held(e.address, e.incarnation)
      BY <1>3, <2>6, <3>1 DEF UpdatesInv, UpdatesTypeOK, ThreadRecord, HeldInv, At
    <3> QED BY <2>4, <3>2
  <2> QED BY <1>2, <2>1, <2>3, <2>5, <2>6 DEF HeldInv, At
<1>16. ChecksumCurrent'
  <2>1. CASE applied = Empty
    <3>1. members' = members
      BY <1>3, <1>11, <2>1, EmptyMap DEF UpdatesTypeOK
    <3>2. \A u \in Thread : threads[u].pc = "checksum" => threads'[u].pc = "checksum"
      BY <1>2, <1>9
    <3> QED BY <1>2, <3>1, <3>2 DEF UpdatesInv, ChecksumCurrent, At
  <2>2. CASE applied # Empty
    BY <1>8, <1>9, <2>2 DEF ChecksumCurrent, At
  <2> QED BY <2>1, <2>2
<1>17. ASSUME NEW u \in Thread PROVE StageInv(u)'
  <2>1. CASE u = t
    BY <1>8, <1>9, <2>1, IdleThreadType, EmptyMap DEF StageInv
  <2>2. CASE u # t
    BY <1>9, <2>2, SameThread DEF UpdatesInv
  <2> QED BY <2>1, <2>2
<1>18. /\ Busy(t)' = DOMAIN applied /\ Unemitted(t)' = DOMAIN applied
       /\ Unrecorded(t)' = DOMAIN applied /\ Pending(t)' = DOMAIN applied /\ Busy(t) = {}
  <2>1. Busy(t) = {}
    BY <1>2, <1>3, EmptyMap DEF StageInv, Busy, Pending, At
  <2>2. CASE applied = Empty
    BY <1>8, <1>9, <2>1, <2>2, IdleThreadType, EmptyMap DEF Busy, Pending, Unemitted, Unrecorded, At
  <2>3. CASE applied # Empty
    BY <1>8, <1>9, <2>1, <2>3 DEF Busy, Pending, Unemitted, Unrecorded, At
  <2> QED BY <2>2, <2>3
<1>19. \A u \in Thread \ {t} :
         /\ Busy(u)' = Busy(u) /\ Pending(u)' = Pending(u)
         /\ Unemitted(u)' = Unemitted(u) /\ Unrecorded(u)' = Unrecorded(u)
  BY <1>9, SameThread
<1>20. ASSUME NEW a \in Address PROVE AddressInv(a)'
  <2>1. AddressInv(a)
    BY DEF UpdatesInv
  <2> SUFFICES ASSUME a \notin overlapped' PROVE AddressInv(a)'
    BY DEF AddressInv
  <2>2. a \notin overlapped /\ (a \in DOMAIN applied => \A u \in Thread \ {t} : a \notin Busy(u))
    BY <1>6
  <2>3. CASE a \in DOMAIN applied
    BY <1>8, <1>9, <1>11, <1>18, <1>19, <2>2, <2>3 DEF AddressInv
  <2>4. CASE a \notin DOMAIN applied
    <3>1. members'[a] = members[a]
      BY <1>11, <2>4
    <3>2. /\ RingFollows(a) => RingFollows(a)'
          /\ ChangesFollow(a) => ChangesFollow(a)'
          /\ TimersFollow(a) => TimersFollow(a)'
      BY <1>2, <3>1 DEF RingFollows, ChangesFollow, TimersFollow
    <3>3. \A u \in Thread : /\ a \in Busy(u)' <=> a \in Busy(u)
                            /\ a \in Busy(u)' => threads'[u] = threads[u]
      BY <1>9, <1>18, <1>19, <2>4
    <3>4. \A u \in Thread : /\ a \in Pending(u)' <=> a \in Pending(u)
                            /\ a \in Unemitted(u)' <=> a \in Unemitted(u)
                            /\ a \in Unrecorded(u)' <=> a \in Unrecorded(u)
      BY <1>3, <1>18, <1>19, <2>4, ToDoIsBusy
    <3> QED BY <2>1, <2>2, <3>1, <3>2, <3>3, <3>4 DEF AddressInv
  <2> QED BY <2>3, <2>4
<1> QED BY <1>12, <1>13, <1>15, <1>16, <1>17, <1>20 DEF UpdatesInv
-----------------------------------------------------------------------------
\* The lists that are applied are maps of changes.
LEMMA ListsAreMaps == Lists \subseteq ChangeMap
<1> SUFFICES ASSUME NEW list \in Lists PROVE list \in ChangeMap
  OBVIOUS
<1> DEFINE entries(a) == [incarnation : 0 .. (IF a = Local THEN clock ELSE MaxIncarnation),
                          status : Status]
<1>1. PICK D \in SUBSET Told :
        list \in [D -> UNION {entries(a) : a \in D}] /\ \A a \in D : list[a] \in entries(a)
  BY DEF Lists
<1>2. \A a : entries(a) \subseteq MemberRecord
  BY DEF MemberRecord
<1> HIDE DEF entries
<1>3. list \in [D -> MemberRecord]
  BY <1>1, <1>2
<1> QED BY <1>1, <1>3, ToldAssumption DEF ChangeMap

\* What MakeFaulty asks for is a list of one change.
LEMMA FaultyIsMap ==
  ASSUME NEW e \in CallbackRecord
  PROVE  Entry(e.address, [incarnation |-> e.incarnation, status |-> Faulty]) \in ChangeMap
<1> DEFINE c == [incarnation |-> e.incarnation, status |-> Faulty]
<1>1. c \in MemberRecord /\ e.address \in Address
  BY DEF CallbackRecord, MemberRecord, Status, Address
<1> HIDE DEF c
<1>2. Entry(e.address, c) \in [{e.address} -> MemberRecord]
  BY <1>1 DEF Entry
<1> QED BY <1>1, <1>2 DEF ChangeMap, c

\* A timer that goes off leaves a callback, and stays until it is stopped.
LEMMA ExpireKeeps ==
  ASSUME UpdatesInv, NEW b \in Address, Expire(b)
  PROVE  UpdatesInv'
<1> DEFINE i == timers[b]
           f == [i EXCEPT !.fired = TRUE]
           e == [address |-> b, incarnation |-> i.incarnation]
<1>1. /\ UNCHANGED <<members, checksum, ring, overlapped, changes, enabled, halts, threads>>
      /\ timers' = [timers EXCEPT ![b] = f] /\ expired' = expired \cup {e} /\ b \in DOMAIN timers
  BY DEF Expire, members_vars, node_vars
<1>2. /\ DOMAIN timers \subseteq Remote /\ (~enabled => timers = Empty) /\ expired \subseteq CallbackRecord
      /\ \A a \in DOMAIN timers : timers[a] \in TimerRecord /\ Held(a, timers[a].incarnation)
      /\ \A d \in expired : Held(d.address, d.incarnation)
      /\ halts \in Nat /\ (~enabled => halts > 0)
  BY DEF UpdatesInv, UpdatesTypeOK, HeldInv, SuspicionInv
<1>3. i \in TimerRecord /\ Held(b, i.incarnation)
  BY <1>1, <1>2
<1>4. f \in TimerRecord /\ f.incarnation = i.incarnation
  BY <1>3 DEF TimerRecord
<1>5. e \in CallbackRecord /\ e.address = b /\ e.incarnation = i.incarnation
  BY <1>1, <1>2, <1>3 DEF CallbackRecord, TimerRecord
<1> HIDE DEF e, f, i
<1>6. /\ DOMAIN timers' = DOMAIN timers /\ timers'[b] = f
      /\ \A a \in DOMAIN timers \ {b} : timers'[a] = timers[a]
  BY <1>1
<1>7. ASSUME NEW a \in Address
      PROVE  /\ RingFollows(a) => RingFollows(a)'
             /\ ChangesFollow(a) => ChangesFollow(a)'
             /\ TimersFollow(a) => TimersFollow(a)'
  BY <1>1, <1>6 DEF RingFollows, ChangesFollow, TimersFollow
<1>8. \A a \in DOMAIN timers' : timers'[a] \in TimerRecord /\ Held(a, timers'[a].incarnation)
  BY <1>2, <1>3, <1>4, <1>6
<1>9. expired' \subseteq CallbackRecord /\ \A d \in expired' : Held(d.address, d.incarnation)
  BY <1>1, <1>2, <1>3, <1>5
<1>10. ~enabled => timers' = Empty
  BY <1>1, <1>2, EmptyMap
<1> QED BY <1>1, <1>2, <1>6, <1>7, <1>8, <1>9, <1>10, QuietKeeps

\* A node starts with every part of it in agreement.
LEMMA InitUpdates == Init => UpdatesInv
<1> SUFFICES ASSUME Init PROVE UpdatesInv
  OBVIOUS
<1> DEFINE alive == [incarnation |-> 0, status |-> Alive]
<1>1. /\ members = [a \in Address |-> alive] /\ checksum = members /\ ring = Address
      /\ changes = Empty /\ timers = Empty /\ expired = {} /\ enabled = TRUE
      /\ threads = [t \in Thread |-> IdleThread] /\ halts = 0
  BY DEF Init
<1>2. alive \in MemberRecord /\ alive.status = Alive
  BY DEF MemberRecord, Status
<1> HIDE DEF alive
<1>3. UpdatesTypeOK
  BY <1>1, <1>2, IdleThreadType, EmptyMap DEF UpdatesTypeOK
<1>4. LocalInv /\ SuspicionInv /\ ChecksumCurrent
  BY <1>1, <1>2 DEF LocalInv, SuspicionInv, ChecksumCurrent, Address, Alive, Suspect
<1>5. HeldInv
  BY <1>1, IdleThreadType, EmptyMap DEF HeldInv, At
<1>6. \A t \in Thread : StageInv(t)
  BY <1>1, IdleThreadType, EmptyMap DEF StageInv
<1>7. ASSUME NEW a \in Address PROVE AddressInv(a)
  <2>1. RingFollows(a) /\ ChangesFollow(a) /\ TimersFollow(a)
    BY <1>1, <1>2, EmptyMap DEF RingFollows, ChangesFollow, TimersFollow, Alive, Faulty, Leave, Suspect
  <2>2. \A t \in Thread : Busy(t) = {}
    BY <1>1, IdleThreadType, EmptyMap DEF Busy, Pending, At
  <2> QED BY <2>1, <2>2 DEF AddressInv
<1> QED BY <1>3, <1>4, <1>5, <1>6, <1>7 DEF UpdatesInv

\* Every step of a goroutine, a timer or the lifecycle keeps the invariant.
LEMMA UpdatesStep == UpdatesInv /\ [Next]_vars => UpdatesInv'
<1> SUFFICES ASSUME UpdatesInv, [Next]_vars PROVE UpdatesInv'
  OBVIOUS
<1>1. ASSUME NEW t \in Thread, Receive(t) PROVE UpdatesInv'
  <2>1. {} \in SUBSET CallbackRecord
    OBVIOUS
  <2> QED BY <1>1, <2>1, BeginKeeps DEF Receive
<1>2. ASSUME NEW t \in Thread, UpdateStep(t) PROVE UpdatesInv'
  <2>1. CASE ApplyList(t)
    BY <2>1, ListsAreMaps, ApplyKeeps DEF ApplyList
  <2>2. CASE ApplyFaulty(t)
    <3>1. PICK e \in threads[t].cause :
            Apply(t, Entry(e.address, [incarnation |-> e.incarnation, status |-> Faulty]), FALSE)
      BY <2>2 DEF ApplyFaulty
    <3>2. e \in CallbackRecord
      BY DEF UpdatesInv, UpdatesTypeOK, ThreadRecord
    <3> QED BY <3>1, <3>2, FaultyIsMap, ApplyKeeps
  <2>3. CASE ComputeChecksum(t) \/ Emit(t) \/ AdjustTimer(t)
    BY <2>3, ComputeChecksumKeeps, EmitKeeps, AdjustTimerKeeps
  <2>4. CASE \E a \in Address : RecordChange(t, a) \/ ClearChange(t, a)
    BY <2>4, RecordChangeKeeps, ClearChangeKeeps
  <2> QED BY <1>2, <2>1, <2>2, <2>3, <2>4 DEF UpdateStep
<1> DEFINE Follows(a) == /\ RingFollows(a) => RingFollows(a)'
                         /\ ChangesFollow(a) => ChangesFollow(a)'
                         /\ TimersFollow(a) => TimersFollow(a)'
<1>3. /\ expired \subseteq CallbackRecord /\ halts \in Nat /\ (~enabled => halts > 0)
      /\ \A e \in expired : Held(e.address, e.incarnation)
  BY DEF UpdatesInv, UpdatesTypeOK, SuspicionInv, HeldInv
<1>4. ASSUME NEW t \in Thread, NEW e \in expired, MakeFaulty(t, e) PROVE UpdatesInv'
  <2>1. UNCHANGED <<members_vars, changes, timers, node_vars>> /\ expired' \subseteq expired
    BY <1>4 DEF MakeFaulty
  <2>2. CASE Begin(t, {e})
    BY <1>3, <2>1, <2>2, BeginKeeps
  <2>3. CASE UNCHANGED threads
    <3>1. \A a \in Address : Follows(a)
      BY <2>1 DEF members_vars, node_vars, RingFollows, ChangesFollow, TimersFollow
    <3> QED BY <1>3, <2>1, <2>3, <3>1, SameTimers, QuietKeeps DEF members_vars, node_vars
  <2> QED BY <1>4, <2>2, <2>3 DEF MakeFaulty
<1>5. ASSUME NEW b \in Address, Spend(b) PROVE UpdatesInv'
  <2>1. UNCHANGED <<members_vars, timers, expired, node_vars, threads>> /\ changes' = Drop(changes, b)
    BY <1>5 DEF Spend
  <2>2. DOMAIN Drop(changes, b) = DOMAIN changes \ {b}
        /\ \A c \in DOMAIN changes \ {b} : Drop(changes, b)[c] = changes[c]
    BY DropMap
  <2>3. \A a \in Address : Follows(a)
    BY <2>1, <2>2 DEF members_vars, node_vars, RingFollows, ChangesFollow, TimersFollow
  <2> QED BY <1>3, <2>1, <2>3, SameTimers, QuietKeeps DEF members_vars, node_vars
<1>6. CASE Disable
  <2>1. /\ UNCHANGED <<members_vars, changes, expired, threads>>
        /\ timers' = Empty /\ halts' = halts + 1
    BY <1>6 DEF Disable
  <2>2. \A a \in Address : Follows(a)
    BY <1>3, <2>1, EmptyMap DEF members_vars, RingFollows, ChangesFollow, TimersFollow
  <2> QED BY <1>3, <2>1, <2>2, EmptyMap, QuietKeeps DEF members_vars
<1>7. CASE SetStopped \/ Reenable \/ ClearStopped \/ UNCHANGED vars
  <2>1. /\ UNCHANGED <<members_vars, changes, timers, expired, halts, threads>>
        /\ ~enabled' => ~enabled
    BY <1>7 DEF SetStopped, Reenable, ClearStopped, vars, node_vars
  <2>2. \A a \in Address : Follows(a)
    BY <2>1 DEF members_vars, RingFollows, ChangesFollow, TimersFollow
  <2> QED BY <1>3, <2>1, <2>2, SameTimers, QuietKeeps DEF members_vars
<1> QED BY <1>1, <1>2, <1>4, <1>5, <1>6, <1>7, ExpireKeeps DEF Next

\* A goroutine that clears changes takes one step only: it clears one.
LEMMA StepClears ==
  ASSUME UpdatesTypeOK, Next, NEW t \in Thread, At(t, "clear"), threads'[t] # threads[t],
         NEW a \in DOMAIN changes, a \notin DOMAIN changes'
  PROVE  a \in threads[t].left /\ a \in Address
<1>1. threads[t].pc = "clear" /\ threads \in [Thread -> ThreadRecord]
  BY DEF At, UpdatesTypeOK
<1>2. ASSUME NEW u \in Thread, Receive(u) \/ ApplyList(u) \/ ApplyFaulty(u) \/ ComputeChecksum(u)
                               \/ Emit(u) \/ AdjustTimer(u)
      PROVE  FALSE
  BY <1>2 DEF Receive, ApplyList, ApplyFaulty, Apply, ComputeChecksum, Emit, AdjustTimer
<1>3. ASSUME NEW u \in Thread, NEW e \in expired, MakeFaulty(u, e) PROVE FALSE
  BY <1>3 DEF MakeFaulty
<1>4. ASSUME NEW u \in Thread, NEW b \in Address, RecordChange(u, b) PROVE FALSE
  <2>1. threads[u].pc = "react" /\ \A v \in Thread \ {u} : threads'[v] = threads[v]
    BY <1>1, <1>4 DEF RecordChange, At
  <2> QED BY <1>1, <2>1
<1>5. ASSUME NEW u \in Thread, NEW b \in Address, ClearChange(u, b)
      PROVE  a \in threads[t].left /\ a \in Address
  <2>1. /\ changes' = Drop(changes, b) /\ b \in threads[u].left
        /\ \A v \in Thread \ {u} : threads'[v] = threads[v]
    BY <1>1, <1>5 DEF ClearChange
  <2>2. DOMAIN Drop(changes, b) = DOMAIN changes \ {b}
    BY DropMap
  <2>3. a = b
    BY <2>1, <2>2
  <2> QED BY <2>1, <2>3
<1>6. (\E b \in Address : Expire(b) \/ Spend(b)) => UNCHANGED threads
  BY DEF Expire, Spend
<1>7. Disable \/ SetStopped \/ Reenable \/ ClearStopped => UNCHANGED threads
  BY DEF Disable, SetStopped, Reenable, ClearStopped
<1> QED BY <1>2, <1>3, <1>4, <1>5, <1>6, <1>7 DEF Next, UpdateStep

\* The invariant of the goroutines holds in every reachable state.
LEMMA UpdatesAlways == Spec => []UpdatesInv
  BY InitUpdates, UpdatesStep, PTL DEF Spec
-----------------------------------------------------------------------------
\* Once no Update has still to compute it, the checksum is the one of the current
\* memberlist, whatever the order of concurrent Updates (ComputeChecksum).
THEOREM ChecksumIsCurrent == Spec => []ChecksumCurrent
<1>1. UpdatesInv => ChecksumCurrent
  BY DEF UpdatesInv
<1> QED BY <1>1, UpdatesAlways, PTL

\* Of a member whose Updates never overlapped and none of which is under way, the ring, the
\* timers and the disseminator say what the memberlist says, although handleChanges moves
\* each of them under a lock of its own.
THEOREM SettlesUnlessOverlapped == Spec => []SettledUnlessOverlapped
<1>1. UpdatesInv => SettledUnlessOverlapped
  <2> SUFFICES ASSUME UpdatesInv, NEW a \in DOMAIN members \ overlapped,
                      \A t \in Thread : a \notin Pending(t)
               PROVE  RingFollows(a) /\ TimersFollow(a) /\ ChangesFollow(a)
    BY DEF SettledUnlessOverlapped
  <2>1. AddressInv(a)
    BY DEF UpdatesInv, UpdatesTypeOK
  <2>2. \A t \in Thread : a \notin Unemitted(t) /\ a \notin Unrecorded(t)
    BY ToDoIsBusy DEF UpdatesInv, UpdatesTypeOK
  <2> QED BY <2>1, <2>2 DEF AddressInv
<1> QED BY <1>1, UpdatesAlways, PTL

\* Disabled suspicion has no timers, also when an Update that found the node not stopped
\* handles its suspect after suspicion.Disable.
THEOREM DisabledIsTimerless == Spec => []DisabledHasNoTimers
<1>1. UpdatesInv => DisabledHasNoTimers
  BY DEF UpdatesInv, SuspicionInv, DisabledHasNoTimers
<1> QED BY <1>1, UpdatesAlways, PTL

\* The callback of a suspicion timer declares faulty only an incarnation the process has
\* held as suspect, or one that is superseded by now, whenever it comes to call MakeFaulty.
THEOREM LateTimersHarmless == Spec => []StaleTimersHarmless
<1>1. UpdatesInv => StaleTimersHarmless
  BY DEF UpdatesInv, HeldInv, Held, StaleTimersHarmless, Callback
<1> QED BY <1>1, UpdatesAlways, PTL

\* AddJoinList takes out of the disseminator only the change its own Update recorded,
\* unless another Update of that member overlapped with it.
THEOREM JoinClearsItsOwn == Spec => JoinClearsOwnChange
<1> DEFINE OwnChange ==
      \A t \in Thread, a \in DOMAIN changes \ overlapped :
        At(t, "clear") /\ threads'[t] # threads[t] /\ a \notin DOMAIN changes' =>
          a \in DOMAIN threads[t].applied /\ changes[a] = threads[t].applied[a]
<1>1. UpdatesInv /\ [Next]_vars => [OwnChange]_vars
  <2> SUFFICES ASSUME UpdatesInv, Next, NEW t \in Thread, NEW a \in DOMAIN changes \ overlapped,
                      At(t, "clear"), threads'[t] # threads[t], a \notin DOMAIN changes'
               PROVE  a \in DOMAIN threads[t].applied /\ changes[a] = threads[t].applied[a]
    OBVIOUS
  <2>1. a \in threads[t].left /\ a \in Address
    BY StepClears DEF UpdatesInv
  <2>2. a \in Busy(t) /\ StageInv(t) /\ AddressInv(a)
    BY <2>1 DEF Busy, UpdatesInv
  <2>3. a \in DOMAIN threads[t].applied
    BY <2>1, <2>2 DEF StageInv
  <2>4. /\ threads[t].applied[a] = members[a]
        /\ \A u \in Thread : a \in Busy(u) => u = t
        /\ (\A u \in Thread : a \notin Unrecorded(u)) => ChangesFollow(a)
    BY <2>2 DEF AddressInv
  <2>5. a \notin Unrecorded(t)
    BY DEF Unrecorded, Unemitted, At
  <2>6. \A u \in Thread : a \notin Unrecorded(u)
    BY <2>4, <2>5, ToDoIsBusy DEF UpdatesInv, UpdatesTypeOK
  <2> QED BY <2>3, <2>4, <2>6 DEF ChangesFollow
<1> QED BY <1>1, UpdatesAlways, PTL DEF Spec, JoinClearsOwnChange
=============================================================================

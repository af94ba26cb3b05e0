---------------------------- MODULE NodeUpdates ----------------------------
(***************************************************************************)
(* The goroutines of one process that update its memberlist at the same    *)
(* time: handlers of pings and ping-reqs, answers to its own calls, join   *)
(* lists, admin requests and suspicion timers.  Each runs                  *)
(* memberlist.Update, which asks whether the node is stopped, applies its  *)
(* changes under the members lock and then, with the lock released,        *)
(* computes the checksum and tells the ring, the disseminator and the      *)
(* suspicion timers, each under a lock of its own.  Meanwhile the node may *)
(* be stopped and started again.                                           *)
(*                                                                         *)
(* Abstractions.  A change list names an address once, so it is a map; the *)
(* order in which its changes are handled is any.  A checksum is the       *)
(* memberlist it was computed from.  Piggyback counters are left out: a    *)
(* change may be dropped from the disseminator at any time.  The ring is   *)
(* the set of its servers.  The rollup, the last step of Update, has a     *)
(* module of its own (Rollup).                                             *)
(***************************************************************************)
EXTENDS Member, FiniteSets, Functions

CONSTANTS
  Local,           \* the address of the process
  Remote,          \* the addresses of other members
  Told,            \* the addresses that arriving lists name
  Thread,          \* bound on the goroutines that run Update at the same time
  MaxList,         \* bound on the length of a list
  MaxIncarnation,  \* bound on incarnations
  MaxHalts         \* bound on the number of times the node is stopped

ASSUME LocalAssumption == Local \notin Remote

Address == Remote \cup {Local}

ASSUME ToldAssumption == Told \subseteq Address

VARIABLES
  members,     \* memberlist.members.byAddress
  checksum,    \* memberlist.members.checksum: the members it was computed from
  ring,        \* the servers of the hash ring
  changes,     \* disseminator.changes
  timers,      \* suspicion.timers: the incarnation a timer will declare faulty
  expired,     \* callbacks of timers that went off and have not called MakeFaulty
  enabled,     \* suspicion.enabled
  stopped,     \* node.state.stopped
  clock,       \* the last reading of the clock
  threads,     \* threads[t]: where goroutine t is in its Update
  overlapped,  \* history: addresses of which two Updates were under way at once
  halts        \* history: the number of times suspicion was disabled

members_vars == <<members, checksum, ring, clock, overlapped>>
node_vars == <<enabled, stopped, halts>>
vars == <<members_vars, changes, timers, expired, node_vars, threads>>

Empty == [a \in {} |-> a]

Entry(a, c) == [b \in {a} |-> c]

Overlay(f, g) ==
  [a \in DOMAIN f \cup DOMAIN g |-> IF a \in DOMAIN f THEN f[a] ELSE g[a]]

Drop(f, a) == Restrict(f, DOMAIN f \ {a})

\* pc: "idle", "checked" (the node was not stopped), "checksum" (applied, lock
\* released), "emit" (checksum computed), "react" (listeners told), "timer"
\* (change of address `now` recorded) or "clear" (the end of AddJoinList).
\* cause: the timer callback this is, if any.  left: addresses to be handled.
IdleThread == [pc |-> "idle", cause |-> {}, join |-> FALSE,
               applied |-> Empty, left |-> {}, now |-> Local]

At(t, pc) == threads[t].pc = pc

Goto(t, pc) == threads' = [threads EXCEPT ![t].pc = pc]

\* Addresses whose applied change goroutine t has not finished to handle ...
Pending(t) ==
  CASE threads[t].pc \in {"checksum", "emit"} -> DOMAIN threads[t].applied
    [] threads[t].pc = "react" -> threads[t].left
    [] threads[t].pc = "timer" -> threads[t].left \cup {threads[t].now}
    [] OTHER -> {}

\* ... or whose change it has still to clear.
Busy(t) == Pending(t) \cup
  (IF At(t, "clear") THEN threads[t].left
   ELSE IF threads[t].join THEN DOMAIN threads[t].applied ELSE {})

\* What Update applies of a list, refuting with clock reading `now`.
Applied(list, now) ==
  LET known(a)   == a \in DOMAIN members
      refuted(a) == known(a) /\ localOverride(a, Local, list[a])
      applies(a) == ~known(a) \/ refuted(a) \/ nonLocalOverride(members[a], list[a])
  IN  [a \in {b \in DOMAIN list : applies(b)} |->
         IF refuted(a) THEN [incarnation |-> now, status |-> Alive] ELSE list[a]]

-----------------------------------------------------------------------------
\* A bootstrapped node that knows the others.
Init ==
  /\ members = [a \in Address |-> [incarnation |-> 0, status |-> Alive]]
  /\ checksum = members
  /\ ring = Address
  /\ changes = Empty /\ timers = Empty /\ expired = {}
  /\ enabled = TRUE /\ stopped = FALSE
  /\ clock = 0
  /\ threads = [t \in Thread |-> IdleThread]
  /\ overlapped = {} /\ halts = 0

\* Goroutine t calls Update and finds that the node is not stopped.
Begin(t, cause) ==
  /\ At(t, "idle") /\ ~stopped
  /\ threads' = [threads EXCEPT ![t] = [IdleThread EXCEPT !.pc = "checked", !.cause = cause]]

\* It applies a list under the members lock.
Apply(t, list, join) ==
  /\ At(t, "checked")
  /\ \E now \in {clock, clock + 1} \cap 0 .. MaxIncarnation :
       LET applied == Applied(list, now)
           refutes == \E a \in DOMAIN applied : applied[a] # list[a]
       IN  /\ clock' = IF refutes THEN now ELSE clock
           /\ members' = Overlay(applied, members)
           /\ threads' = [threads EXCEPT ![t] =
                IF applied = Empty THEN IdleThread
                ELSE [IdleThread EXCEPT !.pc = "checksum", !.join = join, !.applied = applied]]
           /\ overlapped' = overlapped \cup
                (DOMAIN applied \cap UNION {Busy(u) : u \in Thread \ {t}})
  /\ UNCHANGED <<checksum, ring, changes, timers, expired, node_vars>>

\* Mutant: the changes of the caller are added to the last checksum.
ComputeChecksumOnce(t) ==
  /\ At(t, "checksum")
  /\ checksum' = Overlay(threads[t].applied, checksum)
  /\ Goto(t, "emit")
  /\ UNCHANGED <<members, ring, clock, overlapped, changes, timers, expired, node_vars>>

ComputeChecksum(t) ==
  /\ At(t, "checksum")
  /\ checksum' = members
  /\ Goto(t, "emit")
  /\ UNCHANGED <<members, ring, clock, overlapped, changes, timers, expired, node_vars>>

\* Ringpop.handleChanges: alive servers are added, faulty and left ones removed.
Emit(t) ==
  /\ At(t, "emit")
  /\ LET applied == threads[t].applied
         add == {a \in DOMAIN applied : applied[a].status = Alive}
         remove == {a \in DOMAIN applied : applied[a].status \in {Faulty, Leave}}
     IN  ring' = (ring \cup add) \ remove
  /\ threads' = [threads EXCEPT ![t].pc = "react", ![t].left = DOMAIN threads[t].applied]
  /\ UNCHANGED <<members, checksum, clock, overlapped, changes, timers, expired, node_vars>>

\* Mutant: a change that is still being disseminated is not replaced.
RecordChangeOnce(t, a) ==
  /\ At(t, "react") /\ a \in threads[t].left
  /\ changes' = Overlay(changes, Entry(a, threads[t].applied[a]))
  /\ threads' = [threads EXCEPT ![t].pc = "timer", ![t].now = a, ![t].left = @ \ {a}]
  /\ UNCHANGED <<members_vars, timers, expired, node_vars>>

\* handleChanges, one change: it is recorded in the disseminator ...
RecordChange(t, a) ==
  /\ At(t, "react") /\ a \in threads[t].left
  /\ changes' = Overlay(Entry(a, threads[t].applied[a]), changes)
  /\ threads' = [threads EXCEPT ![t].pc = "timer", ![t].now = a, ![t].left = @ \ {a}]
  /\ UNCHANGED <<members_vars, timers, expired, node_vars>>

\* Mutant: timers are started also while suspicion is disabled.
SuspicionStartAlways(a, c) ==
  timers' = IF a # Local /\ a \notin DOMAIN timers
              THEN Overlay(Entry(a, [incarnation |-> c.incarnation, fired |-> FALSE]), timers)
              ELSE timers

\* Mutant: the timer is for the incarnation after the suspected one.
SuspicionStartNext(a, c) ==
  timers' = IF enabled /\ a # Local /\ a \notin DOMAIN timers
              THEN Overlay(Entry(a, [incarnation |-> c.incarnation + 1, fired |-> FALSE]), timers)
              ELSE timers

\* suspicion.Start and suspicion.Stop, under the lock of the suspicion timers.
SuspicionStart(a, c) ==
  timers' = IF enabled /\ a # Local /\ a \notin DOMAIN timers
              THEN Overlay(Entry(a, [incarnation |-> c.incarnation, fired |-> FALSE]), timers)
              ELSE timers

SuspicionStop(a) == timers' = Drop(timers, a)

\* The last change is handled: Update returns, and AddJoinList goes on to clear what
\* it has recorded.
Handled(r) ==
  IF r.left # {} THEN [r EXCEPT !.pc = "react", !.now = Local]
  ELSE IF r.join /\ DOMAIN r.applied # {Local}
    THEN [r EXCEPT !.pc = "clear", !.now = Local, !.left = DOMAIN r.applied \ {Local}]
    ELSE IdleThread

\* Mutant: only a change to alive stops the timer.
AdjustTimerAliveOnly(t) ==
  /\ At(t, "timer")
  /\ LET a == threads[t].now
         c == threads[t].applied[a]
     IN  CASE c.status = Suspect -> SuspicionStart(a, c)
           [] c.status = Alive -> SuspicionStop(a)
           [] OTHER -> UNCHANGED timers
  /\ threads' = [threads EXCEPT ![t] = Handled(@)]
  /\ UNCHANGED <<members_vars, changes, expired, node_vars>>

\* ... and then its timer is started or stopped.
AdjustTimer(t) ==
  /\ At(t, "timer")
  /\ LET a == threads[t].now
         c == threads[t].applied[a]
     IN  IF c.status = Suspect THEN SuspicionStart(a, c) ELSE SuspicionStop(a)
  /\ threads' = [threads EXCEPT ![t] = Handled(@)]
  /\ UNCHANGED <<members_vars, changes, expired, node_vars>>

\* AddJoinList takes an address it has applied out of the disseminator.
ClearChange(t, a) ==
  /\ At(t, "clear") /\ a \in threads[t].left
  /\ changes' = Drop(changes, a)
  /\ threads' = [threads EXCEPT ![t] =
       IF @.left = {a} THEN IdleThread ELSE [threads[t] EXCEPT !.left = @ \ {a}]]
  /\ UNCHANGED <<members_vars, timers, expired, node_vars>>
-----------------------------------------------------------------------------
\* A list that arrives in a ping, a ping-req, an answer or a join response, or that
\* an admin request makes.  Only the process itself makes its incarnations.
Lists ==
  LET entries(a) == [incarnation : 0 .. (IF a = Local THEN clock ELSE MaxIncarnation),
                     status : Status]
  IN  UNION {{f \in [D -> UNION {entries(a) : a \in D}] : \A a \in D : f[a] \in entries(a)} :
               D \in {E \in SUBSET Told : E # {} /\ Cardinality(E) <= MaxList}}

Receive(t) ==
  /\ Begin(t, {})
  /\ UNCHANGED <<members_vars, changes, timers, expired, node_vars>>

\* The list is chosen here: nothing depends on it before.
ApplyList(t) ==
  /\ threads[t].cause = {}
  /\ \E list \in Lists, join \in BOOLEAN : Apply(t, list, join)

\* The suspicion timer of a goes off and its callback starts to run ...
Expire(a) ==
  /\ a \in DOMAIN timers /\ ~timers[a].fired
  /\ timers' = [timers EXCEPT ![a].fired = TRUE]
  /\ expired' = expired \cup {[address |-> a, incarnation |-> timers[a].incarnation]}
  /\ UNCHANGED <<members_vars, changes, node_vars, threads>>

\* ... and calls MakeFaulty, which does nothing if the node is stopped.
MakeFaulty(t, e) ==
  /\ e \in expired
  /\ \/ Begin(t, {e})
     \/ stopped /\ UNCHANGED threads
  /\ expired' = expired \ {e}
  /\ UNCHANGED <<members_vars, changes, timers, node_vars>>

ApplyFaulty(t) ==
  \E e \in threads[t].cause :
    Apply(t, Entry(e.address, [incarnation |-> e.incarnation, status |-> Faulty]), FALSE)

\* A change has been propagated maxP times.
Spend(a) ==
  /\ a \in DOMAIN changes
  /\ changes' = Drop(changes, a)
  /\ UNCHANGED <<members_vars, timers, expired, node_vars, threads>>

\* Node.Stop disables suspicion and then sets stopped ...
Disable ==
  /\ enabled /\ ~stopped /\ halts < MaxHalts
  /\ enabled' = FALSE /\ timers' = Empty /\ halts' = halts + 1
  /\ UNCHANGED <<members_vars, changes, expired, stopped, threads>>

SetStopped ==
  /\ ~enabled /\ ~stopped
  /\ stopped' = TRUE
  /\ UNCHANGED <<members_vars, changes, timers, expired, enabled, halts, threads>>

\* ... Node.Start enables it again, without timers for the suspects it has.
Reenable ==
  /\ ~enabled /\ stopped
  /\ enabled' = TRUE
  /\ UNCHANGED <<members_vars, changes, timers, expired, stopped, halts, threads>>

ClearStopped ==
  /\ enabled /\ stopped
  /\ stopped' = FALSE
  /\ UNCHANGED <<members_vars, changes, timers, expired, enabled, halts, threads>>

UpdateStep(t) ==
  \/ ApplyList(t) \/ ApplyFaulty(t) \/ ComputeChecksum(t) \/ Emit(t)
  \/ AdjustTimer(t)
  \/ \E a \in Address : RecordChange(t, a) \/ ClearChange(t, a)

Next ==
  \/ \E t \in Thread : Receive(t) \/ UpdateStep(t)
  \/ \E t \in Thread : \E e \in expired : MakeFaulty(t, e)
  \/ \E a \in Address : Expire(a) \/ Spend(a)
  \/ Disable \/ SetStopped \/ Reenable \/ ClearStopped

Spec == Init /\ [][Next]_vars
-----------------------------------------------------------------------------
\* Whatever the order of concurrent Updates, once none of them has still to compute
\* the checksum it is the one of the current memberlist (ComputeChecksum reads the
\* members again instead of what its caller applied).
ChecksumCurrent == (\A t \in Thread : ~At(t, "checksum")) => checksum = members

RingFollows(a) ==
  /\ members[a].status = Alive => a \in ring
  /\ members[a].status \in {Faulty, Leave} => a \notin ring

TimersFollow(a) ==
  /\ a \in DOMAIN timers => members[a].status = Suspect
  /\ members[a].status = Suspect => a \in DOMAIN timers \/ halts > 0

ChangesFollow(a) == a \in DOMAIN changes => changes[a] = members[a]

\* When the Updates of a member never overlapped, then with none of them under way the
\* ring, the timers and the piggybacked change agree with the memberlist, although each
\* is moved under a lock of its own after the members lock is released.  Only a Stop
\* takes the timer of a suspect away.
SettledUnlessOverlapped ==
  \A a \in DOMAIN members \ overlapped :
    (\A t \in Thread : a \notin Pending(t)) => RingFollows(a) /\ TimersFollow(a) /\ ChangesFollow(a)

\* Disabled suspicion has no timers, also when an Update that passed the check of
\* Stopped() before the Stop handles its suspect after it.
DisabledHasNoTimers == ~enabled => timers = Empty

Callback(e) ==
  e \in expired \/ \E t \in Thread : At(t, "checked") /\ e \in threads[t].cause

\* The callback of a timer declares faulty only an incarnation this process has held as
\* suspect, or one that is superseded by now, whatever has happened since it went off.
StaleTimersHarmless ==
  \A e \in UNION {threads[t].cause : t \in Thread} \cup expired :
    Callback(e) => ~ nonLocalOverride(members[e.address],
                                      [incarnation |-> e.incarnation, status |-> Suspect])

\* AddJoinList takes out of the disseminator only the change its own Update recorded,
\* unless another Update of that member overlapped with it.
JoinClearsOwnChange ==
  [][\A t \in Thread, a \in DOMAIN changes \ overlapped :
       At(t, "clear") /\ threads'[t] # threads[t] /\ a \notin DOMAIN changes' =>
         a \in DOMAIN threads[t].applied /\ changes[a] = threads[t].applied[a]]_vars
=============================================================================

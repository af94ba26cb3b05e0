------------------------------- MODULE Rollup -------------------------------
(***************************************************************************)
(* The update rollup of a node (swim/update_rollup.go): goroutines that    *)
(* end an Update track their changes, a timer that renews itself flushes   *)
(* what was tracked, and Node.Destroy stops the timer.  The code has three *)
(* locks: buffer and timings, which are held together and are variables    *)
(* here, and flushTimer, whose sections take no other lock and are single  *)
(* steps.                                                                  *)
(*                                                                         *)
(* Abstractions.  An update is the goroutine that tracks it.  A time is    *)
(* zero, recent or at least flushInterval old; it ages at any moment, and  *)
(* has aged when a timer that was set after it goes off.                   *)
(***************************************************************************)
EXTENDS Integers, FiniteSets

CONSTANTS
  Caller,    \* goroutines that call TrackUpdates, once each
  Callback,  \* bound on the timer callbacks that run at the same time
  None       \* no goroutine

ASSUME GoroutineAssumption == Caller \cap Callback = {} /\ None \notin Caller \cup Callback

Goroutine == Caller \cup Callback

VARIABLES
  buffer,       \* buffer.updates
  bufferLock,   \* the goroutine that holds the lock of buffer, or None
  timingsLock,  \* the goroutine that holds the lock of timings, or None
  firstUpdate,  \* timings.firstUpdate: is it set?
  lastUpdate,   \* timings.lastUpdate
  armed,        \* flushTimer.t is a timer that has not gone off or been stopped
  pc,           \* pc[g]: the step goroutine g takes next
  stopped,      \* node.state.stopped
  destroyed,    \* Node.Destroy has destroyed the rollup
  busy          \* history: some goroutine was in the rollup when it was destroyed

node_vars == <<stopped, destroyed, busy>>
vars == <<buffer, bufferLock, timingsLock, firstUpdate, lastUpdate, armed, pc, node_vars>>

\* "idle"; FlushBuffer: "flush" takes buffer, "log" takes timings; TrackUpdates: "track"
\* takes timings, "arm" renews the timer, "add" takes buffer; a callback: "rearm".
Step == {"idle", "flush", "log", "track", "arm", "add", "rearm", "done"}

Active(g) == pc[g] \notin {"idle", "done"}

\* Where FlushBuffer returns to.
AfterFlush(g) == IF g \in Caller THEN "track" ELSE "rearm"

Goto(g, step) == pc' = [pc EXCEPT ![g] = step]
-----------------------------------------------------------------------------
Init ==
  /\ buffer = {} /\ bufferLock = None /\ timingsLock = None
  /\ firstUpdate = FALSE /\ lastUpdate = "zero"
  /\ armed = FALSE
  /\ pc = [g \in Goroutine |-> "idle"]
  /\ stopped = FALSE /\ destroyed = FALSE /\ busy = FALSE

\* TrackUpdates reads the time, and then lastUpdate under the lock of timings.  An
\* Update of a stopped node tracks nothing.  The time may have been read well before.
TrackUpdates(g) ==
  /\ pc[g] = "idle" /\ ~stopped /\ timingsLock = None
  /\ \/ lastUpdate \in {"zero", "old"} /\ Goto(g, "flush")
     \/ lastUpdate \in {"recent", "old"} /\ Goto(g, "track")
  /\ UNCHANGED <<buffer, bufferLock, timingsLock, firstUpdate, lastUpdate, armed, node_vars>>

\* FlushBuffer takes the lock of buffer, and returns if there is nothing to flush.
LockBuffer(g) ==
  /\ pc[g] = "flush" /\ bufferLock = None
  /\ \/ buffer = {} /\ Goto(g, AfterFlush(g)) /\ UNCHANGED bufferLock
     \/ buffer # {} /\ Goto(g, "log") /\ bufferLock' = g
  /\ UNCHANGED <<buffer, timingsLock, firstUpdate, lastUpdate, armed, node_vars>>

\* With buffer held it takes the lock of timings, flushes and releases both.
FlushBuffer(g) ==
  /\ pc[g] = "log" /\ timingsLock = None
  /\ buffer' = {} /\ firstUpdate' = FALSE /\ lastUpdate' = "zero"
  /\ bufferLock' = None
  /\ Goto(g, AfterFlush(g))
  /\ UNCHANGED <<timingsLock, armed, node_vars>>

\* TrackUpdates takes the lock of timings, which it holds until AddUpdates is done.
LockTimings(g) ==
  /\ pc[g] = "track" /\ timingsLock = None
  /\ timingsLock' = g /\ firstUpdate' = TRUE
  /\ Goto(g, "arm")
  /\ UNCHANGED <<buffer, bufferLock, lastUpdate, armed, node_vars>>

\* Mutant: the callback does not set the timer again.
RenewFlushTimerOnce(g) ==
  /\ pc[g] \in {"arm", "rearm"}
  /\ armed' = (armed \/ g \in Caller)
  /\ Goto(g, IF g \in Caller THEN "add" ELSE "idle")
  /\ UNCHANGED <<buffer, bufferLock, timingsLock, firstUpdate, lastUpdate, node_vars>>

\* The old timer is stopped and a new one set: by TrackUpdates, and by the callback
\* after its flush.
RenewFlushTimer(g) ==
  /\ pc[g] \in {"arm", "rearm"}
  /\ armed' = TRUE
  /\ Goto(g, IF g \in Caller THEN "add" ELSE "idle")
  /\ UNCHANGED <<buffer, bufferLock, timingsLock, firstUpdate, lastUpdate, node_vars>>

\* Mutant: TrackUpdates forgets to release timings.
AddUpdatesHolds(g) ==
  /\ pc[g] = "add" /\ bufferLock = None
  /\ buffer' = buffer \cup {g}
  /\ lastUpdate' \in {"recent", "old"}
  /\ Goto(g, "done")
  /\ UNCHANGED <<bufferLock, timingsLock, firstUpdate, armed, node_vars>>

\* With timings held, AddUpdates takes the lock of buffer; then both are released.
AddUpdates(g) ==
  /\ pc[g] = "add" /\ bufferLock = None
  /\ buffer' = buffer \cup {g}
  /\ lastUpdate' \in {"recent", "old"}
  /\ timingsLock' = None
  /\ Goto(g, "done")
  /\ UNCHANGED <<bufferLock, firstUpdate, armed, node_vars>>

\* The timer goes off: its callback starts in a goroutine of its own.
Fire(g) ==
  /\ armed /\ pc[g] = "idle"
  /\ armed' = FALSE
  /\ Goto(g, "flush")
  /\ lastUpdate' = IF lastUpdate = "recent" THEN "old" ELSE lastUpdate
  /\ UNCHANGED <<buffer, bufferLock, timingsLock, firstUpdate, node_vars>>

Age ==
  /\ lastUpdate = "recent" /\ lastUpdate' = "old"
  /\ UNCHANGED <<buffer, bufferLock, timingsLock, firstUpdate, armed, pc, node_vars>>

\* Node.Destroy stops the node ...
Stop ==
  /\ ~stopped /\ stopped' = TRUE
  /\ UNCHANGED <<buffer, bufferLock, timingsLock, firstUpdate, lastUpdate, armed, pc, destroyed, busy>>

\* Mutant: Destroy leaves the timer set.
DestroyKeepsTimer ==
  /\ stopped /\ ~destroyed
  /\ destroyed' = TRUE
  /\ busy' = \E g \in Goroutine : Active(g)
  /\ UNCHANGED <<buffer, bufferLock, timingsLock, firstUpdate, lastUpdate, armed, pc, stopped>>

\* ... and then the rollup's timer.
Destroy ==
  /\ stopped /\ ~destroyed
  /\ destroyed' = TRUE /\ armed' = FALSE
  /\ busy' = \E g \in Goroutine : Active(g)
  /\ UNCHANGED <<buffer, bufferLock, timingsLock, firstUpdate, lastUpdate, pc, stopped>>

Run(g) ==
  LockBuffer(g) \/ FlushBuffer(g) \/ LockTimings(g) \/ RenewFlushTimer(g) \/ AddUpdates(g)

Next ==
  \/ \E g \in Caller : TrackUpdates(g)
  \/ \E g \in Callback : Fire(g)
  \/ \E g \in Goroutine : Run(g)
  \/ Age \/ Stop \/ Destroy

Spec == Init /\ [][Next]_vars

\* Goroutines that can go on do, and a timer that is set goes off.
FairSpec ==
  /\ Spec
  /\ \A g \in Goroutine : WF_vars(Run(g))
  /\ WF_vars(\E g \in Callback : Fire(g))
-----------------------------------------------------------------------------
\* Every variable has its type, and a lock is held exactly by the goroutine that is in
\* a section of it.
TypeOK ==
  /\ buffer \subseteq Caller
  /\ pc \in [Goroutine -> Step]
  /\ firstUpdate \in BOOLEAN /\ lastUpdate \in {"zero", "recent", "old"}
  /\ {armed, stopped, destroyed, busy} \subseteq BOOLEAN
  /\ \A g \in Goroutine : bufferLock = g <=> pc[g] = "log"
  /\ \A g \in Goroutine : timingsLock = g <=> pc[g] \in {"arm", "add"}
  /\ {bufferLock, timingsLock} \subseteq Goroutine \cup {None}

\* Whenever nobody holds timings, its times are set exactly when there are updates in
\* the buffer, which has another lock: a flush that saw the one has reset the other.
TimingsFollowBuffer ==
  timingsLock = None =>
    /\ firstUpdate <=> buffer # {}
    /\ lastUpdate # "zero" <=> buffer # {}

\* Updates in the buffer never wait without a flush to come: until the rollup is
\* destroyed, the timer is set or a callback is under way that sets it again.
FlushComes ==
  buffer # {} /\ ~destroyed => armed \/ \E g \in Callback : Active(g)

\* A goroutine holds timings and waits for buffer, another the other way round.
Inverted ==
  \E g, h \in Goroutine : pc[g] = "add" /\ pc[h] = "log" /\ timingsLock = g /\ bufferLock = h

Blocked(g) ==
  \/ pc[g] \in {"flush", "add"} /\ bufferLock # None
  \/ pc[g] \in {"track", "log"} /\ timingsLock # None

\* The goroutines of the rollup are all blocked only if TrackUpdates, which holds
\* timings and waits for buffer, met a flush that holds buffer and waits for timings.
BlockedOnlyByInversion ==
  (\E g \in Goroutine : Active(g)) /\ (\A g \in Goroutine : Active(g) => Blocked(g)) => Inverted

\* After Destroy the timer is set again only by a goroutine that was in the rollup at
\* that time: Destroy does not wait for TrackUpdates or for a callback.
RearmedOnlyIfBusy == destroyed /\ armed => busy

\* An update that was tracked is flushed, unless the node is stopped or the two locks
\* are taken in opposite orders.
EventuallyFlushed ==
  \A g \in Caller : g \in buffer ~> (g \notin buffer \/ Inverted \/ stopped)
=============================================================================

---------------------------- MODULE RollupProofs ----------------------------
(***************************************************************************)
(* Proofs about the update rollup, for any number of goroutines that track *)
(* updates and of timer callbacks at the same time.                        *)
(*                                                                         *)
(* The invariants are made inductive by what holds inside the sections of  *)
(* the locks: while timings is held its first time is set, its last one    *)
(* still follows the buffer, and the goroutine that is about to add its    *)
(* update has set the timer; and a rollup that was destroyed is entered    *)
(* only by callbacks of a timer that a busy goroutine has set.             *)
(***************************************************************************)
EXTENDS Rollup, TLAPS

\* Callers and callbacks are at steps of their own.
StepsOf ==
  /\ \A g \in Caller : pc[g] # "rearm"
  /\ \A g \in Callback : pc[g] \in {"idle", "flush", "log", "rearm"}

\* The times of timings, whether or not its lock is held.
TimesInv ==
  /\ lastUpdate # "zero" <=> buffer # {}
  /\ timingsLock = None => (firstUpdate <=> buffer # {})
  /\ timingsLock # None => firstUpdate

\* A timer is set or will be, for the updates in the buffer and the one to be added.
TimerInv ==
  buffer # {} \/ (\E g \in Caller : pc[g] = "add") =>
    destroyed \/ armed \/ \E g \in Callback : Active(g)

\* Who can set the timer of a rollup that was destroyed.
DestroyInv ==
  /\ destroyed => stopped
  /\ destroyed /\ (armed \/ \E g \in Goroutine : Active(g)) => busy

RollupInv == TypeOK /\ StepsOf /\ TimesInv /\ TimerInv /\ DestroyInv
-----------------------------------------------------------------------------
\* A new node's rollup satisfies the invariant.
LEMMA InitRollup == Init => RollupInv
  BY GoroutineAssumption
  DEF Init, RollupInv, TypeOK, StepsOf, TimesInv, TimerInv, DestroyInv, Goroutine, Step, Active

\* Every step of a goroutine, of the timer and of the node keeps the types, the locks
\* with the goroutines in their sections, and the goroutines at their own steps.
LEMMA StepTypes == ASSUME TypeOK, StepsOf, Next PROVE TypeOK' /\ StepsOf'
<1> USE GoroutineAssumption DEF TypeOK, StepsOf, Goroutine, Step, Goto
<1>1. CASE \E g \in Caller : TrackUpdates(g)
  BY <1>1 DEF TrackUpdates, node_vars
<1>2. ASSUME NEW g \in Callback, Fire(g) PROVE TypeOK' /\ StepsOf'
  <2>1. pc' = [pc EXCEPT ![g] = "flush"] /\ pc[g] = "idle"
    BY <1>2 DEF Fire
  <2>2. lastUpdate' \in {"zero", "recent", "old"}
    BY <1>2 DEF Fire
  <2>3. StepsOf'
    BY <2>1
  <2> QED BY <1>2, <2>1, <2>2, <2>3 DEF Fire, node_vars
<1>3. ASSUME NEW g \in Goroutine, LockBuffer(g) PROVE TypeOK' /\ StepsOf'
  <2>1. CASE buffer = {} /\ Goto(g, AfterFlush(g)) /\ UNCHANGED bufferLock
    BY <1>3, <2>1 DEF LockBuffer, AfterFlush, node_vars
  <2>2. CASE buffer # {} /\ Goto(g, "log") /\ bufferLock' = g
    BY <1>3, <2>2 DEF LockBuffer, node_vars
  <2> QED BY <1>3, <2>1, <2>2 DEF LockBuffer
<1>4. ASSUME NEW g \in Goroutine, FlushBuffer(g) PROVE TypeOK' /\ StepsOf'
  BY <1>4 DEF FlushBuffer, AfterFlush, node_vars
<1>5. ASSUME NEW g \in Goroutine, LockTimings(g) PROVE TypeOK' /\ StepsOf'
  BY <1>5 DEF LockTimings, node_vars
<1>6. ASSUME NEW g \in Goroutine, RenewFlushTimer(g) PROVE TypeOK' /\ StepsOf'
  BY <1>6 DEF RenewFlushTimer, node_vars
<1>7. ASSUME NEW g \in Goroutine, AddUpdates(g) PROVE TypeOK' /\ StepsOf'
  BY <1>7 DEF AddUpdates, node_vars
<1>8. CASE Age
  BY <1>8 DEF Age, node_vars
<1>9. CASE Stop
  BY <1>9 DEF Stop
<1>10. CASE Destroy
  BY <1>10 DEF Destroy
<1> QED BY <1>1, <1>2, <1>3, <1>4, <1>5, <1>6, <1>7, <1>8, <1>9, <1>10 DEF Next, Run

\* Every step keeps the times with the buffer: a flush resets all of it in one section of
\* both locks, and AddUpdates is in a section of both when the buffer grows.
LEMMA StepTimes == ASSUME TypeOK, StepsOf, TimesInv, Next PROVE TimesInv'
<1> USE GoroutineAssumption DEF TypeOK, StepsOf, TimesInv, Goroutine
<1>1. CASE \E g \in Caller : TrackUpdates(g)
  BY <1>1 DEF TrackUpdates
<1>2. CASE \E g \in Callback : Fire(g)
  BY <1>2 DEF Fire
<1>3. ASSUME NEW g \in Goroutine, Run(g) PROVE TimesInv'
  BY <1>3 DEF Run, LockBuffer, FlushBuffer, LockTimings, RenewFlushTimer, AddUpdates
<1>4. CASE Age
  BY <1>4 DEF Age
<1>5. CASE Stop \/ Destroy
  <2>1. UNCHANGED <<buffer, timingsLock, firstUpdate, lastUpdate>>
    BY <1>5 DEF Stop, Destroy
  <2> QED BY <2>1
<1> QED BY <1>1, <1>2, <1>3, <1>4, <1>5 DEF Next

\* Every step keeps a flush to come: TrackUpdates sets the timer before its update is
\* in the buffer, and a callback is active until it has set the timer again.
LEMMA StepTimer == ASSUME TypeOK, StepsOf, TimerInv, Next PROVE TimerInv'
<1> USE GoroutineAssumption DEF TypeOK, StepsOf, TimerInv, Goroutine, Step, Active, Goto
<1>1. CASE \E g \in Caller : TrackUpdates(g)
  BY <1>1 DEF TrackUpdates, node_vars
<1>2. CASE \E g \in Callback : Fire(g)
  BY <1>2 DEF Fire, node_vars
<1>3. ASSUME NEW g \in Goroutine, LockBuffer(g) PROVE TimerInv'
  BY <1>3 DEF LockBuffer, AfterFlush, node_vars
<1>4. ASSUME NEW g \in Goroutine, FlushBuffer(g) PROVE TimerInv'
  BY <1>4 DEF FlushBuffer, AfterFlush, node_vars
<1>5. ASSUME NEW g \in Goroutine, LockTimings(g) PROVE TimerInv'
  BY <1>5 DEF LockTimings, node_vars
<1>6. ASSUME NEW g \in Goroutine, RenewFlushTimer(g) PROVE TimerInv'
  BY <1>6 DEF RenewFlushTimer, node_vars
<1>7. ASSUME NEW g \in Goroutine, AddUpdates(g) PROVE TimerInv'
  BY <1>7 DEF AddUpdates, node_vars
<1>8. CASE Age \/ Stop \/ Destroy
  BY <1>8 DEF Age, Stop, Destroy, node_vars
<1> QED BY <1>1, <1>2, <1>3, <1>4, <1>5, <1>6, <1>7, <1>8 DEF Next, Run

\* Every step keeps who can be in a rollup that was destroyed: the node was stopped
\* before, so no new TrackUpdates enters it.
LEMMA StepDestroyed == ASSUME TypeOK, DestroyInv, Next PROVE DestroyInv'
<1> USE GoroutineAssumption DEF TypeOK, DestroyInv, Goroutine, Step, Active, Goto
<1>1. CASE \E g \in Caller : TrackUpdates(g)
  BY <1>1 DEF TrackUpdates, node_vars
<1>2. CASE \E g \in Callback : Fire(g)
  BY <1>2 DEF Fire, node_vars
<1>3. ASSUME NEW g \in Goroutine, LockBuffer(g) PROVE DestroyInv'
  BY <1>3 DEF LockBuffer, node_vars
<1>4. ASSUME NEW g \in Goroutine, FlushBuffer(g) PROVE DestroyInv'
  BY <1>4 DEF FlushBuffer, node_vars
<1>5. ASSUME NEW g \in Goroutine, LockTimings(g) PROVE DestroyInv'
  BY <1>5 DEF LockTimings, node_vars
<1>6. ASSUME NEW g \in Goroutine, RenewFlushTimer(g) PROVE DestroyInv'
  BY <1>6 DEF RenewFlushTimer, node_vars
<1>7. ASSUME NEW g \in Goroutine, AddUpdates(g) PROVE DestroyInv'
  BY <1>7 DEF AddUpdates, node_vars
<1>8. CASE Age \/ Stop
  BY <1>8 DEF Age, Stop, node_vars
<1>9. CASE Destroy
  <2>1. armed' = FALSE /\ destroyed' = TRUE /\ stopped' = TRUE
    BY <1>9 DEF Destroy
  <2>2. (\E g \in Goroutine : Active(g))' => busy'
    BY <1>9, Zenon DEF Destroy
  <2> QED BY <2>1, <2>2
<1> QED BY <1>1, <1>2, <1>3, <1>4, <1>5, <1>6, <1>7, <1>8, <1>9 DEF Next, Run

\* A step that changes nothing keeps the invariant.
LEMMA StutterRollup == RollupInv /\ UNCHANGED vars => RollupInv'
  BY DEF RollupInv, TypeOK, StepsOf, TimesInv, TimerInv, DestroyInv, Active, vars, node_vars

\* The invariant holds in every reachable state of the rollup.
LEMMA RollupAlways == Spec => []RollupInv
<1>1. RollupInv /\ Next => RollupInv'
  BY StepTypes, StepTimes, StepTimer, StepDestroyed DEF RollupInv
<1> QED BY <1>1, InitRollup, StutterRollup, PTL DEF Spec
-----------------------------------------------------------------------------
\* The variables of the rollup keep their types, and each of its two locks is held
\* exactly by the goroutine that is in a section of it.
THEOREM RollupTypes == Spec => []TypeOK
  BY RollupAlways, PTL DEF RollupInv

\* Whenever timings is not held, its times are set exactly when there are updates in the
\* buffer, whatever the order of TrackUpdates and FlushBuffer.
THEOREM TimesFollow == Spec => []TimingsFollowBuffer
<1>1. RollupInv => TimingsFollowBuffer
  BY DEF RollupInv, TimesInv, TimingsFollowBuffer
<1> QED BY <1>1, RollupAlways, PTL

\* Until the rollup is destroyed, updates in the buffer have a timer that is set, or a
\* callback under way that sets it again.
THEOREM FlushIsComing == Spec => []FlushComes
<1>1. RollupInv => FlushComes
  BY DEF RollupInv, TimerInv, FlushComes
<1> QED BY <1>1, RollupAlways, PTL

\* However many goroutines are in the rollup, they are all blocked only when
\* TrackUpdates and FlushBuffer have taken the two locks in opposite orders.
THEOREM OnlyInversionBlocks == Spec => []BlockedOnlyByInversion
<1>1. ASSUME TypeOK, NEW g \in Goroutine, Active(g),
             \A x \in Goroutine : Active(x) => Blocked(x)
      PROVE  Inverted
  <2>1. bufferLock # None => timingsLock # None
    BY <1>1 DEF TypeOK, Active, Blocked
  <2>2. timingsLock # None => bufferLock # None /\ pc[timingsLock] = "add"
    BY <1>1 DEF TypeOK, Active, Blocked
  <2>3. bufferLock # None \/ timingsLock # None
    BY <1>1 DEF Blocked
  <2>4. bufferLock \in Goroutine /\ timingsLock \in Goroutine /\ pc[bufferLock] = "log"
    BY <1>1, <2>1, <2>2, <2>3 DEF TypeOK
  <2> QED BY <2>1, <2>2, <2>3, <2>4 DEF Inverted
<1>2. RollupInv => BlockedOnlyByInversion
  BY <1>1 DEF RollupInv, BlockedOnlyByInversion
<1> QED BY <1>2, RollupAlways, PTL

\* A rollup that nobody was in when it was destroyed has no timer ever after.
THEOREM DestroyedStaysSilent == Spec => []RearmedOnlyIfBusy
<1>1. RollupInv => RearmedOnlyIfBusy
  BY DEF RollupInv, DestroyInv, RearmedOnlyIfBusy
<1> QED BY <1>1, RollupAlways, PTL
=============================================================================

------------------------ MODULE DaemonRecoveryProofs ------------------------
(***************************************************************************)
(* The safety properties of DaemonRecovery for every set of configurations *)
(* and namespaces, every recovery window and every stable period.          *)
(***************************************************************************)
EXTENDS DaemonRecovery, TLAPS

\* The namespace lock excludes velvetd and the check from each other.
LockExclusive == checker = "retiring" => pc \notin Live

\* While velvetd lives the record is open and shows this process' health.
RecordFollows ==
  /\ rec.running => rec.known /\ ~rec.retired
  /\ pc \in Live => rec.running /\ rec.healthy = streak
  /\ pc \notin Live => streak = NoTime

\* Ready is reported exactly between a start and the next stop of a runtime,
\* with its generation in the kernel and, but for a reload's last step, on record.
ReadyInstalled ==
  /\ status.ready <=> pc \in {"up", "recording"}
  /\ status.ready => kernel = desired
  /\ pc \in {"starting", "up"} => desired \subseteq rec.tables

\* An open episode is no older than the last stable health or completed stop, a
\* check that retires has found it at the deadline, and a stop leaves none.
EpisodeBounded ==
  /\ rec.running => Opened(rec) <= sinceWell
  /\ ~rec.running /\ ~rec.retired => rec.failure = NoTime
  /\ checker = "retiring" => rec.running /\ Opened(rec) = Window

\* A recorded stop stands until the operator starts the unit again.
StopStands ==
  stopped = "recorded" =>
    /\ ~rec.running /\ pc \notin Live /\ intent = "stop" /\ checker = "idle"
    /\ pc = "post" => exit = "success"

RecoveryInv == LockExclusive /\ RecordFollows /\ ReadyInstalled /\ EpisodeBounded /\ StopStands

-----------------------------------------------------------------------------
(***************************************************************************)
(* What the operations of Tracker write is a State.                        *)
(***************************************************************************)
LEMMA ConfigTables == \A d \in Configs \cup {NoConfig} : d \in SUBSET Tables
BY DEF Tables, NoConfig

LEMMA Ages ==
  /\ NoTime \in Int /\ NoTime < 0
  /\ NoTime \in NoTime .. Window /\ NoTime \in NoTime .. Stable
  /\ 0 \in NoTime .. Window /\ 0 \in NoTime .. Stable
BY DaemonConstants DEF NoTime

LEMMA OlderType ==
  \A cap \in Nat : \A age \in NoTime .. cap : Older(age, cap) \in NoTime .. cap
BY Ages DEF Older

LEMMA OpenedType == \A s \in State : Opened(s) \in 0 .. Window
BY DaemonConstants DEF State, Opened, NoTime

LEMMA WritesState ==
  ASSUME NEW s \in State, NEW d \in SUBSET Tables, NEW h \in BOOLEAN, ns \in Namespaces
  PROVE  /\ Begin(s, d) \in State /\ Progress(s, h) \in State
         /\ Stop(s) \in State /\ Failure(s) \in State
         /\ UpdateDesired(s, d) \in State /\ Retired(s) \in State
         /\ [s EXCEPT !.failure = Opened(s)] \in State
<1>0. Opened(s) \in NoTime .. Window
  BY OpenedType, DaemonConstants DEF NoTime
<1>1. Begin(s, d) \in State
  BY <1>0, Ages DEF Begin, State
<1>2. Progress(s, h) \in State
  BY Ages DEF Progress, State
<1>3. Stop(s) \in State /\ Failure(s) \in State
  BY Ages DEF Stop, Failure, State
<1>4. UpdateDesired(s, d) \in State
  BY DEF UpdateDesired, State
<1>5. Retired(s) \in State /\ [s EXCEPT !.failure = Opened(s)] \in State
  BY <1>0 DEF Retired, State
<1> QED BY <1>1, <1>2, <1>3, <1>4, <1>5

-----------------------------------------------------------------------------
StatusType == [ready: BOOLEAN, error: BOOLEAN, generation: 1 .. MaxReloads + 1]

LEMMA IdleType == Idle \in StatusType
BY DaemonConstants DEF Idle, StatusType

LEMMA InitTypeOK == Init => TypeOK
<1> SUFFICES ASSUME Init PROVE TypeOK
  OBVIOUS
<1>1. rec \in State
  BY Ages DEF Init, State
<1>2. status \in StatusType
  BY IdleType DEF Init
<1>3. sinceWell \in 0 .. Window
  BY DaemonConstants DEF Init
<1> QED BY <1>1, <1>2, <1>3, Ages DEF Init, TypeOK, StatusType, Live

LEMMA NextTypeOK == TypeOK /\ [Next]_vars => TypeOK'
<1> SUFFICES ASSUME TypeOK, [Next]_vars PROVE TypeOK'
  OBVIOUS
<1> USE ConfigTables, WritesState, Ages, DaemonConstants DEF TypeOK, Live, process, history
<1>1. CASE Tick
  <2>0. /\ Older(rec.failure, Window) \in NoTime .. Window
        /\ Older(rec.healthy, Stable) \in NoTime .. Stable
        /\ Older(rec.progress, Window) \in NoTime .. Window
    BY OlderType DEF State
  <2>1. rec' \in State
    BY <1>1, <2>0 DEF Tick, State
  <2>2. streak' \in NoTime .. Stable /\ sinceWell' \in 0 .. Window
    BY <1>1 DEF Tick, Older
  <2> QED BY <1>1, <2>1, <2>2 DEF Tick
<1>2. CASE EditConfig
  BY <1>2 DEF EditConfig
<1>3. CASE OperatorStart
  BY <1>3 DEF OperatorStart
<1>4. CASE OperatorStop
  BY <1>4 DEF OperatorStop
<1>5. CASE StartRefused
  BY <1>5 DEF StartRefused, Exits, Idle
<1>6. CASE StartBegin
  <2>1. rec' \in State
    <3>1. Begin(rec, config) \in State
      BY ConfigTables, WritesState
    <3> QED BY <1>6, <3>1 DEF StartBegin, Saved, SaveFailed
  <2>2. status' \in StatusType
    BY <1>6, IdleType DEF StartBegin, Exits, StatusType
  <2> QED BY <1>6, <2>1, <2>2 DEF StartBegin, Exits, StatusType
<1>7. CASE RunnerReady
  BY <1>7 DEF RunnerReady, Reconciled
<1>8. CASE RunnerFails
  BY <1>8 DEF RunnerFails, PartlyReconciled, Exits, Idle
<1>9. CASE RunnerCancelled
  BY <1>9 DEF RunnerCancelled, PartlyReconciled, Exits, Idle
<1>10. CASE HealthTick
  <2>1. rec' \in State
    BY <1>10 DEF HealthTick, Saved
  <2>2. streak' \in NoTime .. Stable /\ sinceWell' \in 0 .. Window
    BY <1>10 DEF HealthTick
  <2> QED BY <1>10, <2>1, <2>2 DEF HealthTick
<1>11. CASE StopDaemon
  <2>1. rec' \in State
    BY <1>11 DEF StopDaemon, Saved, SaveFailed
  <2>2. status' \in StatusType
    BY <1>11, IdleType DEF StopDaemon, Exits
  <2>3. sinceWell' \in 0 .. Window
    BY <1>11 DEF StopDaemon
  <2> QED BY <1>11, <2>1, <2>2, <2>3 DEF StopDaemon, Exits, StatusType
<1>12. CASE Crash
  BY <1>12 DEF Crash, Exits, Idle
<1>13. CASE RecordExit
  BY <1>13 DEF RecordExit, SaveFailed
<1>14. CASE ReloadRejected
  BY <1>14 DEF ReloadRejected
<1>15. CASE ReloadStop
  <2>1. status' \in StatusType
    BY <1>15, IdleType DEF ReloadStop, Exits, StatusType
  <2>2. pc' = "reloading" => status'.generation <= MaxReloads
    BY <1>15 DEF ReloadStop, Exits
  <2> QED BY <1>15, <2>1, <2>2 DEF ReloadStop, Exits, StatusType
<1>16. CASE CandidateReady
  <2>1. status' \in StatusType
    BY <1>16 DEF CandidateReady, Committed, StatusType
  <2> QED BY <1>16, <2>1 DEF CandidateReady, Reconciled, StatusType
<1>17. CASE CandidateFails
  <2>1. status' \in StatusType
    BY <1>17, IdleType DEF CandidateFails, Exits, StatusType
  <2>2. kernel' \in SUBSET Tables
    BY <1>17 DEF CandidateFails, PartlyReconciled
  <2> QED BY <1>17, <2>1, <2>2 DEF CandidateFails, Exits, StatusType
<1>18. CASE RollbackReady
  BY <1>18 DEF RollbackReady, Reconciled
<1>19. CASE RollbackFails
  BY <1>19 DEF RollbackFails, PartlyReconciled, Exits, Idle
<1>20. CASE RecordDesired
  <2>1. rec' \in State
    <3>1. UpdateDesired(rec, desired) \in State
      BY ConfigTables, WritesState
    <3> QED BY <1>20, <3>1 DEF RecordDesired, Saved, SaveFailed
  <2>2. status' \in StatusType
    BY <1>20, IdleType DEF RecordDesired, Exits, StatusType
  <2> QED BY <1>20, <2>1, <2>2 DEF RecordDesired, Exits, StatusType
<1>21. CASE CheckEarly
  BY <1>21 DEF CheckEarly, SaveFailed
<1>22. CASE CheckRetire
  BY <1>22 DEF CheckRetire
<1>23. CASE RetireDone
  BY <1>23 DEF RetireDone, Saved
<1>24. CASE RetireFails
  BY <1>24 DEF RetireFails
<1>25. CASE Reboot
  BY <1>25 DEF Reboot, Idle
<1>26. CASE UNCHANGED vars
  BY <1>26 DEF vars
<1> QED BY <1>1, <1>2, <1>3, <1>4, <1>5, <1>6, <1>7, <1>8, <1>9, <1>10, <1>11, <1>12, <1>13, <1>14, <1>15, <1>16, <1>17, <1>18, <1>19, <1>20, <1>21, <1>22, <1>23, <1>24, <1>25, <1>26 DEF Next

\* Every variable keeps its type: ages stay within the durations they are
\* compared with, and the record names only tables of some configuration.
THEOREM TypeCorrect == Spec => []TypeOK
BY InitTypeOK, NextTypeOK, PTL DEF Spec

-----------------------------------------------------------------------------
(***************************************************************************)
(* What the operations of Tracker do to the fields of the record.          *)
(***************************************************************************)
LEMMA BeginEffect ==
  ASSUME NEW s \in State, NEW d \in SUBSET Tables
  PROVE  LET b == Begin(s, d)
         IN  /\ b.known /\ b.running /\ ~b.retired /\ b.ns = ns
             /\ d \subseteq b.tables /\ b.healthy = NoTime
             /\ Opened(b) = 0 \/ (s.running /\ Opened(b) = Opened(s))
             /\ b.failure = Opened(b)
             /\ s.known /\ s.ns = ns /\ ~s.retired /\ s.running => b.failure = Opened(s)
<1>1. Opened(s) \in 0 .. Window
  BY OpenedType
<1> QED BY <1>1, Ages DEF Begin, Opened, State

LEMMA ProgressEffect ==
  ASSUME NEW s \in State, NEW h \in BOOLEAN, s.running, ~s.retired
  PROVE  LET p == Progress(s, h)
             since == IF s.healthy = NoTime THEN 0 ELSE s.healthy
         IN  /\ p.known = s.known /\ p.running /\ ~p.retired
             /\ p.ns = s.ns /\ p.tables = s.tables
             /\ p.healthy = IF h THEN since ELSE NoTime
             /\ Opened(p) = 0 \/ Opened(p) = Opened(s)
             /\ h /\ since = Stable => Opened(p) = 0
             /\ p.failure = s.failure \/ (p.failure = NoTime /\ h /\ since = Stable)
BY Ages, DaemonConstants DEF Progress, Opened, State

LEMMA StopEffect ==
  ASSUME NEW s \in State
  PROVE  LET p == Stop(s)
         IN  /\ p.known = s.known /\ ~p.running /\ p.retired = s.retired /\ p.ns = s.ns
             /\ p.failure = NoTime
BY DEF Stop, State

LEMMA FailureEffect ==
  ASSUME NEW s \in State
  PROVE  LET f == Failure(s)
         IN  \/ f = s
             \/ /\ s.known /\ ~s.retired /\ f.known /\ f.running /\ ~f.retired
                /\ f.ns = s.ns /\ f.tables = s.tables /\ f.healthy = NoTime
                /\ f.failure = Opened(f)
                /\ f.failure = IF s.failure = NoTime THEN 0 ELSE s.failure
BY Ages DEF Failure, Opened, State

LEMMA UpdateDesiredEffect ==
  ASSUME NEW s \in State, NEW d \in SUBSET Tables
  PROVE  LET u == UpdateDesired(s, d)
         IN  /\ u.known = s.known /\ u.running = s.running /\ u.retired = s.retired
             /\ u.ns = s.ns /\ u.healthy = s.healthy /\ u.failure = s.failure
             /\ Opened(u) = Opened(s) /\ d \subseteq u.tables
BY DEF UpdateDesired, Opened, State

LEMMA CheckEffect ==
  ASSUME NEW s \in State
  PROVE  LET c == [s EXCEPT !.failure = Opened(s)]
             r == Retired(s)
         IN  /\ c.known = s.known /\ c.running = s.running /\ c.retired = s.retired
             /\ c.ns = s.ns /\ c.tables = s.tables /\ c.healthy = s.healthy
             /\ c.failure = Opened(s) /\ Opened(c) = Opened(s)
             /\ r.known = s.known /\ ~r.running /\ r.retired /\ r.ns = s.ns
             /\ r.failure = Opened(s)
<1>1. Opened(s) \in 0 .. Window
  BY OpenedType
<1>2. DEFINE c == [s EXCEPT !.failure = Opened(s)]
<1>3. c.failure = Opened(s) /\ Opened(s) # NoTime
  BY <1>1, Ages DEF State
<1>4. Opened(c) = Opened(s)
  BY <1>3 DEF Opened
<1> QED BY <1>3, <1>4 DEF Retired, State

\* The record after a tick: every age older, all else as before.
Aged(s) == [s EXCEPT !.failure = Older(@, Window), !.healthy = Older(@, Stable),
                     !.progress = Older(@, Window)]

LEMMA TickEffect ==
  ASSUME NEW s \in State
  PROVE  LET t == Aged(s)
         IN  /\ t.known = s.known /\ t.running = s.running /\ t.retired = s.retired
             /\ t.ns = s.ns /\ t.tables = s.tables /\ t.healthy = Older(s.healthy, Stable)
             /\ t.failure = Older(s.failure, Window)
             /\ Opened(t) = Opened(s) \/ (Opened(s) < Window /\ Opened(t) = Opened(s) + 1)
<1>1. Opened(s) \in 0 .. Window
  BY OpenedType
<1> QED BY <1>1, Ages, DaemonConstants DEF Aged, Older, Opened, State

LEMMA LiveOpen ==
  ASSUME TypeOK, RecoveryInv, pc \in Live
  PROVE  rec \in State /\ rec.running /\ ~rec.retired
BY DEF TypeOK, RecoveryInv, RecordFollows

\* The steps that touch the record.
LEMMA RecMoves ==
  ASSUME [Next]_vars
  PROVE  \/ Tick \/ StartBegin \/ HealthTick \/ StopDaemon \/ RecordExit \/ RecordDesired
         \/ CheckEarly \/ RetireDone \/ UNCHANGED rec
BY DEF Next, vars, process, history, EditConfig, OperatorStart, OperatorStop, StartRefused,
       RunnerReady, RunnerFails, RunnerCancelled, Crash, ReloadRejected, ReloadStop,
       CandidateReady, CandidateFails, RollbackReady, RollbackFails, CheckRetire,
       RetireFails, Reboot


LEMMA LockExclusiveStep == TypeOK /\ RecoveryInv /\ [Next]_vars => LockExclusive'
<1> SUFFICES ASSUME TypeOK, RecoveryInv, [Next]_vars PROVE LockExclusive'
  OBVIOUS
<1> USE DEF RecoveryInv, LockExclusive, Live, process, history
<1>1. CASE Tick
  BY <1>1 DEF Tick, Older
<1>2. CASE EditConfig
  BY <1>2 DEF EditConfig
<1>3. CASE OperatorStart
  BY <1>3 DEF OperatorStart
<1>4. CASE OperatorStop
  BY <1>4 DEF OperatorStop
<1>5. CASE StartRefused
  BY <1>5 DEF StartRefused, Exits, Idle
<1>6. CASE StartBegin
  BY <1>6 DEF StartBegin, Saved, SaveFailed, Exits, Idle
<1>7. CASE RunnerReady
  BY <1>7 DEF RunnerReady, Reconciled
<1>8. CASE RunnerFails
  BY <1>8 DEF RunnerFails, PartlyReconciled, Exits, Idle
<1>9. CASE RunnerCancelled
  BY <1>9 DEF RunnerCancelled, PartlyReconciled, Exits, Idle
<1>10. CASE HealthTick
  BY <1>10 DEF HealthTick, Saved
<1>11. CASE StopDaemon
  BY <1>11 DEF StopDaemon, Saved, SaveFailed, Exits, Idle
<1>12. CASE Crash
  BY <1>12 DEF Crash, Exits, Idle
<1>13. CASE RecordExit
  BY <1>13 DEF RecordExit, SaveFailed
<1>14. CASE ReloadRejected
  BY <1>14 DEF ReloadRejected
<1>15. CASE ReloadStop
  BY <1>15 DEF ReloadStop, Exits, Idle
<1>16. CASE CandidateReady
  BY <1>16 DEF CandidateReady, Reconciled, Committed
<1>17. CASE CandidateFails
  BY <1>17 DEF CandidateFails, PartlyReconciled, Exits, Idle
<1>18. CASE RollbackReady
  BY <1>18 DEF RollbackReady, Reconciled
<1>19. CASE RollbackFails
  BY <1>19 DEF RollbackFails, PartlyReconciled, Exits, Idle
<1>20. CASE RecordDesired
  BY <1>20 DEF RecordDesired, Saved, SaveFailed, Exits, Idle
<1>21. CASE CheckEarly
  BY <1>21 DEF CheckEarly, SaveFailed
<1>22. CASE CheckRetire
  BY <1>22 DEF CheckRetire
<1>23. CASE RetireDone
  BY <1>23 DEF RetireDone, Saved
<1>24. CASE RetireFails
  BY <1>24 DEF RetireFails
<1>25. CASE Reboot
  BY <1>25 DEF Reboot, Idle
<1>26. CASE UNCHANGED vars
  BY <1>26 DEF vars
<1> QED BY <1>1, <1>2, <1>3, <1>4, <1>5, <1>6, <1>7, <1>8, <1>9, <1>10, <1>11, <1>12, <1>13, <1>14, <1>15, <1>16, <1>17, <1>18, <1>19, <1>20, <1>21, <1>22, <1>23, <1>24, <1>25, <1>26 DEF Next

LEMMA EarlyCheckEffect ==
  ASSUME rec \in State, CheckEarly
  PROVE  /\ rec'.known = rec.known /\ rec'.running = rec.running
         /\ rec'.retired = rec.retired /\ rec'.healthy = rec.healthy
         /\ pc' = pc /\ streak' = streak
<1>1. rec' = rec \/ rec' = [rec EXCEPT !.failure = Opened(rec)]
  BY DEF CheckEarly, SaveFailed
<1>2. pc' = pc /\ streak' = streak
  BY DEF CheckEarly, process, history
<1>3. CASE rec' = rec
  BY <1>2, <1>3
<1>4. CASE rec' = [rec EXCEPT !.failure = Opened(rec)]
  <2>1. /\ rec'.known = rec.known /\ rec'.running = rec.running
        /\ rec'.retired = rec.retired /\ rec'.healthy = rec.healthy
    BY <1>4 DEF State
  <2> QED BY <2>1, <1>2
<1> QED BY <1>1, <1>3, <1>4

LEMMA RecordFollowsStep == TypeOK /\ RecoveryInv /\ [Next]_vars => RecordFollows'
<1> SUFFICES ASSUME TypeOK, RecoveryInv, [Next]_vars PROVE RecordFollows'
  OBVIOUS
<1> USE DEF RecoveryInv, RecordFollows, Live, process, history, TypeOK
<1>1. CASE Tick
  BY <1>1 DEF Tick, Older
<1>2. CASE EditConfig
  BY <1>2 DEF EditConfig
<1>3. CASE OperatorStart
  BY <1>3 DEF OperatorStart
<1>4. CASE OperatorStop
  BY <1>4 DEF OperatorStop
<1>5. CASE StartRefused
  BY <1>5 DEF StartRefused, Exits, Idle
<1>6. CASE StartBegin
  BY <1>6 DEF StartBegin, Saved, SaveFailed, Exits, Idle, Begin
<1>7. CASE RunnerReady
  BY <1>7 DEF RunnerReady, Reconciled
<1>8. CASE RunnerFails
  BY <1>8 DEF RunnerFails, PartlyReconciled, Exits, Idle
<1>9. CASE RunnerCancelled
  BY <1>9 DEF RunnerCancelled, PartlyReconciled, Exits, Idle
<1>10. CASE HealthTick
  BY <1>10, LiveOpen, ProgressEffect DEF HealthTick, Saved
<1>11. CASE StopDaemon
  BY <1>11, StopEffect, LiveOpen DEF StopDaemon, Saved, SaveFailed, Exits
<1>12. CASE Crash
  BY <1>12 DEF Crash, Exits, Idle
<1>13. CASE RecordExit
  BY <1>13, FailureEffect DEF RecordExit, SaveFailed
<1>14. CASE ReloadRejected
  BY <1>14 DEF ReloadRejected
<1>15. CASE ReloadStop
  BY <1>15 DEF ReloadStop, Exits, Idle
<1>16. CASE CandidateReady
  BY <1>16 DEF CandidateReady, Reconciled, Committed
<1>17. CASE CandidateFails
  BY <1>17 DEF CandidateFails, PartlyReconciled, Exits, Idle
<1>18. CASE RollbackReady
  BY <1>18 DEF RollbackReady, Reconciled
<1>19. CASE RollbackFails
  BY <1>19 DEF RollbackFails, PartlyReconciled, Exits, Idle
<1>20. CASE RecordDesired
  <2>1. desired \in SUBSET Tables
    BY ConfigTables
  <2> QED BY <1>20, <2>1, UpdateDesiredEffect DEF RecordDesired, Saved, SaveFailed, Exits
<1>21. CASE CheckEarly
  BY <1>21, EarlyCheckEffect
<1>22. CASE CheckRetire
  BY <1>22 DEF CheckRetire, CheckApplies
<1>23. CASE RetireDone
  BY <1>23, CheckEffect DEF RetireDone, Saved, LockExclusive
<1>24. CASE RetireFails
  BY <1>24 DEF RetireFails
<1>25. CASE Reboot
  BY <1>25 DEF Reboot, Idle
<1>26. CASE UNCHANGED vars
  BY <1>26 DEF vars
<1> QED BY <1>1, <1>2, <1>3, <1>4, <1>5, <1>6, <1>7, <1>8, <1>9, <1>10, <1>11, <1>12, <1>13, <1>14, <1>15, <1>16, <1>17, <1>18, <1>19, <1>20, <1>21, <1>22, <1>23, <1>24, <1>25, <1>26 DEF Next

LEMMA ReadyInstalledStep == TypeOK /\ RecoveryInv /\ [Next]_vars => ReadyInstalled'
<1> SUFFICES ASSUME TypeOK, RecoveryInv, [Next]_vars PROVE ReadyInstalled'
  OBVIOUS
<1> USE DEF RecoveryInv, ReadyInstalled, Live, process, history, TypeOK
<1>1. CASE Tick
  BY <1>1 DEF Tick, Older
<1>2. CASE EditConfig
  BY <1>2 DEF EditConfig
<1>3. CASE OperatorStart
  BY <1>3 DEF OperatorStart
<1>4. CASE OperatorStop
  BY <1>4 DEF OperatorStop
<1>5. CASE StartRefused
  BY <1>5 DEF StartRefused, Exits, Idle
<1>6. CASE StartBegin
  BY <1>6 DEF StartBegin, Saved, SaveFailed, Exits, Idle, Begin
<1>7. CASE RunnerReady
  BY <1>7 DEF RunnerReady, Reconciled
<1>8. CASE RunnerFails
  BY <1>8 DEF RunnerFails, PartlyReconciled, Exits, Idle
<1>9. CASE RunnerCancelled
  BY <1>9 DEF RunnerCancelled, PartlyReconciled, Exits, Idle
<1>10. CASE HealthTick
  BY <1>10, LiveOpen, ProgressEffect DEF HealthTick, Saved
<1>11. CASE StopDaemon
  BY <1>11 DEF StopDaemon, Saved, SaveFailed, Exits, Idle, Stop
<1>12. CASE Crash
  BY <1>12 DEF Crash, Exits, Idle
<1>13. CASE RecordExit
  BY <1>13 DEF RecordExit, SaveFailed, Failure
<1>14. CASE ReloadRejected
  BY <1>14 DEF ReloadRejected
<1>15. CASE ReloadStop
  BY <1>15 DEF ReloadStop, Exits, Idle
<1>16. CASE CandidateReady
  BY <1>16 DEF CandidateReady, Reconciled, Committed
<1>17. CASE CandidateFails
  BY <1>17 DEF CandidateFails, PartlyReconciled, Exits, Idle
<1>18. CASE RollbackReady
  BY <1>18 DEF RollbackReady, Reconciled
<1>19. CASE RollbackFails
  BY <1>19 DEF RollbackFails, PartlyReconciled, Exits, Idle
<1>20. CASE RecordDesired
  <2>1. desired \in SUBSET Tables
    BY ConfigTables
  <2> QED BY <1>20, <2>1, UpdateDesiredEffect DEF RecordDesired, Saved, SaveFailed, Exits, Idle
<1>21. CASE CheckEarly
  BY <1>21 DEF CheckEarly, SaveFailed, CheckApplies
<1>22. CASE CheckRetire
  BY <1>22 DEF CheckRetire, CheckApplies
<1>23. CASE RetireDone
  BY <1>23 DEF RetireDone, LockExclusive
<1>24. CASE RetireFails
  BY <1>24 DEF RetireFails, LockExclusive
<1>25. CASE Reboot
  BY <1>25 DEF Reboot, Idle
<1>26. CASE UNCHANGED vars
  BY <1>26 DEF vars
<1> QED BY <1>1, <1>2, <1>3, <1>4, <1>5, <1>6, <1>7, <1>8, <1>9, <1>10, <1>11, <1>12, <1>13, <1>14, <1>15, <1>16, <1>17, <1>18, <1>19, <1>20, <1>21, <1>22, <1>23, <1>24, <1>25, <1>26 DEF Next

LEMMA EpisodeBoundedStep == TypeOK /\ RecoveryInv /\ [Next]_vars => EpisodeBounded'
<1> SUFFICES ASSUME TypeOK, RecoveryInv, [Next]_vars PROVE EpisodeBounded'
  OBVIOUS
<1> USE DEF RecoveryInv, EpisodeBounded, Live, process, history, TypeOK
<1>1. CASE Tick
  <2>1. rec' = Aged(rec) /\ sinceWell' = Older(sinceWell, Window) /\ checker' = checker
    BY <1>1 DEF Tick, Aged
  <2>2. Opened(rec) \in 0 .. Window
    BY OpenedType
  <2> QED BY <2>1, <2>2, TickEffect, Ages, DaemonConstants DEF Older
<1>2. CASE EditConfig
  BY <1>2 DEF EditConfig
<1>3. CASE OperatorStart
  BY <1>3 DEF OperatorStart
<1>4. CASE OperatorStop
  BY <1>4 DEF OperatorStop
<1>5. CASE StartRefused
  BY <1>5 DEF StartRefused, Exits, Idle
<1>6. CASE StartBegin
  <2>1. config \in SUBSET Tables
    BY ConfigTables
  <2>2. Opened(rec) \in 0 .. Window
    BY OpenedType
  <2> QED BY <1>6, <2>1, <2>2, BeginEffect DEF StartBegin, Saved, SaveFailed
<1>7. CASE RunnerReady
  BY <1>7 DEF RunnerReady, Reconciled
<1>8. CASE RunnerFails
  BY <1>8 DEF RunnerFails, PartlyReconciled, Exits, Idle
<1>9. CASE RunnerCancelled
  BY <1>9 DEF RunnerCancelled, PartlyReconciled, Exits, Idle
<1>10. CASE HealthTick
  <2>1. rec.healthy = streak /\ rec.running /\ ~rec.retired /\ checker = "idle"
    BY <1>10, LiveOpen DEF HealthTick, RecordFollows, LockExclusive
  <2>2. Opened(rec) \in 0 .. Window
    BY OpenedType
  <2>3. CASE UNCHANGED <<rec, sinceWell>>
    BY <1>10, <2>1, <2>3 DEF HealthTick, Opened
  <2>4. CASE ~UNCHANGED <<rec, sinceWell>>
    <3>1. PICK h \in BOOLEAN :
            /\ rec' = Progress(rec, h)
            /\ LET spell == IF ~h THEN NoTime ELSE IF streak = NoTime THEN 0 ELSE streak
               IN  sinceWell' = IF spell = Stable THEN 0 ELSE sinceWell
      BY <1>10, <2>4 DEF HealthTick, Saved
    <3>2. Opened(rec') = 0 \/ (Opened(rec') = Opened(rec) /\ sinceWell' = sinceWell)
      BY <3>1, <2>1, ProgressEffect, Ages, DaemonConstants
    <3>3. rec'.running /\ sinceWell' \in 0 .. Window
      BY <3>1, <2>1, ProgressEffect, DaemonConstants
    <3> QED BY <1>10, <2>1, <2>2, <3>2, <3>3 DEF HealthTick
  <2> QED BY <2>3, <2>4
<1>11. CASE StopDaemon
  <2>1. checker' # "retiring"
    BY <1>11 DEF StopDaemon, LockExclusive
  <2> QED BY <1>11, <2>1, StopEffect DEF StopDaemon, Saved, SaveFailed
<1>12. CASE Crash
  BY <1>12 DEF Crash, Exits, Idle
<1>13. CASE RecordExit
  <2>1. rec' = rec \/ rec' = Failure(rec)
    BY <1>13 DEF RecordExit, SaveFailed
  <2>2. CASE rec' = rec
    BY <1>13, <2>2 DEF RecordExit, Opened
  <2>3. CASE rec' = Failure(rec) /\ rec' # rec
    <3>1. rec'.running /\ ~rec.retired /\ Opened(rec') = IF rec.failure = NoTime THEN 0 ELSE rec.failure
      BY <2>3, FailureEffect
    <3>2. Opened(rec') = 0 \/ (rec.running /\ Opened(rec') = Opened(rec))
      BY <3>1 DEF Opened
    <3> QED BY <1>13, <3>1, <3>2, Ages, DaemonConstants DEF RecordExit
  <2> QED BY <2>1, <2>2, <2>3
<1>14. CASE ReloadRejected
  BY <1>14 DEF ReloadRejected
<1>15. CASE ReloadStop
  BY <1>15 DEF ReloadStop, Exits, Idle
<1>16. CASE CandidateReady
  BY <1>16 DEF CandidateReady, Reconciled, Committed
<1>17. CASE CandidateFails
  BY <1>17 DEF CandidateFails, PartlyReconciled, Exits, Idle
<1>18. CASE RollbackReady
  BY <1>18 DEF RollbackReady, Reconciled
<1>19. CASE RollbackFails
  BY <1>19 DEF RollbackFails, PartlyReconciled, Exits, Idle
<1>20. CASE RecordDesired
  <2>1. desired \in SUBSET Tables
    BY ConfigTables
  <2> QED BY <1>20, <2>1, UpdateDesiredEffect DEF RecordDesired, Saved, SaveFailed, LockExclusive
<1>21. CASE CheckEarly
  <2>1. rec' = rec \/ rec' = [rec EXCEPT !.failure = Opened(rec)]
    BY <1>21 DEF CheckEarly, SaveFailed
  <2>2. rec'.running /\ Opened(rec') = Opened(rec)
    <3>1. rec.running
      BY <1>21 DEF CheckEarly, CheckApplies
    <3>2. CASE rec' = rec
      BY <3>1, <3>2 DEF Opened
    <3>3. CASE rec' = [rec EXCEPT !.failure = Opened(rec)]
      BY <3>1, <3>3, CheckEffect
    <3> QED BY <2>1, <3>2, <3>3
  <2>3. checker' = "idle" /\ sinceWell' = sinceWell /\ Opened(rec) <= sinceWell
    BY <1>21 DEF CheckEarly, CheckApplies
  <2> QED BY <2>2, <2>3
<1>22. CASE CheckRetire
  <2>1. Opened(rec) \in 0 .. Window
    BY OpenedType
  <2> QED BY <1>22, <2>1, DaemonConstants DEF CheckRetire, CheckApplies
<1>23. CASE RetireDone
  BY <1>23 DEF RetireDone, Saved, Retired
<1>24. CASE RetireFails
  BY <1>24 DEF RetireFails
<1>25. CASE Reboot
  BY <1>25 DEF Reboot, Idle
<1>26. CASE UNCHANGED vars
  BY <1>26 DEF vars, Opened
<1> QED BY <1>1, <1>2, <1>3, <1>4, <1>5, <1>6, <1>7, <1>8, <1>9, <1>10, <1>11, <1>12, <1>13, <1>14, <1>15, <1>16, <1>17, <1>18, <1>19, <1>20, <1>21, <1>22, <1>23, <1>24, <1>25, <1>26 DEF Next

LEMMA StopStandsStep == TypeOK /\ RecoveryInv /\ [Next]_vars => StopStands'
<1> SUFFICES ASSUME TypeOK, RecoveryInv, [Next]_vars PROVE StopStands'
  OBVIOUS
<1> USE DEF RecoveryInv, StopStands, Live, process, history
<1>1. CASE Tick
  BY <1>1 DEF Tick, Older
<1>2. CASE EditConfig
  BY <1>2 DEF EditConfig
<1>3. CASE OperatorStart
  BY <1>3 DEF OperatorStart
<1>4. CASE OperatorStop
  BY <1>4 DEF OperatorStop
<1>5. CASE StartRefused
  BY <1>5 DEF StartRefused, Exits, Idle
<1>6. CASE StartBegin
  BY <1>6 DEF StartBegin, Saved, SaveFailed, Exits, Idle, Begin
<1>7. CASE RunnerReady
  BY <1>7 DEF RunnerReady, Reconciled
<1>8. CASE RunnerFails
  BY <1>8 DEF RunnerFails, PartlyReconciled, Exits, Idle
<1>9. CASE RunnerCancelled
  BY <1>9 DEF RunnerCancelled, PartlyReconciled, Exits, Idle
<1>10. CASE HealthTick
  BY <1>10 DEF HealthTick, Saved, Progress
<1>11. CASE StopDaemon
  BY <1>11, StopEffect DEF StopDaemon, Saved, SaveFailed, Exits, LockExclusive, TypeOK
<1>12. CASE Crash
  BY <1>12 DEF Crash, Exits, Idle
<1>13. CASE RecordExit
  BY <1>13 DEF RecordExit, SaveFailed, Failure
<1>14. CASE ReloadRejected
  BY <1>14 DEF ReloadRejected
<1>15. CASE ReloadStop
  BY <1>15 DEF ReloadStop, Exits, Idle
<1>16. CASE CandidateReady
  BY <1>16 DEF CandidateReady, Reconciled, Committed
<1>17. CASE CandidateFails
  BY <1>17 DEF CandidateFails, PartlyReconciled, Exits, Idle
<1>18. CASE RollbackReady
  BY <1>18 DEF RollbackReady, Reconciled
<1>19. CASE RollbackFails
  BY <1>19 DEF RollbackFails, PartlyReconciled, Exits, Idle
<1>20. CASE RecordDesired
  BY <1>20 DEF RecordDesired, Saved, SaveFailed, Exits, Idle, UpdateDesired
<1>21. CASE CheckEarly
  BY <1>21 DEF CheckEarly, SaveFailed, CheckApplies
<1>22. CASE CheckRetire
  BY <1>22 DEF CheckRetire, CheckApplies
<1>23. CASE RetireDone
  BY <1>23 DEF RetireDone, Saved, Retired
<1>24. CASE RetireFails
  BY <1>24 DEF RetireFails
<1>25. CASE Reboot
  BY <1>25 DEF Reboot, Idle
<1>26. CASE UNCHANGED vars
  BY <1>26 DEF vars
<1> QED BY <1>1, <1>2, <1>3, <1>4, <1>5, <1>6, <1>7, <1>8, <1>9, <1>10, <1>11, <1>12, <1>13, <1>14, <1>15, <1>16, <1>17, <1>18, <1>19, <1>20, <1>21, <1>22, <1>23, <1>24, <1>25, <1>26 DEF Next

-----------------------------------------------------------------------------
LEMMA InitRecoveryInv == Init => RecoveryInv
<1> SUFFICES ASSUME Init PROVE RecoveryInv
  OBVIOUS
<1>1. ~rec.running /\ ~rec.retired /\ rec.failure = NoTime
  BY DEF Init
<1>2. ~status.ready
  BY DEF Init, Idle
<1> QED BY <1>1, <1>2
    DEF Init, RecoveryInv, LockExclusive, RecordFollows, ReadyInstalled, EpisodeBounded,
        StopStands, Live

\* The inductive invariant: the locks exclude the check from a live velvetd, the
\* record follows the process, and no episode is older than it may be.
THEOREM RecordSound == Spec => [](TypeOK /\ RecoveryInv)
<1>1. TypeOK /\ RecoveryInv /\ [Next]_vars => (TypeOK /\ RecoveryInv)'
  BY NextTypeOK, LockExclusiveStep, RecordFollowsStep, ReadyInstalledStep,
     EpisodeBoundedStep, StopStandsStep DEF RecoveryInv
<1> QED BY <1>1, InitTypeOK, InitRecoveryInv, PTL DEF Spec

\* A runtime that is up has its routes only in tables on record.
THEOREM UpTablesRecordedHolds == Spec => []UpTablesRecorded
<1>1. RecoveryInv => UpTablesRecorded
  BY DEF RecoveryInv, ReadyInstalled, UpTablesRecorded
<1> QED BY <1>1, RecordSound, PTL

\* Ready is reported only with the reported generation in the kernel.
THEOREM ReadyMeansInstalledHolds == Spec => []ReadyMeansInstalled
<1>1. RecoveryInv => ReadyMeansInstalled
  BY DEF RecoveryInv, ReadyInstalled, ReadyMeansInstalled, Live
<1> QED BY <1>1, RecordSound, PTL

LEMMA DeadlineStep ==
  ASSUME TypeOK, RecoveryInv, [Next]_vars,
         rec.running, ~rec.retired, rec.failure # NoTime,
         rec'.failure # NoTime, rec'.ns = rec.ns
  PROVE  rec'.failure >= rec.failure
<1>1. /\ rec \in State /\ rec.known /\ rec.failure \in Int /\ Opened(rec) = rec.failure
      /\ config \in SUBSET Tables /\ desired \in SUBSET Tables
  BY ConfigTables, Ages DEF TypeOK, RecoveryInv, RecordFollows, Opened, State
<1>2. rec'.failure = rec.failure => rec'.failure >= rec.failure
  BY <1>1
<1>3. CASE Tick
  <2>1. rec' = Aged(rec)
    BY <1>3 DEF Tick, Aged
  <2> QED BY <2>1, <1>1, TickEffect, Ages DEF Older
<1>4. CASE StartBegin
  <2>1. rec' = rec \/ rec' = Begin(rec, config)
    BY <1>4 DEF StartBegin, Saved, SaveFailed
  <2> QED BY <2>1, <1>1, <1>2, BeginEffect
<1>5. CASE HealthTick
  BY <1>5, <1>1, <1>2, ProgressEffect DEF HealthTick, Saved
<1>6. CASE StopDaemon
  BY <1>6, <1>1, <1>2, StopEffect DEF StopDaemon, Saved, SaveFailed
<1>7. CASE RecordExit
  BY <1>7, <1>1, <1>2, FailureEffect DEF RecordExit, SaveFailed
<1>8. CASE RecordDesired
  BY <1>8, <1>1, <1>2, UpdateDesiredEffect DEF RecordDesired, Saved, SaveFailed
<1>9. CASE CheckEarly \/ RetireDone
  <2>1. rec' \in {rec, [rec EXCEPT !.failure = Opened(rec)], Retired(rec)}
    BY <1>9 DEF CheckEarly, RetireDone, Saved, SaveFailed
  <2>2. rec'.failure = rec.failure
    BY <2>1, <1>1, CheckEffect
  <2> QED BY <2>2, <1>2
<1>10. CASE UNCHANGED rec
  BY <1>10, <1>2
<1> QED BY <1>3, <1>4, <1>5, <1>6, <1>7, <1>8, <1>9, <1>10, RecMoves

\* Restarts, failure records, health ticks and checks never postpone the deadline
\* of an open episode.
THEOREM DeadlineNotExtendedHolds == Spec => DeadlineNotExtended
<1>1. TypeOK /\ RecoveryInv /\ [Next]_vars
        => ((/\ rec.running /\ ~rec.retired /\ rec.failure # NoTime /\ rec'.failure # NoTime
             /\ rec'.ns = rec.ns)
              => rec'.failure >= rec.failure)
  BY DeadlineStep
<1> QED BY <1>1, RecordSound, PTL DEF Spec, DeadlineNotExtended

LEMMA EpisodeEndStep ==
  ASSUME TypeOK, RecoveryInv, [Next]_vars, rec.failure # NoTime, rec'.failure = NoTime
  PROVE  streak' = Stable \/ (~rec'.running /\ intent = "stop")
<1>1. /\ rec \in State /\ rec.failure \in Int /\ Opened(rec) = rec.failure /\ Opened(rec) \in 0 .. Window
      /\ config \in SUBSET Tables /\ desired \in SUBSET Tables
  BY ConfigTables, OpenedType, Ages DEF TypeOK, Opened, State
<1>2. CASE Tick
  <2>1. rec' = Aged(rec)
    BY <1>2 DEF Tick, Aged
  <2> QED BY <2>1, <1>1, TickEffect, Ages DEF Older
<1>3. CASE StartBegin
  <2>1. rec' = rec \/ rec' = Begin(rec, config)
    BY <1>3 DEF StartBegin, Saved, SaveFailed
  <2>2. Begin(rec, config).failure \in 0 .. Window
    BY <1>1, BeginEffect, DaemonConstants
  <2> QED BY <2>1, <2>2, Ages
<1>4. CASE HealthTick
  <2>1. rec.running /\ ~rec.retired /\ rec.healthy = streak
    BY <1>4, LiveOpen DEF HealthTick, RecoveryInv, RecordFollows, Live
  <2>2. PICK h \in BOOLEAN :
          /\ rec' = Progress(rec, h)
          /\ streak' = IF ~h THEN NoTime ELSE IF streak = NoTime THEN 0 ELSE streak
    BY <1>4 DEF HealthTick, Saved
  <2> QED BY <2>1, <2>2, <1>1, ProgressEffect
<1>5. CASE StopDaemon
  BY <1>5, <1>1, StopEffect DEF StopDaemon, Saved, SaveFailed
<1>6. CASE RecordExit
  BY <1>6, <1>1, FailureEffect DEF RecordExit, SaveFailed
<1>7. CASE RecordDesired
  BY <1>7, <1>1, UpdateDesiredEffect DEF RecordDesired, Saved, SaveFailed
<1>8. CASE CheckEarly \/ RetireDone
  BY <1>8, <1>1, CheckEffect, Ages DEF CheckEarly, RetireDone, Saved, SaveFailed
<1>9. CASE UNCHANGED rec
  BY <1>9
<1> QED BY <1>2, <1>3, <1>4, <1>5, <1>6, <1>7, <1>8, <1>9, RecMoves

\* An episode ends by the stable health of one process or by a requested stop.
THEOREM EpisodeEndsOnlyWhenStableHolds == Spec => EpisodeEndsOnlyWhenStable
<1>1. TypeOK /\ RecoveryInv /\ [Next]_vars
        => ((rec.failure # NoTime /\ rec'.failure = NoTime)
              => streak' = Stable \/ (~rec'.running /\ intent = "stop"))
  BY EpisodeEndStep
<1> QED BY <1>1, RecordSound, PTL DEF Spec, EpisodeEndsOnlyWhenStable

LEMMA RetireStep ==
  ASSUME TypeOK, RecoveryInv, [Next]_vars, rec'.retired, ~rec.retired
  PROVE  sinceWell = Window
<1>1. /\ rec \in State /\ config \in SUBSET Tables /\ desired \in SUBSET Tables
      /\ sinceWell \in 0 .. Window
  BY ConfigTables DEF TypeOK
<1>2. CASE RetireDone
  <2>1. Opened(rec) = Window /\ Opened(rec) <= sinceWell
    BY <1>2 DEF RetireDone, RecoveryInv, EpisodeBounded
  <2> QED BY <2>1, <1>1, DaemonConstants
<1>3. CASE Tick
  <2>1. rec' = Aged(rec)
    BY <1>3 DEF Tick, Aged
  <2> QED BY <2>1, <1>1, TickEffect
<1>4. CASE StartBegin
  BY <1>4, <1>1, BeginEffect DEF StartBegin, Saved, SaveFailed
<1>5. CASE HealthTick
  BY <1>5, <1>1, LiveOpen, ProgressEffect DEF HealthTick, Saved, Live
<1>6. CASE StopDaemon
  BY <1>6, <1>1, StopEffect DEF StopDaemon, Saved, SaveFailed
<1>7. CASE RecordExit
  BY <1>7, <1>1, FailureEffect DEF RecordExit, SaveFailed
<1>8. CASE RecordDesired
  BY <1>8, <1>1, UpdateDesiredEffect DEF RecordDesired, Saved, SaveFailed
<1>9. CASE CheckEarly
  <2>1. rec' = rec \/ rec' = [rec EXCEPT !.failure = Opened(rec)]
    BY <1>9 DEF CheckEarly, SaveFailed
  <2>2. rec'.retired = rec.retired
    BY <2>1, <1>1, CheckEffect
  <2> QED BY <2>2
<1>10. CASE UNCHANGED rec
  BY <1>10
<1> QED BY <1>2, <1>3, <1>4, <1>5, <1>6, <1>7, <1>8, <1>9, <1>10, RecMoves

\* Nothing is retired within Window of stable health or of a completed stop.
THEOREM RetireNeedsWindowHolds == Spec => RetireNeedsWindow
<1>1. TypeOK /\ RecoveryInv /\ [Next]_vars => ((rec'.retired /\ ~rec.retired) => sinceWell = Window)
  BY RetireStep
<1> QED BY <1>1, RecordSound, PTL DEF Spec, RetireNeedsWindow

LEMMA StoppedStep ==
  ASSUME TypeOK, RecoveryInv, [Next]_vars, stopped = "recorded", stopped' = "recorded"
  PROVE  kernel \subseteq kernel'
<1>1. pc \notin Live /\ checker = "idle"
  BY DEF RecoveryInv, StopStands
<1> QED BY <1>1
    DEF Next, vars, Tick, EditConfig, OperatorStart, OperatorStop, StartRefused, StartBegin,
        RunnerReady, RunnerFails, RunnerCancelled, HealthTick, StopDaemon, Crash, RecordExit,
        ReloadRejected, ReloadStop, CandidateReady, CandidateFails, RollbackReady,
        RollbackFails, RecordDesired, CheckEarly, CheckRetire, RetireDone, RetireFails,
        Reboot, Live, process, history

\* A completed stop keeps the record closed and the routes in place.
THEOREM CompletedStopRetainsHolds == Spec => CompletedStopRetains
<1>1. TypeOK /\ RecoveryInv /\ (TypeOK /\ RecoveryInv)' /\ [Next]_vars
        => ((stopped = "recorded" /\ stopped' = "recorded")
              => ~rec'.running /\ kernel \subseteq kernel')
  BY StoppedStep DEF RecoveryInv, StopStands
<1> QED BY <1>1, RecordSound, PTL DEF Spec, CompletedStopRetains
=============================================================================

-------------------------- MODULE DaemonRecovery ---------------------------
(***************************************************************************)
(* The velvetd process, its reload transaction and the failure episode     *)
(* (cmd/velvetd, internal/recovery).                                       *)
(*                                                                         *)
(* velvetd holds the namespace lock while it lives.  It records in a file  *)
(* when the present failure episode began; systemd restarts it when it     *)
(* fails and runs --recovery-record after it ended; a timer runs           *)
(* --recovery-check, which takes the namespace lock and removes the        *)
(* instance's kernel resources once the episode is older than Window.      *)
(*                                                                         *)
(* Every recorded time is modelled by its age, kept only up to the         *)
(* duration it is compared with, so that time needs no bound.  A           *)
(* configuration is the set of routing tables it writes to.  The node's    *)
(* identity is fixed; the kernel is the set of tables holding its routes.  *)
(***************************************************************************)
EXTENDS Integers

CONSTANTS
  Configs,     \* the valid configurations
  Namespaces,  \* network namespaces the units may find themselves in
  Window,      \* --recovery-window
  Stable,      \* --recovery-stable
  MaxReloads   \* reloads that replace the runtime, in the life of a process

NoConfig == {}   \* a file that loadDesired rejects
NoTime == -1     \* the zero time.Time

ASSUME DaemonConstants ==
  /\ Window \in Nat \ {0} /\ Stable \in Nat \ {0} /\ MaxReloads \in Nat
  /\ NoConfig \notin Configs
  /\ Namespaces # {}

Tables == UNION Configs

VARIABLES
  rec,         \* recovery.State, on disk
  pc,          \* where velvetd is
  exit,        \* how its last process ended (SERVICE_RESULT)
  desired,     \* the running generation's desired state
  candidate,   \* the generation a reload is starting
  status,      \* daemonStatus
  config,      \* the configuration file
  intent,      \* what the operator last asked of systemd
  kernel,      \* tables holding this instance's routes
  checker,     \* the --recovery-check process
  ns,          \* the network namespace of the units
  streak,      \* history: age of this process' recorded healthy spell
  sinceWell,   \* history: age of the last stable health or completed stop
  stopped      \* history: how the last process obeyed a stop: through
               \* tracker.Stop ("recorded"), without it, or not ("no")

history == <<streak, sinceWell, stopped>>
process == <<pc, exit, desired, candidate, status>>
vars == <<rec, pc, exit, desired, candidate, status, config, intent, kernel,
          checker, ns, streak, sinceWell, stopped>>

State == [known: BOOLEAN, ns: Namespaces, tables: SUBSET Tables,
          running: BOOLEAN, retired: BOOLEAN,
          failure: NoTime .. Window, healthy: NoTime .. Stable,
          progress: NoTime .. Window]

Idle == [ready |-> FALSE, error |-> FALSE, generation |-> 1]

\* The process holds the namespace lock (acquireSingleton) in these states.
Live == {"starting", "up", "reloading", "rollback", "recording"}

(***************************************************************************)
(* The operations of Tracker, as the state they write.                     *)
(***************************************************************************)

\* FailureSince when an episode is found open: LastProgress, or now.
Opened(s) == IF s.failure # NoTime THEN s.failure
             ELSE IF s.progress # NoTime THEN s.progress ELSE 0

\* Mutant: FailureSince restarts with every process.
BeginAnew(s, d) ==
  [known |-> TRUE, ns |-> ns, running |-> TRUE, retired |-> FALSE,
   tables |-> d \cup s.tables, failure |-> 0, healthy |-> NoTime, progress |-> 0]

Begin(s, d) ==
  LET fresh == ~s.known \/ s.ns # ns \/ s.retired \/ ~s.running
  IN  [known |-> TRUE, ns |-> ns, running |-> TRUE, retired |-> FALSE,
       tables |-> d \cup (IF fresh THEN {} ELSE s.tables),
       failure |-> IF fresh THEN 0 ELSE Opened(s),
       healthy |-> NoTime, progress |-> 0]

\* Mutant: a stable spell does not close the episode.
ProgressNeverCloses(s, healthy) ==
  IF ~s.running \/ s.retired THEN s
  ELSE IF ~healthy THEN [s EXCEPT !.healthy = NoTime]
  ELSE [s EXCEPT !.progress = 0, !.healthy = IF @ = NoTime THEN 0 ELSE @]

Progress(s, healthy) ==
  LET since == IF s.healthy = NoTime THEN 0 ELSE s.healthy
  IN  IF ~s.running \/ s.retired THEN s
      ELSE IF ~healthy THEN [s EXCEPT !.healthy = NoTime]
      ELSE [s EXCEPT !.progress = 0, !.healthy = since,
                     !.failure = IF since >= Stable THEN NoTime ELSE @]

Stop(s) == [s EXCEPT !.running = FALSE, !.failure = NoTime, !.healthy = NoTime]

Failure(s) ==
  IF ~s.known \/ s.retired THEN s
  ELSE [s EXCEPT !.failure = IF @ = NoTime THEN 0 ELSE @,
                 !.running = TRUE, !.healthy = NoTime]

\* Mutant: a reload's tables are not recorded.
UpdateDesiredLost(s, d) == s

UpdateDesired(s, d) == [s EXCEPT !.tables = @ \cup d]

\* Mutant: an episode that is already open is skipped.
CheckAppliesOnce(s) == s.running /\ ~s.retired /\ s.ns = ns /\ s.failure = NoTime

CheckApplies(s) == s.running /\ ~s.retired /\ s.ns = ns

Retired(s) == [s EXCEPT !.failure = Opened(s), !.retired = TRUE, !.running = FALSE]

\* Tracker.update: the new state replaces the file and no error is returned, or
\* an error is.  The rename may have happened before the error.
Saved(new) == rec' = new
SaveFailed(new) == rec' \in {rec, new}

(***************************************************************************)
(* Kernel effects of Runner.Run's first Reconcile: wanted routes are       *)
(* installed before stale ones are deleted.                                *)
(***************************************************************************)
\* Mutant: readiness does not wait for stale routes to go.
ReconciledLate(d) == kernel' = kernel \cup d

Reconciled(d) == kernel' = d

PartlyReconciled(d) ==
  \/ \E added \in SUBSET d : kernel' = kernel \cup added
  \/ \E left \in SUBSET (kernel \ d) : kernel' = d \cup left

Exits(result) == /\ pc' = "post" /\ exit' = result
                 /\ status' = Idle /\ streak' = NoTime

----------------------------------------------------------------------------
Init ==
  /\ rec \in [known: {FALSE}, ns: Namespaces, tables: {{}}, running: {FALSE},
              retired: {FALSE}, failure: {NoTime}, healthy: {NoTime}, progress: {NoTime}]
  /\ pc = "off" /\ exit = "success" /\ desired = NoConfig /\ candidate = NoConfig
  /\ status = Idle /\ config \in Configs /\ intent = "run" /\ kernel = {}
  /\ checker = "idle" /\ ns \in Namespaces
  /\ streak = NoTime /\ sinceWell = Window /\ stopped = "no"

Older(age, cap) == IF age = NoTime \/ age = cap THEN age ELSE age + 1

Tick ==
  /\ rec' = [rec EXCEPT !.failure = Older(@, Window), !.healthy = Older(@, Stable),
                        !.progress = Older(@, Window)]
  /\ streak' = Older(streak, Stable) /\ sinceWell' = Older(sinceWell, Window)
  /\ UNCHANGED <<process, config, intent, kernel, checker, ns, stopped>>

EditConfig ==
  /\ config' \in Configs \cup {NoConfig}
  /\ UNCHANGED <<rec, process, intent, kernel, checker, ns, history>>

\* systemctl start; the unit's previous process has ended.
OperatorStart ==
  /\ intent = "stop" /\ pc = "off"
  /\ intent' = "run" /\ stopped' = "no"
  /\ UNCHANGED <<rec, process, config, kernel, checker, ns, streak, sinceWell>>

\* systemctl stop, SIGTERM or the control socket's shutdown: rootCtx is
\* cancelled, and systemd does not restart the unit.
OperatorStop ==
  /\ intent = "run" /\ intent' = "stop"
  /\ UNCHANGED <<rec, process, config, kernel, checker, ns, history>>

\* main fails before Begin: the checker holds the namespace lock, or
\* loadDesired rejects the file.
StartRefused ==
  /\ pc = "off" /\ intent = "run"
  /\ checker = "retiring" \/ config = NoConfig
  /\ Exits("failure")
  /\ UNCHANGED <<rec, desired, candidate, config, intent, kernel, checker, ns,
                 sinceWell, stopped>>

StartBegin ==
  /\ pc = "off" /\ intent = "run" /\ checker = "idle" /\ config # NoConfig
  /\ \/ Saved(Begin(rec, config)) /\ pc' = "starting" /\ UNCHANGED <<exit, status, streak>>
     \/ SaveFailed(Begin(rec, config)) /\ Exits("failure")
  /\ desired' = config
  /\ UNCHANGED <<candidate, config, intent, kernel, checker, ns, sinceWell, stopped>>

RunnerReady ==
  /\ pc = "starting" /\ pc' = "up"
  /\ Reconciled(desired)
  /\ status' = [status EXCEPT !.ready = TRUE]
  /\ UNCHANGED <<rec, exit, desired, candidate, config, intent, checker, ns, history>>

\* startRunner sees rootCtx cancelled, waits for the runtime to end and returns an
\* error; main ends with it.
RunnerCancelled ==
  /\ pc = "starting" /\ intent = "stop"
  /\ PartlyReconciled(desired) /\ Exits("failure") /\ stopped' = "unrecorded"
  /\ UNCHANGED <<rec, desired, candidate, config, intent, checker, ns, sinceWell>>

\* startRunner returns another error (30 s without readiness included) and main
\* ends, or the process is killed.
RunnerFails ==
  /\ pc = "starting"
  /\ PartlyReconciled(desired) /\ Exits("failure")
  /\ UNCHANGED <<rec, desired, candidate, config, intent, checker, ns, sinceWell, stopped>>

\* The health ticker.  Runner.Progressing is either answer: maintenance has or
\* has not completed lately.  An error of Progress is only logged.
HealthTick ==
  /\ pc = "up"
  /\ \E healthy \in BOOLEAN :
       LET new == Progress(rec, healthy)
           spell == IF ~healthy THEN NoTime ELSE IF streak = NoTime THEN 0 ELSE streak
       IN  \/ /\ Saved(new)
              /\ streak' = spell
              /\ sinceWell' = IF spell = Stable THEN 0 ELSE sinceWell
           \/ UNCHANGED <<rec, streak, sinceWell>>
  /\ UNCHANGED <<process, config, intent, kernel, checker, ns, stopped>>

\* rootCtx.Done: the runtime stops within its 10 s, the stop is recorded and the
\* process ends well, or one of the two fails and it ends badly.
StopDaemon ==
  /\ pc = "up" /\ intent = "stop"
  /\ \/ Saved(Stop(rec)) /\ Exits("success") /\ sinceWell' = 0 /\ stopped' = "recorded"
     \/ /\ SaveFailed(Stop(rec)) /\ Exits("failure")
        /\ UNCHANGED <<sinceWell, stopped>>
  /\ UNCHANGED <<desired, candidate, config, intent, kernel, checker, ns>>

\* reload without a new runtime: the file is rejected (by loadDesired, or because
\* it names another node), or describes what runs.
ReloadRejected ==
  /\ pc = "up" /\ config \in {NoConfig, desired}
  /\ status' = [status EXCEPT !.error = (config = NoConfig)]
  /\ pc' = "recording"
  /\ UNCHANGED <<rec, exit, desired, candidate, config, intent, kernel, checker, ns, history>>

\* reloadCandidate up to the end of the old runtime, or its refusal to end.
ReloadStop ==
  /\ pc = "up" /\ config \notin {NoConfig, desired} /\ status.generation <= MaxReloads
  /\ \/ /\ pc' = "reloading" /\ candidate' = config
        /\ status' = [status EXCEPT !.ready = FALSE]
        /\ UNCHANGED <<exit, streak>>
     \/ Exits("failure") /\ UNCHANGED candidate
  /\ UNCHANGED <<rec, desired, config, intent, kernel, checker, ns, sinceWell, stopped>>

Committed == [ready |-> TRUE, error |-> FALSE, generation |-> status.generation + 1]

CandidateReady ==
  /\ pc = "reloading" /\ pc' = "recording"
  /\ Reconciled(candidate) /\ desired' = candidate
  /\ status' = Committed
  /\ UNCHANGED <<rec, exit, candidate, config, intent, checker, ns, history>>

\* The candidate fails: a stuck one ends the process, another is rolled back.
CandidateFails ==
  /\ pc = "reloading"
  /\ PartlyReconciled(candidate)
  /\ \/ pc' = "rollback" /\ UNCHANGED <<exit, status, streak>>
     \/ Exits("failure")
  /\ UNCHANGED <<rec, desired, candidate, config, intent, checker, ns, sinceWell, stopped>>

RollbackReady ==
  /\ pc = "rollback" /\ pc' = "recording"
  /\ Reconciled(desired)
  /\ status' = [status EXCEPT !.ready = TRUE, !.error = TRUE]
  /\ UNCHANGED <<rec, exit, desired, candidate, config, intent, checker, ns, history>>

RollbackFails ==
  /\ pc = "rollback"
  /\ PartlyReconciled(desired) /\ Exits("failure")
  /\ UNCHANGED <<rec, desired, candidate, config, intent, checker, ns, sinceWell, stopped>>

\* After every reload, whatever it did: tracker.UpdateDesired(active.desired).
RecordDesired ==
  /\ pc = "recording"
  /\ \/ Saved(UpdateDesired(rec, desired)) /\ pc' = "up" /\ UNCHANGED <<exit, status, streak>>
     \/ SaveFailed(UpdateDesired(rec, desired)) /\ Exits("failure")
  /\ UNCHANGED <<desired, candidate, config, intent, kernel, checker, ns, sinceWell, stopped>>

\* The process ends on its own: a runtime or control error, the watchdog, a kill.
Crash ==
  /\ pc \in {"up", "recording"}
  /\ Exits("failure")
  /\ UNCHANGED <<rec, desired, candidate, config, intent, kernel, checker, ns,
                 sinceWell, stopped>>

\* Mutant: every exit is recorded as a failure.
RecordExitAlways ==
  /\ pc = "post" /\ checker = "idle" /\ pc' = "off"
  /\ SaveFailed(Failure(rec))
  /\ UNCHANGED <<exit, desired, candidate, status, config, intent, kernel, checker, ns, history>>

\* ExecStopPost: --recovery-record.  It waits for the file lock that a check
\* holds while it retires.  It may never run, or fail.
RecordExit ==
  /\ pc = "post" /\ checker = "idle" /\ pc' = "off"
  /\ IF exit = "failure" THEN SaveFailed(Failure(rec)) ELSE UNCHANGED rec
  /\ UNCHANGED <<exit, desired, candidate, status, config, intent, kernel, checker, ns, history>>

\* --recovery-check before the deadline; the episode's start is written.
CheckEarly ==
  /\ pc \notin Live /\ checker = "idle"
  /\ CheckApplies(rec) /\ Opened(rec) < Window
  /\ SaveFailed([rec EXCEPT !.failure = Opened(rec)])
  /\ UNCHANGED <<process, config, intent, kernel, checker, ns, history>>

\* Past the deadline: it holds both locks until the cleanup ends.
CheckRetire ==
  /\ pc \notin Live /\ checker = "idle"
  /\ CheckApplies(rec) /\ Opened(rec) >= Window
  /\ checker' = "retiring"
  /\ UNCHANGED <<rec, process, config, intent, kernel, ns, history>>

RetireDone ==
  /\ checker = "retiring" /\ checker' = "idle"
  /\ kernel' = kernel \ rec.tables
  /\ Saved(Retired(rec))
  /\ UNCHANGED <<process, config, intent, ns, history>>

\* Babel would not stop, a netlink call failed, or the 25 s passed.
RetireFails ==
  /\ checker = "retiring" /\ checker' = "idle"
  /\ \E removed \in SUBSET rec.tables : kernel' = kernel \ removed
  /\ UNCHANGED <<rec, process, config, intent, ns, history>>

Reboot ==
  /\ kernel' = {} /\ ns' \in Namespaces /\ checker' = "idle"
  /\ pc' = "off" /\ status' = Idle /\ streak' = NoTime
  /\ intent' = "run" /\ stopped' = "no"
  /\ UNCHANGED <<rec, exit, desired, candidate, config, sinceWell>>

Next ==
  \/ Tick \/ EditConfig \/ OperatorStart \/ OperatorStop
  \/ StartRefused \/ StartBegin \/ RunnerReady \/ RunnerFails \/ RunnerCancelled
  \/ HealthTick \/ StopDaemon \/ Crash \/ RecordExit
  \/ ReloadRejected \/ ReloadStop \/ CandidateReady \/ CandidateFails
  \/ RollbackReady \/ RollbackFails \/ RecordDesired
  \/ CheckEarly \/ CheckRetire \/ RetireDone \/ RetireFails
  \/ Reboot

Spec == Init /\ [][Next]_vars

\* Time passes, the timer fires, and a cleanup that keeps being tried succeeds.
LiveSpec == Spec /\ WF_vars(Tick) /\ WF_vars(CheckEarly) /\ WF_vars(CheckRetire)
                 /\ SF_vars(RetireDone)

----------------------------------------------------------------------------
(***************************************************************************)
(* Properties                                                              *)
(***************************************************************************)

TypeOK ==
  /\ rec \in State
  /\ pc \in Live \cup {"off", "post"} /\ exit \in {"success", "failure"}
  /\ {desired, candidate, config} \subseteq Configs \cup {NoConfig}
  /\ status \in [ready: BOOLEAN, error: BOOLEAN, generation: 1 .. MaxReloads + 1]
  /\ pc = "reloading" => status.generation <= MaxReloads
  /\ intent \in {"run", "stop"} /\ kernel \in SUBSET Tables
  /\ checker \in {"idle", "retiring"} /\ ns \in Namespaces
  /\ streak \in NoTime .. Stable /\ sinceWell \in 0 .. Window /\ stopped \in {"no", "recorded", "unrecorded"}

\* Whatever a restart, a failed cleanup or a reload did before, a runtime that is
\* up has its routes only in tables the record names, so that the recovery timer
\* can find them (UpdateDesired "keeps cleanup ownership current").  Not said of a
\* process that ends between a reload's routes and UpdateDesired.
UpTablesRecorded == pc = "up" => kernel \subseteq rec.tables

\* The status reports ready only while the kernel carries exactly the generation
\* it reports: never between the two generations of a reload, nor after a
\* candidate that failed half-way, nor after the process ended.
ReadyMeansInstalled == status.ready => pc \in Live /\ kernel = desired

\* "Repeated restarts do not extend the deadline" (README): while an episode is
\* open, no restart, failure record, health tick or check moves its start later;
\* only a new namespace starts it afresh.
DeadlineNotExtended ==
  [][(/\ rec.running /\ ~rec.retired /\ rec.failure # NoTime /\ rec'.failure # NoTime
      /\ rec'.ns = rec.ns)
        => rec'.failure >= rec.failure]_vars

\* An episode ends only when one process recorded Stable of uninterrupted health,
\* or in a recorded stop the operator asked for: healthy ticks on the two sides of
\* a crash never add up.
EpisodeEndsOnlyWhenStable ==
  [][(rec.failure # NoTime /\ rec'.failure = NoTime)
        => streak' = Stable \/ (~rec'.running /\ intent = "stop")]_vars

\* The timer takes the kernel resources away only when no stable health and no
\* completed stop lie within the last Window, however the episode's start was
\* recorded or reconstructed from LastProgress.
RetireNeedsWindow ==
  [][(rec'.retired /\ ~rec.retired) => sinceWell = Window]_vars

\* A stop that velvetd completed keeps the resources until the next start: the
\* check and the exit record leave the stopped instance alone.
CompletedStopRetains ==
  [][(stopped = "recorded" /\ stopped' = "recorded")
        => ~rec'.running /\ kernel \subseteq kernel']_vars

\* When velvetd stays down, because it crashed for good or every start fails before
\* Begin, its instance is retired (or stopped): its record does not stay open, with
\* an exit record or without, unless it belongs to another namespace.
DeadDaemonRetired ==
  <>[](pc \in {"off", "post"}) => []<>(~rec.running \/ rec.ns # ns)

\* "Intentional normal stops retain resources and do not start a retirement
\* deadline" (README): no retirement after velvetd ended because it was told to
\* stop, until it is started again.
StopNeverRetires ==
  [][(rec'.retired /\ ~rec.retired) => stopped = "no"]_vars
=============================================================================

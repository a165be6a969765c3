---------------------------- MODULE BabelManager ----------------------------
(***************************************************************************)
(* The manager of the Babel daemon (internal/babel).                       *)
(*                                                                         *)
(* Link supervisors call SetLinkState.  Run renders the latest Link states *)
(* to a configuration file, makes sure one daemon runs on it and reloads   *)
(* that daemon when it is active on another one.  The daemon outlives      *)
(* velvetd: it is a systemd unit, or a detached child known by a record on *)
(* disk.  StopInstance ends it when Babel is disabled or the instance is   *)
(* retired.                                                                *)
(*                                                                         *)
(* A configuration is the set of admitted interfaces and the set of Links  *)
(* that originate their prefixes.  A process is a pid with a start time    *)
(* (gen), which no other process ever has; a pid may be reused.  A pid is  *)
(* read from the control socket and its start time from /proc after that.  *)
(***************************************************************************)
EXTENDS Naturals, FiniteSets

CONSTANTS
  Links,       \* the interfaces of Links
  Plans,       \* BabelPlans: Interfaces, the configured ones, and whether ServiceName is set
  Pids,        \* process identifiers
  MaxChanges,  \* calls of SetLinkState that change something
  MaxFaults    \* exits, failed writes, saves, checks, reloads and stops, reused pids

ASSUME BabelAssumption ==
  /\ IsFiniteSet(Links) /\ Plans \subseteq [interfaces: SUBSET Links, service: BOOLEAN]
  /\ Pids \subseteq Nat \ {0}
  /\ MaxChanges \in Nat /\ MaxFaults \in Nat

VARIABLES
  static,     \* BabelPlan.Interfaces, fixed
  unit,       \* BabelPlan.ServiceName is set, fixed: systemd supervises the daemon
  latest,     \* Manager.latest: "off", "bare" (no routable prefix) or "routed"
  withdrawn,  \* Manager.withdrawn
  notify,     \* Links whose SetLinkState has yet to send its update
  queue,      \* updates in Manager.updates
  pc,         \* where Run is; "dead": velvetd is not running
  conf,       \* what prepare returned
  previous,   \* the file before this iteration
  cand,       \* ensureService: the record it is about to save; gen 0: only its pid
  file,       \* the configuration file
  record,     \* babel-service.json: pid and start of the daemon
  enabled,    \* the systemd unit is enabled
  procs,      \* procs[p]: the process with identifier p
  gens,       \* processes ever started
  stop,       \* where StopInstance is
  srec,       \* StopInstance: record; gen 0: only its pid
  fd,         \* StopInstance: the process its pidfd pins
  victims,    \* history: strangers that StopInstance signalled
  mistaken,   \* history: strangers whose start time was read for the socket's process
  overlooked, \* history: daemons that neither the record nor the socket showed
  changes, faults

linkVars == <<latest, withdrawn, notify, queue, changes>>
runVars == <<pc, conf, previous, cand>>
stopVars == <<stop, srec, fd, victims>>
seen == <<mistaken, overlooked>>
fixed == <<static, unit>>
vars == <<fixed, linkVars, runVars, file, record, enabled, procs, gens, stopVars, seen, faults>>

Config == [ifs: SUBSET Links, org: SUBSET Links]
NoConfig == [ifs |-> {"none"}, org |-> {}]     \* no file yet
NoProc == [pid |-> 0, gen |-> 0]
Free == [kind |-> "free", gen |-> 0, active |-> NoConfig]

Babels == {p \in Pids : procs[p].kind \in {"starting", "ready", "deaf"}}
\* The daemon that the path of the control socket leads to.
Answering == {p \in Pids : procs[p].kind = "ready"}
\* A process by its identifier and its start time, which is 0 when it is gone.
Named(p) == [pid |-> p, gen |-> procs[p].gen]
\* socketProcess: the identifier alone.
Peer(p) == [pid |-> p, gen |-> 0]

\* serviceRecord.alive: pid and start time.
Alive(r) == \E p \in Pids : Named(p) = r /\ procs[p].kind # "free"

\* prepare and Render.
Render(on, out) ==
  [ifs |-> (static \ out) \cup {l \in Links : on[l] # "off"},
   org |-> {l \in Links : on[l] = "routed"}]

Processes == [kind: {"free", "starting", "ready", "deaf", "stranger"}, gen: 0 .. gens,
              active: Config \cup {NoConfig}]
Phases == {"dead", "prepare", "check", "write", "ensure", "identify", "save", "spawn", "record",
           "control", "reload", "select", "backoff"}

TypeOK ==
  /\ static \subseteq Links /\ unit \in BOOLEAN /\ enabled \in BOOLEAN
  /\ latest \in [Links -> {"off", "bare", "routed"}]
  /\ withdrawn \subseteq static /\ notify \subseteq Links
  /\ queue \in 0 .. Cardinality(static) + 1
  /\ pc \in Phases
  /\ {conf, previous, file} \subseteq Config \cup {NoConfig}
  /\ gens \in Nat
  /\ {record, cand, srec} \subseteq [pid: Pids \cup {0}, gen: 0 .. gens]
  /\ procs \in [Pids -> Processes]
  /\ stop \in {"no", "identify", "pin", "opened", "signal", "done"} /\ fd \in 0 .. gens
  /\ victims \subseteq 0 .. gens /\ mistaken \subseteq 0 .. gens /\ overlooked \subseteq 0 .. gens
  /\ changes \in 0 .. MaxChanges /\ faults \in 0 .. MaxFaults

Init ==
  /\ \E plan \in Plans : static = plan.interfaces /\ unit = plan.service
  /\ latest = [l \in Links |-> "off"] /\ withdrawn = {} /\ notify = {} /\ queue = 0
  /\ pc = "prepare" /\ conf = NoConfig /\ previous = NoConfig /\ cand = NoProc
  /\ file = NoConfig /\ record = NoProc /\ enabled = FALSE
  /\ procs = [p \in Pids |-> Free] /\ gens = 0
  /\ stop = "no" /\ srec = NoProc /\ fd = 0 /\ victims = {}
  /\ mistaken = {} /\ overlooked = {}
  /\ changes = 0 /\ faults = 0

Fault == faults < MaxFaults /\ faults' = faults + 1

-----------------------------------------------------------------------------
\* SetLinkState under its lock: an unchanged state returns early.
SetLinkState(l, v) ==
  /\ pc # "dead" /\ l \notin notify /\ v # latest[l] /\ changes < MaxChanges
  /\ latest' = [latest EXCEPT ![l] = v]
  /\ withdrawn' = IF v # "off" THEN withdrawn \ {l} ELSE withdrawn \cup ({l} \cap static)
  /\ notify' = notify \cup {l}
  /\ changes' = changes + 1
  /\ UNCHANGED <<fixed, queue, runVars, file, record, enabled, procs, gens, stopVars, seen, faults>>

\* Mutant: the send does not give up on a full channel.
NotifyAlways(l) ==
  /\ l \in notify
  /\ notify' = notify \ {l}
  /\ queue' = queue + 1
  /\ UNCHANGED <<fixed, latest, withdrawn, changes, runVars, file, record, enabled, procs,
                 gens, stopVars, seen, faults>>

\* SetLinkState after its lock: the update, or nothing when the channel is full.
Notify(l) ==
  /\ l \in notify
  /\ notify' = notify \ {l}
  /\ queue' = IF queue > Cardinality(static) THEN queue ELSE queue + 1
  /\ UNCHANGED <<fixed, latest, withdrawn, changes, runVars, file, record, enabled, procs,
                 gens, stopVars, seen, faults>>

-----------------------------------------------------------------------------
\* runOnce goes on to phase q; its locals die with their use.  Retry: it returns an
\* error and Run backs off.
Goto(q) ==
  /\ pc' = q
  /\ conf' = IF q = "backoff" THEN NoConfig ELSE conf
  /\ previous' = IF q \in {"backoff", "select"} THEN NoConfig ELSE previous
  /\ cand' = IF q \in {"backoff", "control", "select"} THEN NoProc ELSE cand
Retry == Goto("backoff")

Prepare ==
  /\ pc = "prepare"
  /\ previous' = file
  /\ conf' = Render(latest, withdrawn)
  /\ pc' = "check"
  /\ UNCHANGED <<fixed, linkVars, cand, file, record, enabled, procs, gens, stopVars, seen, faults>>

\* babel-rs check of the candidate file.
Check ==
  /\ pc = "check"
  /\ \/ Goto("write") /\ UNCHANGED faults
     \/ Fault /\ Retry
  /\ UNCHANGED <<fixed, linkVars, file, record, enabled, procs, gens, stopVars, seen>>

\* writeAtomic: it may fail before its rename or after it.
Write ==
  /\ pc = "write"
  /\ \/ file' = conf /\ Goto("ensure") /\ UNCHANGED faults
     \/ Fault /\ Retry /\ file' \in {file, conf}
  /\ UNCHANGED <<fixed, linkVars, record, enabled, procs, gens, stopVars, seen>>

\* The control socket does not show a detached daemon that has yet to open it, or has
\* lost it.  Where the record is not alive, nothing else does.
Looks ==
  overlooked' = overlooked \cup {procs[p].gen : p \in {p \in Babels \ Answering : ~unit}}

\* processStart of the pid in r: the start time of whoever has that pid by now.
Identified(r) == Named(r.pid)
Reads(r) ==
  mistaken' = mistaken \cup {procs[p].gen : p \in {p \in {r.pid} : procs[p].kind = "stranger"}}

\* ensureService: the daemon on record, or else the pid at the socket.
Ensure ==
  /\ pc = "ensure"
  /\ \/ Alive(record) /\ cand' = record /\ pc' = "save" /\ UNCHANGED overlooked
     \/ ~Alive(record) /\ Answering = {} /\ Looks /\ cand' = NoProc /\ pc' = "save"
     \/ ~Alive(record) /\ Looks /\ pc' = "identify" /\ \E p \in Answering : cand' = Peer(p)
  /\ UNCHANGED <<fixed, linkVars, conf, previous, file, record, enabled, procs, gens,
                 stopVars, mistaken, faults>>

Identify ==
  /\ pc = "identify"
  /\ Reads(cand) /\ cand' = Identified(cand)
  /\ pc' = "save"
  /\ UNCHANGED <<fixed, linkVars, conf, previous, file, record, enabled, procs, gens,
                 stopVars, overlooked, faults>>

\* Mutant: a daemon on record is not taken for running.
SaveForget ==
  /\ pc = "save"
  /\ record' = cand
  /\ Goto("spawn")
  /\ UNCHANGED <<fixed, linkVars, file, enabled, procs, gens, stopVars, seen, faults>>

\* The first saveService of ensureService.
Save ==
  /\ pc = "save"
  /\ \/ /\ record' = cand
        /\ Goto(IF Alive(cand) THEN "control" ELSE "spawn")
        /\ UNCHANGED faults
     \/ Fault /\ Retry /\ record' \in {record, cand}
  /\ UNCHANGED <<fixed, linkVars, file, enabled, procs, gens, stopVars, seen>>

\* A daemon starts on the file as it is.
Launch(p) ==
  /\ procs[p].kind = "free"
  /\ gens' = gens + 1
  /\ procs' = [procs EXCEPT ![p] = [kind |-> "starting", gen |-> gens + 1, active |-> file]]

\* ensureService enables the unit, or launches a detached daemon unless one answers.
Spawn ==
  /\ pc = "spawn"
  /\ \/ unit /\ enabled' = TRUE /\ Goto("control") /\ UNCHANGED <<procs, gens, faults>>
     \/ /\ ~unit /\ Answering # {}
        /\ Goto("control")
        /\ UNCHANGED <<procs, gens, enabled, faults>>
     \/ /\ ~unit /\ Answering = {}
        /\ \E p \in Pids : Launch(p) /\ cand' = [pid |-> p, gen |-> gens + 1]
        /\ pc' = "record"
        /\ UNCHANGED <<conf, previous, enabled, faults>>
     \/ Fault /\ Retry /\ enabled' \in {enabled, unit} /\ UNCHANGED <<procs, gens>>
  /\ UNCHANGED <<fixed, linkVars, file, record, stopVars, seen>>

\* The second saveService, with the child's identity.
Record ==
  /\ pc = "record"
  /\ \/ record' = cand /\ Goto("control") /\ UNCHANGED faults
     \/ Fault /\ Retry /\ record' \in {record, cand}
  /\ UNCHANGED <<fixed, linkVars, file, enabled, procs, gens, stopVars, seen>>

\* Mutant: the digest is compared with the file, not with the daemon.
ControlFile ==
  /\ pc = "control"
  /\ \/ \E p \in Answering : Goto(IF previous = conf THEN "select" ELSE "reload")
     \/ Answering = {} /\ Retry
  /\ UNCHANGED <<fixed, linkVars, file, record, enabled, procs, gens, stopVars, seen, faults>>

\* runOnce asks for the status until the daemon is ready, and compares digests.
Control ==
  /\ pc = "control"
  /\ \/ \E p \in Answering : Goto(IF procs[p].active = conf THEN "select" ELSE "reload")
     \/ Answering = {} /\ Retry
  /\ UNCHANGED <<fixed, linkVars, file, record, enabled, procs, gens, stopVars, seen, faults>>

\* The daemon reloads the file, and says so.
Reload ==
  /\ pc = "reload"
  /\ \E p \in Answering : procs' = [procs EXCEPT ![p].active = file]
  /\ Goto("select")
  /\ UNCHANGED <<fixed, linkVars, file, record, enabled, gens, stopVars, seen, faults>>

\* It is gone, refuses, or its answer is lost after it reloaded.  runOnce restores the
\* previous file, as far as it can.
ReloadFails ==
  /\ pc = "reload"
  /\ \/ Answering = {} /\ UNCHANGED <<procs, faults>>
     \/ \E p \in Answering : Fault /\ procs' \in {procs, [procs EXCEPT ![p].active = file]}
  /\ file' \in {file, IF previous = NoConfig THEN file ELSE previous}
  /\ Retry
  /\ UNCHANGED <<fixed, linkVars, record, enabled, gens, stopVars, seen>>

\* Mutant: one wake-up empties the channel after the states were read.
TakeUpdateAll ==
  /\ pc \in {"select", "check"} /\ queue > 0
  /\ queue' = 0
  /\ pc' = IF pc = "select" THEN "prepare" ELSE pc
  /\ UNCHANGED <<fixed, latest, withdrawn, notify, changes, conf, previous, cand, file, record,
                 enabled, procs, gens, stopVars, seen, faults>>

TakeUpdate ==
  /\ pc = "select" /\ queue > 0
  /\ queue' = queue - 1
  /\ pc' = "prepare"
  /\ UNCHANGED <<fixed, latest, withdrawn, notify, changes, conf, previous, cand, file, record,
                 enabled, procs, gens, stopVars, seen, faults>>

\* Mutant: runOnce has no ticker.
TickBackoff ==
  /\ pc = "backoff"
  /\ pc' = "prepare"
  /\ UNCHANGED <<fixed, linkVars, conf, previous, cand, file, record, enabled, procs, gens,
                 stopVars, seen, faults>>

\* The ticker of runOnce, and the end of Run's backoff.
Tick ==
  /\ pc \in {"select", "backoff"}
  /\ pc' = "prepare"
  /\ UNCHANGED <<fixed, linkVars, conf, previous, cand, file, record, enabled, procs, gens,
                 stopVars, seen, faults>>

\* velvetd ends at any point, by its context or by a crash.  The daemon stays.
Exit ==
  /\ pc # "dead" /\ Fault
  /\ pc' = "dead"
  /\ latest' = [l \in Links |-> "off"]
  /\ withdrawn' = {} /\ notify' = {} /\ queue' = 0
  /\ conf' = NoConfig /\ previous' = NoConfig /\ cand' = NoProc
  /\ UNCHANGED <<fixed, changes, file, record, enabled, procs, gens, stopVars, seen>>

Start ==
  /\ pc = "dead" /\ stop = "no"
  /\ pc' = "prepare"
  /\ UNCHANGED <<fixed, linkVars, conf, previous, cand, file, record, enabled, procs, gens,
                 stopVars, seen, faults>>

-----------------------------------------------------------------------------
\* systemd starts the unit; ExecService records its own process and becomes Babel.
UnitStart ==
  /\ unit /\ enabled /\ Babels = {}
  /\ \E p \in Pids : Launch(p) /\ record' = [pid |-> p, gen |-> gens + 1]
  /\ UNCHANGED <<fixed, linkVars, runVars, file, enabled, stopVars, seen, faults>>

\* The daemon opens its control socket.  When another one has it, it gives up, or takes
\* the path over and leaves the other one deaf.
Listen(p) ==
  /\ procs[p].kind = "starting"
  /\ \/ procs' = [q \in Pids |-> IF q = p THEN [procs[q] EXCEPT !.kind = "ready"]
                                ELSE IF q \in Answering THEN [procs[q] EXCEPT !.kind = "deaf"]
                                ELSE procs[q]]
     \/ Answering # {} /\ procs' = [procs EXCEPT ![p] = Free]
  /\ UNCHANGED <<fixed, linkVars, runVars, file, record, enabled, gens, stopVars, seen, faults>>

DaemonDies(p) ==
  /\ p \in Babels /\ Fault
  /\ procs' = [procs EXCEPT ![p] = Free]
  /\ UNCHANGED <<fixed, linkVars, runVars, file, record, enabled, gens, stopVars, seen>>

\* Another program gets a pid that the daemon had.  Bound: it leaves a pid for the next
\* daemon.
Reuse(p) ==
  /\ procs[p].kind = "free" /\ p \in {record.pid, cand.pid, srec.pid} /\ Fault
  /\ \E q \in Pids \ {p} : procs[q].kind = "free"
  /\ gens' = gens + 1
  /\ procs' = [procs EXCEPT ![p] = [kind |-> "stranger", gen |-> gens + 1, active |-> NoConfig]]
  /\ UNCHANGED <<fixed, linkVars, runVars, file, record, enabled, stopVars, seen>>

-----------------------------------------------------------------------------
\* StopInstance removes the record and is done, or fails to and may be run again.
StopEnds ==
  /\ srec' = NoProc /\ fd' = 0
  /\ \/ record' = NoProc /\ stop' = "done" /\ UNCHANGED faults
     \/ UNCHANGED record /\ stop' = "no" /\ Fault

\* StopInstance of a unit: systemctl disable --now.
StopUnit ==
  /\ unit /\ pc = "dead" /\ stop = "no"
  /\ enabled' = FALSE
  /\ procs' = [p \in Pids |-> IF p \in Babels THEN Free ELSE procs[p]]
  /\ StopEnds
  /\ UNCHANGED <<fixed, linkVars, runVars, file, gens, victims, seen>>

\* StopInstance of a detached daemon: the process on record, or else the pid at the
\* socket.  Without a record file there never was a daemon.
StopRead ==
  /\ ~unit /\ pc = "dead" /\ stop = "no"
  /\ \/ Alive(record) /\ srec' = record /\ stop' = "pin" /\ UNCHANGED overlooked
     \/ ~Alive(record) /\ Answering = {} /\ Looks /\ srec' = record /\ stop' = "pin"
     \/ ~Alive(record) /\ Looks /\ stop' = "identify" /\ \E p \in Answering : srec' = Peer(p)
  /\ UNCHANGED <<fixed, linkVars, runVars, file, record, enabled, procs, gens, fd, victims,
                 mistaken, faults>>

StopIdentify ==
  /\ stop = "identify"
  /\ Reads(srec) /\ srec' = Identified(srec)
  /\ stop' = "pin"
  /\ UNCHANGED <<fixed, linkVars, runVars, file, record, enabled, procs, gens, fd, victims,
                 overlooked, faults>>

\* pidfd_open pins whoever has the pid by now.
StopPin ==
  /\ stop = "pin"
  /\ fd' = IF srec.pid = 0 THEN 0 ELSE procs[srec.pid].gen
  /\ stop' = "opened"
  /\ UNCHANGED <<fixed, linkVars, runVars, file, record, enabled, procs, gens, srec, victims,
                 seen, faults>>

\* Is what was pinned the process on record?
StopVerify ==
  /\ stop = "opened"
  /\ \/ fd # 0 /\ Alive(srec) /\ stop' = "signal" /\ UNCHANGED <<record, srec, fd, faults>>
     \/ ~Alive(srec) /\ StopEnds
  /\ UNCHANGED <<fixed, linkVars, runVars, file, enabled, procs, gens, victims, seen>>

Strangers(S) == {procs[p].gen : p \in {p \in S : procs[p].kind = "stranger"}}

\* Mutant: the signal goes to the pid.
StopSignalPid ==
  /\ stop = "signal"
  /\ procs' = [procs EXCEPT ![srec.pid] = Free]
  /\ victims' = victims \cup Strangers({srec.pid})
  /\ StopEnds
  /\ UNCHANGED <<fixed, linkVars, runVars, file, enabled, gens, seen>>

\* The shutdown request, which a daemon at the socket may obey; signals through the pidfd
\* until what it pins has ended.
StopSignal ==
  /\ stop = "signal"
  /\ LET pinned == {p \in Pids : procs[p].gen = fd} IN
       /\ \E obeying \in {{}, Answering} :
            procs' = [p \in Pids |-> IF p \in pinned \cup obeying THEN Free ELSE procs[p]]
       /\ victims' = victims \cup Strangers(pinned)
  /\ StopEnds
  /\ UNCHANGED <<fixed, linkVars, runVars, file, enabled, gens, seen>>

\* It fails: no pidfd for a process that runs, an error of poll, or no end within 9s.
StopFails ==
  /\ stop \in {"pin", "signal"} /\ Alive(srec) /\ Fault
  /\ stop' = "no" /\ srec' = NoProc /\ fd' = 0
  /\ UNCHANGED <<fixed, linkVars, runVars, file, record, enabled, procs, gens, victims, seen>>

ManagerStep ==
  \/ Prepare \/ Check \/ Write \/ Ensure \/ Identify \/ Save \/ Spawn \/ Record
  \/ Control \/ Reload \/ ReloadFails \/ TakeUpdate \/ Tick \/ Start
StopStep ==
  StopUnit \/ StopRead \/ StopIdentify \/ StopPin \/ StopVerify \/ StopSignal \/ StopFails

Next ==
  \/ \E l \in Links : Notify(l) \/ \E v \in {"off", "bare", "routed"} : SetLinkState(l, v)
  \/ ManagerStep \/ Exit \/ UnitStart \/ StopStep
  \/ \E p \in Pids : Listen(p) \/ DaemonDies(p) \/ Reuse(p)

\* Run keeps running and its ticker fires, senders are scheduled, systemd starts what is
\* enabled and restarts velvetd, a daemon opens its socket, StopInstance goes on.
Spec ==
  /\ Init /\ [][Next]_vars
  /\ WF_vars(ManagerStep) /\ WF_vars(UnitStart)
  /\ \A l \in Links : WF_vars(Notify(l))
  /\ \A p \in Pids : WF_vars(Listen(p))
  /\ WF_vars(StopIdentify \/ StopPin \/ StopVerify \/ StopSignal)

-----------------------------------------------------------------------------
\* No Link change is forgotten, though updates coalesce when the channel is full: while
\* Run waits on a configuration that is out of date, an update is queued or about to be.
NoLostUpdate ==
  pc = "select" /\ conf # Render(latest, withdrawn) => queue > 0 \/ notify # {}

\* When Run waits, the file is what it rendered and the daemon that answers is active on
\* it, whatever failed, crashed or restarted since: Run believes the daemon, not the
\* file, and a daemon that restarts reads the file.  Not so once a daemon was overlooked:
\* then two may run, and the other one take the socket over.
IdleMeansActive ==
  pc = "select" => /\ file = conf
                   /\ overlooked # {} \/ \A p \in Answering : procs[p].active = conf

\* While Run waits, what it last rendered is in force, and out of date only while an
\* update is on its way.
IdleIsUpToDate == NoLostUpdate /\ IdleMeansActive

\* The daemons that ensureService and StopInstance could know of.
Known == {p \in Babels : procs[p].gen \notin overlooked}
OneDaemon == Cardinality(Known) <= 1
StoppedMeansGone == stop = "done" => Known = {}

\* One daemon at most, and none once the instance was stopped, across crashes between
\* launch and record, failed saves, restarts by systemd and repeated stops.  Not counted:
\* detached daemons that neither the record nor the socket showed when ensureService or
\* StopInstance looked, because velvetd had ended or failed before it recorded them and
\* they had yet to open the socket, or had lost it to another one.
DaemonAccounted == OneDaemon /\ StoppedMeansGone

\* StopInstance signals the daemon and nothing else, though pids are reused at any time,
\* after the save, after pidfd_open or while it waits.  The one way out: the daemon at the
\* socket ended, and its pid was reused, before its start time was read.
OnlyDaemonSignalled == victims \subseteq mistaken

\* The daemon is active on the latest Link states, and on record.
Current ==
  {p \in Answering : procs[p].active = Render(latest, withdrawn) /\ record = Named(p)}

\* The record names a process that runs and will never answer, another program or a daemon
\* whose socket was taken over: ensureService waits for it.
Misled == \E p \in Pids : procs[p].kind \in {"stranger", "deaf"} /\ record = Named(p)

\* Babel follows the Links: unless the instance was stopped or the record is mistaken, in
\* the end a daemon runs that is active on the latest Link states and on record.
RoutingFollows == <>[](stop # "no" \/ Misled \/ Current # {})

=============================================================================

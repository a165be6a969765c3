------------------------- MODULE BabelManagerProofs -------------------------
(***************************************************************************)
(* Theorems about the manager of the Babel daemon, for every finite set of *)
(* Links, every set of pids and any number of changes and faults.          *)
(*                                                                         *)
(* A process is known by its start time.  The invariant says that start    *)
(* times are unique and that a stranger has one that a record names only   *)
(* if it was read for the socket's process (GensUnique, NamesSound); that  *)
(* the daemon which counts, the one that was not overlooked, is the one on *)
(* record or the one ensureService is about to save, so that it spawns     *)
(* only when none counts (SpawnSound); that StopInstance has that daemon   *)
(* pinned, if there is one (StopSound); and that the file, once written,   *)
(* and the daemon, once compared, are what was rendered (RunSound).        *)
(***************************************************************************)
EXTENDS BabelManager, FiniteSetTheorems, TLAPS

\* Run is between rendering a configuration and its next iteration.
Rendered ==
  {"check", "write", "ensure", "identify", "save", "spawn", "record", "control", "reload", "select"}
\* It has written that configuration.
Written == Rendered \ {"check", "write"}

IsBabel(p) == procs[p].kind \in {"starting", "ready", "deaf"}
Counts(p) == IsBabel(p) /\ procs[p].gen \notin overlooked

\* A process has a start time of its own.
GensUnique ==
  /\ \A p \in Pids : procs[p].kind = "free" <=> procs[p].gen = 0
  /\ \A p, q \in Pids : procs[p].gen = procs[q].gen /\ procs[p].gen # 0 => p = q

\* The path of the socket leads to one daemon.
OneAnswers == \A p, q \in Pids : procs[p].kind = "ready" /\ procs[q].kind = "ready" => p = q

\* What is identified is a process of the table.
IdentifySound ==
  /\ pc = "identify" => cand.pid \in Pids
  /\ stop = "identify" => srec.pid \in Pids

\* A record has the start time of a stranger only if it was read for the daemon's.
NamesSound ==
  \A p \in Pids :
    procs[p].kind = "stranger" /\ procs[p].gen \in {record.gen, cand.gen, srec.gen} =>
      procs[p].gen \in mistaken

\* Of two daemons that count one is the other.
AtMostOne == \A p, q \in Pids : Counts(p) /\ Counts(q) => p = q

\* A detached daemon that counts is the one on record, if that is alive, and the one that
\* ensureService has in hand; it launches another only when there is none.
SpawnSound ==
  ~unit => /\ pc = "identify" => \A p \in Pids : Counts(p) => cand.pid = p
           /\ pc \in {"save", "record"} => \A p \in Pids : Counts(p) => cand = Named(p)
           /\ pc = "spawn" => \A p \in Pids : ~Counts(p)
           /\ pc \in {"spawn", "record"} => ~Alive(record)
           /\ Alive(record) => \A p \in Pids : Counts(p) => record = Named(p)

\* StopInstance runs after Run has ended; it has the daemon in hand, if one counts, pins
\* what it has in hand, and signals only a stranger it was mistaken about.
StopSound ==
  /\ stop # "no" => pc = "dead"
  /\ unit => stop \in {"no", "done"} /\ (stop = "done" => ~enabled)
  /\ stop = "identify" => \A p \in Pids : Counts(p) => srec.pid = p
  /\ stop \in {"pin", "opened", "signal"} => \A p \in Pids : Counts(p) => srec = Named(p)
  /\ stop = "opened" /\ Alive(srec) => fd = srec.gen
  /\ stop = "signal" => fd = srec.gen /\ fd # 0
  /\ stop = "done" => \A p \in Pids : ~Counts(p)
  /\ victims \subseteq mistaken

\* What was rendered is up to date or an update is on its way; it is in the file once
\* written, and in the daemon once Run waits, unless a second one may run.
RunSound ==
  /\ pc \in Rendered => \/ conf = Render(latest, withdrawn)
                        \/ queue > 0 \/ notify # {}
  /\ pc \in Written => file = conf
  /\ pc = "select" => overlooked # {} \/ \A p \in Pids : IsBabel(p) => procs[p].active = conf

ManagerInv ==
  /\ GensUnique /\ OneAnswers /\ IdentifySound /\ NamesSound
  /\ AtMostOne /\ SpawnSound /\ StopSound /\ RunSound

-----------------------------------------------------------------------------
(***************************************************************************)
(* The type invariant.                                                     *)
(***************************************************************************)
Proc == [pid: Pids \cup {0}, gen: 0 .. gens]
Confs == Config \cup {NoConfig}

LEMMA StaticFinite ==
  ASSUME TypeOK PROVE Cardinality(static) \in Nat
<1>1. IsFiniteSet(static)
  BY BabelAssumption, FS_Subset DEF TypeOK
<1> QED BY <1>1, FS_CardinalityType

LEMMA NoneType == ASSUME TypeOK PROVE NoProc \in Proc /\ NoConfig \in Confs
BY DEF TypeOK, NoProc, Proc, Confs

LEMMA RenderType == ASSUME TypeOK PROVE Render(latest, withdrawn) \in Config
BY BabelAssumption DEF TypeOK, Render, Config

LEMMA NamedType == ASSUME TypeOK, NEW p \in Pids PROVE Named(p) \in Proc
BY DEF TypeOK, Named, Proc, Processes

LEMMA PeerType == ASSUME TypeOK, NEW p \in Pids PROVE Peer(p) \in Proc
BY DEF TypeOK, Peer, Proc

\* The types by the group of variables an action leaves alone.
FixedType == static \subseteq Links /\ unit \in BOOLEAN /\ enabled \in BOOLEAN
LinkType ==
  /\ latest \in [Links -> {"off", "bare", "routed"}]
  /\ withdrawn \subseteq static /\ notify \subseteq Links
  /\ queue \in 0 .. Cardinality(static) + 1
  /\ changes \in 0 .. MaxChanges
RunType ==
  /\ pc \in Phases /\ conf \in Confs /\ previous \in Confs /\ file \in Confs
  /\ record \in Proc /\ cand \in Proc
ProcType == gens \in Nat /\ procs \in [Pids -> Processes]
StopType ==
  /\ stop \in {"no", "identify", "pin", "opened", "signal", "done"}
  /\ fd \in 0 .. gens /\ srec \in Proc /\ victims \subseteq 0 .. gens
SeenType == mistaken \subseteq 0 .. gens /\ overlooked \subseteq 0 .. gens
FaultType == faults \in 0 .. MaxFaults

LEMMA TypeParts ==
  TypeOK <=> FixedType /\ LinkType /\ RunType /\ ProcType /\ StopType /\ SeenType /\ FaultType
BY DEF TypeOK, FixedType, LinkType, RunType, ProcType, StopType, SeenType, FaultType,
       Proc, Confs

LEMMA TypePartsNext ==
  FixedType' /\ LinkType' /\ RunType' /\ ProcType' /\ StopType' /\ SeenType' /\ FaultType'
    => TypeOK'
BY DEF TypeOK, FixedType, LinkType, RunType, ProcType, StopType, SeenType, FaultType,
       Proc, Confs

LEMMA FixedStep == ASSUME TypeOK, [Next]_vars PROVE FixedType'
<1> USE DEF TypeOK, FixedType, fixed
<1>1. CASE Spawn
  BY <1>1 DEF Spawn
<1>2. CASE StopUnit
  BY <1>2 DEF StopUnit
<1>3. CASE UNCHANGED <<fixed, enabled>>
  BY <1>3
<1>4. CASE UNCHANGED vars
  BY <1>4 DEF vars
<1> QED
  BY <1>1, <1>2, <1>3, <1>4
  DEF Next, ManagerStep, StopStep, SetLinkState, Notify, Prepare, Check, Write, Ensure, Identify, Save,
      Record, Control, Reload, ReloadFails, TakeUpdate, Tick, Start, Exit, UnitStart, Listen,
      DaemonDies, Reuse, StopRead, StopIdentify, StopPin,
      StopVerify, StopSignal, StopFails

LEMMA LinkStep == ASSUME TypeOK, [Next]_vars PROVE LinkType'
<1> USE DEF TypeOK, LinkType
<1>0. Cardinality(static) \in Nat
  BY StaticFinite
<1>1. ASSUME NEW l \in Links, NEW v \in {"off", "bare", "routed"}, SetLinkState(l, v)
      PROVE  LinkType'
  BY <1>0, <1>1, BabelAssumption DEF SetLinkState, fixed
<1>2. ASSUME NEW l \in Links, Notify(l)
      PROVE  LinkType'
  BY <1>0, <1>2 DEF Notify, fixed
<1>3. CASE TakeUpdate
  BY <1>0, <1>3 DEF TakeUpdate, fixed
<1>4. CASE Exit
  BY <1>0, <1>4 DEF Exit, fixed
<1>5. CASE UNCHANGED <<fixed, linkVars>>
  BY <1>5 DEF fixed, linkVars
<1>6. CASE UNCHANGED vars
  BY <1>5, <1>6 DEF vars
<1> QED
  BY <1>1, <1>2, <1>3, <1>4, <1>5, <1>6
  DEF Next, ManagerStep, StopStep, Prepare, Check, Write, Ensure, Identify, Save, Spawn,
      Record, Control, Reload, ReloadFails, Tick, Start, UnitStart, Listen,
      DaemonDies, Reuse, StopUnit, StopRead, StopIdentify, StopPin,
      StopVerify, StopSignal, StopFails

LEMMA FaultStep == ASSUME TypeOK, [Next]_vars PROVE FaultType'
<1> USE DEF TypeOK, FaultType
<1>1. CASE Fault
  BY <1>1, BabelAssumption DEF Fault
<1>2. CASE UNCHANGED faults
  BY <1>2
<1>3. CASE UNCHANGED vars
  BY <1>3 DEF vars
<1> QED
  BY <1>1, <1>2, <1>3
  DEF Next, ManagerStep, StopStep, SetLinkState, Notify, Prepare, Check, Write, Ensure, Identify, Save,
      Spawn, Record, Control, Reload, ReloadFails, TakeUpdate, Tick, Start, Exit, UnitStart,
      Listen, DaemonDies, Reuse, StopUnit, StopRead, StopIdentify, StopPin,
      StopVerify, StopSignal, StopFails, StopEnds

-----------------------------------------------------------------------------
(***************************************************************************)
(* What a step does to the process table.                                  *)
(***************************************************************************)
\* A process of kind k with identifier p and start time gens + 1 starts.
Fresh(p, k) ==
  /\ procs[p].kind = "free" /\ gens' = gens + 1
  /\ \E a \in Confs :
       procs' = [procs EXCEPT ![p] = [kind |-> k, gen |-> gens + 1, active |-> a]]
\* Daemons reload, open the socket or lose it.
Moves ==
  /\ gens' = gens /\ procs' \in [Pids -> Processes]
  /\ \A p \in Pids :
       /\ procs'[p].gen = procs[p].gen
       /\ \/ procs'[p].kind = procs[p].kind
          \/ procs[p].kind = "starting" /\ procs'[p].kind = "ready" /\ Listen(p)
          \/ procs[p].kind = "ready" /\ procs'[p].kind = "deaf"
\* A daemon or another program starts.
Births(p) ==
  \/ Fresh(p, "starting") /\ (Spawn \/ UnitStart)
  \/ Fresh(p, "stranger")
\* Some processes end.
Ends(S) ==
  /\ gens' = gens
  /\ procs' = [p \in Pids |-> IF p \in S THEN Free ELSE procs[p]]

LEMMA ProcsMove ==
  ASSUME TypeOK, [Next]_vars
  PROVE  \/ UNCHANGED <<procs, gens>>
         \/ Moves \/ \E p \in Pids : Births(p)
         \/ \E S \in SUBSET Pids : Ends(S)
<1> DEFINE Goal == \/ UNCHANGED <<procs, gens>>
                   \/ Moves \/ \E p \in Pids : Births(p)
                   \/ \E S \in SUBSET Pids : Ends(S)
<1>1. ASSUME NEW p \in Pids, Launch(p) PROVE Fresh(p, "starting")
  BY <1>1 DEF Launch, Fresh, TypeOK, Confs
<1>0. procs \in [Pids -> Processes] /\ file \in Config \cup {NoConfig}
  BY DEF TypeOK
<1>2. ASSUME NEW p \in Answering, gens' = gens, procs' = [procs EXCEPT ![p].active = file]
      PROVE  Moves
  <2>1. \A q \in Pids : /\ procs'[q].gen = procs[q].gen /\ procs'[q].kind = procs[q].kind
                        /\ procs'[q] \in Processes
    BY <1>0, <1>2 DEF Processes
  <2> QED BY <1>0, <1>2, <2>1 DEF Moves
<1>3. ASSUME NEW p \in Pids, Listen(p) PROVE Moves \/ Ends({p})
  <2>0. procs[p].kind = "starting" /\ gens' = gens
    BY <1>3 DEF Listen
  <2>1. CASE procs' = [procs EXCEPT ![p] = Free]
    BY <1>0, <2>0, <2>1 DEF Ends
  <2>2. CASE procs' = [q \in Pids |-> IF q = p THEN [procs[q] EXCEPT !.kind = "ready"]
                                     ELSE IF q \in Answering THEN [procs[q] EXCEPT !.kind = "deaf"]
                                     ELSE procs[q]]
    <3>1. \A q \in Pids : procs'[q].gen = procs[q].gen /\ procs'[q] \in Processes
      BY <1>0, <2>2 DEF Processes
    <3>2. procs'[p].kind = "ready"
      BY <1>0, <2>2 DEF Processes
    <3>3. \A q \in Pids \ {p} :
            \/ procs'[q].kind = procs[q].kind
            \/ procs[q].kind = "ready" /\ procs'[q].kind = "deaf"
      BY <1>0, <2>2 DEF Processes, Answering
    <3>4. procs' \in [Pids -> Processes]
      BY <2>2, <3>1
    <3> QED BY <1>3, <2>0, <3>1, <3>2, <3>3, <3>4 DEF Moves
  <2> QED BY <1>3, <2>1, <2>2 DEF Listen
<1>4. ASSUME NEW p \in Pids, DaemonDies(p) PROVE Ends({p})
  BY <1>4 DEF DaemonDies, Ends, TypeOK
<1>5. ASSUME NEW p \in Pids, Reuse(p) PROVE Births(p)
  BY <1>5 DEF Reuse, Births, Fresh, Confs
<1>6. CASE StopUnit
  BY <1>6 DEF StopUnit, Ends, Babels
<1>7. CASE StopSignal
  <2>1. PICK obeying \in {{}, Answering} :
          procs' = [p \in Pids |-> IF p \in {q \in Pids : procs[q].gen = fd} \cup obeying
                                   THEN Free ELSE procs[p]]
    BY <1>7 DEF StopSignal
  <2>2. Ends({q \in Pids : procs[q].gen = fd} \cup obeying)
    BY <1>7, <2>1 DEF StopSignal, Ends
  <2> QED BY <2>1, <2>2 DEF Answering
<1>8. CASE Spawn
  BY <1>1, <1>8 DEF Spawn, Births
<1>9. CASE UnitStart
  BY <1>1, <1>9 DEF UnitStart, Births
<1>10. CASE Reload
  <2>1. PICK p \in Answering : procs' = [procs EXCEPT ![p].active = file]
    BY <1>10 DEF Reload
  <2>2. Moves
    BY <1>2, <1>10, <2>1 DEF Reload
  <2> QED BY <2>2 DEF Answering
<1>11. CASE ReloadFails
  <2>1. CASE UNCHANGED procs
    BY <1>11, <2>1 DEF ReloadFails
  <2>2. CASE ~UNCHANGED procs
    <3>1. PICK p \in Answering : procs' = [procs EXCEPT ![p].active = file]
      BY <1>11, <2>2 DEF ReloadFails
    <3>2. Moves
      BY <1>2, <1>11, <3>1 DEF ReloadFails
    <3> QED BY <3>2 DEF Answering
  <2> QED BY <2>1, <2>2
<1>12. CASE UNCHANGED <<procs, gens>>
  BY <1>12
<1>13. CASE UNCHANGED vars
  BY <1>13 DEF vars
<1>14. ASSUME NEW p \in Pids, Listen(p) \/ DaemonDies(p) \/ Reuse(p) PROVE Goal
  BY <1>3, <1>4, <1>5, <1>14
<1> HIDE DEF Goal
<1> QED
  <2>1. Goal
    BY <1>6, <1>7, <1>8, <1>9, <1>10, <1>11, <1>12, <1>13, <1>14
    DEF Next, ManagerStep, StopStep, SetLinkState, Notify, Prepare, Check, Write, Ensure, Identify, Save,
      Record, Control, TakeUpdate, Tick, Start, Exit, StopRead, StopIdentify, StopPin, StopVerify,
      StopFails, Goal
  <2> QED BY <2>1 DEF Goal

\* A free entry is Free, and start times lie in the past.
LEMMA ProcStep ==
  ASSUME TypeOK, [Next]_vars
  PROVE  ProcType' /\ gens' \in {gens, gens + 1} /\ gens \in Nat
<1>0. gens \in Nat /\ procs \in [Pids -> Processes]
  BY DEF TypeOK
<1>1. CASE UNCHANGED <<procs, gens>>
  BY <1>0, <1>1 DEF ProcType, Processes
<1>2. ASSUME NEW p \in Pids, Births(p) PROVE ProcType' /\ gens' \in {gens, gens + 1}
  BY <1>0, <1>2 DEF ProcType, Processes, Births, Fresh, Confs
<1>3. ASSUME Moves PROVE ProcType' /\ gens' \in {gens, gens + 1}
  BY <1>0, <1>3 DEF ProcType, Processes, Moves, Confs
<1>4. ASSUME NEW S \in SUBSET Pids, Ends(S) PROVE ProcType' /\ gens' \in {gens, gens + 1}
  <2>1. Free \in Processes
    BY <1>0 DEF Free, Processes
  <2> QED BY <1>0, <1>4, <2>1 DEF ProcType, Processes, Ends
<1> QED BY <1>0, <1>1, <1>2, <1>3, <1>4, ProcsMove

LEMMA RecordsKept ==
  ASSUME TypeOK, gens' \in {gens, gens + 1}
  PROVE  /\ \A r \in Proc : r \in Proc'
         /\ \A g \in 0 .. gens : g \in 0 .. gens'
         /\ \A p \in Pids : [pid |-> p, gen |-> gens'] \in Proc'
         /\ \A c \in Confs : c \in Confs'
BY DEF TypeOK, Proc, Confs, Config, NoConfig

LEMMA RunStep == ASSUME TypeOK, IdentifySound, [Next]_vars PROVE RunType'
<1>0. gens' \in {gens, gens + 1}
  BY ProcStep
<1>1. /\ RunType /\ NoConfig \in Confs /\ NoProc \in Proc
      /\ Render(latest, withdrawn) \in Confs
  BY TypeParts, NoneType, RenderType DEF Confs
<1>2. /\ \A r \in Proc : r \in Proc'
      /\ \A p \in Pids : [pid |-> p, gen |-> gens'] \in Proc'
      /\ \A c \in Confs : c \in Confs'
  BY <1>0, RecordsKept
<1>3. ASSUME NEW q \in Phases, Goto(q)
      PROVE  pc' \in Phases /\ conf' \in Confs' /\ previous' \in Confs' /\ cand' \in Proc'
  BY <1>1, <1>2, <1>3 DEF Goto, RunType
<1>4. CASE Prepare
  BY <1>1, <1>2, <1>4 DEF Prepare, RunType, Phases
<1>5. CASE Check \/ Control
  BY <1>1, <1>2, <1>3, <1>5 DEF Check, Control, Retry, RunType, Phases
<1>6. CASE Write
  BY <1>1, <1>2, <1>3, <1>6 DEF Write, Retry, RunType, Phases
<1>7. CASE Ensure
  BY <1>1, <1>2, <1>7, PeerType DEF Ensure, RunType, Phases, Answering
<1>17. CASE Identify
  <2>1. cand' \in Proc
    BY <1>17, NamedType DEF Identify, Identified, IdentifySound
  <2> QED BY <1>1, <1>2, <1>17, <2>1 DEF Identify, RunType, Phases
<1>8. CASE Save \/ Record
  BY <1>1, <1>2, <1>3, <1>8 DEF Save, Record, Retry, RunType, Phases
<1>9. CASE Spawn
  BY <1>1, <1>2, <1>3, <1>9 DEF Spawn, Launch, Retry, RunType, Phases
<1>10. CASE Reload \/ ReloadFails
  BY <1>1, <1>2, <1>3, <1>10 DEF Reload, ReloadFails, Retry, RunType, Phases
<1>11. CASE TakeUpdate \/ Tick \/ Start
  BY <1>1, <1>2, <1>11 DEF TakeUpdate, Tick, Start, RunType, Phases
<1>12. CASE Exit
  BY <1>1, <1>2, <1>12 DEF Exit, RunType, Phases
<1>13. CASE UnitStart
  BY <1>1, <1>2, <1>13 DEF UnitStart, Launch, runVars, RunType
<1>14. CASE StopStep
  BY <1>1, <1>2, <1>14
  DEF StopStep, StopUnit, StopRead, StopIdentify, StopPin, StopVerify, StopSignal, StopFails,
      StopEnds, runVars, RunType
<1>15. CASE UNCHANGED <<runVars, file, record>>
  BY <1>1, <1>2, <1>15 DEF runVars, RunType
<1>16. CASE UNCHANGED vars
  BY <1>15, <1>16 DEF vars
<1> QED
  BY <1>4, <1>5, <1>6, <1>7, <1>8, <1>9, <1>10, <1>11, <1>12, <1>13, <1>14, <1>15, <1>16, <1>17
  DEF Next, ManagerStep, SetLinkState, Notify, Listen, DaemonDies, Reuse

LEMMA StrangersType ==
  ASSUME TypeOK, NEW S \in SUBSET Pids PROVE Strangers(S) \subseteq 0 .. gens
BY DEF TypeOK, Strangers, Processes

LEMMA StopStepType == ASSUME TypeOK, IdentifySound, [Next]_vars PROVE StopType'
<1>0. gens' \in {gens, gens + 1}
  BY ProcStep
<1>1. StopType /\ RunType /\ NoProc \in Proc /\ gens \in Nat /\ 0 \in 0 .. gens
  BY TypeParts, NoneType DEF TypeOK
<1>2. /\ \A r \in Proc : r \in Proc'
      /\ \A g \in 0 .. gens : g \in 0 .. gens'
  BY <1>0, RecordsKept
<1>9. ASSUME StopEnds PROVE srec' \in Proc /\ fd' \in 0 .. gens /\ stop' \in {"no", "done"}
  BY <1>1, <1>9 DEF StopEnds
<1>3. CASE StopUnit
  BY <1>1, <1>2, <1>3, <1>9 DEF StopUnit, StopType
<1>4. CASE StopRead
  BY <1>1, <1>2, <1>4, PeerType DEF StopRead, StopType, RunType, Answering
<1>10. CASE StopIdentify
  <2>1. srec' \in Proc
    BY <1>10, NamedType DEF StopIdentify, Identified, IdentifySound
  <2> QED BY <1>1, <1>2, <1>10, <2>1 DEF StopIdentify, StopType
<1>11. CASE StopPin
  <2>1. fd' \in 0 .. gens
    BY <1>1, <1>11 DEF StopPin, StopType, TypeOK, Proc, Processes
  <2> QED BY <1>1, <1>2, <1>11, <2>1 DEF StopPin, StopType
<1>5. CASE StopVerify
  BY <1>1, <1>2, <1>5, <1>9 DEF StopVerify, StopType
<1>6. CASE StopSignal
  <2>1. victims' \subseteq 0 .. gens
    BY <1>1, <1>6, StrangersType DEF StopSignal, StopType
  <2> QED BY <1>1, <1>2, <1>6, <1>9, <2>1 DEF StopSignal, StopType
<1>12. CASE StopFails
  BY <1>1, <1>2, <1>12 DEF StopFails, StopType
<1>7. CASE UNCHANGED stopVars
  BY <1>1, <1>2, <1>7 DEF stopVars, StopType
<1>8. CASE UNCHANGED vars
  BY <1>7, <1>8 DEF vars
<1> QED
  BY <1>3, <1>4, <1>5, <1>6, <1>7, <1>8, <1>10, <1>11, <1>12
  DEF Next, ManagerStep, StopStep, SetLinkState, Notify, Prepare, Check, Write, Ensure, Identify,
      Save, Spawn, Record, Control, Reload, ReloadFails, TakeUpdate, Tick, Start, Exit, UnitStart,
      Listen, DaemonDies, Reuse

\* The histories only grow, and the plan is fixed.
LEMMA SeenGrows ==
  ASSUME [Next]_vars
  PROVE  /\ mistaken \subseteq mistaken' /\ overlooked \subseteq overlooked' /\ unit' = unit
         /\ ~(Identify \/ StopIdentify) => mistaken' = mistaken
         /\ ~(Ensure \/ StopRead) => overlooked' = overlooked
<1>1. CASE Ensure
  BY <1>1 DEF Ensure, Looks, fixed
<1>2. CASE Identify
  BY <1>2 DEF Identify, Reads, fixed
<1>3. CASE StopRead
  BY <1>3 DEF StopRead, Looks, fixed
<1>4. CASE StopIdentify
  BY <1>4 DEF StopIdentify, Reads, fixed
<1>5. CASE UNCHANGED <<seen, fixed>>
  BY <1>5 DEF seen, fixed
<1>6. CASE UNCHANGED vars
  BY <1>5, <1>6 DEF vars
<1> QED
  BY <1>1, <1>2, <1>3, <1>4, <1>5, <1>6
  DEF Next, ManagerStep, StopStep, SetLinkState, Notify, Prepare, Check, Write,
      Save, Spawn, Record, Control, Reload, ReloadFails, TakeUpdate, Tick, Start, Exit, UnitStart,
      Listen, DaemonDies, Reuse, StopUnit, StopPin, StopVerify, StopSignal, StopFails

LEMMA SeenStep == ASSUME TypeOK, IdentifySound, [Next]_vars PROVE SeenType'
<1>0. /\ SeenType /\ procs \in [Pids -> Processes] /\ gens \in Nat
      /\ \A g \in 0 .. gens : g \in 0 .. gens'
  BY TypeParts, ProcStep, RecordsKept DEF TypeOK
<1>1. overlooked' \subseteq 0 .. gens
  <2>1. CASE Looks
    BY <1>0, <2>1 DEF Looks, Babels, SeenType, Processes
  <2>2. CASE overlooked' = overlooked
    BY <1>0, <2>2 DEF SeenType
  <2> QED BY <2>1, <2>2, SeenGrows DEF Ensure, StopRead
<1>2. mistaken' \subseteq 0 .. gens
  <2>1. ASSUME NEW r, r.pid \in Pids, Reads(r) PROVE mistaken' \subseteq 0 .. gens
    <3>1. procs[r.pid].gen \in 0 .. gens
      BY <1>0, <2>1 DEF Processes
    <3>2. mistaken' \subseteq mistaken \cup {procs[r.pid].gen}
      BY <2>1 DEF Reads
    <3> QED BY <1>0, <3>1, <3>2 DEF SeenType
  <2>2. CASE mistaken' = mistaken
    BY <1>0, <2>2 DEF SeenType
  <2> QED BY <2>1, <2>2, SeenGrows DEF Identify, StopIdentify, IdentifySound
<1> QED BY <1>0, <1>1, <1>2 DEF SeenType

LEMMA NextType == ASSUME TypeOK, IdentifySound, [Next]_vars PROVE TypeOK'
BY FixedStep, LinkStep, FaultStep, ProcStep, RunStep, StopStepType, SeenStep, TypePartsNext

-----------------------------------------------------------------------------
(***************************************************************************)
(* Start times.                                                            *)
(***************************************************************************)
\* What becomes of a process: it stays what it is, but for the socket and the active
\* configuration, it ends, or it is new.
LEMMA Fate ==
  ASSUME TypeOK, [Next]_vars, NEW p \in Pids
  PROVE  \/ /\ procs'[p].gen = procs[p].gen
            /\ \/ procs'[p].kind = procs[p].kind
               \/ procs[p].kind = "starting" /\ procs'[p].kind = "ready" /\ Listen(p)
               \/ procs[p].kind = "ready" /\ procs'[p].kind = "deaf"
         \/ procs'[p].kind = "free" /\ procs'[p].gen = 0
         \/ /\ procs[p].kind = "free" /\ gens' = gens + 1 /\ procs'[p].gen = gens + 1
            /\ procs'[p].kind \in {"starting", "stranger"}
            /\ procs'[p].kind = "starting" => Spawn \/ UnitStart
            /\ \A q \in Pids \ {p} : procs'[q] = procs[q]
<1>0. procs \in [Pids -> Processes]
  BY DEF TypeOK
<1>1. CASE UNCHANGED <<procs, gens>>
  BY <1>1
<1>2. ASSUME NEW q \in Pids, Births(q) PROVE procs'[p] = procs[p] \/ p = q
  BY <1>0, <1>2 DEF Births, Fresh
<1>3. CASE Births(p)
  BY <1>0, <1>3 DEF Births, Fresh
<1>4. CASE Moves
  BY <1>4 DEF Moves
<1>5. ASSUME NEW S \in SUBSET Pids, Ends(S)
      PROVE  procs'[p] = procs[p] \/ (procs'[p].kind = "free" /\ procs'[p].gen = 0)
  BY <1>0, <1>5 DEF Ends, Free
<1> QED BY <1>1, <1>2, <1>3, <1>4, <1>5, ProcsMove

LEMMA GensNext == ASSUME TypeOK, GensUnique, [Next]_vars PROVE GensUnique'
<1>1. \A p \in Pids : procs[p].gen \in 0 .. gens /\ gens \in Nat
  BY DEF TypeOK, Processes
<1>2. ASSUME NEW p \in Pids PROVE procs'[p].kind = "free" <=> procs'[p].gen = 0
  BY <1>1, Fate DEF GensUnique
<1>3. ASSUME NEW p \in Pids, NEW q \in Pids,
             procs'[p].gen = procs'[q].gen, procs'[p].gen # 0
      PROVE  p = q
  BY <1>1, <1>3, Fate DEF GensUnique
<1> QED BY <1>2, <1>3 DEF GensUnique

LEMMA AnswersNext == ASSUME TypeOK, OneAnswers, [Next]_vars PROVE OneAnswers'
<1> SUFFICES ASSUME NEW p \in Pids, NEW q \in Pids,
                    procs'[p].kind = "ready", procs'[q].kind = "ready", p # q
             PROVE  FALSE
  BY DEF OneAnswers
<1>0. procs \in [Pids -> Processes]
  BY DEF TypeOK
<1>1. ASSUME NEW a \in Pids, NEW b \in Pids, a # b, procs'[a].kind = "ready",
             procs'[b].kind = "ready"
      PROVE  ~(Listen(a) /\ procs[a].kind = "starting")
  <2> SUFFICES ASSUME Listen(a), procs[a].kind = "starting" PROVE FALSE
    OBVIOUS
  <2>1. procs'[b] = IF b \in Answering THEN [procs[b] EXCEPT !.kind = "deaf"] ELSE procs[b]
    BY <1>0, <1>1 DEF Listen, Free
  <2> QED BY <1>0, <1>1, <2>1 DEF Answering, Processes
<1>2. procs[p].kind = "ready" /\ procs[q].kind = "ready"
  BY <1>1, Fate
<1> QED BY <1>2 DEF OneAnswers

LEMMA IdentifyNext == ASSUME IdentifySound, [Next]_vars PROVE IdentifySound'
<1>1. CASE Ensure
  BY <1>1 DEF Ensure, IdentifySound, Peer, Answering, stopVars
<1>2. CASE StopRead
  BY <1>2 DEF StopRead, IdentifySound, Peer, Answering, runVars
<1>3. ASSUME NEW q, Goto(q), q # "identify" PROVE pc' # "identify"
  BY <1>3 DEF Goto
<1>4. CASE StopIdentify \/ StopPin \/ StopVerify \/ StopSignal \/ StopFails \/ StopUnit
  BY <1>4
  DEF StopIdentify, StopPin, StopVerify, StopSignal, StopFails, StopUnit, StopEnds, runVars,
      IdentifySound
<1>5. CASE UNCHANGED <<runVars, stopVars>>
  BY <1>5 DEF runVars, stopVars, IdentifySound
<1>6. CASE pc' # "identify" /\ UNCHANGED stopVars
  BY <1>6 DEF IdentifySound, stopVars
<1>7. CASE Check \/ Write \/ Save \/ Record \/ Control \/ Reload \/ ReloadFails
  BY <1>3, <1>6, <1>7 DEF Check, Write, Save, Record, Control, Reload, ReloadFails, Retry
<1>8. CASE Spawn
  BY <1>3, <1>6, <1>8 DEF Spawn, Retry
<1>9. CASE Prepare \/ Identify \/ TakeUpdate \/ Tick \/ Start \/ Exit
  BY <1>6, <1>9 DEF Prepare, Identify, TakeUpdate, Tick, Start, Exit
<1>10. CASE UNCHANGED vars
  BY <1>5, <1>10 DEF vars
<1> QED
  BY <1>1, <1>2, <1>4, <1>5, <1>7, <1>8, <1>9, <1>10
  DEF Next, ManagerStep, StopStep, SetLinkState, Notify, UnitStart, Listen, DaemonDies, Reuse

\* The name r is not a stranger's, or it was read for the daemon's.
Sound(r) == \A p \in Pids : procs[p].kind = "stranger" /\ procs[p].gen = r.gen =>
                              procs[p].gen \in mistaken

LEMMA NameKept ==
  ASSUME TypeOK, [Next]_vars, NEW r \in Proc, Sound(r)
  PROVE  \A p \in Pids : procs'[p].kind = "stranger" /\ procs'[p].gen = r.gen =>
                           procs'[p].gen \in mistaken'
<1>1. r.gen \in 0 .. gens /\ gens \in Nat
  BY DEF TypeOK, Proc
<1> QED BY <1>1, Fate, SeenGrows DEF Sound

LEMMA IdentifiedSound ==
  ASSUME TypeOK, GensUnique, NEW r, r.pid \in Pids, Reads(r), procs' = procs
  PROVE  \A p \in Pids : procs'[p].kind = "stranger" /\ procs'[p].gen = Identified(r).gen =>
                           procs'[p].gen \in mistaken'
BY DEF Reads, Identified, Named, GensUnique

\* The records name a process known before, the pid at the socket, the process identified
\* or the one launched now.
LEMMA NamesFrom ==
  ASSUME [Next]_vars
  PROVE  LET Old == {record, cand, srec, NoProc} \cup {Peer(p) : p \in Pids} IN
         /\ srec' \in Old \/ (StopIdentify /\ srec' = Identified(srec))
         /\ \/ record' \in Old /\ cand' \in Old
            \/ Identify /\ record' = record /\ cand' = Identified(cand)
            \/ \E p \in Pids : /\ Launch(p)
                              /\ {record', cand'} \subseteq
                                    Old \cup {[pid |-> p, gen |-> gens + 1]}
<1> DEFINE Old == {record, cand, srec, NoProc} \cup {Peer(p) : p \in Pids}
<1>1. ASSUME NEW q, Goto(q) PROVE cand' \in Old
  BY <1>1 DEF Goto
<1>2. srec' \in Old \/ (StopIdentify /\ srec' = Identified(srec))
  <2>1. CASE StopRead
    BY <2>1 DEF StopRead, Answering
  <2>2. CASE StopIdentify
    BY <2>2 DEF StopIdentify
  <2> QED
    BY <2>1, <2>2
    DEF Next, vars, stopVars, ManagerStep, StopStep, SetLinkState, Notify, Prepare, Check, Write,
      Ensure, Identify, Save, Spawn, Record, Control, Reload, ReloadFails, TakeUpdate, Tick, Start,
      Exit, UnitStart, Listen, DaemonDies, Reuse, StopUnit, StopPin, StopVerify, StopSignal,
      StopFails, StopEnds
<1>3. CASE Spawn
  BY <1>1, <1>2, <1>3 DEF Spawn, Retry
<1>4. CASE UnitStart
  BY <1>2, <1>4 DEF UnitStart, runVars
<1>5. CASE Identify
  BY <1>2, <1>5 DEF Identify
<1>6. CASE ~Spawn /\ ~UnitStart /\ ~Identify
  <2>1. Ensure => record' \in Old /\ cand' \in Old
    BY DEF Ensure, Answering
  <2>2. record' \in Old /\ cand' \in Old
    BY <1>1, <1>6, <2>1
    DEF Next, vars, runVars, ManagerStep, StopStep, SetLinkState, Notify, Prepare, Check, Write,
      Save, Record, Control, Reload, ReloadFails, TakeUpdate, Tick, Start, Exit,
      Listen, DaemonDies, Reuse, StopUnit, StopRead, StopIdentify, StopPin, StopVerify, StopSignal,
      StopFails, StopEnds, Retry
  <2> QED BY <1>2, <2>2
<1> QED BY <1>3, <1>4, <1>5, <1>6

LEMMA LaunchedName ==
  ASSUME TypeOK, NEW p \in Pids, Launch(p)
  PROVE  \A q \in Pids : procs'[q].kind = "stranger" => procs'[q].gen # gens + 1
BY DEF TypeOK, Launch, Processes

LEMMA NamesNext ==
  ASSUME TypeOK, GensUnique, IdentifySound, NamesSound, [Next]_vars
  PROVE  NamesSound'
<1> DEFINE Old == {record, cand, srec, NoProc} \cup {Peer(p) : p \in Pids}
           Good(r) == \A p \in Pids : procs'[p].kind = "stranger" /\ procs'[p].gen = r.gen =>
                                        procs'[p].gen \in mistaken'
<1>1. ASSUME NEW r \in Old PROVE Good(r)
  <2>1. r \in Proc
    BY NoneType, PeerType DEF TypeOK, Proc
  <2>2. \A p \in Pids : procs[p].kind = "stranger" => procs[p].gen # 0
    BY DEF GensUnique
  <2>3. Sound(r)
    BY <2>2 DEF NamesSound, Sound, NoProc, Peer
  <2> QED BY <2>1, <2>3, NameKept
<1>2. Good(srec')
  <2>1. CASE StopIdentify /\ srec' = Identified(srec)
    BY <2>1, IdentifiedSound DEF StopIdentify, IdentifySound
  <2>2. CASE srec' \in Old
    BY <1>1, <2>2
  <2> QED BY <2>1, <2>2, NamesFrom
<1>3. Good(record') /\ Good(cand')
  <2>1. CASE record' \in Old /\ cand' \in Old
    BY <1>1, <2>1
  <2>2. CASE Identify /\ record' = record /\ cand' = Identified(cand)
    <3>1. Good(cand')
      BY <2>2, IdentifiedSound DEF Identify, IdentifySound
    <3>2. Good(record)
      BY <1>1
    <3> QED BY <2>2, <3>1, <3>2
  <2>3. ASSUME NEW q \in Pids, Launch(q),
               {record', cand'} \subseteq Old \cup {[pid |-> q, gen |-> gens + 1]}
        PROVE  Good(record') /\ Good(cand')
    <3>1. Good([pid |-> q, gen |-> gens + 1])
      BY <2>3, LaunchedName
    <3> HIDE DEF Good, Old
    <3> QED BY <1>1, <2>3, <3>1
  <2> QED BY <2>1, <2>2, <2>3, NamesFrom
<1> QED BY <1>2, <1>3 DEF NamesSound

-----------------------------------------------------------------------------
(***************************************************************************)
(* One daemon.                                                             *)
(***************************************************************************)
\* A daemon that counts after a step counted before it, or it is the first.
LEMMA CountsFrom ==
  ASSUME TypeOK, SpawnSound, [Next]_vars, NEW p \in Pids, Counts(p)'
  PROVE  \/ Counts(p) /\ Named(p)' = Named(p)
         \/ /\ \A q \in Pids : ~Counts(q)
            /\ \A q \in Pids \ {p} : procs'[q] = procs[q]
            /\ procs'[p].gen = gens + 1
            /\ (~unit /\ pc = "spawn" /\ Spawn) \/ (unit /\ enabled /\ UnitStart)
<1>0. overlooked \subseteq overlooked'
  BY SeenGrows
<1>1. CASE procs'[p].gen = procs[p].gen /\ IsBabel(p)
  BY <1>0, <1>1 DEF Named, Counts
<1>2. CASE /\ procs'[p].kind = "starting" /\ (Spawn \/ UnitStart)
           /\ procs[p].kind = "free" /\ procs'[p].gen = gens + 1 /\ gens' = gens + 1
           /\ \A q \in Pids \ {p} : procs'[q] = procs[q]
  <2>0. gens \in Nat /\ procs \in [Pids -> Processes] /\ unit \in BOOLEAN
    BY DEF TypeOK
  <2>1. CASE UnitStart
    BY <1>2, <2>1 DEF UnitStart, Babels, IsBabel, Counts
  <2>2. CASE Spawn
    <3>1. gens' # gens
      BY <1>2, <2>0
    <3>2. ~unit /\ pc = "spawn"
      BY <2>2, <3>1 DEF Spawn
    <3> QED BY <1>2, <2>2, <3>2 DEF SpawnSound
  <2> QED BY <1>2, <2>1, <2>2
<1> QED BY <1>1, <1>2, Fate DEF IsBabel, Counts

LEMMA OneNext == ASSUME TypeOK, SpawnSound, AtMostOne, [Next]_vars PROVE AtMostOne'
<1> SUFFICES ASSUME NEW p \in Pids, NEW q \in Pids, Counts(p)', Counts(q)' PROVE p = q
  BY DEF AtMostOne
<1>1. overlooked \subseteq overlooked'
  BY SeenGrows
<1> QED BY <1>1, CountsFrom DEF AtMostOne, Counts, IsBabel

\* A process that answers to a name answered to it before, unless it was launched now.
LEMMA AliveFrom ==
  ASSUME TypeOK, GensUnique, [Next]_vars, NEW r \in Proc, NEW p \in Pids,
         Named(p)' = r, procs'[p].kind # "free"
  PROVE  Alive(r)
<1>1. r.gen \in 0 .. gens /\ gens \in Nat
  BY DEF TypeOK, Proc
<1> QED BY <1>1, Fate DEF Alive, Named, GensUnique

\* Who counts after a look at the socket is what answers there.
LEMMA LookCounts ==
  ASSUME TypeOK, OneAnswers, ~unit, Looks, procs' = procs, NEW p \in Pids, Counts(p)'
  PROVE  p \in Answering /\ \A q \in Answering : q = p
<1>1. p \in Babels /\ procs[p].gen \notin overlooked'
  BY DEF Counts, IsBabel, Babels
<1>2. p \in Answering
  BY <1>1 DEF Looks
<1> QED BY <1>2 DEF OneAnswers, Answering

\* Run's program counter moves only in its own actions, which leave StopInstance alone.
LEMMA PhaseFrom ==
  ASSUME [Next]_vars
  PROVE  /\ pc' = "identify" => Ensure \/ UNCHANGED runVars
         /\ pc' = "save" => Ensure \/ Identify \/ UNCHANGED runVars
         /\ pc' = "spawn" => Save \/ UNCHANGED runVars
         /\ pc' = "record" => Spawn \/ UNCHANGED runVars
         /\ pc' = "select" => Control \/ Reload \/ UNCHANGED runVars
<1>1. CASE Ensure \/ Identify \/ Save \/ Control \/ Reload
  BY <1>1 DEF Ensure, Identify, Save, Control, Reload, Goto, Retry
<1>2. CASE Prepare \/ Check \/ Write \/ Record \/ ReloadFails
  BY <1>2 DEF Prepare, Check, Write, Record, ReloadFails, Goto, Retry
<1>3. CASE Spawn
  BY <1>3 DEF Spawn, Goto, Retry
<1>4. CASE TakeUpdate \/ Tick \/ Start \/ Exit
  BY <1>4 DEF TakeUpdate, Tick, Start, Exit
<1>5. CASE UNCHANGED runVars
  BY <1>5
<1>6. CASE UNCHANGED vars
  BY <1>6 DEF vars
<1> QED
  BY <1>1, <1>2, <1>3, <1>4, <1>5, <1>6
  DEF Next, ManagerStep, StopStep, SetLinkState, Notify, UnitStart, Listen, DaemonDies, Reuse,
      StopUnit, StopRead, StopIdentify, StopPin, StopVerify, StopSignal, StopFails

\* ensureService and StopInstance write the record; a detached daemon does not.
LEMMA RecordFrom ==
  ASSUME [Next]_vars
  PROVE  \/ record' = record
         \/ record' = NoProc /\ (StopUnit \/ StopVerify \/ StopSignal)
         \/ record' = cand /\ (Save \/ Record)
         \/ UnitStart
BY DEF Next, vars, ManagerStep, StopStep, SetLinkState, Notify, Prepare, Check, Write, Ensure,
      Identify, Save, Spawn, Record, Control, Reload, ReloadFails, TakeUpdate, Tick, Start, Exit,
      Listen, DaemonDies, Reuse, StopUnit, StopRead, StopIdentify, StopPin, StopVerify, StopSignal,
      StopFails, StopEnds

\* What ensureService has in hand.
InHand(p) ==
  /\ pc = "identify" => cand.pid = p
  /\ pc \in {"save", "record"} => cand = Named(p)
  /\ pc # "spawn"

LEMMA InHandNext ==
  ASSUME TypeOK, OneAnswers, SpawnSound, [Next]_vars, ~unit, NEW p \in Pids, Counts(p)'
  PROVE  InHand(p)'
<1>0. gens \in Nat /\ unit \in BOOLEAN /\ procs \in [Pids -> Processes]
  BY DEF TypeOK
<1>1. CASE UNCHANGED runVars
  <2>1. ~Spawn
    BY <1>1 DEF Spawn, runVars, Goto, Retry
  <2>2. Counts(p) /\ Named(p)' = Named(p)
    BY <2>1, CountsFrom
  <2> QED BY <1>1, <2>2 DEF SpawnSound, InHand, runVars
<1>2. CASE Ensure
  <2>1. procs' = procs /\ pc' \in {"save", "identify"}
    BY <1>2 DEF Ensure
  <2>2. CASE Alive(record) /\ cand' = record /\ pc' = "save" /\ UNCHANGED overlooked
    <3>1. Counts(p) /\ Named(p)' = Named(p)
      BY <2>1, <2>2 DEF Counts, IsBabel, Named
    <3> QED BY <2>2, <3>1 DEF SpawnSound, InHand
  <2>3. CASE Looks /\ Answering = {}
    BY <2>1, <2>3, LookCounts
  <2>4. CASE Looks /\ pc' = "identify" /\ \E q \in Answering : cand' = Peer(q)
    <3>1. PICK q \in Answering : cand' = Peer(q)
      BY <2>4
    <3>2. q = p
      BY <2>1, <2>4, LookCounts
    <3> QED BY <2>4, <3>1, <3>2 DEF InHand, Peer
  <2> QED BY <1>2, <2>2, <2>3, <2>4 DEF Ensure
<1>3. CASE Identify
  <2>1. procs' = procs /\ overlooked' = overlooked /\ pc' = "save" /\ cand' = Named(cand.pid)
    BY <1>3 DEF Identify, Identified
  <2>2. Counts(p) /\ Named(p)' = Named(p)
    BY <2>1 DEF Counts, IsBabel, Named
  <2>3. cand.pid = p
    BY <1>3, <2>2 DEF Identify, SpawnSound
  <2> QED BY <2>1, <2>2, <2>3 DEF InHand
<1>4. CASE Save
  <2>1. procs' = procs /\ overlooked' = overlooked /\ pc = "save" /\ pc' \notin {"save", "record", "identify"}
    BY <1>4 DEF Save, Goto, Retry, seen
  <2>2. Counts(p)
    BY <2>1 DEF Counts, IsBabel
  <2>3. cand = Named(p)
    BY <2>1, <2>2 DEF SpawnSound
  <2>4. Alive(cand)
    BY <2>2, <2>3 DEF Alive, Counts, IsBabel
  <2>5. pc' # "spawn"
    BY <1>4, <2>4 DEF Save, Goto, Retry
  <2> QED BY <2>1, <2>5 DEF InHand
<1>5. CASE Spawn
  <2>1. pc = "spawn" /\ pc' \notin {"spawn", "save", "identify"}
    BY <1>5 DEF Spawn, Goto, Retry
  <2>2. ~Counts(p)
    BY <2>1 DEF SpawnSound
  <2>3. procs'[p].gen = gens + 1
    BY <2>2, CountsFrom
  <2>4. procs' # procs
    BY <1>0, <2>3 DEF Processes
  <2>5. PICK q \in Pids : Launch(q) /\ cand' = [pid |-> q, gen |-> gens + 1]
    BY <1>5, <2>4 DEF Spawn
  <2>6. q = p
    BY <1>0, <2>3, <2>5 DEF Launch, Processes
  <2> QED BY <2>1, <2>3, <2>5, <2>6 DEF InHand, Named
<1> QED BY <1>1, <1>2, <1>3, <1>4, <1>5, PhaseFrom DEF InHand

LEMMA NoneAlive == ASSUME NEW p \in Pids PROVE Named(p)' # NoProc /\ Named(p) # NoProc
BY BabelAssumption DEF Named, NoProc

\* The record is alive only if it was, or if ensureService saves a process that is.
LEMMA RecordAlive ==
  ASSUME TypeOK, GensUnique, [Next]_vars, ~unit, Alive(record)'
  PROVE  \/ Alive(record) /\ record' = record
         \/ Alive(cand) /\ record' = cand /\ (Save \/ Record)
<1>1. PICK p \in Pids : Named(p)' = record' /\ procs'[p].kind # "free"
  BY DEF Alive
<1>2. record \in Proc /\ cand \in Proc /\ unit \in BOOLEAN
  BY DEF TypeOK, Proc
<1>3. ~UnitStart
  BY DEF UnitStart
<1> QED BY <1>1, <1>2, <1>3, AliveFrom, NoneAlive, RecordFrom

LEMMA SpawnNext ==
  ASSUME TypeOK, GensUnique, OneAnswers, AtMostOne, SpawnSound, [Next]_vars
  PROVE  SpawnSound'
<1> SUFFICES ASSUME ~unit'
             PROVE  /\ pc' = "identify" => \A p \in Pids : Counts(p)' => cand'.pid = p
                    /\ pc' \in {"save", "record"} => \A p \in Pids : Counts(p)' => cand' = Named(p)'
                    /\ pc' = "spawn" => \A p \in Pids : ~Counts(p)'
                    /\ pc' \in {"spawn", "record"} => ~Alive(record)'
                    /\ Alive(record)' => \A p \in Pids : Counts(p)' => record' = Named(p)'
  BY DEF SpawnSound
<1>0. ~unit
  BY SeenGrows
<1>1. \A p \in Pids : Counts(p)' => InHand(p)'
  BY <1>0, InHandNext
<1>2. ASSUME pc' \in {"spawn", "record"}, Alive(record)' PROVE FALSE
  <2>1. CASE UNCHANGED runVars
    <3>1. ~Save /\ ~Record
      BY <2>1 DEF Save, Record, Goto, Retry, runVars
    <3>2. pc \in {"spawn", "record"}
      BY <1>2, <2>1 DEF runVars
    <3> QED BY <1>0, <1>2, <3>1, <3>2, RecordAlive DEF SpawnSound
  <2>2. CASE Save
    <3>1. pc' = "spawn" /\ ~Alive(cand) /\ record' = cand /\ procs' = procs
      BY <1>2, <2>2 DEF Save, Goto, Retry
    <3> QED BY <1>2, <3>1 DEF Alive, Named
  <2>3. CASE Spawn
    <3>1. pc = "spawn" /\ ~Save /\ ~Record
      BY <2>3 DEF Spawn, Save, Record
    <3> QED BY <1>0, <1>2, <3>1, RecordAlive DEF SpawnSound
  <2> QED BY <1>2, <2>1, <2>2, <2>3, PhaseFrom
<1>3. ASSUME Alive(record)', NEW p \in Pids, Counts(p)' PROVE record' = Named(p)'
  <2>1. CASE Alive(record) /\ record' = record
    <3>1. pc # "spawn"
      BY <1>0, <2>1 DEF SpawnSound
    <3>2. Counts(p) /\ Named(p)' = Named(p)
      BY <1>0, <1>3, <3>1, CountsFrom
    <3> QED BY <1>0, <2>1, <3>2 DEF SpawnSound
  <2>2. CASE record' = cand /\ (Save \/ Record)
    <3>1. pc \in {"save", "record"} /\ procs' = procs /\ overlooked' = overlooked
      BY <2>2 DEF Save, Record, seen
    <3>2. Counts(p) /\ Named(p)' = Named(p)
      BY <1>3, <3>1 DEF Counts, IsBabel, Named
    <3> QED BY <1>0, <2>2, <3>1, <3>2 DEF SpawnSound
  <2> QED BY <1>0, <1>3, <2>1, <2>2, RecordAlive
<1> QED BY <1>1, <1>2, <1>3 DEF InHand

-----------------------------------------------------------------------------
(***************************************************************************)
(* StopInstance.                                                           *)
(***************************************************************************)
\* The steps of everyone but StopInstance.
LEMMA StopKept ==
  ASSUME TypeOK, GensUnique, SpawnSound, StopSound, [Next]_vars, UNCHANGED stopVars, ~StopStep
  PROVE  StopSound'
<1>0. /\ unit' = unit /\ unit \in BOOLEAN /\ UNCHANGED <<stop, srec, fd, victims>> /\ srec \in Proc
      /\ victims \subseteq mistaken' /\ srec' \in Proc
  BY SeenGrows DEF stopVars, TypeOK, Proc, StopSound
<1>1. CASE stop = "no"
  BY <1>0, <1>1 DEF StopSound
<1>2. CASE stop # "no"
  <2>1. pc = "dead"
    BY <1>2 DEF StopSound
  <2>2. pc' = "dead" /\ enabled' = enabled
    BY <1>2, <2>1
    DEF Next, vars, runVars, ManagerStep, SetLinkState, Notify, Prepare, Check, Write, Ensure,
      Identify, Save, Spawn, Record, Control, Reload, ReloadFails, TakeUpdate, Tick, Start, Exit,
      UnitStart, Listen, DaemonDies, Reuse
  <2>3. ~(unit /\ enabled)
    BY <1>2 DEF StopSound
  <2>4. ASSUME NEW p \in Pids, Counts(p)' PROVE Counts(p) /\ Named(p)' = Named(p)
    BY <2>1, <2>3, <2>4, CountsFrom
  <2>5. /\ stop = "identify" => \A p \in Pids : Counts(p)' => srec.pid = p
        /\ stop \in {"pin", "opened", "signal"} => \A p \in Pids : Counts(p)' => srec = Named(p)'
        /\ stop = "done" => \A p \in Pids : ~Counts(p)'
    BY <2>4 DEF StopSound
  <2>6. stop = "opened" /\ Alive(srec)' => fd = srec.gen
    <3> SUFFICES ASSUME stop = "opened", Alive(srec)' PROVE fd = srec.gen
      OBVIOUS
    <3>1. PICK p \in Pids : Named(p)' = srec /\ procs'[p].kind # "free"
      BY <1>0 DEF Alive
    <3> QED BY <1>0, <3>1, AliveFrom DEF StopSound
  <2> QED BY <1>0, <2>2, <2>5, <2>6 DEF StopSound
<1> QED BY <1>1, <1>2

\* StopInstance is over when nothing counts any more.
LEMMA StopEndsSound ==
  ASSUME TypeOK, StopSound, [Next]_vars, StopEnds, pc = "dead", pc' = "dead", unit => ~enabled',
         victims' \subseteq mistaken', \A p \in Pids : ~Counts(p)'
  PROVE  StopSound'
BY SeenGrows DEF StopEnds, StopSound

LEMMA StopUnitSound == ASSUME TypeOK, StopSound, [Next]_vars, StopUnit PROVE StopSound'
<1>1. \A p \in Pids : ~Counts(p)'
  BY DEF StopUnit, IsBabel, Counts, Babels, Free
<1>2. /\ pc = "dead" /\ pc' = "dead" /\ ~enabled' /\ StopEnds
      /\ victims' \subseteq mistaken'
  BY DEF StopUnit, runVars, seen, StopSound
<1> QED BY <1>1, <1>2, StopEndsSound

\* What StopInstance chooses is the daemon, if one counts.
LEMMA StopReadSound ==
  ASSUME TypeOK, OneAnswers, SpawnSound, StopSound, StopRead
  PROVE  StopSound'
<1>0. /\ UNCHANGED <<procs, unit, pc, victims, mistaken>> /\ pc = "dead" /\ ~unit
      /\ stop' \in {"identify", "pin"} /\ unit \in BOOLEAN /\ victims \subseteq mistaken
  BY DEF StopRead, fixed, runVars, TypeOK, StopSound
<1>1. ASSUME NEW p \in Pids, Counts(p)'
      PROVE  /\ stop' = "identify" => srec'.pid = p
             /\ stop' = "pin" => srec' = Named(p)'
  <2>1. CASE Alive(record) /\ srec' = record /\ stop' = "pin" /\ UNCHANGED overlooked
    <3>1. Counts(p) /\ Named(p)' = Named(p)
      BY <1>0, <1>1, <2>1 DEF Counts, IsBabel, Named
    <3> QED BY <1>0, <2>1, <3>1 DEF SpawnSound
  <2>2. CASE Looks /\ Answering = {}
    BY <1>0, <1>1, <2>2, LookCounts
  <2>3. CASE Looks /\ stop' = "identify" /\ \E q \in Answering : srec' = Peer(q)
    <3>1. PICK q \in Answering : srec' = Peer(q)
      BY <2>3
    <3>2. q = p
      BY <1>0, <1>1, <2>3, LookCounts
    <3> QED BY <2>3, <3>1, <3>2 DEF Peer
  <2> QED BY <2>1, <2>2, <2>3 DEF StopRead
<1> QED BY <1>0, <1>1 DEF StopSound

LEMMA StopIdentifySound == ASSUME TypeOK, StopSound, StopIdentify PROVE StopSound'
<1>0. /\ UNCHANGED <<procs, unit, enabled, pc, victims, overlooked>> /\ stop = "identify"
      /\ stop' = "pin" /\ srec' = Named(srec.pid) /\ mistaken \subseteq mistaken'
  BY DEF StopIdentify, fixed, runVars, Identified, Reads
<1>1. ASSUME NEW p \in Pids, Counts(p)' PROVE srec' = Named(p)'
  <2>1. Counts(p) /\ Named(p)' = Named(p)
    BY <1>0, <1>1 DEF Counts, IsBabel, Named
  <2> QED BY <1>0, <2>1 DEF StopSound
<1> QED BY <1>0, <1>1 DEF StopSound

LEMMA StopPinSound == ASSUME TypeOK, StopSound, StopPin PROVE StopSound'
<1>0. /\ UNCHANGED <<procs, unit, enabled, pc, victims, overlooked, mistaken, srec>>
      /\ stop = "pin" /\ stop' = "opened" /\ fd' = IF srec.pid = 0 THEN 0 ELSE procs[srec.pid].gen
  BY DEF StopPin, fixed, runVars, seen
<1>1. \A p \in Pids : Counts(p)' => srec' = Named(p)'
  BY <1>0 DEF StopSound, Counts, IsBabel, Named
<1>2. ASSUME Alive(srec)' PROVE fd' = srec'.gen
  <2>1. PICK p \in Pids : Named(p) = srec
    BY <1>0, <1>2 DEF Alive, Named
  <2> QED BY <1>0, <2>1, BabelAssumption DEF Named
<1> QED BY <1>0, <1>1, <1>2 DEF StopSound

LEMMA StopVerifySound == ASSUME TypeOK, StopSound, [Next]_vars, StopVerify PROVE StopSound'
<1>0. /\ UNCHANGED <<procs, unit, enabled, pc, victims, overlooked, mistaken>> /\ stop = "opened"
      /\ pc = "dead" /\ ~unit /\ unit \in BOOLEAN /\ victims \subseteq mistaken
  BY DEF StopVerify, fixed, runVars, seen, TypeOK, StopSound
<1>1. \A p \in Pids : Counts(p)' => Counts(p) /\ Named(p)' = Named(p) /\ srec = Named(p)
  BY <1>0 DEF StopSound, Counts, IsBabel, Named
<1>2. CASE fd # 0 /\ Alive(srec) /\ stop' = "signal" /\ UNCHANGED <<srec, fd>>
  BY <1>0, <1>1, <1>2 DEF StopSound
<1>3. CASE ~Alive(srec) /\ StopEnds
  <2>1. \A p \in Pids : ~Counts(p)'
    BY <1>1, <1>3 DEF Alive, Counts, IsBabel
  <2> QED BY <1>0, <1>3, <2>1, StopEndsSound
<1> QED BY <1>2, <1>3 DEF StopVerify

LEMMA StopSignalSound ==
  ASSUME TypeOK, GensUnique, NamesSound, StopSound, [Next]_vars, StopSignal
  PROVE  StopSound'
<1>0. /\ UNCHANGED <<unit, enabled, pc, overlooked, mistaken>> /\ stop = "signal" /\ pc = "dead"
      /\ ~unit /\ unit \in BOOLEAN /\ fd = srec.gen /\ StopEnds /\ victims \subseteq mistaken
  BY DEF StopSignal, fixed, runVars, seen, TypeOK, StopSound
<1>1. PICK obeying \in {{}, Answering} :
        procs' = [p \in Pids |-> IF p \in {q \in Pids : procs[q].gen = fd} \cup obeying
                                 THEN Free ELSE procs[p]]
  BY DEF StopSignal
<1>2. ASSUME NEW p \in Pids, Counts(p)' PROVE FALSE
  <2>1. procs'[p] = procs[p] /\ procs[p].gen # fd
    BY <1>1, <1>2 DEF Counts, IsBabel, Free
  <2>2. Counts(p)
    BY <1>0, <1>2, <2>1 DEF Counts, IsBabel
  <2> QED BY <1>0, <2>1, <2>2 DEF StopSound, Named
<1>3. victims' \subseteq mistaken'
  <2>1. \A p \in Pids : procs[p].gen = fd /\ procs[p].kind = "stranger" => procs[p].gen \in mistaken
    BY <1>0 DEF NamesSound
  <2> QED BY <1>0, <2>1 DEF StopSignal, Strangers
<1> QED BY <1>0, <1>2, <1>3, StopEndsSound

LEMMA StopFailsSound == ASSUME StopSound, StopFails PROVE StopSound'
BY DEF StopSound, StopFails, fixed, runVars, seen

LEMMA StopNext ==
  ASSUME TypeOK, GensUnique, OneAnswers, NamesSound, SpawnSound, StopSound, [Next]_vars
  PROVE  StopSound'
<1>1. CASE StopStep
  BY <1>1, StopUnitSound, StopReadSound, StopIdentifySound, StopPinSound, StopVerifySound,
     StopSignalSound, StopFailsSound DEF StopStep
<1>2. CASE UNCHANGED stopVars /\ ~StopStep
  BY <1>2, StopKept
<1>3. CASE UNCHANGED vars
  BY <1>1, <1>2, <1>3 DEF vars
<1> QED
  BY <1>1, <1>2, <1>3
  DEF Next, ManagerStep, SetLinkState, Notify, Prepare, Check, Write, Ensure, Identify, Save,
      Spawn, Record, Control, Reload, ReloadFails, TakeUpdate, Tick, Start, Exit, UnitStart,
      Listen, DaemonDies, Reuse

-----------------------------------------------------------------------------
(***************************************************************************)
(* Run.                                                                    *)
(***************************************************************************)
UpToDate == conf = Render(latest, withdrawn) \/ queue > 0 \/ notify # {}

LEMMA UpToDateNext ==
  ASSUME TypeOK, [Next]_vars, pc \in Rendered => UpToDate
  PROVE  pc' \in Rendered => UpToDate'
<1> SUFFICES ASSUME pc' \in Rendered PROVE UpToDate'
  OBVIOUS
<1>0. Cardinality(static) \in Nat /\ queue \in Nat
  BY StaticFinite DEF TypeOK
<1>1. ASSUME NEW l \in Links, NEW v, SetLinkState(l, v) PROVE UpToDate'
  BY <1>1 DEF SetLinkState, UpToDate
<1>2. ASSUME NEW l \in Links, Notify(l) PROVE UpToDate'
  BY <1>0, <1>2 DEF Notify, UpToDate
<1>3. CASE Prepare
  BY <1>3 DEF Prepare, UpToDate, Render, fixed, linkVars
<1>4. CASE Exit \/ Start \/ Tick \/ TakeUpdate
  BY <1>4 DEF Exit, Start, Tick, TakeUpdate, Rendered
<1>5. CASE UNCHANGED <<fixed, linkVars, conf>> /\ pc \in Rendered
  BY <1>5 DEF fixed, linkVars, UpToDate, Render
<1>6. CASE Check \/ Write \/ Ensure \/ Identify \/ Save \/ Spawn \/ Record \/ Control
           \/ Reload \/ ReloadFails
  <2>1. pc \in Rendered /\ UNCHANGED <<fixed, linkVars>>
    BY <1>6 DEF Rendered, Check, Write, Ensure, Identify, Save, Spawn, Record, Control, Reload, ReloadFails
  <2>2. conf' = conf
    BY <1>6
    DEF Rendered, Check, Write, Ensure, Identify, Save, Spawn, Record, Control, Reload, ReloadFails,
        Goto, Retry
  <2> QED BY <1>5, <2>1, <2>2
<1>7. CASE UNCHANGED <<fixed, linkVars, runVars>>
  BY <1>5, <1>7 DEF runVars
<1>8. CASE UNCHANGED vars
  BY <1>7, <1>8 DEF vars
<1> QED
  BY <1>1, <1>2, <1>3, <1>4, <1>6, <1>7, <1>8
  DEF Next, ManagerStep, StopStep, UnitStart, Listen, DaemonDies, Reuse, StopUnit, StopRead, StopIdentify, StopPin,
      StopVerify, StopSignal, StopFails

LEMMA FileNext ==
  ASSUME [Next]_vars, pc \in Written => file = conf
  PROVE  pc' \in Written => file' = conf'
<1> USE DEF Written, Rendered
<1>1. CASE Prepare \/ Check \/ Write
  BY <1>1 DEF Prepare, Check, Write, Goto, Retry
<1>2. CASE Ensure \/ Identify \/ Save \/ Record \/ Control \/ Reload \/ ReloadFails
  BY <1>2 DEF Ensure, Identify, Save, Record, Control, Reload, ReloadFails, Goto, Retry
<1>3. CASE Spawn
  BY <1>3 DEF Spawn, Goto, Retry
<1>4. CASE Exit \/ Start \/ Tick \/ TakeUpdate
  BY <1>4 DEF Exit, Start, Tick, TakeUpdate
<1>5. CASE UNCHANGED <<runVars, file>>
  BY <1>5 DEF runVars
<1>6. CASE UNCHANGED vars
  BY <1>5, <1>6 DEF vars
<1> QED
  BY <1>1, <1>2, <1>3, <1>4, <1>5, <1>6
  DEF Next, ManagerStep, StopStep, SetLinkState, Notify, UnitStart, Listen, DaemonDies, Reuse,
      StopUnit, StopRead, StopIdentify, StopPin,
      StopVerify, StopSignal, StopFails

LEMMA ActiveNext ==
  ASSUME TypeOK, AtMostOne, RunSound, [Next]_vars, pc' = "select", overlooked' = {}
  PROVE  \A p \in Pids : IsBabel(p)' => procs'[p].active = conf'
<1>0. procs \in [Pids -> Processes] /\ (pc \in Written => file = conf)
  BY DEF TypeOK, RunSound
<1>4. overlooked = {} /\ \A p, q \in Pids : IsBabel(p) /\ IsBabel(q) => p = q
  BY SeenGrows DEF AtMostOne, Counts
<1>1. CASE Control
  <2>1. PICK p \in Answering : Goto(IF procs[p].active = conf THEN "select" ELSE "reload")
    BY <1>1 DEF Control, Goto, Retry
  <2>2. procs[p].active = conf /\ conf' = conf /\ procs' = procs
    BY <1>1, <2>1 DEF Control, Goto
  <2> QED BY <1>4, <2>2 DEF Answering, IsBabel
<1>2. CASE Reload
  <2>1. PICK p \in Answering : procs' = [procs EXCEPT ![p].active = file]
    BY <1>2 DEF Reload
  <2>2. conf' = conf /\ file = conf
    BY <1>0, <1>2 DEF Reload, Goto, Written, Rendered
  <2>3. p \in Pids /\ IsBabel(p)
    BY DEF Answering, IsBabel
  <2>4. \A q \in Pids : IsBabel(q)' => IsBabel(q)
    BY <1>0, <2>1 DEF IsBabel, Processes
  <2>5. \A q \in Pids : IsBabel(q)' => q = p
    BY <1>4, <2>3, <2>4
  <2>6. procs'[p].active = file
    BY <1>0, <2>1, <2>3 DEF Processes
  <2> QED BY <2>2, <2>5, <2>6
<1>3. CASE UNCHANGED runVars
  <2>1. pc = "select" /\ conf' = conf /\ file = conf
    BY <1>0, <1>3 DEF runVars, Written, Rendered
  <2>2. \A p \in Pids : IsBabel(p) => procs[p].active = conf
    BY <1>4, <2>1 DEF RunSound
  <2>3. CASE UNCHANGED procs
    BY <2>1, <2>2, <2>3 DEF IsBabel
  <2>4. CASE UnitStart
    <3>1. PICK p \in Pids : Launch(p)
      BY <2>4 DEF UnitStart
    <3> QED BY <1>0, <2>1, <2>2, <3>1 DEF Launch, IsBabel
  <2>5. ASSUME NEW p \in Pids, Listen(p)
        PROVE  \A q \in Pids : IsBabel(q)' => procs'[q].active = conf
    <3> SUFFICES ASSUME NEW q \in Pids, IsBabel(q)' PROVE procs'[q].active = conf
      OBVIOUS
    <3>1. IsBabel(q) /\ procs'[q].active = procs[q].active
      BY <1>0, <2>5 DEF Listen, IsBabel, Processes, Free, Answering
    <3> QED BY <2>2, <3>1
  <2>6. ASSUME NEW p \in Pids, DaemonDies(p) \/ Reuse(p)
        PROVE  \A q \in Pids : IsBabel(q)' => procs'[q].active = conf
    BY <1>0, <2>2, <2>6 DEF DaemonDies, Reuse, IsBabel, Free
  <2>7. ~ManagerStep \/ UNCHANGED procs
    BY <2>1, <1>3
    DEF ManagerStep, Prepare, Check, Write, Ensure, Identify, Save, Spawn, Record, Control, Reload,
        ReloadFails, TakeUpdate, Tick, Start, runVars
  <2>8. ~Exit /\ (StopStep => UNCHANGED procs \/ stop = "signal")
    BY <2>1, <1>3 DEF Exit, StopStep, StopUnit, StopRead, StopIdentify, StopPin,
      StopVerify, StopSignal, StopFails, runVars
  <2>9. CASE StopSignal
    <3>1. \A q \in Pids : IsBabel(q)' => procs'[q] = procs[q] /\ IsBabel(q)
      BY <1>0, <2>9 DEF StopSignal, IsBabel, Free
    <3> QED BY <2>1, <2>2, <3>1
  <2>10. CASE StopUnit \/ StopRead \/ StopIdentify \/ StopPin \/ StopVerify \/ StopFails
    BY <2>1, <2>3, <2>10 DEF StopUnit, StopRead, StopIdentify, StopPin, StopVerify,
      StopFails
  <2>11. CASE UNCHANGED vars
    BY <2>3, <2>11 DEF vars
  <2> QED
    BY <2>1, <2>3, <2>4, <2>5, <2>6, <2>7, <2>8, <2>9, <2>10, <2>11
    DEF Next, StopStep, SetLinkState, Notify
<1> QED BY <1>1, <1>2, <1>3, PhaseFrom

LEMMA RunNext ==
  ASSUME TypeOK, AtMostOne, RunSound, [Next]_vars
  PROVE  RunSound'
<1>1. pc' \in Rendered => UpToDate'
  BY UpToDateNext DEF RunSound, UpToDate
<1>2. pc' \in Written => file' = conf'
  BY FileNext DEF RunSound
<1> QED BY <1>1, <1>2, ActiveNext DEF RunSound, UpToDate

-----------------------------------------------------------------------------
(***************************************************************************)
(* The theorems.                                                           *)
(***************************************************************************)
LEMMA InitSound == Init => TypeOK /\ ManagerInv
<1> SUFFICES ASSUME Init PROVE TypeOK /\ ManagerInv
  OBVIOUS
<1>0. FixedType /\ FaultType
  <2>1. static \subseteq Links /\ unit \in BOOLEAN /\ faults \in 0 .. MaxFaults
    BY BabelAssumption DEF Init
  <2>2. enabled \in BOOLEAN
    BY Zenon DEF Init
  <2> QED BY <2>1, <2>2 DEF FixedType, FaultType
<1>1. /\ gens = 0 /\ procs = [p \in Pids |-> Free]
      /\ stop = "no" /\ fd = 0 /\ srec = NoProc /\ victims = {}
      /\ mistaken = {} /\ overlooked = {}
      /\ pc = "prepare" /\ record = NoProc /\ cand = NoProc
  BY DEF Init
<1>2. IsFiniteSet(static)
  BY <1>0, BabelAssumption, FS_Subset DEF FixedType
<1>3. LinkType
  BY <1>2, FS_CardinalityType, BabelAssumption DEF Init, LinkType
<1>4. NoProc \in Proc /\ NoConfig \in Confs /\ Free \in Processes
  BY <1>1 DEF NoProc, Proc, Confs, Free, Processes
<1>5. RunType /\ ProcType /\ StopType /\ SeenType
  BY <1>1, <1>4 DEF Init, RunType, ProcType, StopType, SeenType, Phases
<1>6. TypeOK
  BY <1>0, <1>3, <1>5, TypeParts
<1>7. GensUnique /\ OneAnswers /\ IdentifySound /\ NamesSound /\ AtMostOne
  BY <1>1 DEF GensUnique, OneAnswers, IdentifySound, NamesSound, AtMostOne, Counts, IsBabel, Free
<1>8. SpawnSound /\ StopSound /\ RunSound
  <2>1. ~Alive(record)
    BY <1>1, NoneAlive DEF Alive
  <2> QED BY <1>1, <2>1 DEF SpawnSound, StopSound, RunSound, Rendered, Written
<1> QED BY <1>6, <1>7, <1>8 DEF ManagerInv

LEMMA NextSound == TypeOK /\ ManagerInv /\ [Next]_vars => TypeOK' /\ ManagerInv'
BY NextType, GensNext, AnswersNext, IdentifyNext, NamesNext, OneNext, SpawnNext, StopNext, RunNext
   DEF ManagerInv

\* The invariant: start times identify the daemon, but for a stranger whose start time was
\* read for the socket's process; ensureService spawns a daemon only when none is left that
\* it could know of, StopInstance has that one pinned, and Run's file and daemon follow what
\* it rendered.
THEOREM ManagerInvariant == Spec => [](TypeOK /\ ManagerInv)
<1>1. Init => TypeOK /\ ManagerInv
  BY InitSound
<1>2. TypeOK /\ ManagerInv /\ [Next]_vars => (TypeOK /\ ManagerInv)'
  BY NextSound
<1> QED BY <1>1, <1>2, PTL DEF Spec

\* Type correctness; the update channel never holds more than its capacity.
THEOREM TypeCorrect == Spec => []TypeOK
BY ManagerInvariant, PTL

\* While Run waits on its select, what it last rendered is in the file and in the daemon,
\* and it is out of date only while an update of SetLinkState is on its way.  For the daemon
\* this holds as long as none was overlooked.
THEOREM IdleIsUpToDateHolds == Spec => []IdleIsUpToDate
<1>1. TypeOK /\ ManagerInv => IdleIsUpToDate
  BY DEF ManagerInv, RunSound, Rendered, Written, IdleIsUpToDate, NoLostUpdate, IdleMeansActive,
         Answering, IsBabel
<1> QED BY <1>1, ManagerInvariant, PTL

\* Of the daemons that the record or the socket showed when ensureService or StopInstance
\* looked, one runs at most, and none is left when StopInstance is done.
THEOREM DaemonAccountedHolds == Spec => []DaemonAccounted
<1>1. TypeOK /\ ManagerInv => DaemonAccounted
  <2> SUFFICES ASSUME TypeOK, ManagerInv PROVE DaemonAccounted
    OBVIOUS
  <2>0. \A p : p \in Known <=> p \in Pids /\ Counts(p)
    BY DEF Known, Babels, Counts, IsBabel
  <2>1. OneDaemon
    <3>1. CASE Known = {}
      BY <3>1, FS_EmptySet DEF OneDaemon
    <3>2. CASE Known # {}
      <4>1. PICK p : p \in Known
        BY <3>2
      <4>2. Known = {p}
        BY <2>0, <4>1 DEF ManagerInv, AtMostOne
      <4>3. Cardinality(Known) = 1
        BY <4>2, FS_Singleton
      <4> QED BY <4>3 DEF OneDaemon
    <3> QED BY <3>1, <3>2
  <2>2. StoppedMeansGone
    BY <2>0 DEF ManagerInv, StopSound, StoppedMeansGone
  <2> QED BY <2>1, <2>2 DEF DaemonAccounted
<1> QED BY <1>1, ManagerInvariant, PTL

\* StopInstance signals the daemon and never a process that took over its pid, unless that
\* process's start time had been read for the daemon's.
THEOREM OnlyDaemonSignalledHolds == Spec => []OnlyDaemonSignalled
<1>1. TypeOK /\ ManagerInv => OnlyDaemonSignalled
  BY DEF ManagerInv, StopSound, OnlyDaemonSignalled
<1> QED BY <1>1, ManagerInvariant, PTL

=============================================================================

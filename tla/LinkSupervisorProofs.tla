------------------------ MODULE LinkSupervisorProofs ------------------------
(***************************************************************************)
(* The safety properties of LinkSupervisor for every number of proposals   *)
(* and of faults.                                                          *)
(***************************************************************************)
EXTENDS LinkSupervisor, WellFoundedInduction, TLAPS

(***************************************************************************)
(* The inductive invariant.  The first part is about one node.             *)
(***************************************************************************)
\* A supervisor that does not run has no locals and no worker, a process that is
\* gone leaves only the kernel and the receipt file, and one that confirms is healthy.
OffIsClean(n) ==
  /\ ~Up(n) => sup[n] = Stopped(sup[n].run) /\ worker[n] = NoWorker
  /\ sup[n].run = "confirm" => sup[n].healthy
  /\ sup[n].run = "dead" => st[n] = NoState /\ bab[n] = None /\ warm[n] = None

\* A state with peers is a committed one, and only such a state is active.
StateSound(n) ==
  /\ st[n].committed = st[n].peers
  /\ st[n].active => st[n].peers
  /\ st[n].peers => st[n].local # None

\* Whatever else names addresses names the ones of the state.
OneLocal(n) ==
  /\ sup[n].result # None => st[n].local = sup[n].result
  /\ warm[n] # None => st[n].local = warm[n] /\ st[n].peers

\* A receipt on file that is not stale is the adjacency last committed, and the
\* one in memory while a process runs.
FileSound(n) == disk[n] # None /\ n \notin stale =>
  /\ disk[n] = last[n]
  /\ sup[n].run # "dead" => disk[n] = warm[n]

\* A worker that installed has installed its value.
WorkerSound(n) ==
  /\ worker[n].at \in {"install", "installed", "commit", "ok", "await"} => worker[n].value # None
  /\ worker[n].at \in {"installed", "ok"} => sup[n].result = worker[n].value

\* A session that replaced the Link has withdrawn all that outlives it.
ChangedIsBare(n) ==
  sup[n].changed /\ ~Idle(n) => ~sup[n].ready /\ ~sup[n].healthy /\ warm[n] = None

Admitted(n) == bab[n] # None =>
  bab[n] \in kern[n].addrs /\ st[n].committed /\ st[n].local = bab[n]

Healthy(n) == sup[n].healthy =>
  /\ sup[n].result # None /\ sup[n].ready /\ last[n] = sup[n].result
  /\ st[n] = [local |-> sup[n].result, peers |-> TRUE, active |-> TRUE, committed |-> TRUE]
  /\ kern[n] = Materialized(sup[n].result, TRUE)
  /\ bab[n] = sup[n].result /\ (On(n) => warm[n] = sup[n].result)

NodeInv(n) ==
  /\ OffIsClean(n) /\ StateSound(n) /\ OneLocal(n) /\ FileSound(n)
  /\ WorkerSound(n) /\ ChangedIsBare(n) /\ Admitted(n) /\ Healthy(n)

(***************************************************************************)
(* The second part is about the two sides of a session.                    *)
(***************************************************************************)
\* A connection joins two workers of the same session.
ConnJoins == conn =>
  \/ At(Low, "open") /\ At(High, "open")
  \/ \E n \in Nodes : /\ worker[n].at \in {"install", "installed"}
                      /\ At(Peer(n), "await") /\ worker[Peer(n)].value = worker[n].value

\* While one side is left to commit, the other side's session is over.
CommitIsLast == \A n \in Nodes :
  At(n, "commit") => worker[Peer(n)].at \in {"ok", "idle", "dial", "err"}

\* The addresses a node may become healthy on without another session.
Basis(n) ==
  IF sup[n].run = "dead" THEN IF n \in stale THEN None ELSE disk[n]
  ELSE IF sup[n].result # None \/ warm[n] # None THEN st[n].local ELSE None

\* What a session replaced here it has not yet replaced there, or will undo.
Unsettled(n) == At(n, "commit") \/ (sup[n].changed /\ worker[n].at \in {"installed", "err"})

SidesAgree == ~torn =>
  /\ \A n \in Nodes : At(n, "commit") => Basis(Peer(n)) \in {None, worker[n].value}
  /\ (\A n \in Nodes : ~Unsettled(n)) =>
       Basis(Low) = None \/ Basis(High) = None \/ Basis(Low) = Basis(High)

LinkInv == (\A n \in Nodes : NodeInv(n)) /\ ConnJoins /\ CommitIsLast /\ SidesAgree

-----------------------------------------------------------------------------
(***************************************************************************)
(* What the operators of the model build has its type.                     *)
(***************************************************************************)
LEMMA NodeNames == Low # High /\ Low \in Nodes /\ High \in Nodes
BY DEF Low, High, Nodes

LEMMA PeerType == \A n \in Nodes : Peer(n) \in Nodes /\ Peer(n) # n /\ Peer(Peer(n)) = n
BY DEF Nodes, Peer, Low, High

LEMMA NoneIsNoProposal == None \notin Proposals
BY LinkSupervisorConstants DEF None, Proposals

LEMMA SupervisorType ==
  /\ Fresh \in Supervisor
  /\ \A p \in Proposals \cup {None} : Started(p) \in Supervisor
  /\ \A r \in {"dead", "retry"} : Stopped(r) \in Supervisor
  /\ \A s \in Supervisor : Pinged(s) \in Supervisor /\ Replacing(s) \in Supervisor
<1>0. 0 \in 0 .. MissedPings - 1
  BY DEF MissedPings
<1>1. Fresh \in Supervisor
  BY <1>0 DEF Fresh, Supervisor
<1>2. ASSUME NEW p \in Proposals \cup {None} PROVE Started(p) \in Supervisor
  BY <1>1 DEF Started, Supervisor
<1>3. ASSUME NEW r \in {"dead", "retry"} PROVE Stopped(r) \in Supervisor
  BY <1>1 DEF Stopped, Supervisor
<1>4. ASSUME NEW s \in Supervisor PROVE Pinged(s) \in Supervisor
  BY DEF Pinged, Supervisor
<1>5. ASSUME NEW s \in Supervisor PROVE Replacing(s) \in Supervisor
  BY <1>0 DEF Replacing, Supervisor
<1> QED BY <1>1, <1>2, <1>3, <1>4, <1>5

KernelType == [addrs: SUBSET Proposals, route: BOOLEAN]
StateType == [local: Proposals \cup {None}, peers: BOOLEAN, active: BOOLEAN, committed: BOOLEAN]
WorkerType == [at: Stages, value: Proposals \cup {None}]

LEMMA MaterializedType ==
  ASSUME NEW p \in Proposals, NEW b \in BOOLEAN
  PROVE  /\ Materialized(p, b) \in KernelType
         /\ \A k \in KernelType : PartlyMaterialized(k, p, b) \subseteq KernelType
BY DEF Materialized, PartlyMaterialized, KernelType

LEMMA StateTypes ==
  /\ \A p \in Proposals \cup {None}, b \in BOOLEAN :
       /\ [local |-> p, peers |-> TRUE, active |-> b, committed |-> TRUE] \in StateType
       /\ [NoState EXCEPT !.local = p] \in StateType
  /\ \A s \in StateType : Lost(s) \in StateType
  /\ NoState \in StateType
BY DEF StateType, NoState, Lost

LEMMA JointMin == TypeOK /\ Joint # {} => Min(Joint) \in Joint /\ Min(Joint) \in Proposals
<1> SUFFICES ASSUME TypeOK, Joint # {} PROVE Min(Joint) \in Joint /\ Min(Joint) \in Proposals
  OBVIOUS
<1>1. Joint \subseteq Proposals
  BY NodeNames DEF Joint, TypeOK
<1>2. Joint \subseteq Nat
  BY <1>1, LinkSupervisorConstants DEF Proposals
<1> DEFINE Less == OpToRel(<, Nat)
<1>3. \A m, k \in Nat : k < m => <<k, m>> \in Less
  BY DEF OpToRel
<1>4. IsWellFoundedOn(Less, Nat)
  BY NatLessThanWellFounded
<1> HIDE DEF Less
<1>5. PICK m \in Joint : \A k \in Joint : ~ (<<k, m>> \in Less)
  BY <1>2, <1>4, WFMin, Zenon
<1>6. \A k \in Joint : ~ (k < m)
  BY <1>2, <1>3, <1>5, Zenon
<1>7. \A k \in Joint : m =< k
  BY <1>2, <1>6
<1>8. Min(Joint) \in Joint
  BY <1>7 DEF Min
<1> QED BY <1>1, <1>8

-----------------------------------------------------------------------------
(***************************************************************************)
(* Types.                                                                  *)
(***************************************************************************)
LEMMA InitTypeOK == Init => TypeOK
<1> SUFFICES ASSUME Init PROVE TypeOK
  OBVIOUS
<1>1. sup \in [Nodes -> Supervisor]
  BY SupervisorType DEF Init
<1>2. /\ st \in [Nodes -> StateType] /\ kern \in [Nodes -> KernelType]
      /\ worker \in [Nodes -> WorkerType] /\ torn \in BOOLEAN
  BY DEF Init, StateType, KernelType, WorkerType, NoState, NoWorker, Stages
<1>3. faults \in 0 .. MaxFaults
  BY LinkSupervisorConstants DEF Init
<1> QED BY <1>1, <1>2, <1>3 DEF Init, TypeOK, StateType, KernelType, WorkerType

\* The parts of TypeOK that most actions leave alone.
Quiet == hello' \in BOOLEAN /\ avail' \in [Nodes -> SUBSET Proposals] /\ faults' \in 0 .. MaxFaults
Typed ==
  /\ sup' \in [Nodes -> Supervisor] /\ st' \in [Nodes -> StateType]
  /\ kern' \in [Nodes -> KernelType] /\ worker' \in [Nodes -> WorkerType]
Named ==
  /\ bab' \in [Nodes -> Proposals \cup {None}] /\ warm' \in [Nodes -> Proposals \cup {None}]
  /\ disk' \in [Nodes -> Proposals \cup {None}] /\ last' \in [Nodes -> Proposals \cup {None}]
  /\ stale' \in SUBSET Nodes

LEMMA Fewer == TypeOK /\ (Lose \/ Calm) => faults' \in 0 .. MaxFaults
BY LinkSupervisorConstants DEF TypeOK, Lose, Calm

\* What a save leaves in the file, unless it is stale, is what was saved.
LEMMA SavesFile ==
  ASSUME NEW n \in Nodes, NEW receipt \in Proposals \cup {None}, NEW fails \in BOOLEAN, TypeOK,
         Saves(n, receipt, fails)
  PROVE  /\ disk' \in [Nodes -> Proposals \cup {None}] /\ stale' \in SUBSET Nodes
         /\ disk'[n] # None /\ n \notin stale' => disk'[n] = receipt
         /\ \A m \in Nodes : m # n => disk'[m] = disk[m] /\ (m \in stale') = (m \in stale)
<1>1. PICK left \in {None, disk[n], receipt} :
        /\ disk' = [disk EXCEPT ![n] = left]
        /\ stale' = IF left \in {None, receipt} THEN stale \ {n} ELSE stale \cup {n}
  BY DEF Saves
<1> QED BY <1>1 DEF TypeOK

LEMMA RemembersFile ==
  ASSUME NEW n \in Nodes, NEW p \in Proposals, TypeOK, Remembers(n, p)
  PROVE  /\ disk' \in [Nodes -> Proposals \cup {None}] /\ stale' \in SUBSET Nodes
         /\ warm' \in [Nodes -> Proposals \cup {None}] /\ faults' \in 0 .. MaxFaults
         /\ warm'[n] = p /\ (disk'[n] # None /\ n \notin stale' => disk'[n] = p)
         /\ \A m \in Nodes : m # n =>
              warm'[m] = warm[m] /\ disk'[m] = disk[m] /\ (m \in stale') = (m \in stale)
<1>1. PICK fails \in BOOLEAN : Saves(n, p, fails) /\ Charge(fails)
  BY DEF Remembers
<1>2. faults' \in 0 .. MaxFaults
  BY <1>1, Fewer DEF Charge
<1>3. warm' = [warm EXCEPT ![n] = p]
  BY DEF Remembers
<1>4. /\ disk' \in [Nodes -> Proposals \cup {None}] /\ stale' \in SUBSET Nodes
      /\ disk'[n] # None /\ n \notin stale' => disk'[n] = p
      /\ \A m \in Nodes : m # n => disk'[m] = disk[m] /\ (m \in stale') = (m \in stale)
  BY <1>1, SavesFile
<1>5. /\ warm' \in [Nodes -> Proposals \cup {None}] /\ warm'[n] = p
      /\ \A m \in Nodes : m # n => warm'[m] = warm[m]
  BY <1>3 DEF TypeOK
<1> QED BY <1>2, <1>4, <1>5

\* A receipt that is forgotten may only stay behind stale.
LEMMA ForgetsFile ==
  ASSUME NEW n \in Nodes, NEW fails \in BOOLEAN, TypeOK, Forgets(n, fails)
  PROVE  /\ disk' \in [Nodes -> Proposals \cup {None}] /\ stale' \in SUBSET Nodes
         /\ warm' \in [Nodes -> Proposals \cup {None}]
         /\ warm'[n] = None
         /\ NodeInv(n) /\ sup[n].run # "dead" /\ disk'[n] # None => n \in stale'
         /\ \A m \in Nodes : m # n =>
              warm'[m] = warm[m] /\ disk'[m] = disk[m] /\ (m \in stale') = (m \in stale)
<1>1. CASE warm[n] = None
  <2>1. UNCHANGED <<warm, disk, stale>>
    BY <1>1 DEF Forgets
  <2>2. NodeInv(n) /\ sup[n].run # "dead" /\ disk[n] # None => n \in stale
    BY <1>1 DEF NodeInv, FileSound
  <2> QED BY <1>1, <2>1, <2>2 DEF TypeOK
<1>2. CASE warm[n] # None
  <2>1. warm' = [warm EXCEPT ![n] = None] /\ Saves(n, None, fails)
    BY <1>2 DEF Forgets
  <2>2. /\ disk' \in [Nodes -> Proposals \cup {None}] /\ stale' \in SUBSET Nodes
        /\ disk'[n] # None /\ n \notin stale' => disk'[n] = None
        /\ \A m \in Nodes : m # n => disk'[m] = disk[m] /\ (m \in stale') = (m \in stale)
    BY <2>1, SavesFile
  <2>3. /\ warm' \in [Nodes -> Proposals \cup {None}] /\ warm'[n] = None
        /\ \A m \in Nodes : m # n => warm'[m] = warm[m]
    BY <2>1 DEF TypeOK
  <2> QED BY <2>2, <2>3
<1> QED BY <1>1, <1>2

\* The same of a withdrawal, which also ends Babel's admission.
LEMMA WithdrawsFile ==
  ASSUME NEW n \in Nodes, NEW fails \in BOOLEAN, TypeOK, NodeInv(n), sup[n].run # "dead",
         Withdraws(n, fails)
  PROVE  /\ Named /\ bab'[n] = None /\ warm'[n] = None
         /\ disk'[n] # None => n \in stale'
         /\ \A m \in Nodes : m # n =>
              /\ warm'[m] = warm[m] /\ disk'[m] = disk[m] /\ bab'[m] = bab[m] /\ last'[m] = last[m]
              /\ (m \in stale') = (m \in stale)
<1>1. CASE Adjacent(n)
  <2>1. /\ Forgets(n, fails)
        /\ bab' = [bab EXCEPT ![n] = None] /\ last' = [last EXCEPT ![n] = None]
    BY <1>1 DEF Withdraws
  <2> QED BY <2>1, ForgetsFile DEF Named, TypeOK
<1>2. CASE ~Adjacent(n)
  <2>1. UNCHANGED <<warm, disk, stale, bab, last>>
    BY <1>2 DEF Withdraws
  <2>2. warm[n] = None /\ bab[n] = None
    BY <1>2 DEF NodeInv, OneLocal, Admitted, StateSound, Adjacent
  <2>3. disk[n] # None => n \in stale
    BY <2>2 DEF NodeInv, FileSound
  <2> QED BY <2>1, <2>2, <2>3 DEF Named, TypeOK
<1> QED BY <1>1, <1>2

LEMMA TearsType == \A n \in Nodes : TypeOK /\ Tears(n) => torn' \in BOOLEAN
BY DEF Tears

LEMMA ExitsType == \A n \in Nodes : TypeOK /\ Exits(n) =>
  /\ sup' \in [Nodes -> Supervisor] /\ worker' \in [Nodes -> WorkerType]
  /\ conn' \in BOOLEAN /\ hello' \in BOOLEAN /\ torn' \in BOOLEAN
<1> SUFFICES ASSUME NEW n \in Nodes, TypeOK, Exits(n)
             PROVE  /\ sup' \in [Nodes -> Supervisor] /\ worker' \in [Nodes -> WorkerType]
                    /\ conn' \in BOOLEAN /\ hello' \in BOOLEAN /\ torn' \in BOOLEAN
  OBVIOUS
<1>1. Stopped("retry") \in Supervisor
  BY SupervisorType
<1>2. sup' \in [Nodes -> Supervisor]
  BY <1>1 DEF Exits, TypeOK
<1>3. worker' \in [Nodes -> WorkerType]
  BY DEF Exits, TypeOK, WorkerType, NoWorker, Stages
<1>4. torn' \in BOOLEAN
  BY TearsType DEF Exits
<1> QED BY <1>2, <1>3, <1>4 DEF Exits, TypeOK

LEMMA ConfirmsType ==
  ASSUME NEW n \in Nodes, NEW s \in Supervisor, TypeOK, s.result \in Proposals, Confirms(n, s)
  PROVE  /\ sup' \in [Nodes -> Supervisor] /\ st' \in [Nodes -> StateType]
         /\ kern' \in [Nodes -> KernelType] /\ Named
         /\ faults' \in 0 .. MaxFaults
<1>0. 0 \in 0 .. MissedPings - 1
  BY DEF MissedPings
<1>1. CASE Reconfirms(n, s)
  <2>1. Remembers(n, s.result) /\ UNCHANGED <<kern, st, bab, last>>
    BY <1>1 DEF Reconfirms
  <2>2. [s EXCEPT !.missed = 0] \in Supervisor
    BY <1>0 DEF Supervisor
  <2>3. sup' \in [Nodes -> Supervisor]
    BY <1>1, <2>2 DEF Reconfirms, TypeOK
  <2> QED BY <2>1, <2>3, RemembersFile DEF Named, TypeOK, StateType, KernelType
<1>2. CASE ~Reconfirms(n, s)
  <2>1. /\ Calm /\ Commits(n, s.result) /\ UNCHANGED <<warm, disk, stale>>
        /\ sup' = [sup EXCEPT ![n] = [s EXCEPT !.healthy = TRUE, !.missed = 0, !.run = "confirm"]]
    BY <1>2 DEF Confirms
  <2>2. [s EXCEPT !.healthy = TRUE, !.missed = 0, !.run = "confirm"] \in Supervisor
    BY <1>0 DEF Supervisor
  <2>3. sup' \in [Nodes -> Supervisor]
    BY <2>1, <2>2 DEF TypeOK
  <2>4. st' \in [Nodes -> StateType]
    <3>1. [local |-> s.result, peers |-> TRUE, active |-> TRUE, committed |-> TRUE] \in StateType
      BY StateTypes
    <3> QED BY <2>1, <3>1 DEF Commits, TypeOK, StateType
  <2>5. kern' \in [Nodes -> KernelType]
    BY <2>1, MaterializedType DEF Commits, TypeOK, KernelType
  <2>6. Named
    BY <2>1 DEF Commits, TypeOK, Named
  <2> QED BY <2>1, <2>3, <2>4, <2>5, <2>6, Fewer
<1> QED BY <1>1, <1>2

LEMMA ConfirmFailsType ==
  ASSUME NEW n \in Nodes, NEW s, TypeOK, s.result \in Proposals, ConfirmFails(n, s)
  PROVE  /\ st' \in [Nodes -> StateType] /\ kern' \in [Nodes -> KernelType] /\ Named
         /\ faults' \in 0 .. MaxFaults
<1>1. kern[n] \in KernelType
  BY DEF TypeOK, KernelType
<1>2. kern' \in [Nodes -> KernelType]
  <2>1. PartlyMaterialized(kern[n], s.result, TRUE) \subseteq KernelType
    BY <1>1, MaterializedType
  <2> QED BY <2>1 DEF ConfirmFails, TypeOK, KernelType
<1>3. st' \in [Nodes -> StateType]
  <2>1. Lost(st[n]) \in StateType
    BY StateTypes DEF TypeOK, StateType
  <2> QED BY <2>1 DEF ConfirmFails, TypeOK, StateType
<1> QED BY <1>2, <1>3, Fewer DEF ConfirmFails, Named, TypeOK


LEMMA NextTypeOK == TypeOK /\ (\A n \in Nodes : NodeInv(n)) /\ [Next]_vars => TypeOK'
<1> SUFFICES ASSUME TypeOK, \A n \in Nodes : NodeInv(n), [Next]_vars PROVE TypeOK'
  OBVIOUS
<1>0. ASSUME Typed, Named, Quiet, conn' \in BOOLEAN, torn' \in BOOLEAN PROVE TypeOK'
  BY <1>0 DEF Typed, Named, Quiet, TypeOK, StateType, KernelType, WorkerType
<1>a. ASSUME NEW n \in Nodes
      PROVE  /\ sup[n] \in Supervisor /\ st[n] \in StateType /\ kern[n] \in KernelType
             /\ worker[n] \in WorkerType
  BY DEF TypeOK, StateType, KernelType, WorkerType
<1>b. ASSUME NEW n \in Nodes, NEW stage \in Stages
      PROVE  [worker[n] EXCEPT !.at = stage] \in WorkerType /\ NoWorker \in WorkerType
  BY <1>a DEF WorkerType, NoWorker, Stages
<1> USE DEF resources
<1>1. CASE SendHello
  BY <1>1 DEF SendHello, TypeOK
<1>2. ASSUME StartsDial PROVE sup' \in [Nodes -> Supervisor] /\ worker' \in [Nodes -> WorkerType]
  <2>1. [sup[Low] EXCEPT !.changed = FALSE] \in Supervisor
    BY <1>a, NodeNames DEF Supervisor
  <2>2. [worker[Low] EXCEPT !.at = "dial"] \in WorkerType
    BY <1>b, NodeNames DEF Stages
  <2> QED BY <1>2, <2>1, <2>2 DEF StartsDial, TypeOK, WorkerType
<1>3. CASE ReceiveHello
  <2>1. Typed
    BY <1>2, <1>3 DEF ReceiveHello, Typed, TypeOK, StateType, KernelType, WorkerType
  <2> QED BY <1>0, <1>3, <2>1 DEF ReceiveHello, Named, Quiet, TypeOK
<1>4. CASE ReceiveAck
  <2>1. Typed
    BY <1>2, <1>4 DEF ReceiveAck, Typed, TypeOK, StateType, KernelType, WorkerType
  <2> QED BY <1>0, <1>4, <2>1 DEF ReceiveAck, Named, Quiet, TypeOK
<1>5. CASE Connect
  <2>1. [sup[High] EXCEPT !.changed = FALSE] \in Supervisor
    BY <1>a, NodeNames DEF Supervisor
  <2>2. [worker[Low] EXCEPT !.at = "err"] \in WorkerType /\ [NoWorker EXCEPT !.at = "open"] \in WorkerType
    <3>1. [worker[Low] EXCEPT !.at = "err"] \in WorkerType
      BY <1>b, NodeNames DEF Stages
    <3> QED BY <3>1 DEF Stages, WorkerType, NoWorker
  <2>3. sup' \in [Nodes -> Supervisor]
    BY <1>5, <2>1 DEF Connect, TypeOK
  <2>4. worker' \in [Nodes -> WorkerType]
    <3>1. worker' = [n \in Nodes |-> [NoWorker EXCEPT !.at = "open"]]
          \/ worker' = [worker EXCEPT ![Low] = [worker[Low] EXCEPT !.at = "err"]]
      BY <1>5 DEF Connect
    <3> QED BY <2>2, <3>1 DEF TypeOK, WorkerType
  <2>5. Typed
    BY <1>5, <2>3, <2>4 DEF Connect, Typed, TypeOK, StateType, KernelType
  <2>6. conn' \in BOOLEAN
    BY <1>5 DEF Connect, TypeOK
  <2> QED BY <1>0, <1>5, <2>5, <2>6 DEF Connect, Named, Quiet, TypeOK
<1>6. CASE Negotiate
  <2>1. worker' \in [Nodes -> WorkerType]
    <3>1. CASE Joint # {}
      <4>1. PICK acceptor \in Nodes : worker' = [n \in Nodes |->
                   [at |-> IF n = acceptor THEN "install" ELSE "await", value |-> Min(Joint)]]
        BY <1>6, <3>1, NodeNames DEF Negotiate
      <4>2. \A x \in {"install", "await"} : [at |-> x, value |-> Min(Joint)] \in WorkerType
        BY <3>1, JointMin DEF WorkerType, Stages
      <4> QED BY <4>1, <4>2
    <3>2. CASE Joint = {}
      <4>1. [NoWorker EXCEPT !.at = "err"] \in WorkerType
        BY DEF WorkerType, NoWorker, Stages
      <4> QED BY <1>6, <3>2, <4>1 DEF Negotiate
    <3> QED BY <3>1, <3>2
  <2>2. conn' \in BOOLEAN
    BY <1>6 DEF Negotiate, TypeOK
  <2>3. Typed
    BY <1>6, <2>1 DEF Negotiate, Typed, TypeOK, StateType, KernelType
  <2> QED BY <1>0, <1>6, <2>2, <2>3 DEF Negotiate, Named, Quiet, TypeOK
<1>7. CASE Break
  BY <1>7, Fewer DEF Break, TypeOK
<1>8. ASSUME NEW n \in Nodes, WriteAccept(n) PROVE TypeOK'
  <2>1. worker' \in [Nodes -> WorkerType]
    <3>1. \A m \in Nodes : \A stage \in {"ok", "err", "commit"} :
            [worker[m] EXCEPT !.at = stage] \in WorkerType
      BY <1>b DEF Stages
    <3>2. \/ worker' = [worker EXCEPT ![n] = [worker[n] EXCEPT !.at = "ok"]]
          \/ worker' = [worker EXCEPT ![n] = [worker[n] EXCEPT !.at = "err"]]
          \/ worker' = [worker EXCEPT ![n] = [worker[n] EXCEPT !.at = "ok"],
                                      ![Peer(n)] = [worker[Peer(n)] EXCEPT !.at = "commit"]]
      BY <1>8, PeerType DEF WriteAccept, TypeOK
    <3>3. worker \in [Nodes -> WorkerType]
      BY DEF TypeOK, WorkerType
    <3>4. /\ [worker[n] EXCEPT !.at = "ok"] \in WorkerType
          /\ [worker[n] EXCEPT !.at = "err"] \in WorkerType
          /\ [worker[Peer(n)] EXCEPT !.at = "commit"] \in WorkerType
      BY <3>1, PeerType
    <3> QED BY <3>2, <3>3, <3>4, PeerType
  <2>2. torn' \in BOOLEAN
    BY <1>8 DEF WriteAccept, TypeOK
  <2>3. conn' \in BOOLEAN
    BY <1>8 DEF WriteAccept, TypeOK
  <2>4. Typed
    BY <1>8, <2>1 DEF WriteAccept, Typed, TypeOK, StateType, KernelType
  <2> QED BY <1>0, <1>8, <2>2, <2>3, <2>4 DEF WriteAccept, Named, Quiet, TypeOK
<1>9. ASSUME NEW n \in Nodes, SessionFails(n) PROVE TypeOK'
  <2>1. worker' \in [Nodes -> WorkerType]
    <3>1. [worker[n] EXCEPT !.at = "err"] \in WorkerType
      BY <1>b DEF Stages
    <3> QED BY <1>9, <3>1 DEF SessionFails, TypeOK, WorkerType
  <2>2. Typed
    BY <1>9, <2>1 DEF SessionFails, Typed, TypeOK, StateType, KernelType
  <2> QED BY <1>0, <1>9, <2>2 DEF SessionFails, Named, Quiet, TypeOK
<1>10. ASSUME NEW n \in Nodes, Proceeds(n) PROVE worker' \in [Nodes -> WorkerType]
  <2>1. \A stage \in {"installed", "ok"} : [worker[n] EXCEPT !.at = stage] \in WorkerType
    BY <1>b DEF Stages
  <2> QED BY <1>10, <2>1 DEF Proceeds, TypeOK, WorkerType
<1>11. ASSUME NEW n \in Nodes, InstallSame(n) PROVE TypeOK'
  <2>1. sup' \in [Nodes -> Supervisor]
    BY <1>11, <1>a, SupervisorType DEF InstallSame, TypeOK
  <2>2. Typed
    BY <1>10, <1>11, <2>1 DEF InstallSame, Typed, TypeOK, StateType, KernelType
  <2> QED BY <1>0, <1>11, <2>2 DEF InstallSame, Named, Quiet, TypeOK
<1>13. ASSUME NEW n \in Nodes, Requests(n) PROVE worker[n].value \in Proposals
  BY <1>a, <1>13 DEF Requests, NodeInv, WorkerSound, WorkerType
<1>14. ASSUME NEW n \in Nodes, NEW fails \in BOOLEAN, Requests(n), Withdraws(n, fails) PROVE Named
  BY <1>14, WithdrawsFile DEF Requests, On
<1>15. ASSUME NEW n \in Nodes, InstallNew(n) PROVE TypeOK'
  <2>0. worker[n].value \in Proposals
    BY <1>13, <1>15 DEF InstallNew
  <2>1. sup' \in [Nodes -> Supervisor]
    <3>1. Replacing(sup[n]) \in Supervisor
      BY <1>a, SupervisorType
    <3>2. [Replacing(sup[n]) EXCEPT !.result = worker[n].value, !.challenge = "none"] \in Supervisor
      BY <2>0, <3>1 DEF Supervisor
    <3> QED BY <1>15, <3>2 DEF InstallNew, TypeOK
  <2>2. kern' \in [Nodes -> KernelType]
    BY <1>15, <2>0, MaterializedType DEF InstallNew, TypeOK, KernelType
  <2>3. st' \in [Nodes -> StateType]
    BY <1>15, <2>0, StateTypes DEF InstallNew, TypeOK, StateType
  <2>4. worker' \in [Nodes -> WorkerType]
    BY <1>10, <1>15 DEF InstallNew
  <2>5. PICK fails \in BOOLEAN : Withdraws(n, fails) /\ Charge(fails)
    BY <1>15 DEF InstallNew
  <2>6. Quiet
    BY <1>15, <2>5, Fewer DEF InstallNew, Charge, Quiet, TypeOK
  <2>7. Named
    BY <1>14, <1>15, <2>5 DEF InstallNew
  <2> QED BY <1>0, <1>15, <2>1, <2>2, <2>3, <2>4, <2>6, <2>7 DEF InstallNew, Typed, TypeOK
<1>16. ASSUME NEW n \in Nodes, Adjacent(n) PROVE st[n].local \in Proposals
  BY <1>a, <1>16 DEF Adjacent, NodeInv, StateSound, StateType
<1>17. ASSUME NEW n \in Nodes, InstallFails(n) PROVE TypeOK'
  <2>0. worker[n].value \in Proposals
    BY <1>13, <1>17 DEF InstallFails
  <2>1. sup' \in [Nodes -> Supervisor]
    BY <1>17, <1>a, SupervisorType DEF InstallFails, TypeOK
  <2>2. kern' \in [Nodes -> KernelType]
    <3> DEFINE before == IF Adjacent(n) THEN Materialized(st[n].local, FALSE) ELSE kern[n]
    <3>1. before \in KernelType
      BY <1>a, <1>16, MaterializedType
    <3>2. PartlyMaterialized(before, worker[n].value, FALSE) \subseteq KernelType
      BY <2>0, <3>1, MaterializedType
    <3> QED BY <1>17, <3>2 DEF InstallFails, TypeOK, KernelType
  <2>3. st' \in [Nodes -> StateType]
    <3>1. [NoState EXCEPT !.local = st[n].local] \in StateType
      BY <1>a, StateTypes DEF StateType
    <3> QED BY <1>17, <3>1 DEF InstallFails, TypeOK, StateType
  <2>4. worker' \in [Nodes -> WorkerType]
    <3>1. [worker[n] EXCEPT !.at = "err"] \in WorkerType
      BY <1>b DEF Stages
    <3> QED BY <1>17, <3>1 DEF InstallFails, TypeOK, WorkerType
  <2>5. Quiet
    BY <1>17, Fewer DEF InstallFails, Quiet, TypeOK
  <2>6. torn' \in BOOLEAN
    BY <1>17, TearsType DEF InstallFails
  <2>7. PICK fails \in BOOLEAN : Withdraws(n, fails)
    BY <1>17 DEF InstallFails
  <2>8. Named
    BY <1>14, <1>17, <2>7 DEF InstallFails
  <2> QED BY <1>0, <1>17, <2>1, <2>2, <2>3, <2>4, <2>5, <2>6, <2>8 DEF InstallFails, Typed
<1>18. ASSUME NEW n \in Nodes, WithdrawFails(n) PROVE TypeOK'
  <2>1. kern' \in [Nodes -> KernelType]
    <3>1. PartlyMaterialized(kern[n], st[n].local, FALSE) \subseteq KernelType
      BY <1>a, <1>16, <1>18, MaterializedType DEF WithdrawFails
    <3> QED BY <1>18, <3>1 DEF WithdrawFails, TypeOK, KernelType
  <2>2. st' \in [Nodes -> StateType]
    BY <1>18, <1>a, StateTypes DEF WithdrawFails, TypeOK, StateType
  <2>3. Named
    <3>1. PICK fails \in BOOLEAN : Forgets(n, fails)
      BY <1>18 DEF WithdrawFails
    <3>2. bab' = bab /\ last' = [last EXCEPT ![n] = None]
      BY <1>18 DEF WithdrawFails
    <3> QED BY <3>1, <3>2, ForgetsFile DEF Named, TypeOK
  <2>4. faults' \in 0 .. MaxFaults
    BY <1>18, Fewer DEF WithdrawFails
  <2> QED BY <1>0, <1>18, <2>1, <2>2, <2>3, <2>4, ExitsType DEF WithdrawFails, Typed, Quiet, TypeOK
<1>19. ASSUME NEW n \in Nodes, At(n, "ok")
       PROVE  Established(n) \in Supervisor /\ Established(n).result \in Proposals
  <2>1. Established(n) \in Supervisor
    BY <1>a DEF Established, Supervisor
  <2>2. sup[n].result \in Proposals
    BY <1>a, <1>19 DEF At, NodeInv, WorkerSound, WorkerType
  <2>3. Established(n).result = sup[n].result
    BY <1>a DEF Established, Supervisor
  <2> QED BY <2>1, <2>2, <2>3
<1>20. ASSUME NEW n \in Nodes, Pong(n)
       PROVE  Ponged(n) \in Supervisor /\ Ponged(n).result \in Proposals
  BY <1>a, <1>20 DEF Pong, Answers, Linked, Ponged, Supervisor
<1>21. ASSUME NEW n \in Nodes, FinishedOk(n) PROVE TypeOK'
  <2>1. Confirms(n, Established(n))
    BY <1>21 DEF FinishedOk
  <2>2. worker' \in [Nodes -> WorkerType]
    BY <1>21, <1>b DEF FinishedOk, TypeOK, WorkerType, Stages
  <2> HIDE DEF resources
  <2>3. /\ sup' \in [Nodes -> Supervisor] /\ st' \in [Nodes -> StateType]
        /\ kern' \in [Nodes -> KernelType] /\ Named
        /\ faults' \in 0 .. MaxFaults
    BY <1>19, <1>21, <2>1, ConfirmsType DEF FinishedOk
  <2> QED BY <1>0, <1>21, <2>2, <2>3 DEF FinishedOk, Typed, Quiet, TypeOK
<1>22. ASSUME NEW n \in Nodes, FinishedCommitFails(n) PROVE TypeOK'
  <2>1. ConfirmFails(n, Established(n)) /\ Exits(n)
    BY <1>22 DEF FinishedCommitFails
  <2>2. /\ st' \in [Nodes -> StateType] /\ kern' \in [Nodes -> KernelType] /\ Named
        /\ faults' \in 0 .. MaxFaults
    BY <1>19, <1>22, <2>1, ConfirmFailsType DEF FinishedCommitFails
  <2> QED BY <1>0, <1>22, <2>1, <2>2, ExitsType DEF FinishedCommitFails, Typed, Quiet, TypeOK
<1>23. ASSUME NEW n \in Nodes, FinishedErr(n) PROVE TypeOK'
  <2>1. sup' \in [Nodes -> Supervisor]
    <3>1. [sup[n] EXCEPT !.ready = FALSE, !.result = None, !.challenge = "none"] \in Supervisor
      BY <1>a DEF Supervisor
    <3> QED BY <1>23, <3>1 DEF FinishedErr, TypeOK
  <2>2. worker' \in [Nodes -> WorkerType]
    BY <1>23, <1>b DEF FinishedErr, TypeOK, WorkerType, Stages
  <2> QED BY <1>0, <1>23, <2>1, <2>2 DEF FinishedErr, Typed, Named, Quiet, TypeOK, StateType, KernelType
<1>24. ASSUME NEW n \in Nodes, Tick(n) PROVE TypeOK'
  <2>1. sup' \in [Nodes -> Supervisor]
    <3>0. 0 \in 0 .. MissedPings - 1
      BY DEF MissedPings
    <3>1. [sup[n] EXCEPT !.healthy = FALSE, !.missed = 0] \in Supervisor
      BY <1>a, <3>0 DEF Supervisor
    <3>2. ~Overdue(n) =>
            [sup[n] EXCEPT !.missed = IF sup[n].healthy THEN sup[n].missed + 1 ELSE 0] \in Supervisor
      <4>1. ~Overdue(n) /\ sup[n].healthy => sup[n].missed + 1 \in 0 .. MissedPings - 1
        BY <1>a DEF Overdue, Supervisor, MissedPings
      <4> QED BY <1>a, <3>0, <4>1 DEF Supervisor
    <3>3. CASE Overdue(n)
      <4>1. Pinged([sup[n] EXCEPT !.healthy = FALSE, !.missed = 0]) \in Supervisor
        BY <3>1, SupervisorType
      <4> QED BY <1>24, <3>3, <4>1 DEF Tick, TypeOK
    <3>4. CASE ~Overdue(n)
      <4> DEFINE next == [sup[n] EXCEPT !.missed = IF sup[n].healthy THEN sup[n].missed + 1 ELSE 0]
      <4>1. Pinged(next) \in Supervisor
        BY <3>2, <3>4, SupervisorType
      <4>2. sup' = [sup EXCEPT ![n] = Pinged(next)]
        BY <1>24, <3>4 DEF Tick
      <4> QED BY <4>1, <4>2 DEF TypeOK
    <3> QED BY <3>3, <3>4
  <2>2. st' \in [Nodes -> StateType]
    <3>1. Lost(st[n]) \in StateType
      BY <1>a, StateTypes
    <3>2. st' = st \/ st' = [st EXCEPT ![n] = Lost(st[n])]
      BY <1>24 DEF Tick, Expired
    <3> QED BY <3>1, <3>2 DEF TypeOK, StateType
  <2>3. Quiet
    BY <1>24, Fewer DEF Tick, Quiet, TypeOK
  <2> QED BY <1>0, <1>24, <2>1, <2>2, <2>3 DEF Tick, Expired, Typed, Named, TypeOK, KernelType, WorkerType
<1>25. ASSUME NEW n \in Nodes, AnswerPing(n) PROVE TypeOK'
  <2>1. sup' \in [Nodes -> Supervisor]
    <3>1. [sup[n] EXCEPT !.challenge = "answered"] \in Supervisor
      BY <1>a DEF Supervisor
    <3> QED BY <1>25, <3>1 DEF AnswerPing, TypeOK
  <2> QED BY <1>0, <1>25, <2>1 DEF AnswerPing, Typed, Named, Quiet, TypeOK, StateType, KernelType, WorkerType
<1>26. ASSUME NEW n \in Nodes, ReceivePong(n) PROVE TypeOK'
  <2>1. Pong(n) /\ Confirms(n, Ponged(n))
    BY <1>26 DEF ReceivePong
  <2>2. /\ sup' \in [Nodes -> Supervisor] /\ st' \in [Nodes -> StateType]
        /\ kern' \in [Nodes -> KernelType] /\ Named
        /\ faults' \in 0 .. MaxFaults
    BY <1>20, <2>1, ConfirmsType
  <2> QED BY <1>0, <1>26, <2>2 DEF ReceivePong, Typed, Quiet, TypeOK, WorkerType
<1>27. ASSUME NEW n \in Nodes, PongCommitFails(n) PROVE TypeOK'
  <2>1. Pong(n) /\ ConfirmFails(n, Ponged(n)) /\ Exits(n)
    BY <1>27 DEF PongCommitFails
  <2>2. /\ st' \in [Nodes -> StateType] /\ kern' \in [Nodes -> KernelType] /\ Named
        /\ faults' \in 0 .. MaxFaults
    BY <1>20, <2>1, ConfirmFailsType
  <2> QED BY <1>0, <1>27, <2>1, <2>2, ExitsType DEF PongCommitFails, Typed, Quiet, TypeOK
<1>28. ASSUME NEW n \in Nodes, Retry(n) PROVE TypeOK'
  <2>1. sup' \in [Nodes -> Supervisor]
    BY <1>28, SupervisorType DEF Retry, TypeOK
  <2> QED BY <1>0, <1>28, <2>1 DEF Retry, Typed, Named, Quiet, TypeOK, StateType, KernelType, WorkerType
<1>29. ASSUME NEW n \in Nodes, Maintain(n) PROVE TypeOK'
  <2>1. Materialized(st[n].local, st[n].peers) \in KernelType
    BY <1>29, <1>a, MaterializedType DEF Maintain, StateType
  <2>2. kern' \in [Nodes -> KernelType]
    BY <1>29, <2>1 DEF Maintain, TypeOK, KernelType
  <2> QED BY <1>0, <1>29, <2>2 DEF Maintain, Typed, Named, Quiet, TypeOK, StateType, WorkerType
<1>30. ASSUME NEW n \in Nodes, Crash(n) PROVE TypeOK'
  <2>1. sup' \in [Nodes -> Supervisor]
    BY <1>30, SupervisorType DEF Crash, TypeOK
  <2>2. worker' \in [Nodes -> WorkerType]
    BY <1>30, <1>b DEF Crash, TypeOK, WorkerType, Stages
  <2>3. st' \in [Nodes -> StateType]
    BY <1>30, StateTypes DEF Crash, TypeOK, StateType
  <2>4. torn' \in BOOLEAN
    BY <1>30, TearsType DEF Crash
  <2>5. faults' \in 0 .. MaxFaults
    BY <1>30, Fewer DEF Crash
  <2> QED BY <1>0, <1>30, <2>1, <2>2, <2>3, <2>4, <2>5 DEF Crash, Typed, Named, Quiet, TypeOK, KernelType
<1>31. ASSUME NEW n \in Nodes, Adopt(n) PROVE TypeOK'
  <2>0. disk[n] \in Proposals
    BY <1>31 DEF Adopt, CanAdopt, TypeOK
  <2>1. sup' \in [Nodes -> Supervisor]
    BY <1>31, <2>0, SupervisorType DEF Adopt, TypeOK
  <2>2. st' \in [Nodes -> StateType]
    BY <1>31, <2>0, StateTypes DEF Adopt, TypeOK, StateType
  <2>3. kern' \in [Nodes -> KernelType]
    BY <1>31, <2>0, MaterializedType DEF Adopt, TypeOK, KernelType
  <2>4. torn' \in BOOLEAN
    BY <1>31 DEF Adopt
  <2> QED BY <1>0, <1>31, <2>0, <2>1, <2>2, <2>3, <2>4 DEF Adopt, Typed, Named, Quiet, TypeOK, WorkerType
<1>32. ASSUME NEW n \in Nodes, StartCold(n) PROVE TypeOK'
  <2>1. sup' \in [Nodes -> Supervisor]
    BY <1>32, SupervisorType DEF StartCold, TypeOK
  <2>3. faults' \in 0 .. MaxFaults
    BY <1>32, Fewer DEF StartCold
  <2> QED BY <1>0, <1>32, <2>1, <2>3 DEF StartCold, Typed, Named, Quiet, TypeOK, StateType, KernelType, WorkerType
<1>33. ASSUME NEW n \in Nodes, ChangeAvailable(n) PROVE TypeOK'
  <2>1. PICK p \in Proposals :
          avail' = [avail EXCEPT ![n] = IF p \in avail[n] THEN avail[n] \ {p} ELSE avail[n] \cup {p}]
    BY <1>33 DEF ChangeAvailable
  <2>2. avail' \in [Nodes -> SUBSET Proposals]
    BY <2>1 DEF TypeOK
  <2> QED BY <1>33, <2>2, Fewer DEF ChangeAvailable, TypeOK
<1>35. ASSUME NEW n \in Nodes, Remember(n) PROVE TypeOK'
  <2>1. sup[n].result \in Proposals
    BY <1>35, <1>a DEF Remember, NodeInv, OffIsClean, Healthy, Supervisor
  <2>2. Remembers(n, sup[n].result)
    BY <1>35 DEF Remember
  <2>3. sup' \in [Nodes -> Supervisor]
    <3>1. [sup[n] EXCEPT !.run = "on"] \in Supervisor
      BY <1>a DEF Supervisor
    <3> QED BY <1>35, <3>1 DEF Remember, TypeOK
  <2> HIDE DEF resources
  <2>4. /\ disk' \in [Nodes -> Proposals \cup {None}] /\ stale' \in SUBSET Nodes
        /\ warm' \in [Nodes -> Proposals \cup {None}] /\ faults' \in 0 .. MaxFaults
    BY <2>1, <2>2, RemembersFile
  <2> QED BY <1>0, <1>35, <2>3, <2>4 DEF Remember, Typed, Named, Quiet, TypeOK, StateType, KernelType, WorkerType
<1>34. CASE UNCHANGED vars
  BY <1>34 DEF vars, TypeOK
<1> QED BY <1>1, <1>3, <1>4, <1>5, <1>6, <1>7, <1>8, <1>9, <1>11, <1>15, <1>17, <1>18, <1>21, <1>22, <1>23,
           <1>24, <1>25, <1>26, <1>27, <1>28, <1>29, <1>30, <1>31, <1>32, <1>33, <1>34, <1>35 DEF Next

-----------------------------------------------------------------------------
(***************************************************************************)
(* The invariant of one node.                                              *)
(***************************************************************************)
LEMMA InitNodeInv == ASSUME Init, NEW n \in Nodes PROVE NodeInv(n)
<1>1. /\ sup[n] = Fresh /\ st[n] = NoState /\ bab[n] = None /\ warm[n] = None /\ disk[n] = None
      /\ worker[n] = NoWorker
  BY DEF Init
<1>2. OffIsClean(n) /\ ChangedIsBare(n) /\ Healthy(n)
  BY <1>1 DEF OffIsClean, Up, ChangedIsBare, Healthy, Fresh
<1>3. StateSound(n) /\ OneLocal(n)
  BY <1>1 DEF StateSound, OneLocal, NoState, Fresh
<1>4. FileSound(n) /\ WorkerSound(n) /\ Admitted(n)
  BY <1>1 DEF FileSound, WorkerSound, Admitted, NoWorker, NoState
<1> QED BY <1>2, <1>3, <1>4 DEF NodeInv

\* What a step leaves as it is at a node.
Kept(n) ==
  /\ st'[n] = st[n] /\ kern'[n] = kern[n] /\ bab'[n] = bab[n]
  /\ warm'[n] = warm[n] /\ disk'[n] = disk[n] /\ last'[n] = last[n]
  /\ n \in stale => n \in stale'

\* A step that leaves a node alone leaves its invariant alone.
LEMMA NodeFrame ==
  ASSUME NEW n \in Nodes, NodeInv(n), Kept(n), sup'[n] = sup[n], worker'[n] = worker[n]
  PROVE  NodeInv(n)'
<1>1. OffIsClean(n)' /\ StateSound(n)' /\ OneLocal(n)'
  BY DEF NodeInv, Kept, OffIsClean, Up, StateSound, OneLocal
<1>2. FileSound(n)' /\ WorkerSound(n)'
  BY DEF NodeInv, Kept, FileSound, WorkerSound
<1>3. ChangedIsBare(n)' /\ Admitted(n)' /\ Healthy(n)'
  BY DEF NodeInv, Kept, ChangedIsBare, Idle, Admitted, Healthy, On
<1> QED BY <1>1, <1>2, <1>3 DEF NodeInv

\* So does a step of a running supervisor and its worker that changes none of the
\* resources, as long as it claims no more than before.
LEMMA SupervisorFrame ==
  ASSUME NEW n \in Nodes, NodeInv(n), Kept(n),
         (sup[n].run = "on" /\ sup'[n].run = "on") \/ (Up(n) /\ sup'[n] = sup[n]),
         sup'[n].result \in {sup[n].result, None},
         sup'[n].healthy => sup[n].healthy /\ sup'[n].ready /\ sup'[n].result = sup[n].result,
         WorkerSound(n)', ChangedIsBare(n)'
  PROVE  NodeInv(n)'
<1>1. OffIsClean(n)' /\ StateSound(n)' /\ OneLocal(n)'
  BY DEF NodeInv, Kept, OffIsClean, Up, StateSound, OneLocal
<1>2. FileSound(n)'
  BY DEF NodeInv, Kept, FileSound, Up
<1>3. Admitted(n)' /\ Healthy(n)'
  BY DEF NodeInv, Kept, Admitted, Healthy, On
<1> QED BY <1>1, <1>2, <1>3 DEF NodeInv

\* What confirm leaves at a node that has a result: its state, and the locals of
\* its supervisor.
Confirmed(n, p) ==
  /\ sup'[n].result = p /\ sup'[n].ready /\ sup'[n].healthy /\ last'[n] = p /\ bab'[n] = p
  /\ st'[n] = [local |-> p, peers |-> TRUE, active |-> TRUE, committed |-> TRUE]
  /\ kern'[n] = Materialized(p, TRUE)

\* With a receipt that is saved, or yet to be written, that is all it takes.
LEMMA ConfirmedNode ==
  ASSUME NEW n \in Nodes, NEW p \in Proposals, Confirmed(n, p), Up(n)', FileSound(n)',
         warm'[n] \in {p, None}, sup'[n].run = "on" => warm'[n] = p,
         WorkerSound(n)', ChangedIsBare(n)'
  PROVE  NodeInv(n)'
<1>0. p # None
  BY NoneIsNoProposal
<1>1. OffIsClean(n)' /\ StateSound(n)' /\ OneLocal(n)'
  BY <1>0 DEF Confirmed, OffIsClean, Up, StateSound, OneLocal
<1>2. Admitted(n)' /\ Healthy(n)'
  BY <1>0 DEF Confirmed, Admitted, Healthy, Materialized, On
<1> QED BY <1>1, <1>2 DEF NodeInv

\* Confirm leaves the rest of the locals it was called with.
LEMMA ConfirmsLocals ==
  ASSUME NEW n \in Nodes, NEW s \in Supervisor, TypeOK, Confirms(n, s)
  PROVE  sup'[n].changed = s.changed /\ sup'[n].result = s.result
<1>1. CASE Reconfirms(n, s)
  BY <1>1 DEF Reconfirms, TypeOK, Supervisor
<1>2. CASE ~Reconfirms(n, s)
  <2>1. sup' = [sup EXCEPT ![n] = [s EXCEPT !.healthy = TRUE, !.missed = 0, !.run = "confirm"]]
    BY <1>2 DEF Confirms
  <2> QED BY <2>1 DEF TypeOK, Supervisor
<1> QED BY <1>1, <1>2

\* The commit of confirm establishes everything it claims; the file still names
\* what it named before, which is the same unless it is stale.
LEMMA ConfirmsNode ==
  ASSUME NEW n \in Nodes, NEW s \in Supervisor, TypeOK, NodeInv(n), Confirms(n, s),
         sup[n].run = "on", s.run = "on", s.result \in Proposals, s.ready,
         s.result = sup[n].result, s.healthy = sup[n].healthy, WorkerSound(n)', ChangedIsBare(n)'
  PROVE  NodeInv(n)'
<1>0. s.result # None
  BY NoneIsNoProposal
<1>1. CASE Reconfirms(n, s)
  <2>1. Remembers(n, s.result) /\ UNCHANGED <<kern, st, bab, last>> /\ s.healthy
    BY <1>1 DEF Reconfirms
  <2>2. /\ sup'[n].run = "on" /\ sup'[n].result = s.result /\ sup'[n].ready /\ sup'[n].healthy
    BY <1>1 DEF Reconfirms, TypeOK, Supervisor
  <2>3. Confirmed(n, s.result)
    BY <2>1, <2>2 DEF Confirmed, NodeInv, Healthy
  <2>4. warm'[n] = s.result /\ (disk'[n] # None /\ n \notin stale' => disk'[n] = s.result)
    BY <2>1, RemembersFile
  <2>5. FileSound(n)' /\ Up(n)'
    BY <2>2, <2>3, <2>4 DEF FileSound, Up, Confirmed
  <2> QED BY <2>3, <2>4, <2>5, ConfirmedNode
<1>2. CASE ~Reconfirms(n, s)
  <2>1. /\ Commits(n, s.result) /\ UNCHANGED <<warm, disk, stale>>
        /\ sup' = [sup EXCEPT ![n] = [s EXCEPT !.healthy = TRUE, !.missed = 0, !.run = "confirm"]]
    BY <1>2 DEF Confirms
  <2>2. sup'[n].run = "confirm" /\ sup'[n].result = s.result /\ sup'[n].ready /\ sup'[n].healthy
    BY <2>1 DEF TypeOK, Supervisor
  <2>3. Confirmed(n, s.result)
    BY <2>1, <2>2 DEF Confirmed, Commits, TypeOK
  <2>4. warm[n] \in {s.result, None}
    BY <1>0 DEF NodeInv, OneLocal
  <2>5. disk[n] # None /\ n \notin stale => disk[n] = s.result /\ disk[n] = warm[n]
    BY <2>4 DEF NodeInv, FileSound
  <2>6. FileSound(n)' /\ Up(n)'
    BY <2>1, <2>2, <2>3, <2>5 DEF FileSound, Up, Confirmed
  <2> QED BY <2>1, <2>2, <2>3, <2>4, <2>6, ConfirmedNode
<1> QED BY <1>1, <1>2

\* A supervisor that gives up keeps what Babel admits and what was in memory.
LEMMA GivesUpNode ==
  ASSUME NEW n \in Nodes, TypeOK, NodeInv(n), Exits(n), sup[n].run = "on",
         st'[n] = Lost(st[n]), bab'[n] = bab[n],
         bab[n] # None => bab[n] \in kern'[n].addrs,
         \/ /\ warm'[n] = warm[n] /\ disk'[n] = disk[n] /\ last'[n] = last[n]
            /\ n \in stale => n \in stale'
         \/ warm'[n] = None /\ (disk'[n] # None => n \in stale')
  PROVE  NodeInv(n)'
<1>1. sup'[n] = Stopped("retry") /\ worker'[n] = NoWorker
  BY DEF Exits, TypeOK
<1>2. /\ sup'[n].run = "retry" /\ sup'[n].result = None /\ ~sup'[n].changed /\ ~sup'[n].healthy
      /\ worker'[n].at = "idle"
  BY <1>1 DEF Stopped, Fresh, NoWorker
<1>3. /\ st'[n].local = st[n].local /\ st'[n].peers = st[n].peers
      /\ st'[n].committed = st[n].committed /\ ~st'[n].active
  BY DEF Lost, TypeOK
<1>4. OffIsClean(n)' /\ WorkerSound(n)' /\ ChangedIsBare(n)' /\ Healthy(n)'
  BY <1>1, <1>2 DEF OffIsClean, Up, WorkerSound, ChangedIsBare, Healthy
<1>5. StateSound(n)' /\ OneLocal(n)'
  BY <1>2, <1>3 DEF NodeInv, StateSound, OneLocal
<1>6. FileSound(n)'
  BY <1>1, <1>2, <1>3 DEF NodeInv, FileSound
<1>7. Admitted(n)'
  BY <1>3 DEF NodeInv, Admitted
<1> QED BY <1>4, <1>5, <1>6, <1>7 DEF NodeInv

LEMMA NextNodeInv ==
  ASSUME TypeOK, \A n \in Nodes : NodeInv(n), ConnJoins, [Next]_vars, NEW n \in Nodes
  PROVE  NodeInv(n)'
<1>a. /\ sup[n] \in Supervisor /\ st[n] \in StateType /\ kern[n] \in KernelType
      /\ worker[n] \in WorkerType
  BY DEF TypeOK, StateType, KernelType, WorkerType
<1>b. NodeInv(n)
  OBVIOUS
<1> USE DEF resources
<1>1. CASE SendHello
  BY <1>1, <1>b, NodeFrame DEF SendHello, Kept
<1>2. ASSUME UNCHANGED resources, On(n), sup'[n] = [sup[n] EXCEPT !.changed = FALSE],
             worker'[n].at \in {"dial", "open"}
      PROVE  NodeInv(n)'
  <2>1. WorkerSound(n)' /\ ChangedIsBare(n)'
    BY <1>2, <1>a DEF WorkerSound, ChangedIsBare, Supervisor
  <2>2. /\ sup'[n].run = "on" /\ sup'[n].result = sup[n].result
        /\ sup'[n].healthy = sup[n].healthy /\ sup'[n].ready = sup[n].ready
    BY <1>2, <1>a DEF On, Supervisor
  <2>3. Kept(n) /\ sup[n].run = "on"
    BY <1>2 DEF Kept, On
  <2>4. sup'[n].healthy => sup[n].healthy /\ sup'[n].ready
    BY <1>b, <2>2 DEF NodeInv, Healthy
  <2> QED BY <1>b, <2>1, <2>2, <2>3, <2>4, SupervisorFrame
<1>3. CASE ReceiveHello
  <2>1. CASE Idle(Low) /\ n = Low
    BY <1>2, <1>3, <2>1, <1>a DEF ReceiveHello, StartsDial, TypeOK, WorkerType
  <2>2. CASE ~(Idle(Low) /\ n = Low)
    BY <1>3, <1>b, <2>2, NodeFrame DEF ReceiveHello, StartsDial, Kept, TypeOK
  <2> QED BY <2>1, <2>2
<1>4. CASE ReceiveAck
  <2>1. CASE n = Low
    BY <1>2, <1>4, <2>1, <1>a DEF ReceiveAck, StartsDial, TypeOK, WorkerType
  <2>2. CASE n # Low
    BY <1>4, <1>b, <2>2, NodeFrame DEF ReceiveAck, StartsDial, Kept, TypeOK
  <2> QED BY <2>1, <2>2
\* A step of the worker that installs nothing.
<1>5. ASSUME UNCHANGED resources, ~Idle(n), sup'[n] = sup[n],
             worker'[n].at \in {"install", "await", "commit"} => worker'[n].value # None,
             worker'[n].at \in {"installed", "ok"} =>
               sup[n].result = worker'[n].value /\ worker'[n].value # None
      PROVE  NodeInv(n)'
  <2>1. Up(n)
    BY <1>5, <1>b DEF NodeInv, OffIsClean, Idle, NoWorker
  <2>2. WorkerSound(n)' /\ ChangedIsBare(n)'
    BY <1>5, <1>b DEF NodeInv, WorkerSound, ChangedIsBare
  <2>3. Kept(n)
    BY <1>5 DEF Kept
  <2>4. sup'[n].healthy => sup[n].healthy /\ sup'[n].ready
    BY <1>5, <1>b DEF NodeInv, Healthy
  <2> QED BY <1>5, <1>b, <2>1, <2>2, <2>3, <2>4, SupervisorFrame
<1>6. CASE Connect
  <2>1. CASE On(High) /\ Idle(High)
    <3>0. worker'[n] = [NoWorker EXCEPT !.at = "open"]
      BY <1>6, <2>1 DEF Connect, On, Up
    <3>1. worker'[n].at = "open"
      BY <3>0 DEF NoWorker
    <3>2. CASE n = High
      BY <1>2, <1>6, <2>1, <3>1, <3>2 DEF Connect, On, Up, TypeOK
    <3>3. CASE n = Low
      <4>1. sup'[n] = sup[n] /\ ~Idle(n)
        BY <1>6, <2>1, <3>3, NodeNames DEF Connect, TypeOK, At, Idle
      <4> QED BY <1>5, <1>6, <3>1, <4>1 DEF Connect
    <3> QED BY <3>2, <3>3 DEF Nodes
  <2>2. CASE ~(On(High) /\ Idle(High))
    <3>1. CASE n = Low
      <4>1. worker'[n].at = "err" /\ ~Idle(n)
        BY <1>6, <2>2, <3>1, <1>a DEF Connect, TypeOK, At, Idle, WorkerType
      <4> QED BY <1>5, <1>6, <2>2, <4>1 DEF Connect
    <3>2. CASE n # Low
      BY <1>6, <1>b, <2>2, <3>2, NodeFrame DEF Connect, Kept, TypeOK
    <3> QED BY <3>1, <3>2
  <2> QED BY <2>1, <2>2
<1>7. CASE Negotiate
  <2>1. ~Idle(n)
    BY <1>7 DEF Negotiate, Nodes, At, Idle
  <2>2. CASE Joint # {}
    <3>1. worker'[n].at \in {"install", "await"} /\ worker'[n].value # None
      <4>1. Min(Joint) # None
        BY <2>2, JointMin, NoneIsNoProposal
      <4>2. PICK acceptor \in Nodes : worker' = [m \in Nodes |->
                   [at |-> IF m = acceptor THEN "install" ELSE "await", value |-> Min(Joint)]]
        BY <1>7, <2>2, NodeNames DEF Negotiate
      <4> QED BY <4>1, <4>2
    <3> QED BY <1>5, <1>7, <2>1, <3>1 DEF Negotiate
  <2>3. CASE Joint = {}
    <3>1. worker'[n].at = "err"
      BY <1>7, <2>3 DEF Negotiate, NoWorker
    <3> QED BY <1>5, <1>7, <2>1, <3>1 DEF Negotiate
  <2> QED BY <2>2, <2>3
<1>8. CASE Break
  BY <1>8, <1>b, NodeFrame DEF Break, Kept
<1>9. ASSUME NEW a \in Nodes, WriteAccept(a) PROVE NodeInv(n)'
  <2>1. CASE n = a
    <3>1. ~Idle(n) /\ sup[n].result = worker[n].value /\ worker[n].value # None
      BY <1>9, <1>b, <2>1 DEF WriteAccept, At, Idle, NodeInv, WorkerSound
    <3>2. worker'[n].at \in {"ok", "err"} /\ worker'[n].value = worker[n].value
      BY <1>9, <2>1, <1>a, PeerType DEF WriteAccept, TypeOK, WorkerType
    <3> QED BY <1>5, <1>9, <3>1, <3>2 DEF WriteAccept
  <2>2. CASE n # a /\ conn
    <3>0. n = Peer(a)
      BY <2>2 DEF Peer, Nodes
    <3>1. At(n, "await")
      BY <1>9, <2>2, <3>0, PeerType DEF WriteAccept, ConnJoins, At, Nodes, Peer
    <3>2. ~Idle(n) /\ worker[n].value # None
      BY <1>b, <3>1 DEF At, Idle, NodeInv, WorkerSound
    <3>3. worker'[n].at = "commit" /\ worker'[n].value = worker[n].value
      BY <1>9, <2>2, <3>0, <1>a DEF WriteAccept, TypeOK, WorkerType
    <3> QED BY <1>5, <1>9, <3>2, <3>3 DEF WriteAccept
  <2>3. CASE n # a /\ ~conn
    BY <1>9, <1>b, <2>3, NodeFrame DEF WriteAccept, Kept, TypeOK
  <2> QED BY <2>1, <2>2, <2>3
<1>10. ASSUME NEW a \in Nodes, SessionFails(a) PROVE NodeInv(n)'
  <2>1. CASE n = a
    <3>1. worker'[n].at = "err" /\ ~Idle(n)
      BY <1>10, <2>1, <1>a DEF SessionFails, TypeOK, Idle, WorkerType
    <3> QED BY <1>5, <1>10, <3>1 DEF SessionFails
  <2>2. CASE n # a
    BY <1>10, <1>b, <2>2, NodeFrame DEF SessionFails, Kept, TypeOK
  <2> QED BY <2>1, <2>2
<1>11. ASSUME NEW a \in Nodes, InstallSame(a) PROVE NodeInv(n)'
  <2>1. CASE n = a
    <3>1. /\ sup'[n].run = "on" /\ sup'[n].result = sup[n].result /\ sup'[n].ready = sup[n].ready
          /\ sup'[n].healthy = sup[n].healthy /\ sup'[n].changed = sup[n].changed
      BY <1>11, <2>1, <1>a DEF InstallSame, Requests, On, Pinged, TypeOK, Supervisor
    <3>2. sup[n].run = "on" /\ ~Idle(n) /\ worker[n].value # None /\ sup[n].result = worker[n].value
      BY <1>11, <2>1, <1>b DEF InstallSame, Requests, On, Idle, Same, NodeInv, WorkerSound
    <3>3. worker'[n].at \in {"installed", "ok"} /\ worker'[n].value = worker[n].value
      BY <1>11, <2>1, <1>a DEF InstallSame, Proceeds, TypeOK, WorkerType
    <3>4. WorkerSound(n)'
      BY <3>1, <3>2, <3>3 DEF WorkerSound
    <3>5. Kept(n)
      BY <1>11 DEF InstallSame, Kept
    <3>6. ChangedIsBare(n)'
      BY <1>b, <3>1, <3>2, <3>5 DEF ChangedIsBare, NodeInv, Kept
    <3>7. sup'[n].healthy => sup[n].healthy /\ sup'[n].ready
      BY <1>b, <3>1 DEF NodeInv, Healthy
    <3> QED BY <1>b, <3>1, <3>2, <3>4, <3>5, <3>6, <3>7, SupervisorFrame
  <2>2. CASE n # a
    BY <1>11, <1>b, <2>2, NodeFrame DEF InstallSame, Proceeds, Kept, TypeOK
  <2> QED BY <2>1, <2>2
\* What a withdrawal leaves here, and at the other node.
<1>12. ASSUME NEW a \in Nodes, NEW fails \in BOOLEAN, Withdraws(a, fails), Requests(a)
       PROVE  /\ n = a => /\ bab'[n] = None /\ warm'[n] = None
                          /\ disk'[n] # None => n \in stale'
              /\ n # a => /\ warm'[n] = warm[n] /\ disk'[n] = disk[n] /\ bab'[n] = bab[n]
                          /\ last'[n] = last[n] /\ (n \in stale') = (n \in stale)
  BY <1>12, WithdrawsFile DEF Requests, On
<1>13. ASSUME NEW a \in Nodes, InstallNew(a) PROVE NodeInv(n)'
  <2>0. PICK fails \in BOOLEAN : Withdraws(a, fails)
    BY <1>13 DEF InstallNew
  <2>1. CASE n = a
    <3>0. sup[n].run = "on" /\ ~Idle(n) /\ worker[n].value # None
      BY <1>13, <2>1, <1>b DEF InstallNew, Requests, On, Idle, NodeInv, WorkerSound
    <3>1. /\ sup'[n].run = "on" /\ sup'[n].result = worker[n].value /\ ~sup'[n].ready
          /\ ~sup'[n].healthy
      BY <1>13, <2>1, <1>a, <3>0 DEF InstallNew, Replacing, TypeOK, Supervisor
    <3>2. worker'[n].at \in {"installed", "ok"} /\ worker'[n].value = worker[n].value
      BY <1>13, <2>1, <1>a DEF InstallNew, Proceeds, TypeOK, WorkerType
    <3>3. /\ st'[n].local = worker[n].value /\ ~st'[n].peers /\ ~st'[n].active
          /\ st'[n].committed = st'[n].peers
      BY <1>13, <2>1 DEF InstallNew, NoState, TypeOK
    <3>4. /\ bab'[n] = None /\ warm'[n] = None
          /\ disk'[n] # None => n \in stale'
      BY <1>12, <1>13, <2>0, <2>1 DEF InstallNew
    <3>5. OffIsClean(n)' /\ StateSound(n)' /\ OneLocal(n)'
      BY <3>1, <3>3, <3>4 DEF OffIsClean, Up, StateSound, OneLocal
    <3>6. FileSound(n)' /\ WorkerSound(n)'
      BY <3>0, <3>1, <3>2, <3>3, <3>4 DEF FileSound, WorkerSound
    <3>7. ChangedIsBare(n)' /\ Admitted(n)' /\ Healthy(n)'
      BY <3>1, <3>4 DEF ChangedIsBare, Admitted, Healthy
    <3> QED BY <3>5, <3>6, <3>7 DEF NodeInv
  <2>2. CASE n # a
    <3>1. Kept(n) /\ sup'[n] = sup[n] /\ worker'[n] = worker[n]
      BY <1>12, <1>13, <2>0, <2>2 DEF InstallNew, Proceeds, Kept, TypeOK
    <3> QED BY <1>b, <3>1, NodeFrame
  <2> QED BY <2>1, <2>2
<1>14. ASSUME NEW a \in Nodes, InstallFails(a) PROVE NodeInv(n)'
  <2>0. PICK fails \in BOOLEAN : Withdraws(a, fails)
    BY <1>14 DEF InstallFails
  <2>1. CASE n = a
    <3>0. sup[n].run = "on" /\ ~Idle(n) /\ worker[n].value # None
      BY <1>14, <2>1, <1>b DEF InstallFails, Requests, On, Idle, NodeInv, WorkerSound
    <3>1. /\ sup'[n].run = "on" /\ sup'[n].result = sup[n].result /\ ~sup'[n].ready
          /\ ~sup'[n].healthy
      BY <1>14, <2>1, <1>a, <3>0 DEF InstallFails, Replacing, TypeOK, Supervisor
    <3>2. worker'[n].at = "err"
      BY <1>14, <2>1, <1>a DEF InstallFails, TypeOK, WorkerType
    <3>3. /\ st'[n].local = st[n].local /\ ~st'[n].peers /\ ~st'[n].active
          /\ st'[n].committed = st'[n].peers
      <4>1. CASE Adjacent(n)
        BY <1>14, <2>1, <4>1 DEF InstallFails, NoState, TypeOK
      <4>2. CASE ~Adjacent(n)
        BY <1>14, <2>1, <4>2, <1>b DEF InstallFails, Adjacent, NodeInv, StateSound
      <4> QED BY <4>1, <4>2
    <3>4. /\ bab'[n] = None /\ warm'[n] = None
          /\ disk'[n] # None => n \in stale'
      BY <1>12, <1>14, <2>0, <2>1 DEF InstallFails
    <3>5. OffIsClean(n)' /\ StateSound(n)' /\ OneLocal(n)'
      BY <1>b, <3>1, <3>3, <3>4 DEF OffIsClean, Up, StateSound, OneLocal, NodeInv
    <3>6. FileSound(n)' /\ WorkerSound(n)'
      BY <3>2, <3>3, <3>4 DEF FileSound, WorkerSound
    <3>7. ChangedIsBare(n)' /\ Admitted(n)' /\ Healthy(n)'
      BY <3>1, <3>4 DEF ChangedIsBare, Admitted, Healthy
    <3> QED BY <3>5, <3>6, <3>7 DEF NodeInv
  <2>2. CASE n # a
    <3>1. Kept(n) /\ sup'[n] = sup[n] /\ worker'[n] = worker[n]
      BY <1>12, <1>14, <2>0, <2>2 DEF InstallFails, Kept, TypeOK
    <3> QED BY <1>b, <3>1, NodeFrame
  <2> QED BY <2>1, <2>2
\* A supervisor that gives up touches only its own node.
<1>15. ASSUME NEW a \in Nodes, Exits(a), n # a PROVE
         sup'[n] = sup[n] /\ worker'[n] = worker[n]
  BY <1>15 DEF Exits, TypeOK
\* An interrupted pass towards the addresses of the state keeps them.
<1>16. ASSUME NEW b \in BOOLEAN, kern'[n] \in PartlyMaterialized(kern[n], st[n].local, b), bab[n] # None
       PROVE  bab[n] \in kern'[n].addrs
  <2>1. bab[n] \in kern[n].addrs /\ st[n].local = bab[n]
    BY <1>b, <1>16 DEF NodeInv, Admitted
  <2> QED BY <1>16, <1>a, <2>1 DEF PartlyMaterialized, Materialized, KernelType
<1>17. ASSUME NEW a \in Nodes, WithdrawFails(a) PROVE NodeInv(n)'
  <2>0. Exits(a) /\ On(a)
    BY <1>17 DEF WithdrawFails, Requests
  <2>3. PICK fails \in BOOLEAN : Forgets(a, fails)
    BY <1>17 DEF WithdrawFails
  <2>1. CASE n = a
    <3>1. sup[n].run = "on" /\ st'[n] = Lost(st[n]) /\ bab'[n] = bab[n]
      BY <1>17, <2>1 DEF WithdrawFails, Requests, On, TypeOK
    <3>2. bab[n] # None => bab[n] \in kern'[n].addrs
      BY <1>16, <1>17, <2>1 DEF WithdrawFails, TypeOK
    <3>3. warm'[n] = None /\ (disk'[n] # None => n \in stale')
      BY <1>b, <2>1, <2>3, <3>1, ForgetsFile
    <3> QED BY <1>b, <2>0, <2>1, <3>1, <3>2, <3>3, GivesUpNode
  <2>2. CASE n # a
    <3>1. Kept(n)
      <4>1. warm'[n] = warm[n] /\ disk'[n] = disk[n] /\ (n \in stale') = (n \in stale)
        BY <2>2, <2>3, ForgetsFile
      <4> QED BY <1>17, <2>2, <4>1 DEF WithdrawFails, Kept, TypeOK
    <3> QED BY <1>15, <1>b, <2>0, <2>2, <3>1, NodeFrame
  <2> QED BY <2>1, <2>2
<1>18. ASSUME NEW a \in Nodes, NEW s, n # a, Confirms(a, s), s.result \in Proposals,
              worker'[n] = worker[n]
       PROVE  NodeInv(n)'
  <2>1. Kept(n) /\ sup'[n] = sup[n]
    <3>1. CASE Reconfirms(a, s)
      <4>1. Remembers(a, s.result) /\ UNCHANGED <<kern, st, bab, last>> /\ sup'[n] = sup[n]
        BY <1>18, <3>1 DEF Reconfirms, TypeOK
      <4>2. warm'[n] = warm[n] /\ disk'[n] = disk[n] /\ (n \in stale') = (n \in stale)
        BY <1>18, <4>1, RemembersFile
      <4> QED BY <4>1, <4>2 DEF Kept
    <3>2. CASE ~Reconfirms(a, s)
      <4>1. /\ Commits(a, s.result) /\ UNCHANGED <<warm, disk, stale>> /\ sup'[n] = sup[n]
        BY <1>18, <3>2 DEF Confirms, TypeOK
      <4> QED BY <1>18, <4>1 DEF Kept, Commits, TypeOK
    <3> QED BY <3>1, <3>2
  <2> QED BY <1>18, <1>b, <2>1, NodeFrame
<1>19. ASSUME NEW a \in Nodes, NEW s, n # a, ConfirmFails(a, s), Exits(a)
       PROVE  NodeInv(n)'
  <2>1. Kept(n)
    BY <1>15, <1>19 DEF ConfirmFails, Kept, TypeOK
  <2> QED BY <1>15, <1>19, <1>b, <2>1, NodeFrame
\* A commit that fails was for the addresses of the state.
<1>20. ASSUME NEW s, sup[n].run = "on", s.result = sup[n].result, sup[n].result # None,
              ConfirmFails(n, s), Exits(n)
       PROVE  NodeInv(n)'
  <2>1. st'[n] = Lost(st[n]) /\ bab'[n] = bab[n]
    BY <1>20 DEF ConfirmFails, TypeOK
  <2>2. s.result = st[n].local
    BY <1>20, <1>b DEF NodeInv, OneLocal
  <2>3. bab[n] # None => bab[n] \in kern'[n].addrs
    BY <1>16, <1>20, <2>2 DEF ConfirmFails, TypeOK
  <2>4. warm'[n] = warm[n] /\ disk'[n] = disk[n] /\ last'[n] = last[n] /\ stale' = stale
    BY <1>20 DEF ConfirmFails
  <2> QED BY <1>b, <1>20, <2>1, <2>3, <2>4, GivesUpNode
<1>21. ASSUME NEW a \in Nodes, At(a, "ok"), On(a)
       PROVE  /\ sup[a].run = "on" /\ sup[a].result \in Proposals /\ sup[a].result # None
              /\ Established(a) \in Supervisor /\ Established(a).run = "on"
              /\ Established(a).result = sup[a].result /\ Established(a).ready
              /\ Established(a).healthy = sup[a].healthy
  <2>0. sup[a] \in Supervisor /\ worker[a] \in WorkerType /\ NodeInv(a)
    BY DEF TypeOK, WorkerType
  <2>1. sup[a].run = "on"
    BY <1>21 DEF On
  <2>2. sup[a].result \in Proposals /\ sup[a].result # None
    BY <1>21, <2>0 DEF At, NodeInv, WorkerSound, WorkerType
  <2>3. Established(a) \in Supervisor
    BY <2>0 DEF Established, Supervisor
  <2>4. /\ Established(a).run = "on" /\ Established(a).result = sup[a].result /\ Established(a).ready
        /\ Established(a).healthy = sup[a].healthy
    BY <2>0, <2>1, <2>2 DEF Established, Supervisor
  <2> QED BY <2>1, <2>2, <2>3, <2>4
<1>22. ASSUME NEW a \in Nodes, FinishedOk(a) PROVE NodeInv(n)'
  <2>1. CASE n = a
    <3>1. worker'[n] = NoWorker
      BY <1>22, <2>1 DEF FinishedOk, TypeOK
    <3>2. WorkerSound(n)' /\ ChangedIsBare(n)'
      BY <3>1 DEF WorkerSound, ChangedIsBare, Idle, NoWorker
    <3>3. Confirms(n, Established(n)) /\ At(n, "ok") /\ On(n)
      BY <1>22, <2>1 DEF FinishedOk
    <3> QED BY <1>21, <1>b, <3>2, <3>3, ConfirmsNode
  <2>2. CASE n # a
    BY <1>18, <1>21, <1>22, <2>2 DEF FinishedOk, TypeOK
  <2> QED BY <2>1, <2>2
<1>23. ASSUME NEW a \in Nodes, FinishedCommitFails(a) PROVE NodeInv(n)'
  <2>1. CASE n = a
    <3>1. ConfirmFails(n, Established(n)) /\ Exits(n) /\ At(n, "ok") /\ On(n)
      BY <1>23, <2>1 DEF FinishedCommitFails
    <3> QED BY <1>20, <1>21, <3>1
  <2>2. CASE n # a
    BY <1>19, <1>23, <2>2 DEF FinishedCommitFails
  <2> QED BY <2>1, <2>2
<1>24. ASSUME NEW a \in Nodes, FinishedErr(a) PROVE NodeInv(n)'
  <2>1. CASE n = a
    <3>1. /\ sup[n].run = "on" /\ sup'[n].run = "on" /\ sup'[n].result \in {sup[n].result, None}
          /\ sup'[n].healthy = sup[n].healthy
          /\ ~sup[n].changed => sup'[n] = sup[n]
      BY <1>24, <2>1, <1>a DEF FinishedErr, On, TypeOK, Supervisor
    <3>2. worker'[n] = NoWorker
      BY <1>24, <2>1 DEF FinishedErr, TypeOK
    <3>3. WorkerSound(n)' /\ ChangedIsBare(n)'
      BY <3>2 DEF WorkerSound, ChangedIsBare, Idle, NoWorker
    <3>4. Kept(n)
      BY <1>24 DEF FinishedErr, Kept
    <3>5. sup[n].changed => ~sup[n].healthy
      BY <1>24, <2>1, <1>b DEF FinishedErr, At, Idle, NodeInv, ChangedIsBare
    <3>6. sup'[n].healthy => sup[n].healthy /\ sup'[n].ready /\ sup'[n].result = sup[n].result
      BY <1>b, <3>1, <3>5 DEF NodeInv, Healthy
    <3> QED BY <1>b, <3>1, <3>3, <3>4, <3>6, SupervisorFrame
  <2>2. CASE n # a
    <3>1. Kept(n) /\ sup'[n] = sup[n] /\ worker'[n] = worker[n]
      BY <1>24, <2>2 DEF FinishedErr, Kept, TypeOK
    <3> QED BY <1>b, <3>1, NodeFrame
  <2> QED BY <2>1, <2>2
\* What Pinged leaves as it is.
<1>25. ASSUME NEW s \in Supervisor
       PROVE  /\ Pinged(s).run = s.run /\ Pinged(s).result = s.result /\ Pinged(s).ready = s.ready
              /\ Pinged(s).healthy = s.healthy /\ Pinged(s).changed = s.changed
  BY DEF Pinged, Supervisor
<1>26. ASSUME NEW a \in Nodes, Tick(a) PROVE NodeInv(n)'
  <2>1. CASE n = a /\ Overdue(a)
    <3>0. /\ sup' = [sup EXCEPT ![n] = Pinged([sup[n] EXCEPT !.healthy = FALSE, !.missed = 0])]
          /\ st'[n] = Lost(st[n]) /\ On(n)
          /\ UNCHANGED <<kern, bab, warm, disk, last, stale, worker>>
      BY <1>26, <2>1 DEF Tick, Expired, Answers, TypeOK
    <3>1. [sup[n] EXCEPT !.healthy = FALSE, !.missed = 0] \in Supervisor
      <4>1. 0 \in 0 .. MissedPings - 1
        BY DEF MissedPings
      <4> QED BY <1>a, <4>1 DEF Supervisor
    <3>2. /\ sup'[n].run = "on" /\ sup'[n].result = sup[n].result /\ sup'[n].ready = sup[n].ready
          /\ ~sup'[n].healthy /\ sup'[n].changed = sup[n].changed
      BY <1>25, <1>a, <3>0, <3>1 DEF On, TypeOK, Supervisor
    <3>3. /\ st'[n].local = st[n].local /\ st'[n].peers = st[n].peers
          /\ st'[n].committed = st[n].committed /\ ~st'[n].active
      BY <3>0, <1>a DEF Lost, StateType
    <3>4. OffIsClean(n)' /\ StateSound(n)' /\ OneLocal(n)'
      BY <1>b, <3>0, <3>2, <3>3 DEF OffIsClean, Up, StateSound, OneLocal, NodeInv
    <3>5. FileSound(n)' /\ WorkerSound(n)'
      BY <1>b, <3>0, <3>2, <3>3 DEF FileSound, WorkerSound, NodeInv, On
    <3>6. ChangedIsBare(n)' /\ Admitted(n)' /\ Healthy(n)'
      BY <1>b, <3>0, <3>2, <3>3 DEF ChangedIsBare, Admitted, Healthy, NodeInv, Idle
    <3> QED BY <3>4, <3>5, <3>6 DEF NodeInv
  <2>2. CASE n = a /\ ~Overdue(a)
    <3> DEFINE next == [sup[n] EXCEPT !.missed = IF sup[n].healthy THEN sup[n].missed + 1 ELSE 0]
    <3>0. sup' = [sup EXCEPT ![n] = Pinged(next)] /\ On(n) /\ UNCHANGED <<resources, worker>>
      BY <1>26, <2>2 DEF Tick, Answers
    <3>1. next \in Supervisor
      <4>1. 0 \in 0 .. MissedPings - 1
        BY DEF MissedPings
      <4>2. sup[n].healthy => sup[n].missed + 1 \in 0 .. MissedPings - 1
        BY <1>a, <2>2 DEF Overdue, Supervisor, MissedPings
      <4> QED BY <1>a, <4>1, <4>2 DEF Supervisor
    <3>2. /\ next.run = sup[n].run /\ next.result = sup[n].result /\ next.ready = sup[n].ready
          /\ next.healthy = sup[n].healthy /\ next.changed = sup[n].changed
      BY <1>a DEF Supervisor
    <3> HIDE DEF next
    <3>3. /\ sup'[n].run = "on" /\ sup'[n].result = sup[n].result /\ sup'[n].ready = sup[n].ready
          /\ sup'[n].healthy = sup[n].healthy /\ sup'[n].changed = sup[n].changed
      BY <1>25, <3>0, <3>1, <3>2 DEF On, TypeOK
    <3>4. Kept(n)
      BY <3>0 DEF Kept
    <3>5. WorkerSound(n)' /\ ChangedIsBare(n)'
      BY <1>b, <3>0, <3>3 DEF WorkerSound, ChangedIsBare, NodeInv, Idle
    <3>6. sup'[n].healthy => sup[n].healthy /\ sup'[n].ready
      BY <1>b, <3>3 DEF NodeInv, Healthy
    <3> QED BY <1>b, <3>0, <3>3, <3>4, <3>5, <3>6, SupervisorFrame DEF On
  <2>3. CASE n # a
    <3>1. Kept(n) /\ sup'[n] = sup[n] /\ worker'[n] = worker[n]
      BY <1>26, <2>3 DEF Tick, Expired, Kept, TypeOK
    <3> QED BY <1>b, <3>1, NodeFrame
  <2> QED BY <2>1, <2>2, <2>3
<1>27. ASSUME NEW a \in Nodes, AnswerPing(a) PROVE NodeInv(n)'
  <2>1. CASE n = a
    <3>1. /\ sup'[n].run = sup[n].run /\ sup'[n].result = sup[n].result /\ sup'[n].ready = sup[n].ready
          /\ sup'[n].healthy = sup[n].healthy /\ sup'[n].changed = sup[n].changed
      BY <1>27, <2>1, <1>a DEF AnswerPing, TypeOK, Supervisor
    <3>2. sup[n].run = "on"
      BY <1>27, <2>1 DEF AnswerPing, On
    <3>3. Kept(n)
      BY <1>27 DEF AnswerPing, Kept
    <3>4. WorkerSound(n)' /\ ChangedIsBare(n)'
      BY <1>b, <1>27, <3>1 DEF AnswerPing, WorkerSound, ChangedIsBare, NodeInv, Idle
    <3>5. sup'[n].healthy => sup[n].healthy /\ sup'[n].ready
      BY <1>b, <3>1 DEF NodeInv, Healthy
    <3> QED BY <1>b, <3>1, <3>2, <3>3, <3>4, <3>5, SupervisorFrame
  <2>2. CASE n # a
    <3>1. Kept(n) /\ sup'[n] = sup[n] /\ worker'[n] = worker[n]
      BY <1>27, <2>2 DEF AnswerPing, Kept, TypeOK
    <3> QED BY <1>b, <3>1, NodeFrame
  <2> QED BY <2>1, <2>2
<1>28. ASSUME NEW a \in Nodes, Pong(a)
       PROVE  /\ sup[a].run = "on" /\ sup[a].result \in Proposals /\ sup[a].result # None /\ sup[a].ready
              /\ Ponged(a) \in Supervisor /\ Ponged(a).run = "on" /\ Ponged(a).result = sup[a].result
              /\ Ponged(a).ready /\ Ponged(a).healthy = sup[a].healthy
              /\ Ponged(a).changed = sup[a].changed
  <2>1. sup[a] \in Supervisor
    BY DEF TypeOK
  <2> QED BY <1>28, <2>1 DEF Pong, Answers, Linked, On, Ponged, Supervisor
<1>29. ASSUME NEW a \in Nodes, ReceivePong(a) PROVE NodeInv(n)'
  <2>1. CASE n = a
    <3>1. Confirms(n, Ponged(n)) /\ Pong(n) /\ worker' = worker
      BY <1>29, <2>1 DEF ReceivePong
    <3>2. sup'[n].changed = sup[n].changed /\ sup'[n].result = sup[n].result
      BY <1>28, <3>1, ConfirmsLocals
    <3>3. WorkerSound(n)'
      BY <1>b, <3>1, <3>2 DEF NodeInv, WorkerSound
    <3>4. ChangedIsBare(n)'
      BY <1>28, <1>b, <3>1, <3>2 DEF NodeInv, ChangedIsBare, Idle
    <3> QED BY <1>28, <1>b, <3>1, <3>3, <3>4, ConfirmsNode
  <2>2. CASE n # a
    BY <1>18, <1>28, <1>29, <2>2 DEF ReceivePong
  <2> QED BY <2>1, <2>2
<1>30. ASSUME NEW a \in Nodes, PongCommitFails(a) PROVE NodeInv(n)'
  <2>1. CASE n = a
    <3>1. ConfirmFails(n, Ponged(n)) /\ Exits(n) /\ Pong(n)
      BY <1>30, <2>1 DEF PongCommitFails
    <3> QED BY <1>20, <1>28, <3>1
  <2>2. CASE n # a
    BY <1>19, <1>30, <2>2 DEF PongCommitFails
  <2> QED BY <2>1, <2>2
\* A supervisor that starts claims no more than its receipt.
<1>31. ASSUME NEW p, sup'[n] = Started(p)
       PROVE  /\ sup'[n].run = "on" /\ sup'[n].result = p /\ ~sup'[n].changed /\ ~sup'[n].healthy
  BY <1>31 DEF Started, Fresh, None
<1>32. ASSUME NEW a \in Nodes, Retry(a) PROVE NodeInv(n)'
  <2>1. CASE n = a
    <3>1. sup'[n] = Started(warm[n]) /\ worker[n] = NoWorker /\ sup[n].run = "retry"
      BY <1>32, <2>1, <1>b DEF Retry, NodeInv, OffIsClean, Up, TypeOK
    <3>2. /\ sup'[n].run = "on" /\ sup'[n].result = warm[n] /\ ~sup'[n].changed /\ ~sup'[n].healthy
      BY <1>31, <3>1
    <3>3. Kept(n) /\ UNCHANGED worker
      BY <1>32 DEF Retry, Kept
    <3>4. OffIsClean(n)' /\ StateSound(n)' /\ OneLocal(n)'
      BY <1>b, <3>2, <3>3 DEF OffIsClean, Up, StateSound, OneLocal, NodeInv, Kept
    <3>5. FileSound(n)' /\ WorkerSound(n)'
      BY <1>b, <3>1, <3>2, <3>3 DEF FileSound, WorkerSound, NodeInv, Kept, NoWorker
    <3>6. ChangedIsBare(n)' /\ Admitted(n)' /\ Healthy(n)'
      BY <1>b, <3>2, <3>3 DEF ChangedIsBare, Admitted, Healthy, NodeInv, Kept
    <3> QED BY <3>4, <3>5, <3>6 DEF NodeInv
  <2>2. CASE n # a
    <3>1. Kept(n) /\ sup'[n] = sup[n] /\ worker'[n] = worker[n]
      BY <1>32, <2>2 DEF Retry, Kept, TypeOK
    <3> QED BY <1>b, <3>1, NodeFrame
  <2> QED BY <2>1, <2>2
<1>33. ASSUME NEW a \in Nodes, Maintain(a) PROVE NodeInv(n)'
  <2>1. CASE n = a
    <3>1. /\ kern'[n] = Materialized(st[n].local, st[n].peers)
          /\ UNCHANGED <<sup, st, bab, warm, disk, worker, last, stale>>
      BY <1>33, <2>1 DEF Maintain, TypeOK
    <3>2. OffIsClean(n)' /\ StateSound(n)' /\ OneLocal(n)' /\ FileSound(n)' /\ WorkerSound(n)'
          /\ ChangedIsBare(n)'
      BY <1>b, <3>1 DEF OffIsClean, Up, StateSound, OneLocal, FileSound, WorkerSound, ChangedIsBare, Idle, NodeInv
    <3>3. Admitted(n)'
      BY <1>b, <3>1 DEF Admitted, Materialized, NodeInv
    <3>4. Healthy(n)'
      <4>1. sup[n].healthy => st[n].local = sup[n].result /\ st[n].peers = TRUE
        BY <1>b DEF Healthy, NodeInv
      <4> QED BY <1>b, <3>1, <4>1 DEF Healthy, On, NodeInv
    <3> QED BY <3>2, <3>3, <3>4 DEF NodeInv
  <2>2. CASE n # a
    <3>1. Kept(n) /\ sup'[n] = sup[n] /\ worker'[n] = worker[n]
      BY <1>33, <2>2 DEF Maintain, Kept, TypeOK
    <3> QED BY <1>b, <3>1, NodeFrame
  <2> QED BY <2>1, <2>2
<1>34. ASSUME NEW a \in Nodes, Crash(a) PROVE NodeInv(n)'
  <2>0. stale' = stale
    BY <1>34 DEF Crash
  <2>1. CASE n = a
    <3>1. /\ sup'[n] = Stopped("dead") /\ worker'[n] = NoWorker /\ st'[n] = NoState
          /\ bab'[n] = None /\ warm'[n] = None /\ disk'[n] = disk[n] /\ last'[n] = last[n]
      BY <1>34, <2>1 DEF Crash, TypeOK
    <3>2. /\ sup'[n].run = "dead" /\ sup'[n].result = None /\ ~sup'[n].changed /\ ~sup'[n].healthy
      BY <3>1 DEF Stopped, Fresh
    <3>3. OffIsClean(n)' /\ StateSound(n)' /\ OneLocal(n)'
      BY <3>1, <3>2 DEF OffIsClean, Up, StateSound, OneLocal, NoState
    <3>4. FileSound(n)' /\ WorkerSound(n)'
      BY <1>b, <2>0, <3>1, <3>2 DEF FileSound, WorkerSound, NodeInv, NoWorker, NoState
    <3>5. ChangedIsBare(n)' /\ Admitted(n)' /\ Healthy(n)'
      BY <3>1, <3>2 DEF ChangedIsBare, Admitted, Healthy
    <3> QED BY <3>3, <3>4, <3>5 DEF NodeInv
  <2>2. CASE n # a
    <3>1. Kept(n) /\ sup'[n] = sup[n] /\ worker'[n] = worker[n]
      BY <1>34, <2>0, <2>2 DEF Crash, Kept, TypeOK
    <3> QED BY <1>b, <3>1, NodeFrame
  <2> QED BY <2>1, <2>2
<1>35. ASSUME NEW a \in Nodes, Adopt(a) PROVE NodeInv(n)'
  <2>0. stale' = stale \ {a}
    BY <1>35 DEF Adopt
  <2>1. CASE n = a
    <3>0. disk[n] # None /\ worker[n] = NoWorker
      BY <1>35, <2>1, <1>b DEF Adopt, CanAdopt, NodeInv, OffIsClean, Up
    <3>1. /\ sup'[n] = Started(disk[n]) /\ worker' = worker /\ disk' = disk /\ last'[n] = disk[n]
          /\ st'[n] = [local |-> disk[n], peers |-> TRUE, active |-> FALSE, committed |-> TRUE]
          /\ bab'[n] = disk[n] /\ warm'[n] = disk[n] /\ kern'[n] = Materialized(disk[n], TRUE)
      BY <1>35, <2>1 DEF Adopt, TypeOK
    <3>2. /\ sup'[n].run = "on" /\ sup'[n].result = disk[n] /\ ~sup'[n].changed /\ ~sup'[n].healthy
      BY <1>31, <3>1
    <3>3. OffIsClean(n)' /\ StateSound(n)' /\ OneLocal(n)'
      BY <3>0, <3>1, <3>2 DEF OffIsClean, Up, StateSound, OneLocal
    <3>4. FileSound(n)' /\ WorkerSound(n)'
      BY <3>0, <3>1, <3>2 DEF FileSound, WorkerSound, NoWorker
    <3>5. ChangedIsBare(n)' /\ Admitted(n)' /\ Healthy(n)'
      BY <3>1, <3>2 DEF ChangedIsBare, Admitted, Healthy, Materialized
    <3> QED BY <3>3, <3>4, <3>5 DEF NodeInv
  <2>2. CASE n # a
    <3>1. Kept(n) /\ sup'[n] = sup[n] /\ worker'[n] = worker[n]
      BY <1>35, <2>0, <2>2 DEF Adopt, Kept, TypeOK
    <3> QED BY <1>b, <3>1, NodeFrame
  <2> QED BY <2>1, <2>2
<1>36. ASSUME NEW a \in Nodes, StartCold(a) PROVE NodeInv(n)'
  <2>0. /\ stale \subseteq stale'
        /\ disk[a] # None => a \in stale'
    BY <1>36 DEF StartCold
  <2>1. CASE n = a
    <3>0. st[n] = NoState /\ bab[n] = None /\ warm[n] = None /\ worker[n] = NoWorker
      BY <1>36, <2>1, <1>b DEF StartCold, NodeInv, OffIsClean, Up
    <3>1. /\ sup'[n] = Fresh /\ st'[n] = NoState /\ bab'[n] = None /\ warm'[n] = None
          /\ worker'[n] = NoWorker /\ disk' = disk /\ last' = last
      BY <1>36, <2>1, <3>0 DEF StartCold, TypeOK
    <3>2. /\ sup'[n].run = "on" /\ sup'[n].result = None /\ ~sup'[n].changed /\ ~sup'[n].healthy
      BY <3>1 DEF Fresh
    <3>3. OffIsClean(n)' /\ StateSound(n)' /\ OneLocal(n)'
      BY <3>1, <3>2 DEF OffIsClean, Up, StateSound, OneLocal, NoState
    <3>4. FileSound(n)' /\ WorkerSound(n)'
      BY <1>b, <2>0, <2>1, <3>1, <3>2 DEF FileSound, WorkerSound, NodeInv, NoWorker, NoState
    <3>5. ChangedIsBare(n)' /\ Admitted(n)' /\ Healthy(n)'
      BY <3>1, <3>2 DEF ChangedIsBare, Admitted, Healthy
    <3> QED BY <3>3, <3>4, <3>5 DEF NodeInv
  <2>2. CASE n # a
    <3>1. Kept(n) /\ sup'[n] = sup[n] /\ worker'[n] = worker[n]
      BY <1>36, <2>0, <2>2 DEF StartCold, Kept, TypeOK
    <3> QED BY <1>b, <3>1, NodeFrame
  <2> QED BY <2>1, <2>2
<1>37. ASSUME NEW a \in Nodes, ChangeAvailable(a) PROVE NodeInv(n)'
  BY <1>37, <1>b, NodeFrame DEF ChangeAvailable, Kept
<1>38. CASE UNCHANGED vars
  BY <1>38, <1>b, NodeFrame DEF vars, Kept
<1>39. ASSUME NEW a \in Nodes, Remember(a) PROVE NodeInv(n)'
  <2>0. sup[a].healthy /\ sup[a].result \in Proposals /\ sup[a] \in Supervisor
    <3>1. NodeInv(a) /\ sup[a] \in Supervisor
      BY DEF TypeOK
    <3> QED BY <1>39, <3>1 DEF Remember, NodeInv, OffIsClean, Healthy, Supervisor
  <2>1. Remembers(a, sup[a].result) /\ UNCHANGED <<kern, st, bab, last, worker>>
    BY <1>39 DEF Remember
  <2>2. CASE n = a
    <3>1. /\ sup'[n].run = "on" /\ sup'[n].result = sup[n].result /\ sup'[n].ready = sup[n].ready
          /\ sup'[n].healthy /\ sup'[n].changed = sup[n].changed
      BY <1>39, <2>0, <2>2 DEF Remember, TypeOK, Supervisor
    <3>2. Confirmed(n, sup[n].result)
      BY <1>b, <2>0, <2>1, <2>2, <3>1 DEF Confirmed, NodeInv, Healthy
    <3>3. /\ warm'[n] = sup[n].result
          /\ disk'[n] # None /\ n \notin stale' => disk'[n] = sup[n].result
      BY <2>0, <2>1, <2>2, RemembersFile
    <3>4. FileSound(n)' /\ Up(n)'
      BY <3>1, <3>2, <3>3 DEF FileSound, Up, Confirmed
    <3>5. WorkerSound(n)' /\ ChangedIsBare(n)'
      BY <1>b, <2>0, <2>1, <2>2, <3>1 DEF WorkerSound, ChangedIsBare, NodeInv, Idle
    <3> QED BY <2>0, <2>2, <3>2, <3>3, <3>4, <3>5, ConfirmedNode
  <2>3. CASE n # a
    <3>1. warm'[n] = warm[n] /\ disk'[n] = disk[n] /\ (n \in stale') = (n \in stale)
      BY <2>0, <2>1, <2>3, RemembersFile
    <3>2. Kept(n) /\ sup'[n] = sup[n] /\ worker'[n] = worker[n]
      BY <1>39, <2>1, <2>3, <3>1 DEF Remember, Kept, TypeOK
    <3> QED BY <1>b, <3>2, NodeFrame
  <2> QED BY <2>2, <2>3
<1> QED BY <1>1, <1>3, <1>4, <1>6, <1>7, <1>8, <1>9, <1>10, <1>11, <1>13, <1>14, <1>17, <1>22, <1>23, <1>24,
           <1>26, <1>27, <1>29, <1>30, <1>32, <1>33, <1>34, <1>35, <1>36, <1>37, <1>38, <1>39 DEF Next

-----------------------------------------------------------------------------
(***************************************************************************)
(* The two workers of a session.                                           *)
(***************************************************************************)
\* Past its session a worker only ends, or dials anew.
Over == {"ok", "idle", "dial", "err"}

LEMMA OtherNode == \A m, n \in Nodes : m # n => m = Peer(n) /\ n = Peer(m)
BY DEF Nodes, Peer

LEMMA NextSession ==
  ASSUME TypeOK, \A n \in Nodes : NodeInv(n), ConnJoins, CommitIsLast, [Next]_vars
  PROVE  ConnJoins' /\ CommitIsLast'
<1>a. \A n \in Nodes : worker[n] \in WorkerType
  BY DEF TypeOK, WorkerType
<1>b. \A n \in Nodes : conn => worker[n].at \in {"open", "await", "install", "installed"}
  BY OtherNode DEF ConnJoins, At, Nodes, Peer
<1>1. ASSUME UNCHANGED worker, conn' => conn PROVE ConnJoins' /\ CommitIsLast'
  BY <1>1 DEF ConnJoins, CommitIsLast, At
\* A worker whose session is over, or fails, steps.
<1>2. ASSUME NEW a \in Nodes, NEW w, worker' = [worker EXCEPT ![a] = w], w.at \in Over, ~conn'
      PROVE  ConnJoins' /\ CommitIsLast'
  <2>1. ConnJoins'
    BY <1>2 DEF ConnJoins
  <2>2. \A n \in Nodes : worker'[n].at = "commit" => n # a /\ worker'[n] = worker[n]
    BY <1>2 DEF Over, TypeOK
  <2>3. ASSUME NEW n \in Nodes, worker'[n].at = "commit" PROVE worker'[Peer(n)].at \in Over
    <3>1. worker[Peer(n)].at \in Over
      BY <2>2, <2>3 DEF CommitIsLast, At, Over
    <3>2. Peer(n) = a
      BY <2>2, <2>3, OtherNode
    <3> QED BY <1>2, <3>1, <3>2 DEF TypeOK
  <2> QED BY <2>1, <2>3 DEF CommitIsLast, At, Over
<1>3. CASE SendHello
  BY <1>1, <1>3 DEF SendHello
<1>4. ASSUME Idle(Low), StartsDial, UNCHANGED conn PROVE ConnJoins' /\ CommitIsLast'
  <2>1. ~conn'
    BY <1>4, <1>b, NodeNames DEF Idle
  <2>2. [worker[Low] EXCEPT !.at = "dial"].at \in Over
    BY <1>a, NodeNames DEF Over, WorkerType
  <2> QED BY <1>2, <1>4, <2>1, <2>2, NodeNames DEF StartsDial
<1>5. CASE ReceiveHello
  BY <1>1, <1>4, <1>5 DEF ReceiveHello
<1>6. CASE ReceiveAck
  BY <1>4, <1>6 DEF ReceiveAck
<1>7. CASE Connect
  <2>1. CASE On(High) /\ Idle(High)
    <3>1. \A n \in Nodes : worker'[n].at = "open"
      BY <1>7, <2>1 DEF Connect, On, Up, NoWorker
    <3> QED BY <3>1, NodeNames DEF ConnJoins, CommitIsLast, At
  <2>2. CASE ~(On(High) /\ Idle(High))
    <3>1. ~conn'
      BY <1>7, <1>b, <2>2, NodeNames DEF Connect, At
    <3>2. [worker[Low] EXCEPT !.at = "err"].at \in Over
      BY <1>a, NodeNames DEF Over, WorkerType
    <3> QED BY <1>2, <1>7, <2>2, <3>1, <3>2, NodeNames DEF Connect
  <2> QED BY <2>1, <2>2
<1>8. CASE Negotiate
  <2>1. CASE Joint # {}
    <3>1. PICK acceptor \in Nodes : worker' = [m \in Nodes |->
                 [at |-> IF m = acceptor THEN "install" ELSE "await", value |-> Min(Joint)]]
      BY <1>8, <2>1, NodeNames DEF Negotiate
    <3>2. ConnJoins'
      BY <3>1, PeerType DEF ConnJoins, At
    <3>3. CommitIsLast'
      BY <3>1 DEF CommitIsLast, At
    <3> QED BY <3>2, <3>3
  <2>2. CASE Joint = {}
    <3>1. \A n \in Nodes : worker'[n].at = "err"
      BY <1>8, <2>2 DEF Negotiate, NoWorker
    <3>2. ~conn'
      BY <1>8, <2>2 DEF Negotiate
    <3> QED BY <3>1, <3>2 DEF ConnJoins, CommitIsLast, At
  <2> QED BY <2>1, <2>2
<1>9. CASE Break
  BY <1>1, <1>9 DEF Break
<1>10. ASSUME NEW a \in Nodes, WriteAccept(a) PROVE ConnJoins' /\ CommitIsLast'
  <2>1. CASE conn
    <3>1. worker'[a].at = "ok" /\ worker'[Peer(a)].at = "commit" /\ ~conn'
      BY <1>10, <1>a, <2>1, PeerType DEF WriteAccept, TypeOK, WorkerType
    <3>2. \A n \in Nodes : n = a \/ n = Peer(a)
      BY OtherNode
    <3> QED BY <3>1, <3>2, PeerType DEF ConnJoins, CommitIsLast, At
  <2>2. CASE ~conn
    <3>1. /\ [worker[a] EXCEPT !.at = "ok"].at \in Over
          /\ [worker[a] EXCEPT !.at = "err"].at \in Over
      BY <1>a DEF Over, WorkerType
    <3>2. \/ worker' = [worker EXCEPT ![a] = [worker[a] EXCEPT !.at = "ok"]]
          \/ worker' = [worker EXCEPT ![a] = [worker[a] EXCEPT !.at = "err"]]
      BY <1>10, <2>2 DEF WriteAccept
    <3>3. ~conn'
      BY <1>10, <2>2 DEF WriteAccept
    <3>4. PICK w : worker' = [worker EXCEPT ![a] = w] /\ w.at \in Over
      BY <3>1, <3>2
    <3> QED BY <1>2, <3>3, <3>4
  <2> QED BY <2>1, <2>2
<1>11. ASSUME NEW a \in Nodes, SessionFails(a) PROVE ConnJoins' /\ CommitIsLast'
  <2>1. [worker[a] EXCEPT !.at = "err"].at \in Over
    BY <1>a DEF Over, WorkerType
  <2> QED BY <1>2, <1>11, <2>1 DEF SessionFails
<1>12. ASSUME NEW a \in Nodes, Requests(a), Proceeds(a), UNCHANGED conn
       PROVE  ConnJoins' /\ CommitIsLast'
  <2>1. CASE At(a, "install")
    <3>1. /\ worker'[a].at = "installed" /\ worker'[a].value = worker[a].value
          /\ worker'[Peer(a)] = worker[Peer(a)]
      BY <1>12, <1>a, <2>1, PeerType DEF Proceeds, At, TypeOK, WorkerType
    <3>2. \A n \in Nodes : n = a \/ n = Peer(a)
      BY OtherNode
    <3>3. worker[Peer(a)].at # "commit"
      BY <2>1, PeerType DEF CommitIsLast, At
    <3>4. CommitIsLast'
      BY <3>1, <3>2, <3>3 DEF CommitIsLast, At
    <3>5. conn => At(Peer(a), "await") /\ worker[Peer(a)].value = worker[a].value
      BY <2>1, <3>2, PeerType, NodeNames DEF ConnJoins, At
    <3>6. ConnJoins'
      BY <1>12, <3>1, <3>5 DEF ConnJoins, At
    <3> QED BY <3>4, <3>6
  <2>2. CASE At(a, "commit")
    <3>1. [worker[a] EXCEPT !.at = "ok"].at \in Over
      BY <1>a DEF Over, WorkerType
    <3>2. ~conn'
      BY <1>12, <1>b, <2>2 DEF At
    <3>3. worker' = [worker EXCEPT ![a] = [worker[a] EXCEPT !.at = "ok"]]
      BY <1>12, <2>2 DEF Proceeds, At
    <3> QED BY <1>2, <3>1, <3>2, <3>3
  <2> QED BY <1>12, <2>1, <2>2 DEF Requests, At
<1>13. ASSUME NEW a \in Nodes, InstallSame(a) PROVE ConnJoins' /\ CommitIsLast'
  BY <1>12, <1>13 DEF InstallSame
<1>14. ASSUME NEW a \in Nodes, InstallNew(a) PROVE ConnJoins' /\ CommitIsLast'
  BY <1>12, <1>14 DEF InstallNew
<1>15. ASSUME NEW a \in Nodes, InstallFails(a) PROVE ConnJoins' /\ CommitIsLast'
  <2>1. [worker[a] EXCEPT !.at = "err"].at \in Over
    BY <1>a DEF Over, WorkerType
  <2> QED BY <1>2, <1>15, <2>1 DEF InstallFails
<1>16. NoWorker.at \in Over
  BY DEF NoWorker, Over
<1>17. ASSUME NEW a \in Nodes, Exits(a) PROVE ConnJoins' /\ CommitIsLast'
  BY <1>2, <1>16, <1>17 DEF Exits
<1>18. ASSUME NEW a \in Nodes, FinishedOk(a) \/ FinishedErr(a) PROVE ConnJoins' /\ CommitIsLast'
  <2>1. ~conn' /\ worker' = [worker EXCEPT ![a] = NoWorker]
    BY <1>18, <1>b DEF FinishedOk, FinishedErr, At
  <2> QED BY <1>2, <1>16, <2>1
<1>19. ASSUME NEW a \in Nodes, Tick(a) \/ AnswerPing(a) \/ ReceivePong(a) \/ Remember(a) \/ Retry(a)
              \/ Maintain(a) \/ Adopt(a) \/ StartCold(a) \/ ChangeAvailable(a)
       PROVE  ConnJoins' /\ CommitIsLast'
  BY <1>1, <1>19 DEF Tick, AnswerPing, ReceivePong, Remember, Retry, Maintain, Adopt, StartCold, ChangeAvailable
<1>20. ASSUME NEW a \in Nodes, Crash(a) PROVE ConnJoins' /\ CommitIsLast'
  BY <1>2, <1>16, <1>20 DEF Crash
<1>21. ASSUME NEW a \in Nodes, WithdrawFails(a) \/ FinishedCommitFails(a) \/ PongCommitFails(a)
       PROVE  ConnJoins' /\ CommitIsLast'
  BY <1>17, <1>21 DEF WithdrawFails, FinishedCommitFails, PongCommitFails
<1>22. CASE UNCHANGED vars
  BY <1>1, <1>22 DEF vars
<1> QED BY <1>3, <1>5, <1>6, <1>7, <1>8, <1>9, <1>10, <1>11, <1>13, <1>14, <1>15, <1>18, <1>19, <1>20, <1>21,
           <1>22 DEF Next

-----------------------------------------------------------------------------
(***************************************************************************)
(* The addresses of the two sides.                                         *)
(***************************************************************************)
\* Most steps take nothing up at a node: what it could become healthy on stays or
\* goes, no commit begins, and a node that settles has nothing left.
Wanes(n) ==
  /\ Basis(n)' \in {Basis(n), None}
  /\ At(n, "commit")' => At(n, "commit") /\ worker'[n].value = worker[n].value
  /\ Unsettled(n) /\ ~Unsettled(n)' => Basis(n)' = None

LEMMA SidesWane ==
  ASSUME SidesAgree, torn => torn', ~torn' => \A n \in Nodes : Wanes(n)
  PROVE  SidesAgree'
<1> SUFFICES ASSUME ~torn' PROVE
      /\ \A n \in Nodes : At(n, "commit")' => Basis(Peer(n))' \in {None, worker'[n].value}
      /\ (\A n \in Nodes : ~Unsettled(n)') =>
           Basis(Low)' = None \/ Basis(High)' = None \/ Basis(Low)' = Basis(High)'
  BY DEF SidesAgree
<1>0. ~torn /\ \A n \in Nodes : Wanes(n)
  OBVIOUS
<1>1. ASSUME NEW n \in Nodes, At(n, "commit")' PROVE Basis(Peer(n))' \in {None, worker'[n].value}
  <2>1. At(n, "commit") /\ worker'[n].value = worker[n].value
    BY <1>0, <1>1 DEF Wanes
  <2>2. Basis(Peer(n)) \in {None, worker[n].value}
    BY <1>0, <2>1 DEF SidesAgree
  <2>3. Basis(Peer(n))' \in {Basis(Peer(n)), None}
    BY <1>0, PeerType DEF Wanes
  <2> QED BY <2>1, <2>2, <2>3
<1>2. ASSUME \A n \in Nodes : ~Unsettled(n)'
      PROVE  Basis(Low)' = None \/ Basis(High)' = None \/ Basis(Low)' = Basis(High)'
  <2>1. CASE \A n \in Nodes : ~Unsettled(n)
    <3>1. Basis(Low) = None \/ Basis(High) = None \/ Basis(Low) = Basis(High)
      BY <1>0, <2>1 DEF SidesAgree
    <3>2. Basis(Low)' \in {Basis(Low), None} /\ Basis(High)' \in {Basis(High), None}
      BY <1>0, NodeNames DEF Wanes
    <3> QED BY <3>1, <3>2
  <2>2. CASE ~ \A n \in Nodes : ~Unsettled(n)
    <3>1. PICK n \in Nodes : Unsettled(n)
      BY <2>2
    <3>2. Basis(n)' = None
      BY <1>0, <1>2, <3>1 DEF Wanes
    <3> QED BY <3>2 DEF Nodes
  <2> QED BY <2>1, <2>2
<1> QED BY <1>1, <1>2

\* A node whose resources, result and worker a step leaves alone wanes trivially.
LEMMA WanesFrame ==
  ASSUME NEW n \in Nodes, st'[n] = st[n], warm'[n] = warm[n], disk'[n] = disk[n], sup'[n] = sup[n],
         worker'[n] = worker[n], (n \in stale) = (n \in stale')
  PROVE  Wanes(n)
<1>1. Basis(n)' = Basis(n)
  BY DEF Basis
<1>2. Unsettled(n)' = Unsettled(n)
  BY DEF Unsettled, At
<1> QED BY <1>1, <1>2 DEF Wanes, At

\* So does a running one whose resources and result stay, unless its worker commits.
LEMMA WanesRunning ==
  ASSUME NEW n \in Nodes, st'[n].local = st[n].local, warm'[n] = warm[n] \/ sup[n].result # None,
         sup[n].run # "dead", sup'[n].run # "dead", sup'[n].result = sup[n].result,
         ~At(n, "commit")' \/ worker'[n] = worker[n], Unsettled(n) => Unsettled(n)'
  PROVE  Wanes(n)
<1>1. Basis(n)' = Basis(n)
  BY DEF Basis
<1> QED BY <1>1 DEF Wanes, At

\* A supervisor that gives up keeps what its receipt in memory stands for.
LEMMA WanesExits ==
  ASSUME NEW n \in Nodes, TypeOK, NodeInv(n), Exits(n), sup[n].run = "on",
         st'[n] = Lost(st[n]), warm'[n] \in {warm[n], None}, ~torn'
  PROVE  Wanes(n)
<1>1. /\ sup'[n].run = "retry" /\ sup'[n].result = None /\ worker'[n].at = "idle"
  BY DEF Exits, Stopped, Fresh, NoWorker, TypeOK
<1>2. st'[n].local = st[n].local
  BY DEF Lost, TypeOK
<1>3. Basis(n)' \in {Basis(n), None}
  BY <1>1, <1>2 DEF Basis
<1>4. ~At(n, "commit")
  BY DEF Exits, Tears
<1>5. Unsettled(n) => warm[n] = None
  BY <1>4 DEF Unsettled, NodeInv, ChangedIsBare, Idle
<1>6. Unsettled(n) => Basis(n)' = None
  BY <1>1, <1>5 DEF Basis
<1> QED BY <1>1, <1>3, <1>6 DEF Wanes, At

LEMMA NextSides ==
  ASSUME TypeOK, \A n \in Nodes : NodeInv(n), \A n \in Nodes : NodeInv(n)',
         ConnJoins, CommitIsLast, SidesAgree, [Next]_vars
  PROVE  SidesAgree'
<1>a. \A n \in Nodes : sup[n] \in Supervisor /\ worker[n] \in WorkerType /\ st[n] \in StateType
  BY DEF TypeOK, WorkerType, StateType
<1>b. \A n \in Nodes : ~Idle(n) => sup[n].run # "dead"
  BY DEF NodeInv, OffIsClean, Up, Idle, NoWorker
<1> USE DEF resources
\* One node steps, and the history does not improve.
<1>1. ASSUME NEW a \in Nodes, Wanes(a) \/ torn', torn => torn',
             (Peer(a) \in stale) = (Peer(a) \in stale'),
             LET n == Peer(a) IN
               /\ st'[n] = st[n] /\ warm'[n] = warm[n] /\ disk'[n] = disk[n] /\ sup'[n] = sup[n]
               /\ worker'[n] = worker[n]
      PROVE  SidesAgree'
  <2>1. Wanes(Peer(a))
    BY <1>1, PeerType, WanesFrame
  <2> QED BY <1>1, <2>1, OtherNode, SidesWane
<1>2. ASSUME UNCHANGED <<sup, st, warm, disk, stale, worker, torn>> PROVE SidesAgree'
  <2>1. \A n \in Nodes : Wanes(n)
    BY <1>2, WanesFrame
  <2> QED BY <1>2, <2>1, SidesWane
<1>3. CASE SendHello \/ Break \/ \E a \in Nodes : Maintain(a) \/ ChangeAvailable(a)
  BY <1>2, <1>3 DEF SendHello, Break, Maintain, ChangeAvailable
<1>4. ASSUME Idle(Low), On(Low), StartsDial, UNCHANGED <<resources, torn>> PROVE SidesAgree'
  <2>1. /\ sup'[Low].run = "on" /\ sup'[Low].result = sup[Low].result /\ worker'[Low].at = "dial"
        /\ ~Unsettled(Low)
    BY <1>4, <1>a, NodeNames DEF StartsDial, TypeOK, Supervisor, WorkerType, On, Unsettled, Idle, At
  <2>2. Wanes(Low)
    BY <1>4, <2>1, NodeNames, WanesRunning DEF On, At
  <2> QED BY <1>1, <1>4, <2>2, NodeNames, PeerType DEF StartsDial, TypeOK
<1>5. CASE ReceiveHello
  BY <1>2, <1>4, <1>5 DEF ReceiveHello
<1>6. CASE ReceiveAck
  BY <1>4, <1>6 DEF ReceiveAck
<1>7. CASE Connect
  <2>1. CASE On(High) /\ Idle(High)
    <3>1. ASSUME NEW n \in Nodes PROVE Wanes(n)
      <4>1. worker'[n].at = "open"
        BY <1>7, <2>1 DEF Connect, On, Up, NoWorker
      <4>2. sup[n].run # "dead" /\ ~Unsettled(n)
        BY <1>7, <1>b, <2>1 DEF Connect, On, Idle, At, Unsettled, Nodes
      <4>3. sup'[n].run # "dead" /\ sup'[n].result = sup[n].result
        <5>1. sup' = [sup EXCEPT ![High] = [sup[High] EXCEPT !.changed = FALSE]]
          BY <1>7, <2>1 DEF Connect, On, Up
        <5>2. n # High => sup'[n] = sup[n]
          BY <5>1 DEF TypeOK
        <5>3. n = High => sup'[n].run = sup[n].run /\ sup'[n].result = sup[n].result
          BY <1>a, <5>1, NodeNames DEF TypeOK, Supervisor
        <5> QED BY <4>2, <5>2, <5>3
      <4> QED BY <1>7, <4>1, <4>2, <4>3, WanesRunning DEF Connect, At
    <3> QED BY <1>7, <3>1, SidesWane DEF Connect
  <2>2. CASE ~(On(High) /\ Idle(High))
    <3>1. worker'[Low].at = "err" /\ ~Unsettled(Low) /\ sup[Low].run # "dead"
      <4>1. sup[Low].run # "dead"
        BY <1>7, <1>b, NodeNames DEF Connect, At, Idle
      <4>2. worker'[Low].at = "err" /\ ~Unsettled(Low)
        BY <1>7, <1>a, <2>2, NodeNames DEF Connect, At, TypeOK, WorkerType, Unsettled
      <4> QED BY <4>1, <4>2
    <3>2. Wanes(Low)
      BY <1>7, <2>2, <3>1, NodeNames, WanesRunning DEF Connect, At
    <3> QED BY <1>1, <1>7, <2>2, <3>2, NodeNames, PeerType DEF Connect, TypeOK
  <2> QED BY <2>1, <2>2
<1>8. CASE Negotiate
  <2>1. ASSUME NEW n \in Nodes PROVE Wanes(n)
    <3>1. At(n, "open")
      BY <1>8 DEF Negotiate, Nodes
    <3>2. sup[n].run # "dead" /\ ~Unsettled(n)
      BY <3>1, <1>b DEF At, Idle, Unsettled
    <3>3. worker'[n].at # "commit"
      <4>1. CASE Joint # {}
        <5>1. PICK acceptor \in Nodes : worker' = [m \in Nodes |->
                     [at |-> IF m = acceptor THEN "install" ELSE "await", value |-> Min(Joint)]]
          BY <1>8, <4>1, NodeNames DEF Negotiate
        <5> QED BY <5>1
      <4>2. CASE Joint = {}
        BY <1>8, <4>2 DEF Negotiate, NoWorker
      <4> QED BY <4>1, <4>2
    <3> QED BY <1>8, <3>2, <3>3, WanesRunning DEF Negotiate, At
  <2> QED BY <1>8, <2>1, SidesWane DEF Negotiate
<1>9. ASSUME NEW a \in Nodes, WriteAccept(a), ~conn PROVE SidesAgree'
  <2>1. \/ worker'[a].at = "ok" /\ torn' = TRUE
        \/ worker'[a].at = "err" /\ torn' = torn
    <3>1. CASE worker' = [worker EXCEPT ![a] = [worker[a] EXCEPT !.at = "ok"]] /\ torn' = TRUE
      BY <1>a, <3>1 DEF TypeOK, WorkerType
    <3>2. CASE worker' = [worker EXCEPT ![a] = [worker[a] EXCEPT !.at = "err"]] /\ torn' = torn
      BY <1>a, <3>2 DEF TypeOK, WorkerType
    <3> QED BY <1>9, <3>1, <3>2 DEF WriteAccept
  <2>2. torn => torn'
    BY <2>1
  <2>3. worker'[a].at = "err" => Wanes(a)
    <3>1. sup[a].run # "dead"
      BY <1>9, <1>b DEF WriteAccept, At, Idle
    <3>2. worker'[a].at = "err" /\ Unsettled(a) => Unsettled(a)'
      BY <1>9 DEF WriteAccept, Unsettled, At
    <3> QED BY <1>9, <3>1, <3>2, WanesRunning DEF WriteAccept, At
  <2> QED BY <1>1, <1>9, <2>1, <2>2, <2>3, PeerType DEF WriteAccept, TypeOK
\* The accept reaches the peer: from here on it is the one to commit.
<1>10. ASSUME NEW a \in Nodes, WriteAccept(a), conn PROVE SidesAgree'
  <2>1. At(Peer(a), "await") /\ worker[Peer(a)].value = worker[a].value
    BY <1>10, OtherNode, PeerType, NodeNames DEF WriteAccept, ConnJoins, At
  <2>2. /\ worker'[a].at = "ok" /\ worker'[Peer(a)].at = "commit"
        /\ worker'[Peer(a)].value = worker[a].value
    <3>1. worker' = [worker EXCEPT ![a] = [worker[a] EXCEPT !.at = "ok"],
                                   ![Peer(a)] = [worker[Peer(a)] EXCEPT !.at = "commit"]]
      BY <1>10, PeerType DEF WriteAccept, TypeOK
    <3>2. /\ worker'[a] = [worker[a] EXCEPT !.at = "ok"]
          /\ worker'[Peer(a)] = [worker[Peer(a)] EXCEPT !.at = "commit"]
      BY <3>1, PeerType DEF TypeOK
    <3> QED BY <1>a, <2>1, <3>2, PeerType DEF WorkerType
  <2>3. Basis(a)' = worker[a].value
    <3>1. sup[a].run # "dead" /\ sup[a].result = worker[a].value /\ worker[a].value # None
      BY <1>10, <1>b DEF WriteAccept, At, Idle, NodeInv, WorkerSound
    <3>2. st[a].local = worker[a].value
      BY <3>1 DEF NodeInv, OneLocal
    <3> QED BY <1>10, <3>1, <3>2 DEF WriteAccept, Basis
  <2>4. \A n \in Nodes : n = a \/ n = Peer(a)
    BY OtherNode
  <2>5. \A n \in Nodes : At(n, "commit")' => Basis(Peer(n))' \in {None, worker'[n].value}
    BY <2>2, <2>3, <2>4, PeerType DEF At
  <2>6. Unsettled(Peer(a))'
    BY <2>2 DEF Unsettled, At
  <2> QED BY <2>5, <2>6, PeerType DEF SidesAgree
<1>11. ASSUME NEW a \in Nodes, SessionFails(a) PROVE SidesAgree'
  <2>1. sup[a].run # "dead" /\ ~Unsettled(a) /\ worker'[a].at = "err"
    BY <1>11, <1>a, <1>b DEF SessionFails, Idle, Unsettled, At, TypeOK, WorkerType
  <2>2. Wanes(a)
    BY <1>11, <2>1, WanesRunning DEF SessionFails, At
  <2> QED BY <1>1, <1>11, <2>2, PeerType DEF SessionFails, TypeOK
\* The side left to commit installs what the other side has.
<1>12. ASSUME NEW a \in Nodes, At(a, "commit"), sup'[a].result = worker[a].value, sup'[a].run = "on",
              worker[a].value # None, worker'[a].at = "ok", UNCHANGED torn,
              (Peer(a) \in stale) = (Peer(a) \in stale'),
              LET n == Peer(a) IN
               /\ st'[n] = st[n] /\ warm'[n] = warm[n] /\ disk'[n] = disk[n] /\ sup'[n] = sup[n]
               /\ worker'[n] = worker[n]
       PROVE  SidesAgree'
  <2> SUFFICES ASSUME ~torn PROVE SidesAgree'
    BY <1>12 DEF SidesAgree
  <2>1. Basis(a)' = worker[a].value
    BY <1>12 DEF Basis, NodeInv, OneLocal
  <2>2. Basis(Peer(a))' = Basis(Peer(a))
    BY <1>12, PeerType DEF Basis
  <2>3. Basis(Peer(a)) \in {None, worker[a].value}
    BY <1>12 DEF SidesAgree
  <2>4. worker[Peer(a)].at # "commit"
    BY <1>12 DEF CommitIsLast, At
  <2>5. \A n \in Nodes : n = a \/ n = Peer(a)
    BY OtherNode
  <2>6. \A n \in Nodes : ~At(n, "commit")'
    BY <1>12, <2>4, <2>5 DEF At
  <2>7. Basis(Peer(a))' = None \/ Basis(Peer(a))' = Basis(a)'
    BY <2>1, <2>2, <2>3
  <2>8. Basis(Low)' = None \/ Basis(High)' = None \/ Basis(Low)' = Basis(High)'
    BY <2>5, <2>7, NodeNames
  <2> QED BY <2>6, <2>8 DEF SidesAgree
<1>13. ASSUME NEW a \in Nodes, InstallSame(a) PROVE SidesAgree'
  <2>1. /\ sup'[a].run = "on" /\ sup'[a].result = sup[a].result /\ sup'[a].changed = sup[a].changed
        /\ sup[a].run = "on" /\ worker[a].value # None
    BY <1>13, <1>a DEF InstallSame, Requests, On, Pinged, TypeOK, Supervisor, NodeInv, WorkerSound
  <2>2. CASE At(a, "commit")
    <3>1. worker'[a].at = "ok"
      BY <1>13, <1>a, <2>2 DEF InstallSame, Proceeds, At, TypeOK, WorkerType
    <3> QED BY <1>12, <1>13, <2>1, <2>2, <3>1, PeerType DEF InstallSame, Same, Proceeds, TypeOK
  <2>3. CASE At(a, "install")
    <3>1. worker'[a].at = "installed" /\ ~Unsettled(a)
      BY <1>13, <1>a, <2>3 DEF InstallSame, Proceeds, At, TypeOK, WorkerType, Unsettled
    <3>2. Wanes(a)
      BY <1>13, <2>1, <3>1, WanesRunning DEF InstallSame, At
    <3> QED BY <1>1, <1>13, <3>2, PeerType DEF InstallSame, Proceeds, TypeOK
  <2> QED BY <1>13, <2>2, <2>3 DEF InstallSame, Requests, At
\* A withdrawal changes nothing at the other node.
<1>34. ASSUME NEW a \in Nodes, NEW fails \in BOOLEAN, Withdraws(a, fails), Requests(a)
       PROVE  LET n == Peer(a) IN
                /\ warm'[n] = warm[n] /\ disk'[n] = disk[n] /\ (n \in stale) = (n \in stale')
                /\ warm'[a] = None
  BY <1>34, PeerType, WithdrawsFile DEF Requests, On
<1>14. ASSUME NEW a \in Nodes, InstallNew(a) PROVE SidesAgree'
  <2>0. PICK fails \in BOOLEAN : Withdraws(a, fails)
    BY <1>14 DEF InstallNew
  <2>1. /\ sup'[a].run = "on" /\ sup'[a].result = worker[a].value /\ sup'[a].changed
        /\ worker[a].value # None
    BY <1>14, <1>a DEF InstallNew, Requests, On, Replacing, TypeOK, Supervisor, NodeInv, WorkerSound
  <2>2. LET n == Peer(a) IN
          /\ st'[n] = st[n] /\ warm'[n] = warm[n] /\ disk'[n] = disk[n] /\ sup'[n] = sup[n]
          /\ worker'[n] = worker[n]
          /\ (n \in stale) = (n \in stale')
    BY <1>14, <1>34, <2>0, PeerType DEF InstallNew, Proceeds, TypeOK
  <2>3. CASE At(a, "commit")
    <3>1. worker'[a].at = "ok"
      BY <1>14, <1>a, <2>3 DEF InstallNew, Proceeds, At, TypeOK, WorkerType
    <3> QED BY <1>12, <1>14, <2>1, <2>2, <2>3, <3>1 DEF InstallNew
  <2>4. CASE At(a, "install")
    <3>1. worker'[a].at = "installed"
      BY <1>14, <1>a, <2>4 DEF InstallNew, Proceeds, At, TypeOK, WorkerType
    <3>2. Unsettled(a)'
      BY <2>1, <3>1 DEF Unsettled
    <3>3. worker[Peer(a)].at # "commit"
      BY <2>4, PeerType DEF CommitIsLast, At
    <3>4. \A n \in Nodes : ~At(n, "commit")'
      BY <2>2, <3>1, <3>3, OtherNode DEF At
    <3> QED BY <3>2, <3>4 DEF SidesAgree
  <2> QED BY <1>14, <2>3, <2>4 DEF InstallNew, Requests, At
\* The history after the end of a worker.
<1>15. ASSUME NEW a \in Nodes, Tears(a)
       PROVE  (torn => torn') /\ (At(a, "commit") => torn')
  BY <1>15 DEF Tears
<1>16. ASSUME NEW a \in Nodes, InstallFails(a) PROVE SidesAgree'
  <2>0. Tears(a) /\ sup[a].run = "on"
    BY <1>16 DEF InstallFails, Requests, On
  <2>1. /\ sup'[a].run = "on" /\ sup'[a].result = sup[a].result /\ sup'[a].changed
        /\ worker'[a].at = "err" /\ st'[a].local = st[a].local
    <3>1. sup'[a] = Replacing(sup[a]) /\ worker'[a] = [worker[a] EXCEPT !.at = "err"]
      BY <1>16 DEF InstallFails, TypeOK
    <3>2. st'[a].local = st[a].local
      BY <1>16, <1>a DEF InstallFails, NoState, TypeOK
    <3> QED BY <1>a, <2>0, <3>1, <3>2 DEF Replacing, Supervisor, WorkerType
  <2>6. PICK fails \in BOOLEAN : Withdraws(a, fails) /\ Requests(a)
    BY <1>16 DEF InstallFails
  <2>2. warm'[a] = None
    BY <1>34, <2>6
  <2>3. Basis(a)' \in {Basis(a), None}
    BY <2>0, <2>1, <2>2 DEF Basis
  <2>4. Wanes(a)
    BY <2>1, <2>3 DEF Wanes, Unsettled, At
  <2>5. LET n == Peer(a) IN
          /\ st'[n] = st[n] /\ warm'[n] = warm[n] /\ disk'[n] = disk[n] /\ sup'[n] = sup[n]
          /\ worker'[n] = worker[n]
          /\ (n \in stale) = (n \in stale')
    BY <1>16, <1>34, <2>6, PeerType DEF InstallFails, TypeOK
  <2> QED BY <1>1, <1>15, <2>0, <2>4, <2>5
<1>17. ASSUME NEW a \in Nodes, Exits(a), sup[a].run = "on", st'[a] = Lost(st[a]),
              warm'[a] \in {warm[a], None},
              LET n == Peer(a) IN
                /\ st'[n] = st[n] /\ warm'[n] = warm[n] /\ disk'[n] = disk[n]
                /\ (n \in stale) = (n \in stale')
       PROVE  SidesAgree'
  <2>1. Tears(a)
    BY <1>17 DEF Exits
  <2>2. Wanes(a) \/ torn'
    BY <1>17, WanesExits
  <2>3. sup'[Peer(a)] = sup[Peer(a)] /\ worker'[Peer(a)] = worker[Peer(a)]
    BY <1>17, PeerType DEF Exits, TypeOK
  <2> QED BY <1>1, <1>15, <1>17, <2>1, <2>2, <2>3
<1>18. ASSUME NEW a \in Nodes, WithdrawFails(a) PROVE SidesAgree'
  <2>0. PICK fails \in BOOLEAN : Forgets(a, fails)
    BY <1>18 DEF WithdrawFails
  <2>3. LET n == Peer(a) IN
          /\ warm'[n] = warm[n] /\ disk'[n] = disk[n] /\ (n \in stale) = (n \in stale')
          /\ warm'[a] = None
    BY <2>0, PeerType, ForgetsFile
  <2>1. Exits(a) /\ sup[a].run = "on" /\ st'[a] = Lost(st[a]) /\ warm'[a] = None
    BY <1>18, <2>3 DEF WithdrawFails, Requests, On, TypeOK
  <2>2. LET n == Peer(a) IN
          /\ st'[n] = st[n] /\ warm'[n] = warm[n] /\ disk'[n] = disk[n]
          /\ (n \in stale) = (n \in stale')
    BY <1>18, <2>3, PeerType DEF WithdrawFails, TypeOK
  <2> QED BY <1>17, <2>1, <2>2
<1>19. ASSUME NEW a \in Nodes, NEW s, ConfirmFails(a, s), Exits(a), sup[a].run = "on" PROVE SidesAgree'
  <2>1. /\ st'[a] = Lost(st[a]) /\ warm' = warm /\ disk' = disk /\ stale' = stale
        /\ st'[Peer(a)] = st[Peer(a)]
    BY <1>19, PeerType DEF ConfirmFails, TypeOK
  <2> QED BY <1>17, <1>19, <2>1
<1>20. ASSUME NEW a \in Nodes, FinishedCommitFails(a) \/ PongCommitFails(a) PROVE SidesAgree'
  BY <1>19, <1>20 DEF FinishedCommitFails, PongCommitFails, Pong, Answers, On
\* A commit is for the result at hand, which is the state's.
<1>21. ASSUME NEW a \in Nodes, NEW s \in Supervisor, Confirms(a, s), s.result = sup[a].result,
              sup[a].result # None, sup[a].run = "on", s.run = "on", UNCHANGED torn,
              worker'[Peer(a)] = worker[Peer(a)],
              ~At(a, "commit")' \/ worker'[a] = worker[a], Unsettled(a) => Unsettled(a)'
       PROVE  SidesAgree'
  <2>1. st[a].local = sup[a].result
    BY <1>21 DEF NodeInv, OneLocal
  <2>2. /\ st'[a].local = st[a].local /\ sup'[a].result = sup[a].result /\ sup'[a].run # "dead"
        /\ LET n == Peer(a) IN
             /\ st'[n] = st[n] /\ warm'[n] = warm[n] /\ disk'[n] = disk[n] /\ sup'[n] = sup[n]
             /\ (n \in stale) = (n \in stale')
    <3>1. CASE Reconfirms(a, s)
      <4>1. Remembers(a, s.result) /\ UNCHANGED st
        BY <3>1 DEF Reconfirms
      <4>2. sup'[a].result = sup[a].result /\ sup'[a].run = "on" /\ sup'[Peer(a)] = sup[Peer(a)]
        BY <1>21, <3>1, PeerType DEF Reconfirms, TypeOK, Supervisor
      <4>3. s.result \in Proposals
        BY <1>21 DEF Supervisor
      <4> QED BY <4>1, <4>2, <4>3, PeerType, RemembersFile
    <3>2. CASE ~Reconfirms(a, s)
      <4>1. /\ Commits(a, s.result) /\ UNCHANGED <<warm, disk, stale>>
            /\ sup' = [sup EXCEPT ![a] = [s EXCEPT !.healthy = TRUE, !.missed = 0, !.run = "confirm"]]
        BY <1>21, <3>2 DEF Confirms
      <4>2. st'[a] = [local |-> s.result, peers |-> TRUE, active |-> TRUE, committed |-> TRUE]
        BY <4>1 DEF Commits, TypeOK
      <4>3. sup'[a].result = sup[a].result /\ sup'[a].run = "confirm" /\ sup'[Peer(a)] = sup[Peer(a)]
        BY <1>21, <4>1, PeerType DEF TypeOK, Supervisor
      <4>4. st'[Peer(a)] = st[Peer(a)]
        BY <4>1, PeerType DEF Commits, TypeOK
      <4> QED BY <1>21, <2>1, <4>1, <4>2, <4>3, <4>4
    <3> QED BY <3>1, <3>2
  <2>4. Wanes(a)
    BY <1>21, <2>2, WanesRunning
  <2> QED BY <1>1, <1>21, <2>2, <2>4
<1>22. ASSUME NEW a \in Nodes, FinishedOk(a) PROVE SidesAgree'
  <2>1. /\ sup[a].run = "on" /\ sup[a].result # None /\ ~Unsettled(a)
    BY <1>22 DEF FinishedOk, On, At, Unsettled, NodeInv, WorkerSound
  <2>2. Established(a) \in Supervisor
    BY <1>a DEF Established, Supervisor
  <2>3. Established(a).result = sup[a].result /\ Established(a).run = "on"
    BY <1>a, <2>1 DEF Established, Supervisor
  <2>4. worker'[a].at = "idle" /\ worker'[Peer(a)] = worker[Peer(a)]
    BY <1>22, PeerType DEF FinishedOk, TypeOK, NoWorker
  <2> QED BY <1>21, <1>22, <2>1, <2>2, <2>3, <2>4 DEF FinishedOk, At
<1>23. ASSUME NEW a \in Nodes, ReceivePong(a) PROVE SidesAgree'
  <2>1. /\ sup[a].run = "on" /\ sup[a].result # None
        /\ Ponged(a) \in Supervisor /\ Ponged(a).result = sup[a].result
        /\ Ponged(a).run = "on" /\ Ponged(a).changed = sup[a].changed
    BY <1>23, <1>a DEF ReceivePong, Pong, Answers, Linked, On, Ponged, Supervisor
  <2>2. sup'[a].changed = sup[a].changed /\ worker' = worker
    BY <1>23, <2>1, ConfirmsLocals DEF ReceivePong
  <2>3. Unsettled(a) => Unsettled(a)'
    BY <2>2 DEF Unsettled, At
  <2> QED BY <1>21, <1>23, <2>1, <2>2, <2>3 DEF ReceivePong
<1>24. ASSUME NEW a \in Nodes, FinishedErr(a) PROVE SidesAgree'
  <2>0. sup[a].run = "on" /\ worker'[a].at = "idle" /\ UNCHANGED <<resources, torn>>
    BY <1>24 DEF FinishedErr, On, NoWorker, TypeOK
  <2>1. Wanes(a)
    <3>1. CASE sup[a].changed
      <4>1. sup'[a].result = None /\ sup'[a].run = "on"
        BY <1>24, <1>a, <2>0, <3>1 DEF FinishedErr, TypeOK, Supervisor
      <4>2. warm[a] = None
        BY <1>24, <3>1 DEF FinishedErr, At, Idle, NodeInv, ChangedIsBare
      <4>3. Basis(a)' = None
        BY <2>0, <4>1, <4>2 DEF Basis
      <4> QED BY <2>0, <4>3 DEF Wanes, At
    <3>2. CASE ~sup[a].changed
      <4>1. sup' = sup /\ ~Unsettled(a)
        BY <1>24, <3>2 DEF FinishedErr, Unsettled, At
      <4> QED BY <2>0, <4>1, WanesRunning DEF At
    <3> QED BY <3>1, <3>2
  <2>2. sup'[Peer(a)] = sup[Peer(a)] /\ worker'[Peer(a)] = worker[Peer(a)]
    BY <1>24, PeerType DEF FinishedErr, TypeOK
  <2> QED BY <1>1, <2>0, <2>1, <2>2
<1>25. ASSUME NEW a \in Nodes, sup[a].run # "dead", sup'[a].run # "dead", sup'[a].result = sup[a].result,
              sup'[a].changed = sup[a].changed, st'[a].local = st[a].local,
              UNCHANGED <<warm, disk, stale, worker, torn>>,
              sup'[Peer(a)] = sup[Peer(a)] /\ st'[Peer(a)] = st[Peer(a)]
       PROVE  SidesAgree'
  <2>1. Unsettled(a) => Unsettled(a)'
    BY <1>25 DEF Unsettled, At
  <2>2. Wanes(a)
    BY <1>25, <2>1, WanesRunning
  <2> QED BY <1>1, <1>25, <2>2
<1>26. ASSUME NEW a \in Nodes, Tick(a) PROVE SidesAgree'
  <2>1. /\ sup[a].run = "on" /\ st'[a].local = st[a].local
        /\ UNCHANGED <<warm, disk, stale, worker, torn>>
        /\ sup'[Peer(a)] = sup[Peer(a)] /\ st'[Peer(a)] = st[Peer(a)]
    BY <1>26, <1>a, PeerType DEF Tick, Answers, On, Expired, Lost, TypeOK, StateType
  <2>2. sup'[a].run = "on" /\ sup'[a].result = sup[a].result /\ sup'[a].changed = sup[a].changed
    <3>1. PICK s : /\ sup' = [sup EXCEPT ![a] = Pinged(s)]
                   /\ \/ s = [sup[a] EXCEPT !.healthy = FALSE, !.missed = 0]
                      \/ s = [sup[a] EXCEPT !.missed = IF sup[a].healthy THEN sup[a].missed + 1 ELSE 0]
      BY <1>26 DEF Tick
    <3>2. s.run = "on" /\ s.result = sup[a].result /\ s.changed = sup[a].changed
      BY <1>a, <2>1, <3>1 DEF Supervisor
    <3>3. [s EXCEPT !.challenge = "sent"].run = s.run /\ [s EXCEPT !.challenge = "sent"].result = s.result
          /\ [s EXCEPT !.challenge = "sent"].changed = s.changed
      BY <1>a, <3>1 DEF Supervisor
    <3> QED BY <3>1, <3>2, <3>3 DEF Pinged, TypeOK
  <2> QED BY <1>25, <2>1, <2>2
<1>27. ASSUME NEW a \in Nodes, AnswerPing(a) PROVE SidesAgree'
  <2>1. sup'[a].run = sup[a].run /\ sup'[a].result = sup[a].result /\ sup'[a].changed = sup[a].changed
    BY <1>27, <1>a DEF AnswerPing, TypeOK, Supervisor
  <2>2. sup[a].run = "on"
    BY <1>27 DEF AnswerPing, On
  <2>3. sup'[Peer(a)] = sup[Peer(a)]
    BY <1>27, PeerType DEF AnswerPing, TypeOK
  <2> QED BY <1>25, <1>27, <2>1, <2>2, <2>3 DEF AnswerPing
\* A process that is not there, or starts, has no worker.
<1>28. ASSUME NEW a \in Nodes, worker[a] = NoWorker, worker' = worker, Basis(a)' \in {Basis(a), None}
       PROVE  Wanes(a)
  BY <1>28 DEF Wanes, Unsettled, At, NoWorker
<1>29. ASSUME NEW a \in Nodes, Retry(a) PROVE SidesAgree'
  <2>1. sup'[a] = Started(warm[a]) /\ worker[a] = NoWorker /\ sup[a] = Stopped("retry")
    BY <1>29 DEF Retry, NodeInv, OffIsClean, Up, TypeOK
  <2>2. sup'[a].run = "on" /\ sup'[a].result = warm[a] /\ sup[a].result = None /\ sup[a].run = "retry"
    BY <2>1 DEF Started, Stopped, Fresh
  <2>3. Basis(a)' = Basis(a)
    BY <1>29, <2>2 DEF Retry, Basis
  <2> QED BY <1>1, <1>28, <1>29, <2>1, <2>3, PeerType DEF Retry, TypeOK
<1>30. ASSUME NEW a \in Nodes, Crash(a) PROVE SidesAgree'
  <2>0. Tears(a)
    BY <1>30 DEF Crash
  <2>1. /\ sup'[a].run = "dead" /\ worker'[a].at = "idle" /\ disk' = disk /\ sup[a].run # "dead"
        /\ stale' = stale
    BY <1>30 DEF Crash, Stopped, Fresh, NoWorker, TypeOK
  <2>2. disk[a] # None /\ a \notin stale => warm[a] # None /\ disk[a] = st[a].local
    BY <2>1 DEF NodeInv, FileSound, OneLocal
  <2>3. Basis(a)' \in {Basis(a), None}
    BY <1>15, <2>0, <2>1, <2>2 DEF Basis
  <2>4. Wanes(a) \/ torn'
    <3>1. CASE At(a, "commit")
      BY <1>15, <2>0, <3>1
    <3>2. CASE ~At(a, "commit")
      <4>1. Unsettled(a) => warm[a] = None
        BY <3>2 DEF Unsettled, NodeInv, ChangedIsBare, Idle
      <4>2. Unsettled(a) => Basis(a)' = None
        BY <1>15, <2>0, <2>1, <2>2, <4>1 DEF Basis
      <4> QED BY <2>1, <2>3, <4>2 DEF Wanes, At
    <3> QED BY <3>1, <3>2
  <2>5. LET n == Peer(a) IN
          /\ st'[n] = st[n] /\ warm'[n] = warm[n] /\ disk'[n] = disk[n] /\ sup'[n] = sup[n]
          /\ worker'[n] = worker[n]
    BY <1>30, PeerType DEF Crash, TypeOK
  <2> QED BY <1>1, <1>15, <2>0, <2>1, <2>4, <2>5
<1>31. ASSUME NEW a \in Nodes, Adopt(a) PROVE SidesAgree'
  <2>0. worker[a] = NoWorker /\ worker' = worker /\ sup[a].run = "dead"
    BY <1>31 DEF Adopt, NodeInv, OffIsClean, Up
  <2>1. /\ (Peer(a) \in stale) = (Peer(a) \in stale')
        /\ torn \/ a \in stale => torn'
    <3>1. (Peer(a) \in stale) = (Peer(a) \in stale')
      BY <1>31, PeerType DEF Adopt
    <3>2. torn \/ a \in stale => torn'
      BY <1>31, Zenon DEF Adopt
    <3> QED BY <3>1, <3>2, Zenon
  <2>2. sup'[a].run = "on" /\ sup'[a].result = disk[a] /\ st'[a].local = disk[a] /\ disk[a] # None
    <3>1. /\ sup'[a] = Started(disk[a]) /\ disk[a] # None
          /\ st'[a] = [local |-> disk[a], peers |-> TRUE, active |-> FALSE, committed |-> TRUE]
      BY <1>31 DEF Adopt, CanAdopt, TypeOK
    <3> QED BY <3>1 DEF Started, Fresh
  <2>3. a \notin stale => Basis(a)' = Basis(a)
    BY <2>0, <2>2 DEF Basis
  <2>4. Wanes(a) \/ torn'
    BY <1>28, <2>0, <2>1, <2>3
  <2>5. LET n == Peer(a) IN
          /\ st'[n] = st[n] /\ warm'[n] = warm[n] /\ disk'[n] = disk[n] /\ sup'[n] = sup[n]
          /\ worker'[n] = worker[n]
    BY <1>31, PeerType DEF Adopt, TypeOK
  <2> QED BY <1>1, <2>1, <2>4, <2>5
<1>32. ASSUME NEW a \in Nodes, StartCold(a) PROVE SidesAgree'
  <2>0. worker[a] = NoWorker /\ worker' = worker /\ warm[a] = None /\ UNCHANGED <<st, warm, disk>>
    BY <1>32 DEF StartCold, NodeInv, OffIsClean, Up
  <2>1. /\ (Peer(a) \in stale) = (Peer(a) \in stale')
        /\ torn => torn'
    BY <1>32, PeerType DEF StartCold
  <2>2. sup'[a].run = "on" /\ sup'[a].result = None /\ sup'[Peer(a)] = sup[Peer(a)]
    BY <1>32, PeerType DEF StartCold, Fresh, TypeOK
  <2>3. Basis(a)' = None
    BY <2>0, <2>2 DEF Basis
  <2> QED BY <1>1, <1>28, <2>0, <2>1, <2>2, <2>3
<1>33. CASE UNCHANGED vars
  BY <1>2, <1>33 DEF vars
<1>35. ASSUME NEW a \in Nodes, Remember(a) PROVE SidesAgree'
  <2>0. sup[a].result \in Proposals /\ sup[a].result # None
    BY <1>35, <1>a DEF Remember, NodeInv, OffIsClean, Healthy, Supervisor
  <2>1. Remembers(a, sup[a].result) /\ UNCHANGED <<st, worker, torn>> /\ sup[a].run = "confirm"
    BY <1>35 DEF Remember
  <2>2. /\ sup'[a].run = "on" /\ sup'[a].result = sup[a].result /\ sup'[a].changed = sup[a].changed
        /\ sup'[Peer(a)] = sup[Peer(a)]
    BY <1>35, <1>a, PeerType DEF Remember, TypeOK, Supervisor
  <2>3. LET n == Peer(a) IN
          warm'[n] = warm[n] /\ disk'[n] = disk[n] /\ (n \in stale) = (n \in stale')
    BY <2>0, <2>1, PeerType, RemembersFile
  <2>4. Unsettled(a) => Unsettled(a)'
    BY <2>1, <2>2 DEF Unsettled, At
  <2>5. Wanes(a)
    BY <2>0, <2>1, <2>2, <2>4, WanesRunning
  <2> QED BY <1>1, <2>1, <2>2, <2>3, <2>5
<1> QED BY <1>3, <1>5, <1>6, <1>7, <1>8, <1>9, <1>10, <1>11, <1>13, <1>14, <1>16, <1>18, <1>20, <1>22, <1>23,
           <1>24, <1>26, <1>27, <1>29, <1>30, <1>31, <1>32, <1>33, <1>35 DEF Next

-----------------------------------------------------------------------------
(***************************************************************************)
(* The theorems.                                                           *)
(***************************************************************************)
LEMMA InitLinkInv == Init => LinkInv
<1> SUFFICES ASSUME Init PROVE LinkInv
  OBVIOUS
<1>1. \A n \in Nodes : NodeInv(n)
  BY InitNodeInv
<1>2. \A n \in Nodes : worker[n].at = "idle" /\ sup[n].result = None /\ warm[n] = None /\ sup[n].run = "on"
  BY DEF Init, NoWorker, Fresh
<1>3. ConnJoins /\ CommitIsLast
  BY <1>2 DEF Init, ConnJoins, CommitIsLast, At
<1>4. SidesAgree
  BY <1>2, NodeNames DEF SidesAgree, Basis, At
<1> QED BY <1>1, <1>3, <1>4 DEF LinkInv

LEMMA NextLinkInv == TypeOK /\ LinkInv /\ [Next]_vars => TypeOK' /\ LinkInv'
<1> SUFFICES ASSUME TypeOK, LinkInv, [Next]_vars PROVE TypeOK' /\ LinkInv'
  OBVIOUS
<1>0. /\ \A n \in Nodes : NodeInv(n)
      /\ ConnJoins /\ CommitIsLast /\ SidesAgree
  BY DEF LinkInv
<1>1. TypeOK'
  BY <1>0, NextTypeOK
<1>2. \A n \in Nodes : NodeInv(n)'
  BY <1>0, NextNodeInv
<1>3. ConnJoins' /\ CommitIsLast'
  BY <1>0, NextSession
<1>4. SidesAgree'
  BY <1>0, <1>2, NextSides
<1> QED BY <1>1, <1>2, <1>3, <1>4 DEF LinkInv

\* The invariant of the two supervisors: what a worker, a receipt, a running Babel
\* admission and a healthy adjacency stand on at each node, and, unless a session was torn
\* apart, that the two sides hold one Link.
THEOREM LinkInvariant == Spec => [](TypeOK /\ LinkInv)
BY InitTypeOK, InitLinkInv, NextLinkInv, PTL DEF Spec

\* Every variable keeps its type: no session materializes an address that is not a
\* proposal, and a healthy supervisor has missed fewer pings than make the Link lost.
THEOREM TypeCorrect == Spec => []TypeOK
BY LinkInvariant, PTL

\* A Link reported healthy is installed everywhere on its node, and two healthy
\* supervisors at rest have the same addresses unless their last session ended on
\* one side only or a stale receipt was adopted.
THEOREM HealthyIsLinked == Spec => []HealthyMeansLinked
<1>1. TypeOK /\ LinkInv => HealthyMeansLinked
  <2> SUFFICES ASSUME TypeOK, LinkInv PROVE HealthyMeansLinked
    OBVIOUS
  <2>1. HealthyInstalled
    BY DEF LinkInv, NodeInv, Healthy, HealthyInstalled
  <2>2. HealthyAgree
    <3> SUFFICES ASSUME \A n \in Nodes : sup[n].healthy /\ Idle(n), ~torn
                 PROVE  sup[Low].result = sup[High].result
      BY DEF HealthyAgree
    <3>1. \A n \in Nodes : ~Unsettled(n)
      BY DEF Unsettled, Idle, At
    <3>2. ASSUME NEW n \in Nodes PROVE Basis(n) = sup[n].result /\ Basis(n) # None
      <4>1. sup[n].result # None /\ st[n].local = sup[n].result
        <5>1. Healthy(n) /\ OneLocal(n) /\ sup[n].healthy
          BY DEF LinkInv, NodeInv
        <5> QED BY <5>1 DEF Healthy, OneLocal
      <4>2. sup[n].run # "dead"
        <5>1. ~Stopped(sup[n].run).healthy
          BY DEF Stopped, Fresh
        <5> QED BY <5>1 DEF LinkInv, NodeInv, OffIsClean, Up
      <4> QED BY <4>1, <4>2 DEF Basis
    <3> QED BY <3>1, <3>2, NodeNames DEF LinkInv, SidesAgree
  <2> QED BY <2>1, <2>2 DEF HealthyMeansLinked
<1> QED BY <1>1, LinkInvariant, PTL

\* What outlives a failed step or a process stands on a committed adjacency: Babel
\* admits only addresses the interface has, and the file names the adjacency last
\* committed or adopted, wherever the process ends between the commit and the receipt,
\* unless it could be neither replaced nor removed or was passed over at a start.
THEOREM AdjacencyIsBacked == Spec => []AdjacencyBacked
<1>1. LinkInv => AdjacencyBacked
  BY DEF LinkInv, NodeInv, Admitted, FileSound, AdjacencyBacked, AdmittedStands, ReceiptStands
<1> QED BY <1>1, LinkInvariant, PTL

\* What Babel admits is taken back only for a replacement, while the process lives.
ForwardingStep == \A n \in Nodes :
  bab[n] # None /\ bab'[n] # bab[n] /\ sup'[n].run # "dead" =>
    worker[n].at \in {"install", "commit"} /\ ~Same(n)

\* Losing control never stops forwarding: no failed session, missed pong, failed
\* commit or restart of a supervisor takes an adjacency out of Babel.
THEOREM ForwardingIsKept == Spec => ForwardingKept
<1>1. TypeOK /\ LinkInv /\ [Next]_vars => ForwardingStep
  <2> SUFFICES ASSUME TypeOK, LinkInv, [Next]_vars, NEW n \in Nodes,
                      bab[n] # None, bab'[n] # bab[n], sup'[n].run # "dead"
               PROVE  worker[n].at \in {"install", "commit"} /\ ~Same(n)
    BY DEF ForwardingStep
  <2>0. NodeInv(n)
    BY DEF LinkInv
  <2>1. st[n].local = bab[n] /\ sup[n].run # "dead"
    BY <2>0 DEF NodeInv, Admitted, OffIsClean
  <2>2. ASSUME NEW a \in Nodes, NEW s, Confirms(a, s), s.result = sup[a].result, sup[a].result # None
        PROVE  FALSE
    <3>1. a = n
      BY <2>2 DEF Confirms, Reconfirms, Commits, TypeOK
    <3>2. bab'[n] = bab[n] \/ bab'[n] = s.result
      BY <2>2, <3>1 DEF Confirms, Reconfirms, Commits, TypeOK
    <3>3. s.result = bab[n]
      BY <2>0, <2>1, <2>2, <3>1 DEF NodeInv, OneLocal
    <3> QED BY <3>2, <3>3
  <2>3. ASSUME NEW a \in Nodes, FinishedOk(a) PROVE FALSE
    <3>1. Established(a).result = sup[a].result
      BY DEF Established, TypeOK, Supervisor
    <3>2. sup[a].result # None
      BY <2>3 DEF FinishedOk, At, LinkInv, NodeInv, WorkerSound
    <3> QED BY <2>2, <2>3, <3>1, <3>2 DEF FinishedOk
  <2>4. ASSUME NEW a \in Nodes, ReceivePong(a) PROVE FALSE
    <3>1. Ponged(a).result = sup[a].result /\ sup[a].result # None
      BY <2>4 DEF ReceivePong, Pong, Answers, Linked, Ponged, TypeOK, Supervisor
    <3> QED BY <2>2, <2>4, <3>1 DEF ReceivePong
  <2>5. ASSUME NEW a \in Nodes, InstallNew(a) \/ InstallFails(a)
        PROVE  worker[n].at \in {"install", "commit"} /\ ~Same(n)
    <3>1. a = n
      BY <2>5 DEF InstallNew, InstallFails, Withdraws, TypeOK
    <3> QED BY <2>5, <3>1 DEF InstallNew, InstallFails, Requests
  <2>6. ASSUME NEW a \in Nodes, Crash(a) PROVE FALSE
    <3>1. a = n
      BY <2>6 DEF Crash, TypeOK
    <3> QED BY <2>6, <3>1 DEF Crash, Stopped, Fresh, TypeOK
  <2>7. ASSUME NEW a \in Nodes, Adopt(a) PROVE FALSE
    <3>1. a = n
      BY <2>7 DEF Adopt, TypeOK
    <3> QED BY <2>1, <2>7, <3>1 DEF Adopt
  <2>8. ASSUME bab' = bab PROVE FALSE
    BY <2>8
  <2>9. ASSUME SendHello \/ ReceiveHello \/ ReceiveAck \/ Connect \/ Negotiate \/ Break \/ UNCHANGED vars
        PROVE  FALSE
    BY <2>8, <2>9 DEF SendHello, ReceiveHello, ReceiveAck, Connect, Negotiate, Break, vars, resources
  <2>10. ASSUME NEW a \in Nodes,
                \/ WriteAccept(a) \/ SessionFails(a) \/ InstallSame(a) \/ WithdrawFails(a)
                \/ FinishedCommitFails(a) \/ FinishedErr(a) \/ Tick(a) \/ AnswerPing(a) \/ PongCommitFails(a)
                \/ Remember(a) \/ Retry(a) \/ Maintain(a) \/ StartCold(a) \/ ChangeAvailable(a)
         PROVE  FALSE
    <3>1. bab' = bab
      BY <2>10 DEF WriteAccept, SessionFails, InstallSame, WithdrawFails, FinishedCommitFails, ConfirmFails,
                   FinishedErr, Tick, Expired, AnswerPing, PongCommitFails, Remember, Retry, Maintain, StartCold,
                   ChangeAvailable, resources
    <3> QED BY <2>8, <3>1
  <2> QED BY <2>3, <2>4, <2>5, <2>6, <2>7, <2>9, <2>10 DEF Next
<1>2. ForwardingKept <=> [][ForwardingStep]_vars
  BY DEF ForwardingKept, ForwardingStep
<1> QED BY <1>1, <1>2, LinkInvariant, PTL DEF Spec

=============================================================================

--------------------------- MODULE LinkSupervisor ---------------------------
(***************************************************************************)
(* The supervisors of one configured Link at its two nodes                 *)
(* (internal/runtime/link_health.go, manageLink and runLink).              *)
(*                                                                         *)
(* A supervisor announces itself with Hello, negotiates addresses in a     *)
(* short TCP worker, installs what was agreed, and then judges the Link    *)
(* by ping and pong alone.  It keeps the adjacency in Runner.states, in    *)
(* the kernel, in Babel's admission list and in a warm receipt on disk,    *)
(* from which the next process adopts the Link.                            *)
(*                                                                         *)
(* The negotiation itself is LinkNegotiation; here a session settles on    *)
(* the first jointly available proposal, the acceptor installs it, then    *)
(* writes LINK_ACCEPT, then the proposer installs it.  One action is one   *)
(* case of manageLink's select, one step of a worker, or one packet.       *)
(* Proposals are numbered in the order they are derived.                   *)
(***************************************************************************)
EXTENDS Naturals, FiniteSetsExt

CONSTANTS
  MaxProposal,   \* proposals derived before a session gives up
  MaxFaults      \* losses, failed kernel calls, crashes, changes of availability

ASSUME LinkSupervisorConstants == MaxProposal \in Nat \ {0} /\ MaxFaults \in Nat

Low == "low"     \* the node with the lower link-local address: it dials
High == "high"
Nodes == {Low, High}
Peer(n) == IF n = Low THEN High ELSE Low

Proposals == 1 .. MaxProposal
None == 0
MissedPings == 3   \* linkFailureTimeout in ping intervals

VARIABLES
  sup,     \* locals of manageLink
  st,      \* Runner.states of the interface
  kern,    \* its addresses and its peer loopback route in the kernel
  bab,     \* what Babel's manager admits for the interface
  warm,    \* the receipt in memory
  disk,    \* the receipt file
  worker,  \* the negotiation worker and the proposal it is about
  conn,    \* the two workers are joined by an open connection
  hello,   \* a Hello of High is on its way to Low
  avail,   \* proposals whose addresses are free at a node
  faults,  \* faults left
  last,    \* the adjacency last committed and not withdrawn (history)
  stale,   \* nodes whose file holds a receipt that an earlier process started
           \* without, or that could be neither replaced nor removed (history)
  torn     \* one side ended its last session without the other, or adopted a
           \* stale receipt (history)

resources == <<st, kern, bab, warm, disk, last, stale>>
vars == <<sup, st, kern, bab, warm, disk, worker, conn, hello, avail, faults, last, stale, torn>>

\* run: the process is gone, runLink waits, manageLink is in its select, or in
\* confirm between the commit and the receipt.
Supervisor == [run: {"dead", "retry", "on", "confirm"}, result: Proposals \cup {None},
               ready: BOOLEAN, changed: BOOLEAN, healthy: BOOLEAN,
               challenge: {"none", "sent", "answered"}, missed: 0 .. MissedPings - 1]
NoState == [local |-> None, peers |-> FALSE, active |-> FALSE, committed |-> FALSE]
Stages == {"idle", "dial", "open", "await", "install", "installed", "commit", "ok", "err"}

\* Types.  A healthy Link has missed fewer pings than make it lost.
TypeOK ==
  /\ sup \in [Nodes -> Supervisor]
  /\ st \in [Nodes -> [local: Proposals \cup {None}, peers: BOOLEAN, active: BOOLEAN,
                       committed: BOOLEAN]]
  /\ kern \in [Nodes -> [addrs: SUBSET Proposals, route: BOOLEAN]]
  /\ bab \in [Nodes -> Proposals \cup {None}]
  /\ warm \in [Nodes -> Proposals \cup {None}]
  /\ disk \in [Nodes -> Proposals \cup {None}]
  /\ worker \in [Nodes -> [at: Stages, value: Proposals \cup {None}]]
  /\ conn \in BOOLEAN /\ hello \in BOOLEAN /\ torn \in BOOLEAN
  /\ avail \in [Nodes -> SUBSET Proposals]
  /\ faults \in 0 .. MaxFaults
  /\ last \in [Nodes -> Proposals \cup {None}]
  /\ stale \in SUBSET Nodes

-----------------------------------------------------------------------------
(***************************************************************************)
(* A supervisor starts: with the receipt it resumes, without it waits.     *)
(***************************************************************************)
Fresh == [run |-> "on", result |-> None, ready |-> FALSE, changed |-> FALSE,
          healthy |-> FALSE, challenge |-> "none", missed |-> 0]
Started(receipt) ==
  IF receipt = None THEN Fresh
  ELSE [Fresh EXCEPT !.result = receipt, !.ready = TRUE, !.challenge = "sent"]
Stopped(run) == [Fresh EXCEPT !.run = run]

NoWorker == [at |-> "idle", value |-> None]
On(n) == sup[n].run = "on"
Up(n) == sup[n].run \in {"on", "confirm"}
Idle(n) == worker[n].at = "idle"
At(n, stage) == worker[n].at = stage

Pinged(s) == IF s.result # None /\ s.ready THEN [s EXCEPT !.challenge = "sent"] ELSE s

Lose == faults > 0 /\ faults' = faults - 1
Calm == UNCHANGED faults
Charge(fails) == IF fails THEN Lose ELSE Calm

Init ==
  /\ sup = [n \in Nodes |-> Fresh]
  /\ st = [n \in Nodes |-> NoState]
  /\ kern = [n \in Nodes |-> [addrs |-> {}, route |-> FALSE]]
  /\ bab = [n \in Nodes |-> None]
  /\ warm = bab /\ disk = bab /\ last = bab
  /\ worker = [n \in Nodes |-> NoWorker]
  /\ conn = FALSE /\ hello = FALSE
  /\ stale = {} /\ torn = FALSE
  /\ avail \in [Nodes -> SUBSET Proposals]
  /\ faults = MaxFaults

-----------------------------------------------------------------------------
(***************************************************************************)
(* Materialize: the wanted address is added, others deleted, then routes.  *)
(* A failed pass leaves a prefix of that.                                  *)
(***************************************************************************)
Materialized(p, route) == [addrs |-> {p}, route |-> route]
PartlyMaterialized(k, p, route) ==
  {k, [k EXCEPT !.addrs = @ \cup {p}], [k EXCEPT !.addrs = {p}], Materialized(p, route)}

\* saveWarmLinks: the file is replaced; when that fails it is removed, and when
\* that fails too the older receipt stays.
Saves(n, receipt, fails) ==
  \E left \in IF fails THEN {None, disk[n]} ELSE {receipt} :
    /\ disk' = [disk EXCEPT ![n] = left]
    /\ stale' = IF left \in {None, receipt} THEN stale \ {n} ELSE stale \cup {n}

\* markLinkLost.
Lost(state) == [state EXCEPT !.active = FALSE]

\* A worker ends: its peer's has ended well if this one was left to commit.
Tears(n) == torn' = (torn \/ At(n, "commit"))

\* manageLink returns an error: its worker ends with it, runLink marks the Link
\* lost and starts over after a second.
Exits(n) ==
  /\ sup' = [sup EXCEPT ![n] = Stopped("retry")]
  /\ worker' = [worker EXCEPT ![n] = NoWorker]
  /\ conn' = FALSE
  /\ hello' = (hello /\ n # Low)
  /\ Tears(n)

-----------------------------------------------------------------------------
(***************************************************************************)
(* confirm: an unhealthy Link is committed (commitLink), then the receipt  *)
(* is written (Remember).  s holds the supervisor's locals at the call.    *)
(***************************************************************************)
Commits(n, p) ==
  /\ kern' = [kern EXCEPT ![n] = Materialized(p, TRUE)]
  /\ st' = [st EXCEPT ![n] = [local |-> p, peers |-> TRUE, active |-> TRUE, committed |-> TRUE]]
  /\ bab' = [bab EXCEPT ![n] = p]
  /\ last' = [last EXCEPT ![n] = p]

\* rememberWarmLink.  The state is active: the supervisor is healthy.
Remembers(n, receipt) ==
  /\ warm' = [warm EXCEPT ![n] = receipt]
  /\ \E fails \in BOOLEAN : Saves(n, receipt, fails) /\ Charge(fails)

\* A healthy supervisor has nothing to commit and writes the receipt at once.
Reconfirms(n, s) ==
  /\ s.healthy
  /\ sup' = [sup EXCEPT ![n] = [s EXCEPT !.missed = 0]]
  /\ Remembers(n, s.result)
  /\ UNCHANGED <<kern, st, bab, last>>

\* Mutant: a Link that recovers is believed healthy without a commit.
ConfirmsOnly(n, s) ==
  \/ Reconfirms(n, s)
  \/ /\ ~s.healthy /\ Calm
     /\ sup' = [sup EXCEPT ![n] = [s EXCEPT !.healthy = TRUE, !.missed = 0, !.run = "confirm"]]
     /\ UNCHANGED resources

Confirms(n, s) ==
  \/ Reconfirms(n, s)
  \/ /\ ~s.healthy /\ Calm
     /\ Commits(n, s.result)
     /\ sup' = [sup EXCEPT ![n] = [s EXCEPT !.healthy = TRUE, !.missed = 0, !.run = "confirm"]]
     /\ UNCHANGED <<warm, disk, stale>>

\* The rest of confirm, once the commit is through.
Remember(n) ==
  /\ sup[n].run = "confirm"
  /\ sup' = [sup EXCEPT ![n].run = "on"]
  /\ Remembers(n, sup[n].result)
  /\ UNCHANGED <<kern, st, bab, last, worker, conn, hello, avail, torn>>

\* A kernel call of the commit fails: the supervisor gives up.
ConfirmFails(n, s) ==
  /\ ~s.healthy /\ Lose
  /\ \E k \in PartlyMaterialized(kern[n], s.result, TRUE) : kern' = [kern EXCEPT ![n] = k]
  /\ st' = [st EXCEPT ![n] = Lost(@)]
  /\ UNCHANGED <<bab, warm, disk, last, stale>>

(***************************************************************************)
(* Discovery.  An unhealthy, idle supervisor says Hello every second; the  *)
(* answer to a Hello is an acknowledgement.  Low dials on High's Hello,    *)
(* healthy or not, and on an acknowledgement while it is unhealthy.        *)
(***************************************************************************)
SendHello ==
  /\ On(High) /\ Idle(High) /\ ~sup[High].healthy /\ Up(Low) /\ ~hello
  /\ hello' = TRUE
  /\ UNCHANGED <<sup, resources, worker, conn, avail, faults, torn>>

StartsDial ==
  /\ worker' = [worker EXCEPT ![Low].at = "dial"]
  /\ sup' = [sup EXCEPT ![Low].changed = FALSE]

ReceiveHello ==
  /\ hello /\ On(Low) /\ hello' = FALSE
  /\ IF Idle(Low) THEN StartsDial ELSE UNCHANGED <<worker, sup>>
  /\ UNCHANGED <<resources, conn, avail, faults, torn>>

\* Low's own Hello came back as an acknowledgement.
ReceiveAck ==
  /\ On(Low) /\ Up(High) /\ Idle(Low) /\ ~sup[Low].healthy
  /\ StartsDial
  /\ UNCHANGED <<resources, conn, hello, avail, faults, torn>>

\* High accepts unless a worker is busy; nobody listens while it is off, and
\* the connection waits in the backlog while it confirms.
Connect ==
  /\ At(Low, "dial")
  /\ \/ /\ On(High) /\ Idle(High)
        /\ worker' = [n \in Nodes |-> [NoWorker EXCEPT !.at = "open"]]
        /\ sup' = [sup EXCEPT ![High].changed = FALSE]
        /\ conn' = TRUE
     \/ /\ ~Up(High) \/ (On(High) /\ ~Idle(High))
        /\ worker' = [worker EXCEPT ![Low].at = "err"]
        /\ UNCHANGED <<sup, conn>>
  /\ UNCHANGED <<resources, hello, avail, faults, torn>>

-----------------------------------------------------------------------------
(***************************************************************************)
(* The TCP session.  Low proposes its first available proposal; whoever    *)
(* answers accepts it or counterproposes.                                  *)
(***************************************************************************)
Joint == avail[Low] \cap avail[High]

Negotiate ==
  /\ conn /\ At(Low, "open") /\ At(High, "open")
  /\ \/ /\ Joint # {}
        /\ LET p == Min(Joint)
           IN  \E acceptor \in IF p = Min(avail[Low]) THEN {High} ELSE Nodes :
                 worker' = [n \in Nodes |->
                   [at |-> IF n = acceptor THEN "install" ELSE "await", value |-> p]]
        /\ UNCHANGED conn
     \/ /\ Joint = {} /\ conn' = FALSE
        /\ worker' = [n \in Nodes |-> [NoWorker EXCEPT !.at = "err"]]
  /\ UNCHANGED <<sup, resources, hello, avail, faults, torn>>

\* The acceptor writes LINK_ACCEPT and is done.  On a broken connection the
\* write may still succeed, or fail.
WriteAccept(n) ==
  /\ At(n, "installed")
  /\ \/ /\ conn /\ conn' = FALSE /\ torn' = FALSE
        /\ worker' = [worker EXCEPT ![n].at = "ok", ![Peer(n)].at = "commit"]
     \/ /\ ~conn /\ UNCHANGED conn
        /\ \/ worker' = [worker EXCEPT ![n].at = "ok"] /\ torn' = TRUE
           \/ worker' = [worker EXCEPT ![n].at = "err"] /\ UNCHANGED torn
  /\ UNCHANGED <<sup, resources, hello, avail, faults>>

\* A worker waiting for its peer reads EOF, a reset or its timer.
SessionFails(n) ==
  /\ ~conn /\ worker[n].at \in {"open", "await"}
  /\ worker' = [worker EXCEPT ![n].at = "err"]
  /\ UNCHANGED <<sup, resources, conn, hello, avail, faults, torn>>

\* The connection is reset or one side times out.
Break ==
  /\ conn /\ conn' = FALSE /\ Lose
  /\ UNCHANGED <<sup, resources, worker, hello, avail, torn>>

-----------------------------------------------------------------------------
(***************************************************************************)
(* The install request of a worker.                                        *)
(***************************************************************************)
Requests(n) == On(n) /\ worker[n].at \in {"install", "commit"}

\* Mutant: any installed Link counts as the negotiated one.
SameLink(n) == sup[n].result # None
Same(n) == sup[n].result = worker[n].value

Proceeds(n) ==
  worker' = [worker EXCEPT ![n].at = IF @ = "install" THEN "installed" ELSE "ok"]

\* The negotiation confirmed what is installed.
InstallSame(n) ==
  /\ Requests(n) /\ Same(n)
  /\ sup' = [sup EXCEPT ![n] = Pinged(@)]
  /\ Proceeds(n)
  /\ UNCHANGED <<resources, conn, hello, avail, faults, torn>>

\* withdrawLinkAdjacency has nothing to do without an adjacency.
Adjacent(n) == st[n].active \/ st[n].peers

\* Mutant: withdrawal keeps the receipt.
ForgetsNothing(n, fails) == ~fails /\ UNCHANGED <<warm, disk, stale>>

\* forgetWarmLink: a receipt in memory is deleted and the file saved.
Forgets(n, fails) ==
  IF warm[n] = None
  THEN ~fails /\ UNCHANGED <<warm, disk, stale>>
  ELSE warm' = [warm EXCEPT ![n] = None] /\ Saves(n, None, fails)

\* Mutant: withdrawal does not tell Babel.
WithdrawsSilently(n, fails) ==
  IF Adjacent(n)
  THEN Forgets(n, fails) /\ last' = [last EXCEPT ![n] = None] /\ UNCHANGED bab
  ELSE ~fails /\ UNCHANGED <<warm, disk, stale, bab, last>>

\* withdrawLinkAdjacency succeeds, whether or not the file could be saved; what
\* it leaves in the kernel and in states is overwritten or stated by its caller.
Withdraws(n, fails) ==
  IF Adjacent(n)
  THEN Forgets(n, fails) /\ bab' = [bab EXCEPT ![n] = None] /\ last' = [last EXCEPT ![n] = None]
  ELSE ~fails /\ UNCHANGED <<warm, disk, stale, bab, last>>

\* What the supervisor knows while it replaces what is installed.
Replacing(s) == [s EXCEPT !.ready = FALSE, !.changed = TRUE, !.healthy = FALSE, !.missed = 0]

InstallNew(n) ==
  /\ Requests(n) /\ ~Same(n)
  /\ \E fails \in BOOLEAN : Withdraws(n, fails) /\ Charge(fails)
  /\ kern' = [kern EXCEPT ![n] = Materialized(worker[n].value, FALSE)]
  /\ st' = [st EXCEPT ![n] = [NoState EXCEPT !.local = worker[n].value]]
  /\ sup' = [sup EXCEPT ![n] = [Replacing(@) EXCEPT !.result = worker[n].value, !.challenge = "none"]]
  /\ Proceeds(n)
  /\ UNCHANGED <<conn, hello, avail, torn>>

\* The withdrawal went through, the new addresses did not: the session fails,
\* and the old result is kept until the worker ends.
InstallFails(n) ==
  /\ Requests(n) /\ ~Same(n) /\ Lose
  /\ \E fails \in BOOLEAN : Withdraws(n, fails)
  /\ st' = IF Adjacent(n) THEN [st EXCEPT ![n] = [NoState EXCEPT !.local = st[n].local]] ELSE st
  /\ LET before == IF Adjacent(n) THEN Materialized(st[n].local, FALSE) ELSE kern[n]
     IN  \E k \in PartlyMaterialized(before, worker[n].value, FALSE) : kern' = [kern EXCEPT ![n] = k]
  /\ sup' = [sup EXCEPT ![n] = Replacing(@)]
  /\ worker' = [worker EXCEPT ![n].at = "err"]
  /\ conn' = FALSE /\ Tears(n)
  /\ UNCHANGED <<hello, avail>>

\* The withdrawal itself fails: the receipt is forgotten, the bookkeeping stays,
\* and the supervisor gives up.
WithdrawFails(n) ==
  /\ Requests(n) /\ ~Same(n) /\ Adjacent(n) /\ Lose
  /\ \E fails \in BOOLEAN : Forgets(n, fails)
  /\ last' = [last EXCEPT ![n] = None]
  /\ \E k \in PartlyMaterialized(kern[n], st[n].local, FALSE) : kern' = [kern EXCEPT ![n] = k]
  /\ st' = [st EXCEPT ![n] = Lost(@)]
  /\ Exits(n)
  /\ UNCHANGED <<bab, avail>>

-----------------------------------------------------------------------------
(***************************************************************************)
(* The end of a worker.                                                    *)
(***************************************************************************)
Established(n) == [sup[n] EXCEPT !.ready = (sup[n].result # None), !.challenge = "sent"]

FinishedOk(n) ==
  /\ On(n) /\ At(n, "ok")
  /\ Confirms(n, Established(n))
  /\ worker' = [worker EXCEPT ![n] = NoWorker]
  /\ UNCHANGED <<conn, hello, avail, torn>>

FinishedCommitFails(n) ==
  /\ On(n) /\ At(n, "ok")
  /\ ConfirmFails(n, Established(n)) /\ Exits(n)
  /\ UNCHANGED avail

\* Mutant: the supervisor stays busy after a failed session.
FinishedErrBusy(n) ==
  /\ On(n) /\ At(n, "err")
  /\ sup' = IF sup[n].changed
            THEN [sup EXCEPT ![n] = [@ EXCEPT !.ready = FALSE, !.result = None, !.challenge = "none"]]
            ELSE sup
  /\ UNCHANGED <<worker, resources, conn, hello, avail, faults, torn>>

\* An error changes nothing unless the session had replaced what was installed.
FinishedErr(n) ==
  /\ On(n) /\ At(n, "err")
  /\ worker' = [worker EXCEPT ![n] = NoWorker]
  /\ sup' = IF sup[n].changed
            THEN [sup EXCEPT ![n] = [@ EXCEPT !.ready = FALSE, !.result = None, !.challenge = "none"]]
            ELSE sup
  /\ UNCHANGED <<resources, conn, hello, avail, faults, torn>>

(***************************************************************************)
(* Ping and pong.  One challenge is outstanding; the next one replaces it. *)
(***************************************************************************)
Linked(n) == sup[n].result # None /\ sup[n].ready
Answers(n) == On(n) /\ Linked(n)

\* The pong would arrive within the interval unless a packet is lost.
PongDue(n) == \/ sup[n].challenge = "answered"
              \/ sup[n].challenge = "sent" /\ Up(Peer(n)) /\ Linked(Peer(n))

\* Mutant: a Link whose pongs stop is taken out of Babel.
ExpiredRevokes(n) ==
  /\ st' = [st EXCEPT ![n] = Lost(@)] /\ bab' = [bab EXCEPT ![n] = None]
  /\ UNCHANGED <<kern, warm, disk, last, stale>>

\* The pong deadline passes: the Link is lost and its forwarding stays.
Expired(n) ==
  /\ st' = [st EXCEPT ![n] = Lost(@)]
  /\ UNCHANGED <<kern, bab, warm, disk, last, stale>>

\* Mutant: the deadline is one interval late.
OverdueLate(n) == sup[n].healthy /\ sup[n].missed = MissedPings
\* linkHealth.expired at the end of this interval.
Overdue(n) == sup[n].healthy /\ sup[n].missed = MissedPings - 1

\* A ping interval passes without a pong.
Tick(n) ==
  /\ Answers(n)
  /\ IF PongDue(n) THEN Lose ELSE Calm
  /\ IF Overdue(n)
     THEN /\ Expired(n)
          /\ sup' = [sup EXCEPT ![n] = Pinged([@ EXCEPT !.healthy = FALSE, !.missed = 0])]
     ELSE /\ UNCHANGED resources
          /\ sup' = [sup EXCEPT ![n] = Pinged([@ EXCEPT !.missed =
                                                  IF sup[n].healthy THEN sup[n].missed + 1 ELSE 0])]
  /\ UNCHANGED <<worker, conn, hello, avail, torn>>

\* The peer answers a ping once it has a negotiated Link.  The ping that follows
\* a confirm is not sent before its end.
AnswerPing(n) ==
  /\ On(n) /\ sup[n].challenge = "sent" /\ Answers(Peer(n))
  /\ sup' = [sup EXCEPT ![n].challenge = "answered"]
  /\ UNCHANGED <<resources, worker, conn, hello, avail, faults, torn>>

Pong(n) == Answers(n) /\ sup[n].challenge = "answered"
Ponged(n) == [sup[n] EXCEPT !.challenge = "none"]

ReceivePong(n) ==
  /\ Pong(n) /\ Confirms(n, Ponged(n))
  /\ UNCHANGED <<worker, conn, hello, avail, torn>>

PongCommitFails(n) ==
  /\ Pong(n) /\ ConfirmFails(n, Ponged(n)) /\ Exits(n)
  /\ UNCHANGED avail

-----------------------------------------------------------------------------
(***************************************************************************)
(* The process.                                                            *)
(***************************************************************************)
\* runLink starts the supervisor again; the receipt in memory resumes the Link.
Retry(n) ==
  /\ sup[n].run = "retry"
  /\ sup' = [sup EXCEPT ![n] = Started(warm[n])]
  /\ UNCHANGED <<resources, worker, conn, hello, avail, faults, torn>>

\* maintainMaterialized repairs what a failed pass left.  A pass that finds
\* nothing to repair is a stuttering step.
Maintain(n) ==
  /\ sup[n].run # "dead" /\ st[n].local # None
  /\ kern[n] # Materialized(st[n].local, st[n].peers)
  /\ kern' = [kern EXCEPT ![n] = Materialized(st[n].local, st[n].peers)]
  /\ UNCHANGED <<sup, st, bab, warm, disk, worker, conn, hello, avail, faults, last, stale, torn>>

\* The process ends, by a crash, a stop or a reload; kernel and file remain.
Crash(n) ==
  /\ sup[n].run # "dead" /\ Lose
  /\ sup' = [sup EXCEPT ![n] = Stopped("dead")]
  /\ Tears(n)
  /\ worker' = [worker EXCEPT ![n] = NoWorker]
  /\ conn' = FALSE /\ hello' = (hello /\ n # Low)
  /\ st' = [st EXCEPT ![n] = NoState]
  /\ bab' = [bab EXCEPT ![n] = None]
  /\ warm' = [warm EXCEPT ![n] = None]
  /\ UNCHANGED <<kern, disk, avail, last, stale>>

\* CanAdoptLink: the addresses of the receipt are on the interface.
CanAdopt(n) == disk[n] # None /\ disk[n] \in kern[n].addrs

\* A new process adopts the Link its predecessor left.
Adopt(n) ==
  /\ sup[n].run = "dead" /\ CanAdopt(n)
  /\ kern' = [kern EXCEPT ![n] = Materialized(disk[n], TRUE)]
  /\ st' = [st EXCEPT ![n] = [local |-> disk[n], peers |-> TRUE, active |-> FALSE, committed |-> TRUE]]
  /\ bab' = [bab EXCEPT ![n] = disk[n]]
  /\ warm' = [warm EXCEPT ![n] = disk[n]]
  /\ sup' = [sup EXCEPT ![n] = Started(disk[n])]
  /\ last' = [last EXCEPT ![n] = disk[n]]
  /\ stale' = stale \ {n}
  /\ torn' = (torn \/ n \in stale)
  /\ UNCHANGED <<disk, worker, conn, hello, avail, faults>>

\* There is no receipt to adopt, or its other checks refuse it (a fault here).
\* The file is not written: a receipt that was passed over stays in it.
StartCold(n) ==
  /\ sup[n].run = "dead"
  /\ IF CanAdopt(n) THEN Lose ELSE Calm
  /\ sup' = [sup EXCEPT ![n] = Fresh]
  /\ stale' = IF disk[n] = None THEN stale ELSE stale \cup {n}
  /\ UNCHANGED <<st, kern, bab, warm, disk, last, worker, conn, hello, avail, torn>>

\* Another interface takes or frees the addresses of a proposal.
ChangeAvailable(n) ==
  /\ Lose
  /\ \E p \in Proposals :
       avail' = [avail EXCEPT ![n] = IF p \in @ THEN @ \ {p} ELSE @ \cup {p}]
  /\ UNCHANGED <<sup, resources, worker, conn, hello, torn>>

Next ==
  \/ SendHello \/ ReceiveHello \/ ReceiveAck \/ Connect \/ Negotiate \/ Break
  \/ \E n \in Nodes :
       \/ WriteAccept(n) \/ SessionFails(n)
       \/ InstallSame(n) \/ InstallNew(n) \/ InstallFails(n) \/ WithdrawFails(n)
       \/ FinishedOk(n) \/ FinishedCommitFails(n) \/ FinishedErr(n) \/ Remember(n)
       \/ Tick(n) \/ AnswerPing(n) \/ ReceivePong(n) \/ PongCommitFails(n)
       \/ Retry(n) \/ Maintain(n) \/ Crash(n) \/ Adopt(n) \/ StartCold(n)
       \/ ChangeAvailable(n)

Spec == Init /\ [][Next]_vars

\* Every loop keeps running and packets get through; faults are only bounded.
Fairness ==
  /\ WF_vars(SendHello) /\ WF_vars(ReceiveHello) /\ WF_vars(ReceiveAck)
  /\ WF_vars(Connect) /\ WF_vars(Negotiate)
  /\ \A n \in Nodes :
       /\ WF_vars(WriteAccept(n)) /\ WF_vars(SessionFails(n))
       /\ WF_vars(InstallSame(n)) /\ WF_vars(InstallNew(n))
       /\ WF_vars(FinishedOk(n)) /\ WF_vars(FinishedErr(n)) /\ WF_vars(Remember(n))
       /\ WF_vars(Tick(n) /\ Calm) /\ WF_vars(AnswerPing(n)) /\ WF_vars(ReceivePong(n))
       /\ WF_vars(Retry(n)) /\ WF_vars(Adopt(n) \/ (StartCold(n) /\ Calm))
LiveSpec == Spec /\ Fairness

-----------------------------------------------------------------------------
(***************************************************************************)
(* Properties.                                                             *)
(***************************************************************************)
\* A Link reported healthy is installed: its state, the kernel, Babel and, once
\* confirm is through, the receipt in memory all stand for the result its
\* supervisor holds (confirm, withdraw, markLinkLost).
HealthyInstalled == \A n \in Nodes : sup[n].healthy =>
  LET p == sup[n].result
  IN  /\ p # None /\ sup[n].ready
      /\ st[n] = [local |-> p, peers |-> TRUE, active |-> TRUE, committed |-> TRUE]
      /\ kern[n] = Materialized(p, TRUE) /\ bab[n] = p
      /\ On(n) => warm[n] = p

\* Two healthy supervisors at rest agree on the addresses of the Link, unless
\* their last session ended on one side only (changed, FinishedErr), or one of
\* them adopted a stale receipt (prepareWarmLinks).
HealthyAgree ==
  (\A n \in Nodes : sup[n].healthy /\ Idle(n)) /\ ~torn =>
    sup[Low].result = sup[High].result

\* Healthy means linked: everywhere on this node, and to the same addresses as the peer.
HealthyMeansLinked == HealthyInstalled /\ HealthyAgree

\* Babel admits only addresses the interface has, of an adjacency that is still
\* committed: whichever step fails, what is withdrawn is withdrawn from Babel
\* before its addresses go (withdrawLinkAdjacency, materializeLink).
AdmittedStands == \A n \in Nodes : bab[n] # None =>
  bab[n] \in kern[n].addrs /\ st[n].committed /\ st[n].local = bab[n]

\* The receipt file names the adjacency last committed or adopted, or none,
\* whichever step fails and wherever the process ends.  Two receipts alone may
\* be older: one that could be neither replaced nor removed, and one a process
\* passed over at its start, until it is next saved (forgetWarmLink,
\* rememberWarmLink, saveWarmLinks).
ReceiptStands == \A n \in Nodes : disk[n] # None => disk[n] = last[n] \/ n \in stale

\* What outlives a failed step or a process, Babel's admission and the receipt, stands on
\* a committed adjacency.
AdjacencyBacked == AdmittedStands /\ ReceiptStands

\* Losing control never stops forwarding: while the process lives, Babel's
\* admission ends only when a session installs a replacement (markLinkLost).
ForwardingKept == [][\A n \in Nodes :
  bab[n] # None /\ bab'[n] # bab[n] /\ sup'[n].run # "dead" =>
    worker[n].at \in {"install", "commit"} /\ ~Same(n)]_vars

\* Once the two nodes have a proposal in common for good, both supervisors
\* become and stay healthy (Hello, dial, negotiation, ping).
LinkRecovers == <>[](Joint # {}) => <>[](\A n \in Nodes : sup[n].healthy)

\* ... and on the same addresses: VFP.md has ordinary negotiation converge again
\* when a session failed between the two installations.
StateConverges ==
  <>[](Joint # {}) => <>[](sup[Low].result = sup[High].result /\ sup[Low].result # None)
=============================================================================

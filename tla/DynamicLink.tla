---------------------------- MODULE DynamicLink ----------------------------
(***************************************************************************)
(* Automatic Link Attempts between two nodes (internal/runtime/dynamic).   *)
(*                                                                         *)
(* Each node runs a dynamicLinkEngine.  A node dials its peer over the     *)
(* existing fabric and proposes a direct Link on that routed session; the  *)
(* peer accepts or declines; both search a UDP path, configure WireGuard   *)
(* as a receiver, exchange WG_READY, start to transmit, and negotiate the  *)
(* Link (LinkNegotiation) over it.  Either may dial, so two Proposals may  *)
(* cross.                                                                  *)
(*                                                                         *)
(* One action is one critical section of the engine (resourceMu and mu),   *)
(* one Send, or one event of a worker.  An outbound session proposes once, *)
(* with a fresh operationID, so a session and its operation share a name:  *)
(* <<dialler, number>>.  The interface name is the same for every Attempt  *)
(* of a pair; its OwnerAlias names the operation that created it.          *)
(***************************************************************************)
EXTENDS Naturals, Sequences, FiniteSets

CONSTANTS
  MaxDials,    \* routed sessions each node may dial
  MaxFaults,   \* failures of kernel, network and peer between them
  Timers       \* whether timeouts elapse: a choice of the behaviour

ASSUME DynamicLinkConstants ==
  MaxDials \in Nat /\ MaxFaults \in Nat /\ Timers \subseteq BOOLEAN

Low == "low"     \* the node with the smaller UUID
High == "high"
Nodes == {Low, High}
Peer(n) == IF n = Low THEN High ELSE Low

Ops == Nodes \X (1 .. MaxDials)
Dialler(s) == s[1]
None == <<"none", 0>>

VARIABLES
  att,      \* attempts[peer]
  pend,     \* pendingCleanups[peer]: the interface a decline left behind
  late,     \* deferred cleanups whose timer may already have fired
  kern,     \* the WireGuard interface of the pair in the kernel
  link,     \* runner.states of that interface
  owned,    \* links.resources: every generation the node has to account for
  dirty,    \* the generations among them with the cleanup flag
  ends,     \* the two ends of every routed session
  chan,     \* frames in flight to a node on a session
  pc,       \* what the handler of a session has still to do
  worker,   \* runProbe of an operation
  inbox,    \* discovery records queued for that worker
  heard,    \* operations a node has configured a receiver for (history)
  budget    \* what may still go wrong: failures left, timeouts elapse

protocol == <<ends, chan, pc>>
probing == <<worker, inbox, heard>>
resources == <<kern, link, owned, dirty>>
vars == <<att, pend, late, kern, link, owned, dirty, ends, chan, pc, worker, inbox, heard, budget>>

Attempt == [op: Ops, alias: Ops, local: BOOLEAN,
            state: {"proposing", "probing", "attempting", "up", "recovering"},
            deadline: BOOLEAN, cancelled: BOOLEAN]
NoAttempt == [op |-> None]
Cleanup == [op: Ops, alias: Ops]
NoCleanup == [op |-> None]
Interface == [alias: Ops, mode: {"down", "receive", "full"}, conf: Ops \cup {None}]
NoInterface == [alias |-> None]
Link == [alias: Ops, active: BOOLEAN]
NoLink == [alias |-> None]
Frames == {"PROPOSE", "ACCEPT", "DECLINE"}
Records == {"ROUND_DONE", "WG_READY", "END"}

TypeOK ==
  /\ att \in [Nodes -> Attempt \cup {NoAttempt}]
  /\ pend \in [Nodes -> Cleanup \cup {NoCleanup}]
  /\ late \in [Nodes -> SUBSET Cleanup]
  /\ kern \in [Nodes -> Interface \cup {NoInterface}]
  /\ link \in [Nodes -> Link \cup {NoLink}]
  /\ owned \in [Nodes -> SUBSET Ops]
  /\ dirty \in [Nodes -> SUBSET Ops]
  /\ ends \in [Ops -> [Nodes -> {"unused", "open", "closing", "closed"}]]
  /\ chan \in [Ops -> [Nodes -> Seq(Frames \cup Records)]]
  /\ pc \in [Ops -> [Nodes -> {"idle", "dialled", "propose", "accept", "start"}]]
  /\ worker \in [Ops -> [Nodes -> {"none", "search", "agree", "handoff", "announce", "barrier", "done"}]]
  /\ inbox \in [Ops -> [Nodes -> Seq(Records)]]
  /\ heard \in [Nodes -> SUBSET Ops]
  /\ budget \in [faults: 0 .. MaxFaults, timers: Timers]

Init ==
  /\ att = [n \in Nodes |-> NoAttempt]
  /\ pend = [n \in Nodes |-> NoCleanup]
  /\ late = [n \in Nodes |-> {}]
  /\ kern = [n \in Nodes |-> NoInterface]
  /\ link = [n \in Nodes |-> NoLink]
  /\ owned = [n \in Nodes |-> {}]
  /\ dirty = [n \in Nodes |-> {}]
  /\ ends = [s \in Ops |-> [n \in Nodes |-> "unused"]]
  /\ chan = [s \in Ops |-> [n \in Nodes |-> <<>>]]
  /\ pc = [s \in Ops |-> [n \in Nodes |-> "idle"]]
  /\ worker = [s \in Ops |-> [n \in Nodes |-> "none"]]
  /\ inbox = [s \in Ops |-> [n \in Nodes |-> <<>>]]
  /\ heard = [n \in Nodes |-> {}]
  /\ budget \in [faults: {MaxFaults}, timers: Timers]

Fault == budget.faults > 0 /\ budget' = [budget EXCEPT !.faults = @ - 1]

Current(n, s) == att[n] # NoAttempt /\ att[n].op = s
In(n, s, states) == Current(n, s) /\ att[n].state \in states
HasDirectLink(n) == link[n] # NoLink /\ link[n].active

-----------------------------------------------------------------------------
(* Routed sessions.                                                        *)

\* Session.Send of m by n fails once n's end is closed; a frame to a peer
\* whose engine has returned is lost.
Sends(s, n, m) ==
  chan' = IF ends[s][n] = "open" /\ ends[s][Peer(n)] # "closed"
            THEN [chan EXCEPT ![s][Peer(n)] = Append(@, m)] ELSE chan

\* Session.Close: Engine.Run of that end returns a little later.
Closing(e, s, n) == IF e[s][n] = "open" THEN [e EXCEPT ![s][n] = "closing"] ELSE e

\* The handler of s at n is free to take m, the oldest frame.  Frames queued
\* before a Close are still handled.
Receives(s, n, m) ==
  /\ ends[s][n] \in {"open", "closing"}
  /\ pc[s][n] = "idle"
  /\ chan[s][n] # <<>>
  /\ Head(chan[s][n]) = m

Pop(s, n) == [chan EXCEPT ![s][n] = Tail(@)]

\* The handler answers the frame it took from s.  A Send that fails is its
\* error, which ends the session.
Replies(s, n, m) ==
  chan' = [chan EXCEPT ![s] = [x \in Nodes |->
             IF x = n THEN Tail(chan[s][n])
             ELSE IF ends[s][n] = "open" /\ ends[s][x] # "closed" THEN Append(chan[s][x], m)
             ELSE chan[s][x]]]

-----------------------------------------------------------------------------
(* Kernel resources, changed only under resourceMu.                        *)

\* removeInterface of generation a by n, which has o to account for; the
\* kernel may refuse (fails).
Removed(n, a, o, fails) ==
  IF link[n] # NoLink /\ link[n].alias # a
    THEN UNCHANGED <<kern, link, dirty>> /\ owned' = [owned EXCEPT ![n] = o]
    ELSE LET error == kern[n] # NoInterface /\ (kern[n].alias # a \/ fails)
         IN /\ link' = [link EXCEPT ![n] = NoLink]
            /\ kern' = [kern EXCEPT ![n] = IF error THEN @ ELSE NoInterface]
            /\ owned' = [owned EXCEPT ![n] = IF error THEN o ELSE o \ {a}]
            /\ dirty' = [dirty EXCEPT ![n] = IF error THEN @ \cup (o \cap {a}) ELSE @ \ {a}]

Remove(n, a) ==
  \/ Removed(n, a, owned[n], FALSE) /\ UNCHANGED budget
  \/ kern[n] # NoInterface /\ kern[n].alias = a /\ Removed(n, a, owned[n], TRUE) /\ Fault

\* fallbackLocked of the current Attempt of n: it stops, and the session its
\* own Proposal opened is closed.
Discard(n) ==
  /\ att' = [att EXCEPT ![n] = NoAttempt]
  /\ ends' = IF att[n].local THEN Closing(ends, att[n].op, n) ELSE ends

\* failAttempt: a late report about another Attempt changes nothing.
FailAttempt(n, s, states) ==
  IF In(n, s, states)
    THEN Discard(n) /\ Remove(n, att[n].alias)
    ELSE UNCHANGED <<att, ends, resources, budget>>

\* The Attempt and the interface prepareAttemptLocked creates.
Prepared(s, a, local, state) ==
  [op |-> s, alias |-> a, local |-> local, state |-> state, deadline |-> FALSE, cancelled |-> FALSE]
Begin(n, s, local, state, o) ==
  /\ att' = [att EXCEPT ![n] = Prepared(s, s, local, state)]
  /\ kern' = [kern EXCEPT ![n] = [alias |-> s, mode |-> "down", conf |-> None]]
  /\ owned' = [owned EXCEPT ![n] = o \cup {s}]

\* prepareAttemptLocked of a new interface fails and the Attempt is given up:
\* an interface of another generation is in the way, or a step of the
\* preparation fails, with its interface removed or left behind.
GivesUp(n, s) ==
  \/ /\ kern[n] # NoInterface
     /\ Removed(n, s, owned[n] \cup {s}, FALSE)
     /\ UNCHANGED budget
  \/ /\ kern[n] = NoInterface /\ Fault
     /\ UNCHANGED resources
  \/ /\ kern[n] = NoInterface /\ Fault
     /\ kern' = [kern EXCEPT ![n] = [alias |-> s, mode |-> "down", conf |-> None]]
     /\ owned' = [owned EXCEPT ![n] = @ \cup {s}]
     /\ dirty' = [dirty EXCEPT ![n] = @ \cup {s}]
     /\ UNCHANGED link

-----------------------------------------------------------------------------
(* Proposals.                                                              *)

\* reserveDial, dialRouted
Dial(n) ==
  /\ att[n] = NoAttempt /\ pend[n] = NoCleanup /\ ~HasDirectLink(n)
  /\ \A i \in 1 .. MaxDials : ends[<<n, i>>][n] \in {"unused", "closed"}
  /\ \E i \in 1 .. MaxDials :
       /\ ends[<<n, i>>][n] = "unused"
       /\ \A j \in 1 .. i - 1 : ends[<<n, j>>][n] # "unused"
       /\ ends' = [ends EXCEPT ![<<n, i>>] = [x \in Nodes |-> "open"]]
       /\ pc' = [pc EXCEPT ![<<n, i>>][n] = "dialled"]
  /\ UNCHANGED <<att, pend, late, resources, chan, probing, budget>>

\* prepareOutbound finds the peer taken since the dial: startOutbound closes.
RefuseOutbound(s, n) ==
  /\ pc[s][n] = "dialled"
  /\ att[n] # NoAttempt \/ HasDirectLink(n)
  /\ pc' = [pc EXCEPT ![s][n] = "idle"]
  /\ ends' = Closing(ends, s, n)
  /\ UNCHANGED <<att, pend, late, resources, chan, probing, budget>>

PrepareOutbound(s, n) ==
  /\ pc[s][n] = "dialled"
  /\ att[n] = NoAttempt /\ ~HasDirectLink(n)
  /\ \/ /\ kern[n] = NoInterface
        /\ Begin(n, s, TRUE, "proposing", owned[n])
        /\ pc' = [pc EXCEPT ![s][n] = "propose"]
        /\ UNCHANGED <<link, dirty, ends, budget>>
     \/ /\ GivesUp(n, s)
        /\ pc' = [pc EXCEPT ![s][n] = "idle"]
        /\ ends' = Closing(ends, s, n)
        /\ UNCHANGED att
  /\ UNCHANGED <<pend, late, chan, probing>>

\* startOutbound after prepareOutbound.  The response timer it arms is
\* ResponseTimeout.
SendProposal(s, n) ==
  /\ pc[s][n] = "propose"
  /\ pc' = [pc EXCEPT ![s][n] = "idle"]
  /\ Sends(s, n, "PROPOSE")
  /\ IF ends[s][n] = "open"
       THEN UNCHANGED <<att, ends, resources, budget>>
       ELSE FailAttempt(n, s, {"proposing"})
  /\ UNCHANGED <<pend, late, probing>>

ResponseTimeout(s, n) ==
  /\ budget.timers /\ n = Dialler(s)
  /\ ends[s][n] # "unused" /\ pc[s][n] = "idle"
  /\ FailAttempt(n, s, {"proposing"})
  /\ UNCHANGED <<pend, late, chan, pc, probing>>

LosesToLarger(n) == att[n].state = "proposing" /\ att[n].local /\ n = Low

\* prepareInbound: simultaneous Proposals are won by the smaller UUID
LosesTo(n) == att[n].state = "proposing" /\ att[n].local /\ n = High
Busy(n) == HasDirectLink(n) \/ (att[n] # NoAttempt /\ att[n].state # "recovering" /\ ~LosesTo(n))

\* admission may also refuse for want of evidence or room (a fault here)
DeclineProposal(s, n) ==
  /\ Receives(s, n, "PROPOSE")
  /\ \/ Busy(n) /\ UNCHANGED budget
     \/ ~Busy(n) /\ Fault
  /\ Replies(s, n, "DECLINE")
  /\ UNCHANGED <<att, pend, late, resources, ends, pc, probing>>

\* The interface already reserved for the pair, and how the Attempt that
\* held it ends: superseded by the winning Proposal, or declined before it.
Reserved(n) == IF att[n] # NoAttempt THEN att[n].alias ELSE pend[n].alias
Supersedes(n) == ~HasDirectLink(n) /\ IF att[n] # NoAttempt THEN LosesTo(n) ELSE pend[n] # NoCleanup

CancelCleanup(n) ==
  /\ pend' = [pend EXCEPT ![n] = NoCleanup]
  /\ late' = IF pend[n] = NoCleanup THEN late ELSE [late EXCEPT ![n] = @ \cup {pend[n]}]

\* prepareInbound reusing a reservation
ReuseReservation(s, n) ==
  /\ Receives(s, n, "PROPOSE") /\ Supersedes(n)
  /\ CancelCleanup(n)
  /\ ends' = IF att[n] # NoAttempt THEN Closing(ends, att[n].op, n) ELSE ends
  /\ \/ /\ att' = [att EXCEPT ![n] = Prepared(s, Reserved(n), FALSE, "probing")]
        /\ pc' = [pc EXCEPT ![s][n] = "accept"]
        /\ chan' = Pop(s, n)
        /\ UNCHANGED <<resources, budget>>
     \/ /\ att' = [att EXCEPT ![n] = NoAttempt]
        /\ Removed(n, Reserved(n), owned[n], FALSE) /\ Fault
        /\ Replies(s, n, "DECLINE")
        /\ UNCHANGED pc
  /\ UNCHANGED probing

\* prepareInbound with nothing reserved
AcceptFresh(s, n) ==
  /\ Receives(s, n, "PROPOSE")
  /\ att[n] = NoAttempt /\ pend[n] = NoCleanup /\ ~HasDirectLink(n)
  /\ \/ /\ kern[n] = NoInterface
        /\ Begin(n, s, FALSE, "probing", owned[n])
        /\ pc' = [pc EXCEPT ![s][n] = "accept"]
        /\ chan' = Pop(s, n)
        /\ UNCHANGED <<link, dirty, budget>>
     \/ /\ GivesUp(n, s)
        /\ Replies(s, n, "DECLINE")
        /\ UNCHANGED <<att, pc>>
  /\ UNCHANGED <<pend, late, ends, probing>>

\* Mutant: the recovering generation is reused instead of retired.
ReplaceUnretired(s, n) ==
  /\ Receives(s, n, "PROPOSE")
  /\ att[n] # NoAttempt /\ att[n].state = "recovering" /\ ~HasDirectLink(n)
  /\ att' = [att EXCEPT ![n] = Prepared(s, att[n].alias, FALSE, "probing")]
  /\ pc' = [pc EXCEPT ![s][n] = "accept"]
  /\ chan' = Pop(s, n)
  /\ CancelCleanup(n)
  /\ UNCHANGED <<ends, resources, probing, budget>>

\* prepareInbound against a recovering Link: its generation is retired first,
\* and a generation the kernel keeps declines the Proposal.
ReplaceRecovering(s, n) ==
  /\ Receives(s, n, "PROPOSE")
  /\ att[n] # NoAttempt /\ att[n].state = "recovering" /\ ~HasDirectLink(n)
  /\ \/ /\ kern[n].alias = att[n].alias
        /\ Begin(n, s, FALSE, "probing", owned[n] \ {att[n].alias})
        /\ link' = [link EXCEPT ![n] = NoLink]
        /\ pc' = [pc EXCEPT ![s][n] = "accept"]
        /\ chan' = Pop(s, n)
        /\ CancelCleanup(n)
        /\ UNCHANGED <<dirty, budget>>
     \/ /\ att' = [att EXCEPT ![n] = NoAttempt]
        /\ Fault
        /\ \/ Removed(n, att[n].alias, owned[n], TRUE) /\ UNCHANGED <<pend, late>>
           \/ Removed(n, att[n].alias, owned[n], FALSE) /\ CancelCleanup(n)
        /\ Replies(s, n, "DECLINE")
        /\ UNCHANGED pc
  /\ UNCHANGED <<ends, probing>>

\* handleProposal: Send Accept
SendAccept(s, n) ==
  /\ pc[s][n] = "accept"
  /\ Sends(s, n, "ACCEPT")
  /\ IF ends[s][n] = "open"
       THEN /\ pc' = [pc EXCEPT ![s][n] = "start"]
            /\ UNCHANGED <<att, ends, resources, budget>>
       ELSE /\ pc' = [pc EXCEPT ![s][n] = "idle"]
            /\ FailAttempt(n, s, {"probing"})
  /\ UNCHANGED <<pend, late, probing>>

\* handleProposal: startProbeLocked
StartProbe(s, n) ==
  /\ pc[s][n] = "start"
  /\ pc' = [pc EXCEPT ![s][n] = "idle"]
  /\ worker' = IF Current(n, s) THEN [worker EXCEPT ![s][n] = "search"] ELSE worker
  /\ UNCHANGED <<att, pend, late, resources, ends, chan, inbox, heard, budget>>

HandleAccept(s, n) ==
  /\ Receives(s, n, "ACCEPT")
  /\ chan' = Pop(s, n)
  /\ \/ /\ In(n, s, {"proposing"})
        /\ att' = [att EXCEPT ![n].state = "probing"]
        /\ worker' = [worker EXCEPT ![s][n] = "search"]
        /\ UNCHANGED <<ends, resources, budget>>
     \/ /\ In(n, s, {"proposing"}) /\ Fault      \* configureAttemptLocked
        /\ Discard(n) /\ Removed(n, att[n].alias, owned[n], FALSE)
        /\ UNCHANGED worker
     \/ /\ ~In(n, s, {"proposing"})
        /\ UNCHANGED <<att, worker, ends, resources, budget>>
  /\ UNCHANGED <<pend, late, pc, inbox, heard>>

\* Mutant: the interface of a declined Proposal is left to nobody.
DeclineForgets(s, n) ==
  /\ Receives(s, n, "DECLINE")
  /\ chan' = Pop(s, n)
  /\ IF In(n, s, {"proposing"}) THEN Discard(n) ELSE UNCHANGED <<att, ends>>
  /\ UNCHANGED <<pend, late, resources, pc, probing, budget>>

\* The interface of a declined Proposal waits for the one that may cross it.
HandleDecline(s, n) ==
  /\ Receives(s, n, "DECLINE")
  /\ chan' = Pop(s, n)
  /\ IF In(n, s, {"proposing"})
       THEN /\ Discard(n)
            /\ pend' = [pend EXCEPT ![n] = [op |-> s, alias |-> att[n].alias]]
            /\ late' = IF pend[n] = NoCleanup THEN late ELSE [late EXCEPT ![n] = @ \cup {pend[n]}]
       ELSE UNCHANGED <<att, ends, pend, late>>
  /\ UNCHANGED <<resources, pc, probing, budget>>

\* deferCleanupLocked's timer
CleanupFires(n, c) ==
  /\ budget.timers /\ c \in late[n] \cup ({pend[n]} \ {NoCleanup})
  /\ late' = [late EXCEPT ![n] = @ \ {c}]
  /\ IF pend[n] # c
       THEN UNCHANGED <<pend, resources, budget>>
       ELSE /\ pend' = [pend EXCEPT ![n] = NoCleanup]
            /\ IF att[n] # NoAttempt THEN UNCHANGED <<resources, budget>> ELSE Remove(n, c.alias)
  /\ UNCHANGED <<att, protocol, probing>>

RetryLinkCleanup(n) ==
  /\ \E a \in dirty[n] :
       /\ kern[n] # NoInterface => kern[n].alias = a
       /\ kern' = [kern EXCEPT ![n] = NoInterface]
       /\ owned' = [owned EXCEPT ![n] = @ \ {a}]
       /\ dirty' = [dirty EXCEPT ![n] = @ \ {a}]
  /\ UNCHANGED <<att, pend, late, link, protocol, probing, budget>>

-----------------------------------------------------------------------------
(* UDP discovery and handoff: runProbe of operation s at n.  The rounds of *)
(* a search are one, which both must finish.                               *)

HandleControl(s, n) ==
  /\ \E r \in Records :
       /\ Receives(s, n, r)
       /\ inbox' = IF In(n, s, {"probing"}) THEN [inbox EXCEPT ![s][n] = Append(@, r)] ELSE inbox
  /\ chan' = Pop(s, n)
  /\ UNCHANGED <<att, pend, late, resources, ends, pc, worker, heard, budget>>

Arrived(s, n, r) == inbox[s][n] # <<>> /\ Head(inbox[s][n]) = r
Steps(s, n, from, to) == worker[s][n] = from /\ worker' = [worker EXCEPT ![s][n] = to]
Take(s, n) == inbox' = [inbox EXCEPT ![s][n] = Tail(@)]
Forget(s, n) == inbox' = [inbox EXCEPT ![s][n] = <<>>]   \* nobody reads it any more

\* RunPeer: the last round's RoundDone
SendRound(s, n) ==
  /\ Steps(s, n, "search", "agree")
  /\ In(n, s, {"probing"}) /\ ends[s][n] = "open"
  /\ Sends(s, n, "ROUND_DONE")
  /\ UNCHANGED <<att, pend, late, resources, ends, pc, inbox, heard, budget>>

Agree(s, n) ==
  /\ Steps(s, n, "agree", "handoff")
  /\ Arrived(s, n, "ROUND_DONE") /\ Take(s, n)
  /\ UNCHANGED <<att, pend, late, resources, protocol, heard, budget>>

\* handoff, first critical section
ConfigureReceive(s, n) ==
  /\ Steps(s, n, "handoff", "announce")
  /\ In(n, s, {"probing"})
  /\ kern' = [kern EXCEPT ![n].mode = "receive", ![n].conf = s]
  /\ heard' = [heard EXCEPT ![n] = @ \cup {s}]
  /\ UNCHANGED <<att, pend, late, link, owned, dirty, protocol, inbox, budget>>

Announce(s, n) ==
  /\ Steps(s, n, "announce", "barrier")
  /\ ends[s][n] = "open"
  /\ Sends(s, n, "WG_READY")
  /\ UNCHANGED <<att, pend, late, resources, ends, pc, inbox, heard, budget>>

\* Mutant: transmission does not wait for the peer's WG_READY.
TransmitUnready(s, n) ==
  /\ Steps(s, n, "barrier", "done")
  /\ Forget(s, n)
  /\ In(n, s, {"probing"})
  /\ kern' = [kern EXCEPT ![n].mode = "full"]
  /\ att' = [att EXCEPT ![n].state = "attempting", ![n].deadline = TRUE]
  /\ UNCHANGED <<pend, late, link, owned, dirty, protocol, heard, budget>>

\* handoff, second critical section, and startConnectivityLocked
EnableTransmit(s, n) ==
  /\ Steps(s, n, "barrier", "done")
  /\ Arrived(s, n, "WG_READY") /\ Forget(s, n)
  /\ In(n, s, {"probing"})
  /\ kern' = [kern EXCEPT ![n].mode = "full"]
  /\ att' = [att EXCEPT ![n].state = "attempting", ![n].deadline = TRUE]
  /\ UNCHANGED <<pend, late, link, owned, dirty, protocol, heard, budget>>

\* What the worker waits for or is about to send, its next record not being it.
Unexpected(s, n) ==
  /\ inbox[s][n] # <<>>
  /\ Head(inbox[s][n]) # (IF worker[s][n] = "barrier" THEN "WG_READY" ELSE "ROUND_DONE")
  /\ worker[s][n] \in {"search", "agree", "barrier"}

\* runProbe's error path: END, then failAttempt.  One step: a peer that learns of
\* the END before the Attempt is gone meets what it meets when its own search ends
\* first, an Attempt that still probes.
ProbeFails(s, n) ==
  /\ worker[s][n] \notin {"none", "done"}
  /\ \/ ~In(n, s, {"probing"}) \/ Unexpected(s, n)
     \/ budget.timers      \* no path, an error of the kernel, or its 30 seconds
     \/ worker[s][n] \in {"search", "announce"} /\ ends[s][n] # "open"
  /\ worker' = [worker EXCEPT ![s][n] = "done"]
  /\ Sends(s, n, "END")
  /\ Forget(s, n)
  /\ FailAttempt(n, s, {"probing"})
  /\ UNCHANGED <<pend, late, pc, heard>>

-----------------------------------------------------------------------------
(* Link supervision.                                                       *)
Supervised == {"attempting", "up", "recovering"}

\* The tunnel carries the Link negotiation of both supervisors.
Connected(n) ==
  /\ In(n, att[n].op, Supervised) /\ In(Peer(n), att[n].op, Supervised)
  /\ \A x \in Nodes : kern[x] # NoInterface /\ kern[x].mode = "full" /\ kern[x].conf = att[n].op

CommitLink(n) ==
  /\ att[n] # NoAttempt /\ att[n].state \in {"attempting", "recovering"} /\ ~att[n].cancelled
  /\ Connected(n)
  /\ \/ /\ link' = [link EXCEPT ![n] = [alias |-> att[n].alias, active |-> TRUE]]
        /\ att' = [att EXCEPT ![n].state = "up", ![n].deadline = FALSE]
        /\ ends' = IF att[n].local THEN Closing(ends, att[n].op, n) ELSE ends
        /\ UNCHANGED <<kern, owned, dirty, budget>>
     \/ Discard(n) /\ Removed(n, att[n].alias, owned[n], FALSE) /\ Fault
  /\ UNCHANGED <<pend, late, chan, pc, probing>>

\* Mutants: a lost Link is taken for a stopped one; its deadline is not set.
LinkLostStops(n) ==
  /\ att[n] # NoAttempt /\ att[n].state = "up"
  /\ \/ Connected(n) /\ Fault
     \/ ~Connected(n) /\ UNCHANGED budget
  /\ link' = [link EXCEPT ![n].active = FALSE]
  /\ att' = [att EXCEPT ![n].state = "stopped", ![n].deadline = TRUE]
  /\ UNCHANGED <<pend, late, kern, owned, dirty, protocol, probing>>

LinkLostNoDeadline(n) ==
  /\ att[n] # NoAttempt /\ att[n].state = "up"
  /\ \/ Connected(n) /\ Fault
     \/ ~Connected(n) /\ UNCHANGED budget
  /\ link' = [link EXCEPT ![n].active = FALSE]
  /\ att' = [att EXCEPT ![n].state = "recovering"]
  /\ UNCHANGED <<pend, late, kern, owned, dirty, protocol, probing>>

\* markLinkLost and linkControl.failed, when no PONG arrives in time
LinkLost(n) ==
  /\ att[n] # NoAttempt /\ att[n].state = "up"
  /\ \/ Connected(n) /\ Fault
     \/ ~Connected(n) /\ UNCHANGED budget
  /\ link' = [link EXCEPT ![n].active = FALSE]
  /\ att' = [att EXCEPT ![n].state = "recovering", ![n].deadline = TRUE]
  /\ UNCHANGED <<pend, late, kern, owned, dirty, protocol, probing>>

\* expireConnectivity cancels the supervisor, ...
DeadlineFires(n) ==
  /\ budget.timers /\ att[n] # NoAttempt /\ att[n].deadline /\ att[n].state # "up"
  /\ att' = [att EXCEPT ![n].cancelled = TRUE, ![n].deadline = FALSE]
  /\ UNCHANGED <<pend, late, resources, protocol, probing, budget>>

\* ... and establishDynamic returns, for that or for an error before a commit.
SupervisionEnds(n) ==
  /\ att[n] # NoAttempt
  /\ \/ att[n].cancelled /\ FailAttempt(n, att[n].op, Supervised)
     \/ /\ att[n].state = "attempting" /\ ~att[n].cancelled /\ Fault
        /\ Discard(n) /\ Removed(n, att[n].alias, owned[n], FALSE)
  /\ UNCHANGED <<pend, late, chan, pc, probing>>

-----------------------------------------------------------------------------
\* Mutant: the callback of a closed session ends the current Attempt.
AnySessionClosed(s, n) ==
  /\ ends[s][n] \in {"open", "closing"} /\ pc[s][n] \in {"idle", "dialled"}
  /\ ends[s][n] = "closing" \/ (ends[s][Peer(n)] # "open" /\ chan[s][n] = <<>>)
  /\ IF att[n] # NoAttempt /\ att[n].state \in {"proposing", "probing"}
       THEN att' = [att EXCEPT ![n] = NoAttempt] /\ Remove(n, att[n].alias)
       ELSE UNCHANGED <<att, resources, budget>>
  /\ ends' = [ends EXCEPT ![s][n] = "closed"]
  /\ chan' = [chan EXCEPT ![s][n] = <<>>]
  /\ pc' = [pc EXCEPT ![s][n] = "idle"]
  /\ UNCHANGED <<pend, late, probing>>

\* Engine.Run of n's end of s returns, after a Close or at the end of the
\* stream, and routedSessionClosed follows.
SessionClosed(s, n) ==
  /\ ends[s][n] \in {"open", "closing"} /\ pc[s][n] \in {"idle", "dialled"}
  /\ ends[s][n] = "closing" \/ (ends[s][Peer(n)] # "open" /\ chan[s][n] = <<>>)
  /\ IF In(n, s, {"proposing", "probing"})
       THEN att' = [att EXCEPT ![n] = NoAttempt] /\ Remove(n, att[n].alias)
       ELSE UNCHANGED <<att, resources, budget>>
  /\ ends' = [ends EXCEPT ![s][n] = "closed"]
  /\ chan' = [chan EXCEPT ![s][n] = <<>>]
  /\ pc' = [pc EXCEPT ![s][n] = "idle"]
  /\ UNCHANGED <<pend, late, probing>>

\* The connection breaks: n's reads and writes fail from now on.
Break(s, n) ==
  /\ ends[s][n] = "open" /\ Fault
  /\ ends' = Closing(ends, s, n)
  /\ UNCHANGED <<att, pend, late, resources, chan, pc, probing>>

Handler(s, n) ==
  \/ RefuseOutbound(s, n) \/ PrepareOutbound(s, n) \/ SendProposal(s, n)
  \/ DeclineProposal(s, n) \/ ReuseReservation(s, n) \/ AcceptFresh(s, n)
  \/ ReplaceRecovering(s, n) \/ SendAccept(s, n) \/ StartProbe(s, n)
  \/ HandleAccept(s, n) \/ HandleDecline(s, n) \/ HandleControl(s, n)
  \/ SessionClosed(s, n)
Probe(s, n) ==
  \/ SendRound(s, n) \/ Agree(s, n) \/ ConfigureReceive(s, n) \/ Announce(s, n)
  \/ EnableTransmit(s, n) \/ ProbeFails(s, n)
Elapse(n) ==
  \/ \E s \in Ops : ResponseTimeout(s, n)
  \/ \E c \in late[n] \cup {pend[n]} : CleanupFires(n, c)
  \/ DeadlineFires(n)
Supervise(n) == CommitLink(n) \/ LinkLost(n) \/ SupervisionEnds(n) \/ RetryLinkCleanup(n)

Next ==
  \/ \E n \in Nodes : Dial(n) \/ Elapse(n) \/ Supervise(n)
  \/ \E s \in Ops, n \in Nodes : Handler(s, n) \/ Probe(s, n) \/ Break(s, n)

Spec == Init /\ [][Next]_vars

\* Goroutines, timers and the retry loop are scheduled; TCP delivers what is
\* sent on an open session.
Fairness ==
  \A n \in Nodes :
    /\ WF_vars(Dial(n)) /\ WF_vars(Supervise(n))
    /\ WF_vars(DeadlineFires(n)) /\ WF_vars(\E c \in late[n] \cup {pend[n]} : CleanupFires(n, c))
    /\ \A s \in Ops : WF_vars(Handler(s, n)) /\ WF_vars(Probe(s, n)) /\ WF_vars(ResponseTimeout(s, n))
LiveSpec == Spec /\ Fairness

-----------------------------------------------------------------------------
(* Properties.                                                             *)

\* removeInterface: the cleanup of a superseded, declined or failed Attempt
\* never takes the interface another Attempt has come to own, and an
\* interface taken over was never configured for the operation it lost.
AttemptOwnsInterface ==
  \A n \in Nodes : att[n] # NoAttempt =>
    /\ kern[n] # NoInterface /\ kern[n].alias = att[n].alias
    /\ kern[n].mode # "down" => kern[n].conf = att[n].op
    /\ att[n].alias \in owned[n] \ dirty[n]

\* linkManager: an interface in the kernel is always accounted for, by the
\* current Attempt, by a deferred cleanup or by the retry of a failed one.
NoLeak ==
  \A n \in Nodes :
    /\ kern[n] # NoInterface => kern[n].alias \in owned[n]
    /\ \A a \in owned[n] \ dirty[n] :
         \/ att[n] # NoAttempt /\ att[n].alias = a
         \/ pend[n] # NoCleanup /\ pend[n].alias = a

\* Attempts and interfaces match in both directions: no late cleanup of a replaced Attempt
\* takes what its successor owns, and nothing it left stays behind.
InterfacesOwned == AttemptOwnsInterface /\ NoLeak

\* handoff: a node starts to transmit only when its peer had configured the
\* receiver of the same operation, which WG_READY reports.
TransmitAfterReady ==
  \A n \in Nodes :
    kern[n] # NoInterface /\ kern[n].mode = "full" => kern[n].conf \in heard[Peer(n)]

BothUp == /\ \A n \in Nodes : att[n] # NoAttempt /\ att[n].state = "up"
          /\ att[Low].op = att[High].op
Idle(n) == att[n] = NoAttempt /\ kern[n] = NoInterface /\ owned[n] = {}

\* Whenever timers fire and in whatever order callbacks report, the two nodes end
\* in a Link both have up, or both without an Attempt, an interface or a resource.
SettlesTogether == budget.timers => <>[]((\A n \in Nodes : Idle(n)) \/ BothUp)

Calm == budget.faults = 0 /\ ~budget.timers

\* Without failures and timeouts a Link comes up and stays, however Proposals
\* cross.
DirectLinkForms == Calm => <>[]BothUp

\* prepareInbound: two Proposals that are out at the same time end in the Link
\* of the node with the smaller UUID.
SmallerUUIDWins ==
  Calm =>
    ((\A n \in Nodes : att[n] # NoAttempt /\ att[n].state = "proposing")
       ~> (BothUp /\ Dialler(att[Low].op) = Low))

\* Without failures and timeouts a Link forms, and if the Proposals crossed it is the one
\* of the smaller UUID.
CalmLinkForms == DirectLinkForms /\ SmallerUUIDWins
=============================================================================

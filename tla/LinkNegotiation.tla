-------------------------- MODULE LinkNegotiation --------------------------
(***************************************************************************)
(* One VFP TCP session between two endpoints (internal/vfp/engine).        *)
(*                                                                         *)
(* Each endpoint runs Engine.Run: an event loop that owns the session FSM, *)
(* fed by a reader over an ordered byte stream.  One iteration of the loop *)
(* is three observable steps, because the peer runs meanwhile:             *)
(*   - a frame is read and handled by sessionFSM.handle, which leaves a    *)
(*     pending commit, an outbound frame, both, or neither;                *)
(*   - the pending commit is installed (Config.Commit);                    *)
(*   - the outbound frame is written.                                      *)
(* An address proposal is an opaque value.  Config.Accept asks the kernel  *)
(* whether the addresses are free, so its answer may change between calls: *)
(* with Drift it is chosen anew for every frame handled.                   *)
(***************************************************************************)
EXTENDS Naturals, Sequences

CONSTANTS
  Proposals,            \* complete Link address sets (link.Proposal)
  None,                 \* no proposal
  MaxCounterproposals,  \* maxCounterproposals: derivation attempts per endpoint
  Settings              \* session settings to explore, members of SettingType

Initiator == "initiator"
Responder == "responder"
Ends == {Initiator, Responder}
Other(e) == IF e = Initiator THEN Responder ELSE Initiator

\* The parts of the two engine.Config values a session depends on.
\*   kind      LinkBoundSession ("link"), LinkBoundSession whose initiator has
\*             FirstMessage = DURABLE_PROPOSE ("durable"), RoutedSession
\*   distinct  the two LocalUID.UUID differ
\*   loopback  loopback[e]: e's loopback lies in its peer's LoopbackPoolV6
\*   expected  the dialled loopback is the one the remote reports
\*   pool      pool[e]: proposals inside e's LinkPoolV4 and LinkPoolV6
\*   derive    derive[e][i]: DeriveProposal of e at attempt i
\*   avail     avail[e]: the proposals Config.Accept of e approves of
\* and what the session meets:
\*   drift     Config.Accept may answer differently over time
\*   faults    connection resets, failed commits, early timeouts
SettingType ==
  [ kind: {"link", "durable", "routed"}, distinct: BOOLEAN,
    loopback: [Ends -> BOOLEAN], expected: BOOLEAN,
    pool: [Ends -> SUBSET Proposals],
    derive: [Ends -> [0 .. MaxCounterproposals - 1 -> Proposals]],
    avail: [Ends -> SUBSET Proposals], drift: BOOLEAN, faults: BOOLEAN ]

ASSUME NegotiationAssumption ==
  /\ None \notin Proposals
  /\ MaxCounterproposals \in Nat
  /\ Settings \subseteq SettingType

VARIABLES
  env,          \* the settings, fixed when the session starts
  phase,        \* phase[e]: the FSM flags of e, named after what e waits for
  attempt,      \* staticLinkFSM.attempt
  seen,         \* staticLinkFSM.seen
  outstanding,  \* staticLinkFSM.outstanding
  pending,      \* staticLinkFSM.pendingCommit
  outbound,     \* the frame the loop is about to write
  installed,    \* what Config.Commit installed (None: not established)
  inbox,        \* inbox[e]: frames in flight to e
  cut,          \* the connection was reset
  result,       \* "run" while Engine.Run executes, then its outcome
  offers        \* history: every LINK_PROPOSE of the session, in order

vars == <<env, phase, attempt, seen, outstanding, pending, outbound,
          installed, inbox, cut, result, offers>>

Message == [type: {"OPEN", "NODE_STATE", "LINK_ACCEPT", "DURABLE_PROPOSE", "none"}]
           \cup [type: {"LINK_PROPOSE"}, p: Proposals]
Frame(t) == [type |-> t]
Propose(p) == [type |-> "LINK_PROPOSE", p |-> p]
NoFrame == Frame("none")

Phase == {"open", "nodeState", "waitProposal", "waitResponse", "agreed", "operational"}

TypeOK ==
  /\ env \in Settings
  /\ phase \in [Ends -> Phase]
  /\ attempt \in [Ends -> 0 .. MaxCounterproposals]
  /\ seen \in [Ends -> SUBSET Proposals]
  /\ outstanding \in [Ends -> Proposals \cup {None}]
  /\ pending \in [Ends -> Proposals \cup {None}]
  /\ outbound \in [Ends -> Message]
  /\ installed \in [Ends -> Proposals \cup {None}]
  /\ inbox \in [Ends -> Seq(Message)]
  /\ cut \in BOOLEAN
  /\ result \in [Ends -> {"run", "ok", "error"}]
  /\ offers \in Seq(Ends \X Proposals)

\* Run writes OPEN before it enters the loop.
Init ==
  /\ env \in Settings
  /\ phase = [e \in Ends |-> "open"]
  /\ attempt = [e \in Ends |-> 0]
  /\ seen = [e \in Ends |-> {}]
  /\ outstanding = [e \in Ends |-> None]
  /\ pending = [e \in Ends |-> None]
  /\ outbound = [e \in Ends |-> Frame("OPEN")]
  /\ installed = [e \in Ends |-> None]
  /\ inbox = [e \in Ends |-> <<>>]
  /\ cut = FALSE
  /\ result = [e \in Ends |-> "run"]
  /\ offers = <<>>

-----------------------------------------------------------------------------
Drift == env.drift
Faults == env.faults

\* The loop is back in its select: nothing to install, nothing to write.
Idle(e) == result[e] = "run" /\ pending[e] = None /\ outbound[e] = NoFrame /\ installed[e] = None

\* Run's deferred cleanup closes the connection; nothing else of e changes.
Finish(e, outcome) == result' = [result EXCEPT ![e] = outcome]

\* Reading one frame off the stream.
Read(e, m) ==
  /\ Idle(e)
  /\ inbox[e] # <<>>
  /\ m = Head(inbox[e])
  /\ inbox' = [inbox EXCEPT ![e] = Tail(inbox[e])]
  /\ UNCHANGED <<env, installed, cut>>

\* What Config.Accept of e approves of while one frame is handled.
Verdicts(e) == IF Drift THEN SUBSET Proposals ELSE {env.avail[e]}

\* Mutants: attempts are not checked against seen; the first is skipped.
CandidatesRepeat(e, used, approved) ==
  {i \in attempt[e] .. MaxCounterproposals - 1 : env.derive[e][i] \in approved}
CandidatesSkip(e, used, approved) ==
  {i \in attempt[e] + 1 .. MaxCounterproposals - 1 :
     env.derive[e][i] \notin used /\ env.derive[e][i] \in approved}

\* The attempts nextProposal may return, given what is already seen.
Candidates(e, used, approved) ==
  {i \in attempt[e] .. MaxCounterproposals - 1 :
     env.derive[e][i] \notin used /\ env.derive[e][i] \in approved}

\* nextProposal succeeds: the first candidate becomes the outstanding proposal.
Offer(e, used, approved) ==
  \E i \in Candidates(e, used, approved) :
    LET p == env.derive[e][i]
    IN /\ \A j \in Candidates(e, used, approved) : i <= j
       /\ attempt' = [attempt EXCEPT ![e] = i + 1]
       /\ seen' = [seen EXCEPT ![e] = used \cup {p}]
       /\ outstanding' = [outstanding EXCEPT ![e] = p]
       /\ outbound' = [outbound EXCEPT ![e] = Propose(p)]
       /\ phase' = [phase EXCEPT ![e] = "waitResponse"]
       /\ offers' = Append(offers, <<e, p>>)
       /\ UNCHANGED <<pending, result>>

\* nextProposal runs out of attempts: the session closes.
OutOfProposals(e, used, approved) ==
  /\ Candidates(e, used, approved) = {}
  /\ attempt' = [attempt EXCEPT ![e] = MaxCounterproposals]
  /\ seen' = [seen EXCEPT ![e] = used]
  /\ Finish(e, "error")
  /\ UNCHANGED <<phase, outstanding, pending, outbound, offers>>

\* handleOpen: a remote with our own UUID closes the session.
HandleOpen(e) ==
  /\ Read(e, Frame("OPEN"))
  /\ phase[e] = "open"
  /\ \/ /\ ~env.distinct
        /\ Finish(e, "error")
        /\ UNCHANGED <<phase, outbound>>
     \/ /\ env.distinct
        /\ phase' = [phase EXCEPT ![e] = "nodeState"]
        /\ outbound' = [outbound EXCEPT ![e] = Frame("NODE_STATE")]
        /\ UNCHANGED result
  /\ UNCHANGED <<attempt, seen, outstanding, pending, offers>>

\* handleNodeState in a RoutedSession.
HandleRoutedState(e) ==
  /\ Read(e, Frame("NODE_STATE"))
  /\ phase[e] = "nodeState" /\ env.loopback[Other(e)] /\ env.kind = "routed"
  /\ \/ /\ e = Initiator /\ ~env.expected
        /\ Finish(e, "error")
        /\ UNCHANGED phase
     \/ /\ e = Responder \/ env.expected
        /\ phase' = [phase EXCEPT ![e] = "operational"]
        /\ UNCHANGED result
  /\ UNCHANGED <<attempt, seen, outstanding, pending, outbound, offers>>

\* handleNodeState of a LinkBoundSession initiator with a FirstMessage.
HandleDurableState(e) ==
  /\ Read(e, Frame("NODE_STATE"))
  /\ phase[e] = "nodeState" /\ env.loopback[Other(e)]
  /\ env.kind = "durable" /\ e = Initiator
  /\ phase' = [phase EXCEPT ![e] = "operational"]
  /\ outbound' = [outbound EXCEPT ![e] = Frame("DURABLE_PROPOSE")]
  /\ UNCHANGED <<attempt, seen, outstanding, pending, result, offers>>

\* handleNodeState and staticLinkFSM.start: the initiator proposes, the
\* responder waits.
HandleLinkState(e) ==
  /\ Read(e, Frame("NODE_STATE"))
  /\ phase[e] = "nodeState" /\ env.loopback[Other(e)] /\ env.kind # "routed"
  /\ \/ /\ e = Initiator /\ env.kind = "link"
        /\ \E approved \in Verdicts(e) :
             Offer(e, seen[e], approved) \/ OutOfProposals(e, seen[e], approved)
     \/ /\ e = Responder
        /\ phase' = [phase EXCEPT ![e] = "waitProposal"]
        /\ UNCHANGED <<attempt, seen, outstanding, pending, outbound, result, offers>>

\* sessionFSM.handle: a waiting responder becomes operational without a Link.
HandleDurablePropose(e) ==
  /\ Read(e, Frame("DURABLE_PROPOSE"))
  /\ phase[e] = "waitProposal"
  /\ phase' = [phase EXCEPT ![e] = "operational"]
  /\ UNCHANGED <<attempt, seen, outstanding, pending, outbound, result, offers>>

\* handleProposal: a repeated proposal closes, an acceptable one is committed
\* and accepted, any other is answered by a counterproposal.
HandleProposal(e) ==
  /\ phase[e] \in {"waitProposal", "waitResponse"}
  /\ \E p \in env.pool[e] :
       /\ Read(e, Propose(p))
       /\ \/ /\ p \in seen[e]
             /\ Finish(e, "error")
             /\ UNCHANGED <<phase, attempt, seen, outstanding, pending, outbound, offers>>
          \/ /\ p \notin seen[e]
             /\ \E approved \in Verdicts(e) :
                  \/ /\ p \in approved
                     /\ seen' = [seen EXCEPT ![e] = @ \cup {p}]
                     /\ pending' = [pending EXCEPT ![e] = p]
                     /\ phase' = [phase EXCEPT ![e] = "agreed"]
                     /\ outbound' = [outbound EXCEPT ![e] = Frame("LINK_ACCEPT")]
                     /\ UNCHANGED <<attempt, outstanding, result, offers>>
                  \/ /\ p \notin approved
                     /\ \/ Offer(e, seen[e] \cup {p}, approved)
                        \/ OutOfProposals(e, seen[e] \cup {p}, approved)

\* staticLinkFSM.handle: LINK_ACCEPT carries no identity; it accepts whatever
\* is outstanding.
HandleAccept(e) ==
  /\ Read(e, Frame("LINK_ACCEPT"))
  /\ phase[e] = "waitResponse"
  /\ pending' = [pending EXCEPT ![e] = outstanding[e]]
  /\ phase' = [phase EXCEPT ![e] = "agreed"]
  /\ UNCHANGED <<attempt, seen, outstanding, outbound, result, offers>>

\* A frame the FSM returns with disposition discardFrame and an error: it is
\* logged and the loop waits for the next one.
Discarded(e, m) ==
  \/ phase[e] = "nodeState" /\ (m.type # "NODE_STATE" \/ ~env.loopback[Other(e)])
  \/ phase[e] = "waitProposal" /\ m.type \notin {"LINK_PROPOSE", "DURABLE_PROPOSE"}
  \/ phase[e] = "waitResponse" /\ m.type \notin {"LINK_PROPOSE", "LINK_ACCEPT"}
  \/ /\ phase[e] \in {"waitProposal", "waitResponse"}
     /\ m.type = "LINK_PROPOSE" /\ m.p \notin env.pool[e]

HandleDiscard(e) ==
  /\ inbox[e] # <<>>
  /\ Read(e, Head(inbox[e]))
  /\ Discarded(e, Head(inbox[e]))
  /\ UNCHANGED <<phase, attempt, seen, outstanding, pending, outbound, result, offers>>

\* Mutant: an endpoint that has made an offer installs it, whoever accepted.
CommitOwnOffer(e) ==
  /\ result[e] = "run" /\ pending[e] # None
  /\ pending' = [pending EXCEPT ![e] = None]
  /\ installed' = [installed EXCEPT ![e] = IF outstanding[e] # None THEN outstanding[e] ELSE pending[e]]
  /\ UNCHANGED <<env, phase, attempt, seen, outstanding, outbound, inbox, cut, result, offers>>

\* Run: takeCommit, Config.Commit, markEstablished; a failed commit returns.
Commit(e) ==
  /\ result[e] = "run" /\ pending[e] # None
  /\ pending' = [pending EXCEPT ![e] = None]
  /\ \/ /\ installed' = [installed EXCEPT ![e] = pending[e]]
        /\ UNCHANGED result
     \/ /\ Faults
        /\ Finish(e, "error")
        /\ UNCHANGED installed
  /\ UNCHANGED <<env, phase, attempt, seen, outstanding, outbound, inbox, cut, offers>>

\* Mutant: the outbound frame is written before the commit.
SendBeforeCommit(e) ==
  /\ result[e] = "run" /\ outbound[e] # NoFrame
  /\ ~cut
  /\ inbox' = [inbox EXCEPT ![Other(e)] = Append(@, outbound[e])]
  /\ outbound' = [outbound EXCEPT ![e] = NoFrame]
  /\ UNCHANGED <<env, phase, attempt, seen, outstanding, pending, installed, cut, result, offers>>

\* Run: the outbound frame is written after the commit.
SendOutbound(e) ==
  /\ result[e] = "run" /\ pending[e] = None /\ outbound[e] # NoFrame
  /\ ~cut
  /\ inbox' = [inbox EXCEPT ![Other(e)] = Append(@, outbound[e])]
  /\ outbound' = [outbound EXCEPT ![e] = NoFrame]
  /\ UNCHANGED <<env, phase, attempt, seen, outstanding, pending, installed, cut, result, offers>>

\* send returns an error: the write failed, or the context ended after the
\* frame was written.
SendFails(e) ==
  /\ Faults \/ cut
  /\ result[e] = "run" /\ pending[e] = None /\ outbound[e] # NoFrame
  /\ Finish(e, "error")
  /\ \/ UNCHANGED inbox
     \/ ~cut /\ inbox' = [inbox EXCEPT ![Other(e)] = Append(@, outbound[e])]
  /\ outbound' = [outbound EXCEPT ![e] = NoFrame]
  /\ UNCHANGED <<env, phase, attempt, seen, outstanding, pending, installed, cut, offers>>

\* Run: a LinkBoundSession returns as soon as its Link is established.
ReturnEstablished(e) ==
  /\ result[e] = "run" /\ pending[e] = None /\ outbound[e] = NoFrame
  /\ installed[e] # None
  /\ Finish(e, "ok")
  /\ UNCHANGED <<env, phase, attempt, seen, outstanding, pending, outbound, installed, inbox, cut, offers>>

\* An operational session belongs to its message handlers, which end it.
EndOperational(e) ==
  /\ Idle(e) /\ phase[e] = "operational"
  /\ Finish(e, "ok")
  /\ UNCHANGED <<env, phase, attempt, seen, outstanding, pending, outbound, installed, inbox, cut, offers>>

\* The reader reports EOF after the peer closed, or an error after a reset.
ReadError(e) ==
  /\ Idle(e) /\ inbox[e] = <<>>
  /\ cut \/ result[Other(e)] # "run"
  /\ Finish(e, "error")
  /\ UNCHANGED <<env, phase, attempt, seen, outstanding, pending, outbound, installed, inbox, cut, offers>>

\* No endpoint can do anything but wait.
Quiet == \A e \in Ends : result[e] = "run" =>
           /\ Idle(e) /\ inbox[e] = <<>> /\ phase[e] # "operational"
           /\ ~cut /\ result[Other(e)] = "run"

\* Mutant: no operational session has a deadline, a Link-bound one neither.
TimeoutBeforeOperational(e) ==
  /\ Idle(e)
  /\ Faults \/ Quiet
  /\ phase[e] # "operational"
  /\ Finish(e, "error")
  /\ UNCHANGED <<env, phase, attempt, seen, outstanding, pending, outbound, installed, inbox, cut, offers>>

\* The establishment timer, or the caller's context.  An operational routed
\* session has no deadline.  Without Faults it fires only when both wait.
Timeout(e) ==
  /\ Idle(e)
  /\ Faults \/ Quiet
  /\ ~(env.kind = "routed" /\ phase[e] = "operational")
  /\ Finish(e, "error")
  /\ UNCHANGED <<env, phase, attempt, seen, outstanding, pending, outbound, installed, inbox, cut, offers>>

\* The connection is lost: frames in flight are lost with it.
Reset ==
  /\ Faults /\ ~cut
  /\ cut' = TRUE
  /\ inbox' = [e \in Ends |-> <<>>]
  /\ UNCHANGED <<env, phase, attempt, seen, outstanding, pending, outbound, installed, result, offers>>

Handle(e) ==
  \/ HandleOpen(e) \/ HandleRoutedState(e) \/ HandleDurableState(e) \/ HandleLinkState(e)
  \/ HandleDurablePropose(e) \/ HandleProposal(e) \/ HandleAccept(e) \/ HandleDiscard(e)

\* What an endpoint does by itself while its loop is scheduled.
Progress(e) ==
  \/ Handle(e) \/ Commit(e) \/ SendOutbound(e) \/ SendFails(e)
  \/ ReturnEstablished(e) \/ ReadError(e) \/ Timeout(e)

Ended == /\ \A e \in Ends : result[e] # "run"
         /\ UNCHANGED vars

Next == \/ \E e \in Ends : Progress(e) \/ EndOperational(e)
        \/ Reset
        \/ Ended

\* The runtime schedules both loops, readers and timers; nothing obliges a
\* handler to end an operational session.
Fairness == \A e \in Ends : WF_vars(Progress(e))

Spec == Init /\ [][Next]_vars /\ Fairness

-----------------------------------------------------------------------------
\* Engine.Run installs a proposal on one side before the other can: if both
\* sides of a session installed a Link, it is the same one (LINK_ACCEPT names
\* no proposal, so this rests on turn taking alone).
Agreement ==
  \A e, f \in Ends : installed[e] # None /\ installed[f] # None => installed[e] = installed[f]

\* A LINK_ACCEPT in flight (handleProposal, Run) was sent by an endpoint that
\* has already installed the very proposal its receiver still holds as
\* outstanding, however late the frame is read.
AcceptAfterInstall ==
  \A e \in Ends : \A i \in 1 .. Len(inbox[e]) :
    inbox[e][i] = Frame("LINK_ACCEPT") =>
      /\ installed[Other(e)] # None
      /\ phase[e] = "waitResponse" /\ outstanding[e] = installed[Other(e)]

\* nextProposal and handleProposal over the whole session: offers alternate,
\* the initiator's first, and no complete proposal is ever offered twice by
\* either side, whatever Config.Accept answers meanwhile.
OffersAlternateWithoutRepeat ==
  /\ \A i \in 1 .. Len(offers) : offers[i][1] = (IF i % 2 = 1 THEN Initiator ELSE Responder)
  /\ \A i, j \in 1 .. Len(offers) : i # j => offers[i][2] # offers[j][2]

\* Attempts both endpoints derive alike and both approve of.
Joint == {i \in 0 .. MaxCounterproposals - 1 :
            env.derive[Initiator][i] \in env.avail[Initiator] \cap env.avail[Responder]}

\* Without faults, with symmetric derivation (no overrides) and stable
\* availability, nextProposal on the two sides converges on the first jointly
\* acceptable attempt, and the session fails only if there is none.
ConvergesOnFirstJoint ==
  ( /\ ~Faults /\ ~Drift /\ env.kind = "link" /\ env.distinct
    /\ \A e \in Ends : env.loopback[e] /\ env.pool[e] = Proposals
    /\ env.derive[Initiator] = env.derive[Responder]
    /\ \A e \in Ends : result[e] # "run" ) =>
    IF Joint = {} THEN \A e \in Ends : installed[e] = None
    ELSE \E i \in Joint : /\ \A j \in Joint : i <= j
                          /\ \A e \in Ends : installed[e] = env.derive[Initiator][i]

\* Engine.Run always returns on a Link-bound session: neither a discarded
\* frame, nor a lost peer, nor a durable operational phase outlives its timer.
LinkSessionEnds == env.kind # "routed" => <>(\A e \in Ends : result[e] # "run")

Agreed == INSTANCE LinkAgreement
            WITH Proposals <- Proposals, None <- None, installed <- installed
\* The session implements the abstract two-party agreement on a Link.
ImplementsAgreement == Agreed!Spec
=============================================================================

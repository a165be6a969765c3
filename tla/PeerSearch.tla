----------------------------- MODULE PeerSearch -----------------------------
(***************************************************************************)
(* The search of two nodes for a UDP path between their sockets:           *)
(* linkdiscovery.RunPeer over udpAttempt (runtime/dynamic_probe.go) and    *)
(* the probe receiver (vfp/probe).                                         *)
(*                                                                         *)
(* A round is: publish candidates, probe the peer's, collect arrivals and  *)
(* the peer's reports, publish the path found and compare it with the      *)
(* peer's.  Control messages share the ordered session of the Attempt.     *)
(* Probes are UDP: lost, duplicated, reordered, or so late that another    *)
(* round has begun.  A third goroutine receives them and reports each to   *)
(* the peer whatever the search is doing.                                  *)
(*                                                                         *)
(* An endpoint is a number.  What Infer proposes in each round and what    *)
(* the NATs do to a source, a function of the destination, are settings.   *)
(* The five repeats of a probe are one packet, named by its round and      *)
(* destination; that name stands for its sequence number.                  *)
(***************************************************************************)
EXTENDS Naturals, Sequences, FiniteSets

CONSTANTS
  Endpoint,       \* Endpoint[n]: where n can be reached, disjoint sets of numbers
  Environments,   \* the networks to explore
  MaxIterations,  \* limits.MaxIterations
  MaxFaults       \* cancelled searches and lost sessions

Initiator == "initiator"
Responder == "responder"
Nodes == {Initiator, Responder}
Peer(n) == IF n = Initiator THEN Responder ELSE Initiator
Rounds == 1 .. MaxIterations
Endpoints == Endpoint[Initiator] \cup Endpoint[Responder]

\*   nat   nat[n][d]: the source that a receiver at d sees of n's packets
\*   infer infer[n][r]: the candidates Infer gives n in round r
\*   calm  probes and reports arrive within their window and nothing fails
Environment ==
  [nat: [Nodes -> [Endpoints -> Endpoints]],
   infer: {f \in [Nodes -> [Rounds -> SUBSET Endpoints]] :
             \A n \in Nodes, r \in Rounds : f[n][r] \subseteq Endpoint[n]},
   calm: BOOLEAN]

ASSUME SearchAssumption ==
  /\ Endpoint \in [Nodes -> SUBSET Nat]
  /\ \A n \in Nodes : IsFiniteSet(Endpoint[n])
  /\ Endpoint[Initiator] \cap Endpoint[Responder] = {}
  /\ \A e \in Environments : e \in Environment
  /\ MaxIterations \in Nat \ {0}
  /\ MaxFaults \in Nat

VARIABLES
  env,       \* the network, fixed for the search
  pc,        \* where RunPeer and then handoff of each node are
  round,     \* RunPeer: round
  changed,   \* RunPeer: changed
  store,     \* Peer.Store: observations <<remote, seen>> of the primary socket
  grew,      \* this round's reports added to the store
  sent,      \* Try: sent, the destinations probed
  received,  \* Try: received, <<destination, seen>> out of the reports
  incoming,  \* Try: incoming, <<destination, source>> out of the arrivals
  path,      \* RunPeer: path, <<seen, remote>> or << >>
  pending,   \* udpAttempt.pending: a RoundDone that came during Try
  verdict,   \* what RunPeer returned
  inbox,     \* udpAttempt.inbox with the session that feeds it
  arrivals,  \* udpAttempt.arrivals
  opened,    \* Receiver.seen: the probes opened
  net,       \* probes ever sent; any of them may still arrive, or arrive again
  faults

vars == <<env, pc, round, changed, store, grew, sent, received, incoming,
          path, pending, verdict, inbox, arrivals, opened, net, faults>>
tryVars == <<sent, received, incoming>>

Paths == {<<>>} \cup (Endpoints \X Endpoints)
Probe == [to: Nodes, round: 1 .. MaxIterations, dst: Endpoints, seen: Endpoints]

Candidates(r, c, eps) == [code |-> "Candidates", round |-> r, changed |-> c, eps |-> eps]
RoundDone(r, p) == [code |-> "RoundDone", round |-> r, path |-> p]
ProbeReport(p) == [code |-> "ProbeReport", round |-> p.round, dst |-> p.dst, seen |-> p.seen]
WGReady == [code |-> "WGReady", round |-> 0]
DiscoveryEnd == [code |-> "DiscoveryEnd", round |-> 0]
NoMessage == [code |-> "none", round |-> 0]

Control ==
  [code: {"Candidates"}, round: Rounds, changed: BOOLEAN, eps: SUBSET Endpoints]
  \cup [code: {"RoundDone"}, round: Rounds, path: Paths]
  \cup [code: {"ProbeReport"}, round: Rounds, dst: Endpoints, seen: Endpoints]
  \cup {WGReady, DiscoveryEnd}

\* "open": RunPeer has not returned.  "connected" with a path, or without one the
\* reason it gave up; "failed": an error.
Reasons == {"open", "connected", "no-progress", "budget-exhausted", "failed"}
Verdict(why, p) == [reason |-> why, path |-> p]

Collecting == {"probing", "reporting"}
Waiting == {"candidates", "agree", "handoff"}

TypeOK ==
  /\ env \in Environments
  /\ pc \in [Nodes -> {"infer", "observe", "bind", "connected", "ended"} \cup Collecting \cup Waiting]
  /\ round \in [Nodes -> Rounds]
  /\ changed \in [Nodes -> BOOLEAN] /\ grew \in [Nodes -> BOOLEAN]
  /\ store \in [Nodes -> SUBSET (Endpoints \X Endpoints)]
  /\ sent \in [Nodes -> SUBSET Endpoints]
  /\ received \in [Nodes -> SUBSET (Endpoints \X Endpoints)]
  /\ incoming \in [Nodes -> SUBSET (Endpoints \X Endpoints)]
  /\ path \in [Nodes -> Paths]
  /\ pending \in [Nodes -> Control \cup {NoMessage}]
  /\ verdict \in [Nodes -> [reason: Reasons, path: Paths]]
  /\ inbox \in [Nodes -> Seq(Control)]
  /\ arrivals \in [Nodes -> SUBSET Probe] /\ opened \in [Nodes -> SUBSET Probe]
  /\ net \subseteq Probe
  /\ faults \in 0 .. MaxFaults

Init ==
  /\ env \in Environments
  /\ pc = [n \in Nodes |-> "infer"]
  /\ round = [n \in Nodes |-> 1]
  /\ changed = [n \in Nodes |-> TRUE]
  /\ grew = [n \in Nodes |-> FALSE]
  /\ store = [n \in Nodes |-> {}]
  /\ sent = [n \in Nodes |-> {}]
  /\ received = [n \in Nodes |-> {}]
  /\ incoming = [n \in Nodes |-> {}]
  /\ path = [n \in Nodes |-> <<>>]
  /\ pending = [n \in Nodes |-> NoMessage]
  /\ verdict = [n \in Nodes |-> Verdict("open", <<>>)]
  /\ inbox = [n \in Nodes |-> <<>>]
  /\ arrivals = [n \in Nodes |-> {}]
  /\ opened = [n \in Nodes |-> {}]
  /\ net = {}
  /\ faults = 0

-----------------------------------------------------------------------------
Final(n) == pc[n] \in {"connected", "ended"}

\* u.send.  handleDiscoveryControl drops what reaches a node that is not probing.
Send(n, m, box) ==
  inbox' = IF Final(Peer(n)) THEN box ELSE [box EXCEPT ![Peer(n)] = Append(@, m)]

\* runProbe when RunPeer or handoff fails: DiscoveryEnd if it still gets through (told),
\* then close and failAttempt, and what the search held is gone.  What RunPeer returned
\* earlier stands.
EndWith(n, why, told) ==
  /\ pc' = [pc EXCEPT ![n] = "ended"]
  /\ verdict' = IF verdict[n].reason # "open" THEN verdict
                ELSE [verdict EXCEPT ![n] = Verdict(why, <<>>)]
  /\ inbox' = [m \in Nodes |-> IF m = n THEN <<>>
                               ELSE IF told /\ ~Final(m) THEN Append(inbox[m], DiscoveryEnd)
                               ELSE inbox[m]]
  /\ changed' = [changed EXCEPT ![n] = FALSE]
  /\ grew' = [grew EXCEPT ![n] = FALSE]
  /\ store' = [store EXCEPT ![n] = {}]
  /\ sent' = [sent EXCEPT ![n] = {}]
  /\ received' = [received EXCEPT ![n] = {}]
  /\ incoming' = [incoming EXCEPT ![n] = {}]
  /\ path' = [path EXCEPT ![n] = <<>>]
  /\ pending' = [pending EXCEPT ![n] = NoMessage]
  /\ arrivals' = [arrivals EXCEPT ![n] = {}]
  /\ UNCHANGED <<env, round, opened, net>>

\* RunPeer at the start of a round, and Exchange up to its wait.
Infer(n) ==
  /\ pc[n] = "infer"
  /\ Send(n, Candidates(round[n], changed[n], env.infer[n][round[n]]), inbox)
  /\ pc' = [pc EXCEPT ![n] = "candidates"]
  /\ UNCHANGED <<env, round, changed, store, grew, tryVars, path, pending,
                 verdict, arrivals, opened, net, faults>>

\* What wait looks at next, and the inbox without it.
HasMessage(n) == pc[n] \in Waiting /\ (pending[n] # NoMessage \/ inbox[n] # <<>>)
NextMessage(n) == IF pending[n] # NoMessage THEN pending[n] ELSE Head(inbox[n])
Rest(n) == IF pending[n] # NoMessage THEN inbox ELSE [inbox EXCEPT ![n] = Tail(@)]
Awaited(n) == CASE pc[n] = "candidates" -> <<"Candidates", round[n]>>
                [] pc[n] = "agree" -> <<"RoundDone", round[n]>>
                [] OTHER -> <<"WGReady", 0>>

\* wait returns the message it waits for.
Receive(n) ==
  /\ HasMessage(n)
  /\ <<NextMessage(n).code, NextMessage(n).round>> = Awaited(n)

\* wait drops a report whose window is over.
SkipReport(n) ==
  /\ HasMessage(n) /\ pending[n] = NoMessage
  /\ NextMessage(n).code = "ProbeReport"
  /\ inbox' = Rest(n)
  /\ UNCHANGED <<env, pc, round, changed, store, grew, tryVars, path, pending,
                 verdict, arrivals, opened, net, faults>>

\* Mutant: the peer's evidence does not count.
NoProgressOwn(n) ==
  /\ pc[n] = "candidates" /\ Receive(n)
  /\ ~changed[n]
  /\ EndWith(n, "no-progress", TRUE)
  /\ UNCHANGED faults

\* RunPeer when neither side has anything new.
NoProgress(n) ==
  /\ pc[n] = "candidates" /\ Receive(n)
  /\ ~changed[n] /\ ~NextMessage(n).changed
  /\ EndWith(n, "no-progress", TRUE)
  /\ UNCHANGED faults

\* Try sends its probes, sealed with the round and the destination.
Try(n) ==
  /\ pc[n] = "candidates" /\ Receive(n)
  /\ changed[n] \/ NextMessage(n).changed
  /\ LET eps == NextMessage(n).eps IN
       /\ sent' = [sent EXCEPT ![n] = eps]
       /\ net' = net \cup {[to |-> Peer(n), round |-> round[n], dst |-> d,
                            seen |-> env.nat[n][d]] : d \in eps}
  /\ inbox' = Rest(n)
  /\ pc' = [pc EXCEPT ![n] = "probing"]
  /\ pending' = [pending EXCEPT ![n] = NoMessage]
  /\ UNCHANGED <<env, round, changed, store, grew, received, incoming, path,
                 verdict, arrivals, opened, faults>>

\* Mutant: no replay window.
OpenAgain(n, p) == ~Final(n) /\ pc[n] # "handoff"

\* Receiver.Open: each probe once, while the probe socket is open.
Open(n, p) == ~Final(n) /\ pc[n] # "handoff" /\ p \notin opened[n]

\* The probe listener of prepareUDP: queue the arrival, report it to its sender.
Arrive(n, p) ==
  /\ p.to = n /\ Open(n, p)
  /\ opened' = [opened EXCEPT ![n] = @ \cup {p}]
  /\ arrivals' = [arrivals EXCEPT ![n] = @ \cup {p}]
  /\ Send(n, ProbeReport(p), inbox)
  /\ UNCHANGED <<env, pc, round, changed, store, grew, tryVars, path, pending,
                 verdict, net, faults>>

\* collectRound: ready, a probe of ours and one of theirs prove the same path.
Ready(n) == \E r \in received[n], a \in incoming[n] : a = <<r[2], r[1]>>
Collects(n) == pc[n] = "probing" \/ (pc[n] = "reporting" /\ ~Ready(n))

\* Mutant: arrivals of any round count.
CollectArrivalAny(n) ==
  /\ Collects(n)
  /\ \E p \in arrivals[n] :
       /\ arrivals' = [arrivals EXCEPT ![n] = @ \ {p}]
       /\ incoming' = [incoming EXCEPT ![n] = @ \cup {<<p.dst, p.seen>>}]
  /\ UNCHANGED <<env, pc, round, changed, store, grew, sent, received, path,
                 pending, verdict, inbox, opened, net, faults>>

CollectArrival(n) ==
  /\ Collects(n)
  /\ \E p \in arrivals[n] :
       /\ arrivals' = [arrivals EXCEPT ![n] = @ \ {p}]
       /\ incoming' = [incoming EXCEPT ![n] =
                         @ \cup IF p.round = round[n] THEN {<<p.dst, p.seen>>} ELSE {}]
  /\ UNCHANGED <<env, pc, round, changed, store, grew, sent, received, path,
                 pending, verdict, inbox, opened, net, faults>>

CollectReport(n) ==
  /\ Collects(n) /\ inbox[n] # <<>>
  /\ LET m == Head(inbox[n]) IN
       /\ m.code = "ProbeReport"
       /\ received' = [received EXCEPT ![n] =
            @ \cup IF m.dst \in sent[n] /\ m.round = round[n] THEN {<<m.dst, m.seen>>}
                   ELSE {}]
  /\ inbox' = [inbox EXCEPT ![n] = Tail(@)]
  /\ UNCHANGED <<env, pc, round, changed, store, grew, sent, incoming, path,
                 pending, verdict, arrivals, opened, net, faults>>

\* The peer's window closed before ours: its RoundDone is kept for Agree.
CollectBarrier(n) ==
  /\ Collects(n) /\ inbox[n] # <<>>
  /\ Head(inbox[n]).code = "RoundDone" /\ Head(inbox[n]).round = round[n]
  /\ pending[n] = NoMessage
  /\ pending' = [pending EXCEPT ![n] = Head(inbox[n])]
  /\ inbox' = [inbox EXCEPT ![n] = Tail(@)]
  /\ UNCHANGED <<env, pc, round, changed, store, grew, tryVars, path, verdict,
                 arrivals, opened, net, faults>>

\* In a calm network both nodes have probed and n has all the answers by the end of
\* its window.
Settled(n) ==
  /\ \A m \in Nodes : round[m] = round[n] /\ pc[m] \notin {"infer", "candidates"}
  /\ \A p \in net : p \in opened[p.to]
  /\ arrivals[n] = {}
  /\ \A i \in DOMAIN inbox[n] : inbox[n][i].code # "ProbeReport"

\* Mutant: own endpoint first.
KeyOwn(p) == p

\* The order of reciprocal: an unordered pair, its smaller endpoint first.
Key(p) == IF p[1] < p[2] THEN p ELSE <<p[2], p[1]>>

Precedes(p, q) == \/ Key(p)[1] < Key(q)[1]
                  \/ Key(p)[1] = Key(q)[1] /\ Key(p)[2] < Key(q)[2]
Least(S) == CHOOSE p \in S : \A q \in S : q = p \/ Precedes(p, q)

\* reciprocal: a probe of theirs to an endpoint at which one of ours was seen.
Reciprocal(n) ==
  LET found == {a \in incoming[n] : <<a[2], a[1]>> \in received[n]}
  IN IF found = {} THEN <<>> ELSE Least(found)

\* Try returns; RunPeer stores the observations and Agree publishes the path.
FinishTry(n) ==
  /\ store' = [store EXCEPT ![n] = @ \cup received[n]]
  /\ grew' = [grew EXCEPT ![n] = ~(received[n] \subseteq store[n])]
  /\ path' = [path EXCEPT ![n] = Reciprocal(n)]
  /\ Send(n, RoundDone(round[n], Reciprocal(n)), inbox)
  /\ pc' = [pc EXCEPT ![n] = "agree"]
  /\ sent' = [sent EXCEPT ![n] = {}]
  /\ received' = [received EXCEPT ![n] = {}]
  /\ incoming' = [incoming EXCEPT ![n] = {}]

\* The sending windows end.  With nothing sent there is no reporting deadline.
WindowEnds(n) ==
  /\ pc[n] = "probing"
  /\ env.calm => Settled(n)
  /\ \/ sent[n] = {} /\ FinishTry(n)
     \/ /\ sent[n] # {}
        /\ pc' = [pc EXCEPT ![n] = "reporting"]
        /\ UNCHANGED <<store, grew, path, inbox, tryVars>>
  /\ UNCHANGED <<env, round, changed, pending, verdict, arrivals, opened, net, faults>>

\* A path is found, or probeReportTimeout passes.
ReportsEnd(n) ==
  /\ pc[n] = "reporting"
  /\ FinishTry(n)
  /\ UNCHANGED <<env, round, changed, pending, verdict, arrivals, opened, net, faults>>

\* RunPeer: the peer proved the same path in the other direction.
Mirror(p, q) == p # <<>> /\ q # <<>> /\ p[1] = q[2] /\ p[2] = q[1]

Connect(n) ==
  /\ pc[n] = "agree" /\ Receive(n)
  /\ Mirror(path[n], NextMessage(n).path)
  /\ verdict' = [verdict EXCEPT ![n] = Verdict("connected", path[n])]
  /\ pc' = [pc EXCEPT ![n] = "bind"]
  /\ inbox' = Rest(n)
  /\ pending' = [pending EXCEPT ![n] = NoMessage]
  /\ UNCHANGED <<env, round, changed, store, grew, tryVars, path, arrivals,
                 opened, net, faults>>

\* Mutant: one round too many.
NextRoundMore(n, c, box) ==
  /\ round' = [round EXCEPT ![n] = @ + 1]
  /\ changed' = [changed EXCEPT ![n] = c]
  /\ grew' = [grew EXCEPT ![n] = FALSE]
  /\ path' = [path EXCEPT ![n] = <<>>]
  /\ pending' = [pending EXCEPT ![n] = NoMessage]
  /\ pc' = [pc EXCEPT ![n] = "infer"]
  /\ inbox' = box
  /\ UNCHANGED <<env, store, tryVars, verdict, arrivals, opened, net>>

\* The end of a round that did not connect; c: the store grew.
NextRound(n, c, box) ==
  \/ /\ round[n] = MaxIterations
     /\ EndWith(n, "budget-exhausted", TRUE)
  \/ /\ round[n] < MaxIterations
     /\ round' = [round EXCEPT ![n] = @ + 1]
     /\ changed' = [changed EXCEPT ![n] = c]
     /\ grew' = [grew EXCEPT ![n] = FALSE]
     /\ path' = [path EXCEPT ![n] = <<>>]
     /\ pending' = [pending EXCEPT ![n] = NoMessage]
     /\ pc' = [pc EXCEPT ![n] = "infer"]
     /\ inbox' = box
     /\ UNCHANGED <<env, store, tryVars, verdict, arrivals, opened, net>>

\* Mutant: the next round does not wait for the peer's RoundDone.
DisagreeEarly(n) ==
  /\ pc[n] = "agree" /\ path[n] = <<>>
  /\ NextRound(n, grew[n], inbox)
  /\ UNCHANGED faults

Disagree(n) ==
  /\ pc[n] = "agree" /\ Receive(n)
  /\ ~Mirror(path[n], NextMessage(n).path)
  /\ \/ grew[n] /\ NextRound(n, TRUE, Rest(n))
     \/ /\ ~grew[n]
        /\ pc' = [pc EXCEPT ![n] = "observe"]
        /\ inbox' = Rest(n)
        /\ pending' = [pending EXCEPT ![n] = NoMessage]
        /\ UNCHANGED <<env, round, changed, store, grew, tryVars, path, verdict, arrivals,
                       opened, net>>
  /\ UNCHANGED faults

\* Observe: other nodes measure our mappings, and may add to the store.
Observe(n) ==
  /\ pc[n] = "observe"
  /\ \E c \in BOOLEAN : NextRound(n, c, inbox)
  /\ UNCHANGED faults

\* handoff closes the probe socket, configures WireGuard and announces it.
Handoff(n) ==
  /\ pc[n] = "bind"
  /\ pc' = [pc EXCEPT ![n] = "handoff"]
  /\ Send(n, WGReady, inbox)
  /\ UNCHANGED <<env, round, changed, store, grew, tryVars, path, pending,
                 verdict, arrivals, opened, net, faults>>

Transmit(n) ==
  /\ pc[n] = "handoff" /\ Receive(n)
  /\ pc' = [pc EXCEPT ![n] = "connected"]
  /\ inbox' = Rest(n)
  /\ pending' = [pending EXCEPT ![n] = NoMessage]
  /\ UNCHANGED <<env, round, changed, store, grew, tryVars, path, verdict,
                 arrivals, opened, net, faults>>

-----------------------------------------------------------------------------
\* wait and collectRound return an error: the peer ended its search.
PeerEnded(n) ==
  /\ Collects(n) \/ (pc[n] \in Waiting /\ pending[n] = NoMessage)
  /\ inbox[n] # <<>> /\ Head(inbox[n]) = DiscoveryEnd
  /\ EndWith(n, "failed", TRUE)
  /\ UNCHANGED faults

\* The messages wait and collectRound refuse: another code or another round, and a
\* second barrier.  Lockstep shows that there are none, so no action handles them.
Misplaced(n) ==
  \/ /\ HasMessage(n)
     /\ <<NextMessage(n).code, NextMessage(n).round>> # Awaited(n)
     /\ pending[n] # NoMessage \/ NextMessage(n).code \notin {"ProbeReport", "DiscoveryEnd"}
  \/ /\ Collects(n) /\ inbox[n] # <<>>
     /\ Head(inbox[n]).code \notin {"ProbeReport", "DiscoveryEnd"}
     /\ pending[n] = NoMessage => <<Head(inbox[n]).code, Head(inbox[n]).round>>
                                    # <<"RoundDone", round[n]>>

\* The operation's deadline, a full queue, a failed send or kernel call, a session
\* lost: the last DiscoveryEnd may get through or not.
Cancel(n) ==
  /\ ~Final(n) /\ ~env.calm /\ faults < MaxFaults
  /\ faults' = faults + 1
  /\ \E told \in BOOLEAN : EndWith(n, "failed", told)

\* Mutant: wait has no deadline.
DeadlineNever(n) == FALSE /\ UNCHANGED vars

\* The deadline of a node whose peer is gone and left nothing to read.
Deadline(n) ==
  /\ pc[n] \in Waiting /\ ~HasMessage(n) /\ Final(Peer(n))
  /\ EndWith(n, "failed", FALSE)
  /\ UNCHANGED faults

Step(n) ==
  \/ Infer(n) \/ SkipReport(n) \/ NoProgress(n) \/ Try(n)
  \/ CollectArrival(n) \/ CollectReport(n) \/ CollectBarrier(n)
  \/ WindowEnds(n) \/ ReportsEnd(n) \/ Connect(n) \/ Disagree(n) \/ Observe(n)
  \/ Handoff(n) \/ Transmit(n) \/ PeerEnded(n) \/ Deadline(n)

Next == \E n \in Nodes : Step(n) \/ Cancel(n) \/ \E p \in net : Arrive(n, p)

\* The search of a node keeps running: its timers fire and it reads its inbox.
\* Nothing is assumed of the probes.
Spec == Init /\ [][Next]_vars /\ \A n \in Nodes : WF_vars(Step(n))

-----------------------------------------------------------------------------
\* The two nodes reach one verdict.  When one ends a search with a path, without
\* progress or out of budget, the other is at the same exchange of the same round,
\* has ended alike (with the path mirrored), or failed.
OneVerdict ==
  \A n \in Nodes : LET m == Peer(n) IN
    verdict[n].reason \in {"connected", "no-progress", "budget-exhausted"} =>
      \/ verdict[m].reason = "failed"
      \/ /\ verdict[m].reason = "open" /\ round[m] = round[n]
         /\ CASE verdict[n].reason = "no-progress" -> pc[m] = "candidates"
              [] verdict[n].reason = "connected" -> pc[m] = "agree"
              [] OTHER -> pc[m] \in {"agree", "observe"}
      \/ /\ verdict[m].reason = verdict[n].reason
         /\ verdict[n].reason = "connected" => Mirror(verdict[n].path, verdict[m].path)

\* wait and collectRound never see a message out of phase from a peer that runs the
\* same code, however the probes and the two windows interleave: the rounds of the
\* two nodes are at most one apart and a barrier is never early by more than a window.
Lockstep ==
  /\ \A n \in Nodes : ~Misplaced(n)
  /\ round[Initiator] <= round[Responder] + 1 /\ round[Responder] <= round[Initiator] + 1

\* The path a node reports for a round worked in both directions in that round: the
\* peer opened a probe this round sent along it and so did the node.  A late probe or
\* report of an earlier round proves nothing.
PathIsLive ==
  \A n \in Nodes : (pc[n] = "agree" /\ path[n] # <<>>) =>
    LET hop(to, dst, seen) == [to |-> to, round |-> round[n], dst |-> dst, seen |-> seen]
    IN /\ hop(Peer(n), path[n][2], path[n][1]) \in opened[Peer(n)]
       /\ hop(n, path[n][1], path[n][2]) \in opened[n]

\* The paths of round r that the NATs allow, as the initiator writes them.
Mutual(r) ==
  {p \in env.infer[Initiator][r] \X env.infer[Responder][r] :
     env.nat[Initiator][p[2]] = p[1] /\ env.nat[Responder][p[1]] = p[2]}

\* In a calm network a round that has a mutual path finds it, and both nodes pick the
\* same of several: reciprocal orders by the unordered pair.
CalmConnects ==
  (env.calm /\ \A n \in Nodes : pc[n] = "agree") =>
    IF Mutual(round[Initiator]) = {} THEN \A n \in Nodes : path[n] = <<>>
    ELSE path[Initiator] \in Mutual(round[Initiator]) /\ Mirror(path[Initiator], path[Responder])

\* A path that is reported works, and one that is there is found.
PathsSound == PathIsLive /\ CalmConnects

\* Duplicated probes cannot fill the peer's control queue, whose overflow cancels the
\* search: no more reports are queued for a node than it sent probes.
QueueBounded ==
  \A n \in Nodes :
    Cardinality({i \in DOMAIN inbox[n] : inbox[n][i].code = "ProbeReport"})
      <= Cardinality({p \in net : p.to = Peer(n)})

\* Neither side ends the search of the other by what it sends: nothing is out of phase and
\* nothing floods the queue.
InStep == Lockstep /\ QueueBounded

\* Neither side can keep the search alive by waiting, whatever becomes of the probes.
SearchEnds == ~env.calm => <>(\A n \in Nodes : Final(n))

=============================================================================

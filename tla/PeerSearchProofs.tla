-------------------------- MODULE PeerSearchProofs --------------------------
(***************************************************************************)
(* Theorems about the search for a UDP path, for any endpoints, any NATs,  *)
(* any number of rounds and of failures.                                   *)
(*                                                                         *)
(* The control messages of a node are numbered: the candidates of round r  *)
(* are 2r - 1, its barrier is 2r, and WG_READY comes after the barrier of  *)
(* the round that connected.  A node sends one only when it has taken the  *)
(* peer's previous one, and what is on its way is a run of consecutive     *)
(* numbers that begins with the one its receiver is waiting for (Line).    *)
(* So nothing is out of phase, and what the two nodes conclude from the    *)
(* same exchange is the same (Verdicts).                                   *)
(***************************************************************************)
EXTENDS PeerSearch, SequenceTheorems, FiniteSetTheorems, TLAPS

\* The number of the last control message n sent; of an ended node, a bound of it.
Top(n) == CASE pc[n] = "infer" -> 2 * round[n] - 2
            [] pc[n] \in {"candidates", "probing", "reporting"} -> 2 * round[n] - 1
            [] pc[n] \in {"agree", "observe", "bind"} -> 2 * round[n]
            [] OTHER -> 2 * round[n] + 1

\* The number of the next control message n takes; of an ended node, a bound of it.
Due(n) == CASE pc[n] \in {"infer", "candidates", "ended"} -> 2 * round[n] - 1
            [] pc[n] \in {"probing", "reporting", "agree"} ->
                 IF pending[n] = NoMessage THEN 2 * round[n] ELSE 2 * round[n] + 1
            [] pc[n] = "connected" -> 2 * round[n] + 2
            [] OTHER -> 2 * round[n] + 1

\* The number of message x from a node in round r; reports and DISCOVERY_END have none.
Number(r, x) == CASE x.code = "Candidates" -> 2 * x.round - 1
                  [] x.code = "RoundDone" -> 2 * x.round
                  [] x.code = "WGReady" -> 2 * r + 1
                  [] OTHER -> 0
Numbers(n) == [i \in 1 .. Len(inbox[n]) |-> Number(round[Peer(n)], inbox[n][i])]

\* The numbers that occur in f are consecutive from d on, in order and at most once.
Lined(f, len, d) ==
  /\ \A i \in 1 .. len : f[i] # 0 =>
       d <= f[i] /\ (f[i] > d => \E j \in 1 .. len : j < i /\ f[j] = f[i] - 1)
  /\ \A i, j \in 1 .. len : f[i] # 0 /\ f[i] = f[j] => i = j

\* What is on its way to n is what n waits for, and has not been sent too early.
LineAt(n) ==
  ~Final(n) =>
    /\ Lined(Numbers(n), Len(inbox[n]), Due(n))
    /\ \A i \in 1 .. Len(inbox[n]) :
         Numbers(n)[i] <= Top(Peer(n)) /\ Numbers(n)[i] <= Top(n) + 1
    /\ pc[Peer(n)] # "ended" /\ Due(n) <= Top(Peer(n)) =>
         \E i \in 1 .. Len(inbox[n]) : Numbers(n)[i] = Top(Peer(n))
Line == \A n \in Nodes : Due(n) <= Top(Peer(n)) + 1 /\ LineAt(n)

\* What the verdict of a node and its barrier say of its phase.
PhaseAt(n) ==
  /\ verdict[n].reason = "open" <=> pc[n] \notin {"bind", "handoff", "connected", "ended"}
  /\ pc[n] \in {"bind", "handoff", "connected"} =>
       verdict[n].reason = "connected" /\ verdict[n].path = path[n]
  /\ verdict[n].reason = "budget-exhausted" => round[n] = MaxIterations
  /\ pending[n] # NoMessage =>
       /\ pc[n] \in Collecting \cup {"agree"}
       /\ pending[n].code = "RoundDone" /\ pending[n].round = round[n]
Phase == \A n \in Nodes : PhaseAt(n)

\* The messages in a queue.
In(q) == {q[i] : i \in 1 .. Len(q)}
Queued(n) == In(inbox[n])
Unread(n) == Queued(n) \cup {pending[n]}

\* m did not connect in round r.
Split(m, r) == \/ round[m] = r + 1
               \/ round[m] = r /\ (pc[m] = "observe" \/ verdict[m].reason = "budget-exhausted")

\* What the messages for n say of their sender.
CandidatesSound(n) == LET m == Peer(n) IN
  \A x \in Queued(n) : x.code = "Candidates" =>
    /\ x.round <= round[m] /\ x.eps = env.infer[m][x.round]
    /\ x.round = round[m] /\ pc[m] # "ended" => x.changed = changed[m]
    /\ x.round = round[m] /\ verdict[m].reason = "no-progress" => ~x.changed
BarrierSound(n) == LET m == Peer(n) IN
  \A x \in Unread(n) : x.code = "RoundDone" =>
    /\ round[m] = x.round /\ pc[m] \in {"agree", "observe"} => x.path = path[m]
    /\ round[m] = x.round /\ verdict[m].reason = "connected" => x.path = verdict[m].path
    /\ Split(m, x.round) /\ pc[n] = "agree" /\ round[n] = x.round => ~Mirror(path[n], x.path)
EndSound(n) == LET m == Peer(n) IN
  \A x \in Queued(n) : /\ x.code = "WGReady" => verdict[m].reason = "connected" /\ pc[m] # "bind"
                       /\ x.code = "DiscoveryEnd" => pc[m] = "ended"
MessagesSound == \A n \in Nodes : ~Final(n) => CandidatesSound(n) /\ BarrierSound(n) /\ EndSound(n)

\* What a node's verdict says of its peer.
ConnectedTogether(n) == LET m == Peer(n) IN
  verdict[n].reason = "connected" =>
    /\ round[m] = round[n] /\ verdict[n].path # <<>>
    /\ \/ verdict[m].reason = "failed"
       \/ pc[m] = "agree" /\ Mirror(verdict[n].path, path[m])
       \/ verdict[m].reason = "connected" /\ Mirror(verdict[n].path, verdict[m].path)
ExhaustedTogether(n) == LET m == Peer(n) IN
  verdict[n].reason = "budget-exhausted" =>
    /\ round[m] = round[n]
    /\ verdict[m].reason \in {"failed", "budget-exhausted"} \/ pc[m] \in {"agree", "observe"}
StuckTogether(n) == LET m == Peer(n) IN
  verdict[n].reason = "no-progress" =>
    /\ round[m] = round[n]
    /\ \/ verdict[m].reason \in {"failed", "no-progress"}
       \/ pc[m] = "candidates" /\ ~changed[m]
TriedTogether(n) == LET m == Peer(n) IN
  round[m] = round[n] /\ pc[m] = "candidates" /\ pc[n] \in Collecting \cup {"agree"} =>
    changed[n] \/ changed[m]
Verdicts == \A n \in Nodes : /\ ConnectedTogether(n) /\ ExhaustedTogether(n)
                             /\ StuckTogether(n) /\ TriedTogether(n)

-----------------------------------------------------------------------------
\* A probe to node m, sent by its peer in round r.
Hop(m, r, dst, seen) == [to |-> m, round |-> r, dst |-> dst, seen |-> seen]
Reported(n, x) == Hop(Peer(n), x.round, x.dst, x.seen)

\* Probes follow the candidates and the NAT, and are sent once both nodes are in the round.
ProbeSound(p) == LET n == Peer(p.to) IN
  /\ p.dst \in env.infer[p.to][p.round] /\ p.seen = env.nat[n][p.dst]
  /\ p.round <= round[n] /\ (p.round = round[n] => pc[n] \notin {"infer", "candidates"})
  /\ p.round <= round[p.to] /\ (p.round = round[p.to] => pc[p.to] # "infer")
NetSound == \A p \in net : ProbeSound(p)

\* What n opened was sent, and what it was told or collected was opened in this round.
EvidenceSound(n) ==
  /\ opened[n] \subseteq net /\ arrivals[n] \subseteq opened[n]
  /\ \A p \in opened[n] : p.to = n
  /\ \A x \in Queued(n) : x.code = "ProbeReport" => Reported(n, x) \in opened[Peer(n)]
  /\ \A a \in received[n] : Hop(Peer(n), round[n], a[1], a[2]) \in opened[Peer(n)]
  /\ \A a \in incoming[n] : Hop(n, round[n], a[1], a[2]) \in opened[n]
  /\ pc[n] \notin Collecting => sent[n] = {} /\ received[n] = {} /\ incoming[n] = {}

\* A probe is reported once.
ReportedOnce(n) ==
  \A i, j \in 1 .. Len(inbox[n]) :
    inbox[n][i].code = "ProbeReport" /\ inbox[n][i] = inbox[n][j] => i = j

\* Nothing that was opened in this round is lost before the node has collected it.
EvidenceKept(n) == LET m == Peer(n) IN
  /\ pc[n] \in Collecting => sent[n] = env.infer[m][round[n]]
  /\ pc[n] \notin {"infer", "candidates", "ended"} =>
       \A d \in env.infer[m][round[n]] : Hop(m, round[n], d, env.nat[n][d]) \in net
  /\ pc[n] \in Collecting \cup {"candidates"} =>
       \A p \in opened[n] : p.round = round[n] =>
         p \in arrivals[n] \/ <<p.dst, p.seen>> \in incoming[n]
  /\ pc[n] \in Collecting =>
       \A p \in opened[m] : p.round = round[n] =>
         ProbeReport(p) \in Queued(n) \/ <<p.dst, p.seen>> \in received[n]

Evidence == NetSound /\ \A n \in Nodes : EvidenceSound(n) /\ ReportedOnce(n) /\ EvidenceKept(n)

\* The paths of round r that the NATs allow, as n writes them, and the one that is chosen.
MutualAt(n, r) ==
  {p \in env.infer[n][r] \X env.infer[Peer(n)][r] :
     env.nat[n][p[2]] = p[1] /\ env.nat[Peer(n)][p[1]] = p[2]}
Best(n, r) == IF MutualAt(n, r) = {} THEN <<>> ELSE Least(MutualAt(n, r))

\* In a calm network nothing fails first, a window ends with all its evidence in, and the
\* path is the best there is.
CalmAt(n) ==
  env.calm =>
    /\ pc[n] = "ended" /\ ~Final(Peer(n)) =>
         verdict[n].reason \in {"no-progress", "budget-exhausted"}
    /\ pc[n] = "reporting" => Settled(n)
    /\ pc[n] = "agree" => path[n] = Best(n, round[n])
Calm == \A n \in Nodes : CalmAt(n)

SearchInv == Phase /\ Line /\ MessagesSound /\ Verdicts /\ Evidence /\ PathIsLive /\ Calm

-----------------------------------------------------------------------------
(***************************************************************************)
(* Nodes, messages and queues.                                             *)
(***************************************************************************)
LEMMA NodeFacts ==
  /\ Initiator \in Nodes /\ Responder \in Nodes
  /\ \A n \in Nodes : Peer(n) \in Nodes /\ Peer(n) # n /\ Peer(Peer(n)) = n
  /\ \A n, x \in Nodes : x = n \/ x = Peer(n)
BY DEF Nodes, Initiator, Responder, Peer

LEMMA RoundFacts ==
  /\ MaxIterations \in Nat \ {0} /\ MaxFaults \in Nat
  /\ \A r \in Rounds : r \in Nat /\ 1 <= r /\ r <= MaxIterations
  /\ 1 \in Rounds
  /\ \A r \in Nat : 1 <= r /\ r <= MaxIterations => r \in Rounds
BY SearchAssumption DEF Rounds

LEMMA EnvFacts ==
  ASSUME NEW e \in Environments, NEW n \in Nodes
  PROVE  /\ e.calm \in BOOLEAN
         /\ \A d \in Endpoints : e.nat[n][d] \in Endpoints
         /\ \A r \in Rounds : e.infer[n][r] \subseteq Endpoint[n]
         /\ Endpoint[n] \subseteq Endpoints /\ Endpoint[n] \subseteq Nat
         /\ Endpoint[n] \cap Endpoint[Peer(n)] = {}
<1>1. e \in Environment /\ Endpoint \in [Nodes -> SUBSET Nat]
  BY SearchAssumption
<1>2. e.calm \in BOOLEAN /\ e.nat \in [Nodes -> [Endpoints -> Endpoints]]
      /\ \A x \in Nodes, r \in Rounds : e.infer[x][r] \subseteq Endpoint[x]
  BY <1>1 DEF Environment
<1>3. Endpoint[n] \subseteq Endpoints /\ Endpoint[n] \cap Endpoint[Peer(n)] = {}
  BY SearchAssumption DEF Endpoints, Nodes, Peer, Initiator, Responder
<1> QED BY <1>1, <1>2, <1>3

Codes == {"Candidates", "RoundDone", "ProbeReport", "WGReady", "DiscoveryEnd"}

LEMMA MessageFacts ==
  ASSUME NEW x \in Control
  PROVE  /\ x.code \in Codes /\ x # NoMessage
         /\ x.code = "Candidates" => x.round \in Rounds /\ x.changed \in BOOLEAN
                                     /\ x.eps \in SUBSET Endpoints
         /\ x.code = "RoundDone" => x.round \in Rounds /\ x.path \in Paths
         /\ x.code = "ProbeReport" => x.round \in Rounds /\ x.dst \in Endpoints
                                      /\ x.seen \in Endpoints
         /\ x.code = "WGReady" => x.round = 0
<1>1. CASE x \in [code: {"Candidates"}, round: Rounds, changed: BOOLEAN, eps: SUBSET Endpoints]
  BY <1>1 DEF Codes, NoMessage
<1>2. CASE x \in [code: {"RoundDone"}, round: Rounds, path: Paths]
  BY <1>2 DEF Codes, NoMessage
<1>3. CASE x \in [code: {"ProbeReport"}, round: Rounds, dst: Endpoints, seen: Endpoints]
  BY <1>3 DEF Codes, NoMessage
<1>4. CASE x \in {WGReady, DiscoveryEnd}
  BY <1>4 DEF Codes, NoMessage, WGReady, DiscoveryEnd
<1> QED BY <1>1, <1>2, <1>3, <1>4 DEF Control

LEMMA BuiltMessages ==
  /\ \A r \in Rounds, c \in BOOLEAN, eps \in SUBSET Endpoints :
       LET x == Candidates(r, c, eps) IN
         x \in Control /\ x.code = "Candidates" /\ x.round = r /\ x.changed = c /\ x.eps = eps
  /\ \A r \in Rounds, p \in Paths :
       LET x == RoundDone(r, p) IN x \in Control /\ x.code = "RoundDone" /\ x.round = r /\ x.path = p
  /\ \A p \in Probe :
       LET x == ProbeReport(p) IN
         /\ x \in Control /\ x.code = "ProbeReport" /\ x.round = p.round /\ x.dst = p.dst
         /\ x.seen = p.seen
  /\ WGReady \in Control /\ WGReady.code = "WGReady" /\ WGReady.round = 0
  /\ DiscoveryEnd \in Control /\ DiscoveryEnd.code = "DiscoveryEnd"
  /\ NoMessage.code = "none" /\ NoMessage \notin Control
<1>1. ASSUME NEW r \in Rounds, NEW c \in BOOLEAN, NEW eps \in SUBSET Endpoints
      PROVE  LET x == Candidates(r, c, eps) IN
         x \in Control /\ x.code = "Candidates" /\ x.round = r /\ x.changed = c /\ x.eps = eps
  BY DEF Candidates, Control
<1>2. ASSUME NEW r \in Rounds, NEW p \in Paths
      PROVE  LET x == RoundDone(r, p) IN
         x \in Control /\ x.code = "RoundDone" /\ x.round = r /\ x.path = p
  BY DEF RoundDone, Control
<1>3. ASSUME NEW p \in Probe
      PROVE  LET x == ProbeReport(p) IN
         /\ x \in Control /\ x.code = "ProbeReport" /\ x.round = p.round /\ x.dst = p.dst
         /\ x.seen = p.seen
  BY DEF ProbeReport, Control, Probe, Rounds
<1>4. WGReady \in Control /\ WGReady.code = "WGReady" /\ WGReady.round = 0
      /\ DiscoveryEnd \in Control /\ DiscoveryEnd.code = "DiscoveryEnd" /\ NoMessage.code = "none"
  BY DEF WGReady, DiscoveryEnd, Control, NoMessage
<1>5. NoMessage \notin Control
  BY MessageFacts
<1> QED BY <1>1, <1>2, <1>3, <1>4, <1>5

LEMMA HopFacts ==
  ASSUME NEW m \in Nodes, NEW r \in Rounds, NEW d \in Endpoints, NEW s \in Endpoints
  PROVE  /\ Hop(m, r, d, s) \in Probe
         /\ Hop(m, r, d, s).to = m /\ Hop(m, r, d, s).round = r
         /\ Hop(m, r, d, s).dst = d /\ Hop(m, r, d, s).seen = s
BY DEF Hop, Probe, Rounds

LEMMA ProbeFacts ==
  ASSUME NEW p \in Probe
  PROVE  /\ p.to \in Nodes /\ p.round \in Rounds /\ p.dst \in Endpoints /\ p.seen \in Endpoints
         /\ p = Hop(p.to, p.round, p.dst, p.seen)
BY DEF Hop, Probe, Rounds

LEMMA TailFacts ==
  ASSUME NEW q \in Seq(Control), q # <<>>
  PROVE  /\ Tail(q) \in Seq(Control) /\ Head(q) \in Control /\ Head(q) = q[1]
         /\ Len(q) \in Nat /\ Len(q) >= 1 /\ Len(Tail(q)) = Len(q) - 1
         /\ \A i \in 1 .. Len(Tail(q)) : i + 1 \in 1 .. Len(q) /\ Tail(q)[i] = q[i + 1]
         /\ In(Tail(q)) \subseteq In(q) /\ In(q) \subseteq In(Tail(q)) \cup {Head(q)}
         /\ Head(q) \in In(q)
<1>1. /\ Tail(q) \in Seq(Control) /\ Head(q) \in Control /\ Head(q) = q[1] /\ Len(q) \in Nat \ {0}
      /\ Len(Tail(q)) = Len(q) - 1
      /\ \A i \in 1 .. Len(Tail(q)) : Tail(q)[i] = q[i + 1]
  BY HeadTailProperties, EmptySeq
<1>2. Len(q) >= 1 /\ \A i \in 1 .. Len(Tail(q)) : i + 1 \in 1 .. Len(q)
  BY <1>1
<1>3. In(Tail(q)) \subseteq In(q) /\ Head(q) \in In(q)
  BY <1>1, <1>2 DEF In
<1>4. ASSUME NEW i \in 1 .. Len(q), i # 1 PROVE q[i] \in In(Tail(q))
  <2>1. i - 1 \in 1 .. Len(Tail(q)) /\ (i - 1) + 1 = i
    BY <1>1, <1>4
  <2>2. Tail(q)[i - 1] = q[i]
    BY <1>1, <2>1
  <2> QED BY <2>1, <2>2 DEF In
<1>5. In(q) \subseteq In(Tail(q)) \cup {Head(q)}
  BY <1>1, <1>4 DEF In
<1> QED BY <1>1, <1>2, <1>3, <1>5

LEMMA AppendFacts ==
  ASSUME NEW q \in Seq(Control), NEW x \in Control
  PROVE  /\ Append(q, x) \in Seq(Control)
         /\ Len(q) \in Nat /\ Len(Append(q, x)) = Len(q) + 1
         /\ \A i \in 1 .. Len(q) : Append(q, x)[i] = q[i]
         /\ Append(q, x)[Len(q) + 1] = x
         /\ \A i \in 1 .. Len(Append(q, x)) : i \in 1 .. Len(q) \/ i = Len(q) + 1
         /\ In(Append(q, x)) = In(q) \cup {x}
<1>1. Append(q, x) \in Seq(Control) /\ Len(Append(q, x)) = Len(q) + 1 /\ Len(q) \in Nat
      /\ Append(q, x)[Len(q) + 1] = x /\ \A i \in 1 .. Len(q) : Append(q, x)[i] = q[i]
  BY AppendProperties, LenProperties
<1>2. \A i \in 1 .. Len(Append(q, x)) : i \in 1 .. Len(q) \/ i = Len(q) + 1
  BY <1>1
<1>3. \A i \in 1 .. Len(q) : i \in 1 .. Len(Append(q, x))
  BY <1>1
<1>4. Len(q) + 1 \in 1 .. Len(Append(q, x))
  BY <1>1
<1>5. In(Append(q, x)) \subseteq In(q) \cup {x}
  BY <1>1, <1>2 DEF In
<1>6. In(q) \cup {x} \subseteq In(Append(q, x))
  BY <1>1, <1>3, <1>4 DEF In
<1> QED BY <1>1, <1>2, <1>5, <1>6

LEMMA EmptyFacts == <<>> \in Seq(Control) /\ Len(<<>>) = 0 /\ In(<<>>) = {}
<1>1. <<>> \in Seq(Control) /\ Len(<<>>) = 0
  OBVIOUS
<1> QED BY <1>1 DEF In

-----------------------------------------------------------------------------
(***************************************************************************)
(* What a step of n does, to n and to its peer.                            *)
(***************************************************************************)
Told(n, x) ==
  inbox'[Peer(n)] = IF Final(Peer(n)) THEN inbox[Peer(n)] ELSE Append(inbox[Peer(n)], x)
Untold(n) == inbox'[Peer(n)] = inbox[Peer(n)]

\* n can take message x, and takes it.
Offered(n, x) == \/ pending[n] # NoMessage /\ x = pending[n]
                 \/ pending[n] = NoMessage /\ inbox[n] # <<>> /\ x = Head(inbox[n])
Takes(n, x) ==
  \/ pending[n] # NoMessage /\ x = pending[n] /\ inbox'[n] = inbox[n]
  \/ pending[n] = NoMessage /\ inbox[n] # <<>> /\ x = Head(inbox[n]) /\ inbox'[n] = Tail(inbox[n])

IsCandidates(n, x) == x.code = "Candidates" /\ x.round = round[n]
IsBarrier(n, x) == x.code = "RoundDone" /\ x.round = round[n]

\* The peer does nothing.
PeerKeeps(n) == LET m == Peer(n) IN
  /\ env' = env
  /\ pc'[m] = pc[m] /\ round'[m] = round[m] /\ changed'[m] = changed[m] /\ path'[m] = path[m]
  /\ pending'[m] = pending[m] /\ verdict'[m] = verdict[m]
  /\ sent'[m] = sent[m] /\ received'[m] = received[m] /\ incoming'[m] = incoming[m]
  /\ arrivals'[m] = arrivals[m] /\ opened'[m] = opened[m]

PhaseKept(n) == pc'[n] = pc[n] /\ round'[n] = round[n] /\ verdict'[n] = verdict[n]
                /\ changed'[n] = changed[n] /\ path'[n] = path[n]
TryKept(n) == sent'[n] = sent[n] /\ received'[n] = received[n] /\ incoming'[n] = incoming[n]
ProbesKept(n) == arrivals'[n] = arrivals[n] /\ opened'[n] = opened[n] /\ net' = net
EvidenceSame(n) == TryKept(n) /\ ProbesKept(n)

DoesInfer(n) ==
  /\ pc[n] = "infer" /\ pc'[n] = "candidates"
  /\ round'[n] = round[n] /\ verdict'[n] = verdict[n] /\ changed'[n] = changed[n] /\ path'[n] = path[n]
  /\ pending'[n] = pending[n] /\ inbox'[n] = inbox[n]
  /\ Told(n, Candidates(round[n], changed[n], env.infer[n][round[n]]))
  /\ EvidenceSame(n)

DoesSkip(n) ==
  /\ pc[n] \in Waiting /\ PhaseKept(n) /\ pending'[n] = pending[n]
  /\ inbox[n] # <<>> /\ Head(inbox[n]).code = "ProbeReport" /\ inbox'[n] = Tail(inbox[n])
  /\ Untold(n) /\ EvidenceSame(n)

DoesTry(n) ==
  /\ pc[n] = "candidates" /\ pc'[n] = "probing"
  /\ round'[n] = round[n] /\ verdict'[n] = verdict[n] /\ changed'[n] = changed[n] /\ path'[n] = path[n]
  /\ pending'[n] = NoMessage
  /\ \E x \in Control :
       /\ IsCandidates(n, x) /\ Takes(n, x) /\ (changed[n] \/ x.changed)
       /\ sent'[n] = x.eps
       /\ net' = net \cup {Hop(Peer(n), round[n], d, env.nat[n][d]) : d \in x.eps}
  /\ received'[n] = received[n] /\ incoming'[n] = incoming[n]
  /\ Untold(n) /\ arrivals'[n] = arrivals[n] /\ opened'[n] = opened[n]

DoesArrive(n) ==
  /\ PhaseKept(n) /\ pending'[n] = pending[n] /\ inbox'[n] = inbox[n] /\ ~Final(n) /\ TryKept(n)
  /\ \E p \in net : /\ p.to = n /\ p \notin opened[n]
                    /\ opened'[n] = opened[n] \cup {p} /\ arrivals'[n] = arrivals[n] \cup {p}
                    /\ Told(n, ProbeReport(p))
  /\ net' = net

DoesCollectArrival(n) ==
  /\ pc[n] \in Collecting /\ PhaseKept(n) /\ pending'[n] = pending[n] /\ inbox'[n] = inbox[n]
  /\ \E p \in arrivals[n] :
       /\ arrivals'[n] = arrivals[n] \ {p}
       /\ incoming'[n] = incoming[n] \cup IF p.round = round[n] THEN {<<p.dst, p.seen>>} ELSE {}
  /\ sent'[n] = sent[n] /\ received'[n] = received[n] /\ opened'[n] = opened[n] /\ net' = net
  /\ Untold(n)

DoesCollectReport(n) ==
  /\ pc[n] \in Collecting /\ PhaseKept(n) /\ pending'[n] = pending[n]
  /\ inbox[n] # <<>> /\ inbox'[n] = Tail(inbox[n])
  /\ LET x == Head(inbox[n]) IN
       /\ x.code = "ProbeReport"
       /\ received'[n] = received[n] \cup IF x.dst \in sent[n] /\ x.round = round[n]
                                            THEN {<<x.dst, x.seen>>} ELSE {}
  /\ sent'[n] = sent[n] /\ incoming'[n] = incoming[n] /\ ProbesKept(n) /\ Untold(n)

DoesBarrier(n) ==
  /\ pc[n] \in Collecting /\ PhaseKept(n) /\ pending[n] = NoMessage
  /\ inbox[n] # <<>> /\ IsBarrier(n, Head(inbox[n]))
  /\ pending'[n] = Head(inbox[n]) /\ inbox'[n] = Tail(inbox[n])
  /\ Untold(n) /\ EvidenceSame(n)

DoesReporting(n) ==
  /\ pc[n] = "probing" /\ pc'[n] = "reporting" /\ (env.calm => Settled(n))
  /\ round'[n] = round[n] /\ verdict'[n] = verdict[n] /\ changed'[n] = changed[n] /\ path'[n] = path[n]
  /\ pending'[n] = pending[n] /\ inbox'[n] = inbox[n] /\ Untold(n) /\ EvidenceSame(n)

DoesFinish(n) ==
  /\ pc[n] \in Collecting /\ pc'[n] = "agree" /\ (pc[n] = "probing" /\ env.calm => Settled(n))
  /\ round'[n] = round[n] /\ verdict'[n] = verdict[n] /\ changed'[n] = changed[n]
  /\ path'[n] = Reciprocal(n) /\ Told(n, RoundDone(round[n], Reciprocal(n)))
  /\ pending'[n] = pending[n] /\ inbox'[n] = inbox[n]
  /\ sent'[n] = {} /\ received'[n] = {} /\ incoming'[n] = {} /\ ProbesKept(n)

DoesConnect(n) ==
  /\ pc[n] = "agree" /\ pc'[n] = "bind" /\ round'[n] = round[n] /\ path'[n] = path[n]
  /\ changed'[n] = changed[n]
  /\ \E x \in Control : IsBarrier(n, x) /\ Takes(n, x) /\ Mirror(path[n], x.path)
  /\ verdict'[n] = Verdict("connected", path[n])
  /\ pending'[n] = NoMessage /\ Untold(n) /\ EvidenceSame(n)

DoesObserve(n) ==
  /\ pc[n] = "agree" /\ pc'[n] = "observe"
  /\ round'[n] = round[n] /\ verdict'[n] = verdict[n] /\ changed'[n] = changed[n] /\ path'[n] = path[n]
  /\ \E x \in Control : IsBarrier(n, x) /\ Takes(n, x) /\ ~Mirror(path[n], x.path)
  /\ pending'[n] = NoMessage /\ Untold(n) /\ EvidenceSame(n)

DoesAdvance(n) ==
  /\ \/ /\ pc[n] = "agree"
        /\ \E x \in Control : IsBarrier(n, x) /\ Takes(n, x) /\ ~Mirror(path[n], x.path)
     \/ pc[n] = "observe" /\ inbox'[n] = inbox[n]
  /\ pc'[n] = "infer" /\ round[n] < MaxIterations /\ round'[n] = round[n] + 1
  /\ verdict'[n] = verdict[n] /\ path'[n] = <<>> /\ pending'[n] = NoMessage
  /\ Untold(n) /\ EvidenceSame(n)

DoesHandoff(n) ==
  /\ pc[n] = "bind" /\ pc'[n] = "handoff"
  /\ round'[n] = round[n] /\ verdict'[n] = verdict[n] /\ changed'[n] = changed[n] /\ path'[n] = path[n]
  /\ pending'[n] = pending[n] /\ inbox'[n] = inbox[n] /\ Told(n, WGReady) /\ EvidenceSame(n)

DoesTransmit(n) ==
  /\ pc[n] = "handoff" /\ pc'[n] = "connected"
  /\ round'[n] = round[n] /\ verdict'[n] = verdict[n] /\ changed'[n] = changed[n] /\ path'[n] = path[n]
  /\ \E x \in Control : x.code = "WGReady" /\ Takes(n, x)
  /\ pending'[n] = NoMessage /\ Untold(n) /\ EvidenceSame(n)

Clears(n) == LET m == Peer(n) IN
  /\ ~Final(n) /\ pc'[n] = "ended" /\ round'[n] = round[n]
  /\ path'[n] = <<>> /\ pending'[n] = NoMessage /\ inbox'[n] = <<>>
  /\ Untold(n) \/ (~Final(m) /\ inbox'[m] = Append(inbox[m], DiscoveryEnd))
  /\ sent'[n] = {} /\ received'[n] = {} /\ incoming'[n] = {} /\ arrivals'[n] = {}
  /\ opened'[n] = opened[n] /\ net' = net

Concludes(n, why) == verdict[n].reason = "open" /\ verdict'[n] = Verdict(why, <<>>)

EndsStuck(n) ==
  /\ Clears(n) /\ Concludes(n, "no-progress") /\ pc[n] = "candidates" /\ ~changed[n]
  /\ \E x \in Control : IsCandidates(n, x) /\ Offered(n, x) /\ ~x.changed

EndsExhausted(n) ==
  /\ Clears(n) /\ Concludes(n, "budget-exhausted") /\ round[n] = MaxIterations
  /\ \/ pc[n] = "observe"
     \/ /\ pc[n] = "agree"
        /\ \E x \in Control : IsBarrier(n, x) /\ Offered(n, x) /\ ~Mirror(path[n], x.path)

EndsFailed(n) ==
  /\ Clears(n)
  /\ Concludes(n, "failed") \/ (verdict[n].reason # "open" /\ verdict'[n] = verdict[n])
  /\ env.calm => Final(Peer(n)) \/ DiscoveryEnd \in Queued(n)

Does(n) ==
  \/ DoesInfer(n) \/ DoesSkip(n) \/ DoesTry(n) \/ DoesArrive(n) \/ DoesCollectArrival(n)
  \/ DoesCollectReport(n) \/ DoesBarrier(n) \/ DoesReporting(n) \/ DoesFinish(n) \/ DoesConnect(n)
  \/ DoesObserve(n) \/ DoesAdvance(n) \/ DoesHandoff(n) \/ DoesTransmit(n)
  \/ EndsStuck(n) \/ EndsExhausted(n) \/ EndsFailed(n)


-----------------------------------------------------------------------------
(***************************************************************************)
(* The least path.                                                         *)
(***************************************************************************)
LEMMA NatMin ==
  ASSUME NEW S \in SUBSET Nat, S # {}
  PROVE  \E k \in S : \A j \in S : k <= j
<1>1. PICK k \in S : \A j \in S : ~(<<j, k>> \in OpToRel(<, Nat))
  BY WFMin, NatLessThanWellFounded
<1>2. ASSUME NEW j \in S PROVE k <= j
  <2>1. j < k => <<j, k>> \in OpToRel(<, Nat)
    BY DEF OpToRel
  <2>2. ~(j < k)
    BY <1>1, <2>1
  <2>3. j \in Nat /\ k \in Nat
    OBVIOUS
  <2> QED BY <2>2, <2>3
<1> QED BY <1>2

LEMMA PairFacts ==
  ASSUME NEW A, NEW B, NEW S \in SUBSET (A \X B), NEW p \in S
  PROVE  p = <<p[1], p[2]>> /\ p[1] \in A /\ p[2] \in B
<1>1. p \in A \X B
  OBVIOUS
<1> QED BY <1>1

LEMMA KeyFacts ==
  ASSUME NEW a \in Nat, NEW b \in Nat
  PROVE  /\ Key(<<a, b>>)[1] \in Nat /\ Key(<<a, b>>)[2] \in Nat
         /\ a # b => Key(<<a, b>>) = Key(<<b, a>>)
         /\ Key(<<a, b>>) = <<a, b>> \/ Key(<<a, b>>) = <<b, a>>
BY DEF Key

\* reciprocal has one least path to choose: both ends of it are in disjoint sets.
LEMMA LeastExists ==
  ASSUME NEW A \in SUBSET Nat, NEW B \in SUBSET Nat, A \cap B = {},
         NEW S \in SUBSET (A \X B), S # {}
  PROVE  Least(S) \in S /\ \A q \in S : q = Least(S) \/ Precedes(Least(S), q)
<1>0. \A p \in S : /\ p = <<p[1], p[2]>> /\ p[1] \in A /\ p[2] \in B
                   /\ Key(p)[1] \in Nat /\ Key(p)[2] \in Nat
                   /\ Key(p) = p \/ Key(p) = <<p[2], p[1]>>
  <2> SUFFICES ASSUME NEW p \in S
               PROVE  /\ p = <<p[1], p[2]>> /\ p[1] \in A /\ p[2] \in B
                      /\ Key(p)[1] \in Nat /\ Key(p)[2] \in Nat
                      /\ Key(p) = p \/ Key(p) = <<p[2], p[1]>>
    OBVIOUS
  <2>1. p = <<p[1], p[2]>> /\ p[1] \in A /\ p[2] \in B
    BY PairFacts
  <2> QED BY <2>1, KeyFacts
<1> DEFINE K == {Key(p)[1] : p \in S}
<1>a. K \in SUBSET Nat /\ K # {}
  BY <1>0
<1> HIDE DEF K
<1>1. PICK k \in K : \A j \in K : k <= j
  BY NatMin, <1>a
<1> USE DEF K
<1> DEFINE L == {Key(p)[2] : p \in {q \in S : Key(q)[1] = k}}
<1>2. L \in SUBSET Nat /\ L # {}
  BY <1>0, <1>1
<1> HIDE DEF L
<1>3. PICK l \in L : \A j \in L : l <= j
  BY NatMin, <1>2
<1> USE DEF L
<1>4. PICK p \in S : Key(p)[1] = k /\ Key(p)[2] = l
  BY <1>3
<1>5. ASSUME NEW q \in S PROVE q = p \/ Precedes(p, q)
  <2>1. k <= Key(q)[1] /\ k \in Nat /\ Key(q)[1] \in Nat
    BY <1>0, <1>1
  <2>2. CASE k # Key(q)[1]
    BY <2>1, <2>2, <1>4 DEF Precedes
  <2>3. CASE k = Key(q)[1]
    <3>1. l <= Key(q)[2] /\ l \in Nat /\ Key(q)[2] \in Nat
      BY <1>0, <1>2, <1>3, <2>3
    <3>2. CASE l # Key(q)[2]
      BY <3>1, <3>2, <2>3, <1>4 DEF Precedes
    <3>3. CASE l = Key(q)[2]
      <4>1. \/ p[1] = q[1] /\ p[2] = q[2]
            \/ p[1] = q[2] /\ p[2] = q[1]
        BY <3>3, <2>3, <1>4, <1>0
      <4> QED BY <4>1, <1>0
    <3> QED BY <3>2, <3>3
  <2> QED BY <2>2, <2>3
<1> QED BY <1>5 DEF Least

LEMMA LeastUnique ==
  ASSUME NEW A \in SUBSET Nat, NEW B \in SUBSET Nat, A \cap B = {},
         NEW S \in SUBSET (A \X B), S # {}
  PROVE  \A p \in S : (\A q \in S : q = p \/ Precedes(p, q)) => Least(S) = p
<1> SUFFICES ASSUME NEW p \in S, \A q \in S : q = p \/ Precedes(p, q)
             PROVE  Least(S) = p
  OBVIOUS
<1>1. Least(S) \in S /\ (p = Least(S) \/ Precedes(Least(S), p))
  BY LeastExists
<1>2. \A q \in S : q = <<q[1], q[2]>> /\ q[1] \in Nat /\ q[2] \in Nat /\ Key(q)[1] \in Nat /\ Key(q)[2] \in Nat
  <2> SUFFICES ASSUME NEW q \in S
               PROVE  q = <<q[1], q[2]>> /\ q[1] \in Nat /\ q[2] \in Nat
                      /\ Key(q)[1] \in Nat /\ Key(q)[2] \in Nat
    OBVIOUS
  <2>1. q = <<q[1], q[2]>> /\ q[1] \in A /\ q[2] \in B
    BY PairFacts
  <2> QED BY <2>1, KeyFacts
<1>3. ~(Precedes(Least(S), p) /\ Precedes(p, Least(S)))
  BY <1>1, <1>2 DEF Precedes
<1> QED BY <1>1, <1>3

\* S and T are the same paths, written from either end.
Mirrored(A, B, S, T) ==
  /\ A \in SUBSET Nat /\ B \in SUBSET Nat /\ A \cap B = {}
  /\ S \in SUBSET (A \X B) /\ T \in SUBSET (B \X A)
  /\ \A a \in A, b \in B : <<a, b>> \in S <=> <<b, a>> \in T

\* The two nodes write a path from either end and choose the same.
LEMMA LeastMirrors ==
  ASSUME NEW A, NEW B, NEW S, NEW T, Mirrored(A, B, S, T), S # {}
  PROVE  T # {} /\ Least(T) = <<Least(S)[2], Least(S)[1]>>
<1> A \in SUBSET Nat /\ B \in SUBSET Nat /\ A \cap B = {}
  BY DEF Mirrored
<1> S \in SUBSET (A \X B) /\ T \in SUBSET (B \X A)
  BY DEF Mirrored
<1> \A a \in A, b \in B : <<a, b>> \in S <=> <<b, a>> \in T
  BY DEF Mirrored
<1>1. Least(S) \in S /\ \A q \in S : q = Least(S) \/ Precedes(Least(S), q)
  BY LeastExists
<1> DEFINE p == Least(S)
           r == <<p[2], p[1]>>
<1>2. p = <<p[1], p[2]>> /\ p[1] \in A /\ p[2] \in B /\ p[1] # p[2] /\ p[1] \in Nat /\ p[2] \in Nat
  BY <1>1
<1>3. r \in T
  BY <1>1, <1>2
<1>4. ASSUME NEW q \in T PROVE q = r \/ Precedes(r, q)
  <2>1. q = <<q[1], q[2]>> /\ q[1] \in B /\ q[2] \in A /\ q[1] # q[2] /\ q[1] \in Nat /\ q[2] \in Nat
    <3>1. q = <<q[1], q[2]>> /\ q[1] \in B /\ q[2] \in A
      BY PairFacts
    <3> QED BY <3>1
  <2>2. <<q[2], q[1]>> \in S
    BY <2>1
  <2>3. <<q[2], q[1]>> = p \/ Precedes(p, <<q[2], q[1]>>)
    BY <1>1, <2>2
  <2>4. Key(<<q[2], q[1]>>) = Key(q) /\ Key(r) = Key(p)
    BY <1>2, <2>1, KeyFacts
  <2>5. Precedes(p, <<q[2], q[1]>>) => Precedes(r, q)
    BY <2>4 DEF Precedes
  <2> QED BY <2>1, <2>3, <2>5
<1>5. B \cap A = {}
  OBVIOUS
<1> HIDE DEF p, r
<1>6. \A q \in T : q = r \/ Precedes(r, q)
  BY <1>4
<1>7. \A q \in T : (\A t \in T : t = q \/ Precedes(q, t)) => Least(T) = q
  BY <1>3, <1>5, LeastUnique
<1>8. Least(T) = r
  BY <1>3, <1>6, <1>7
<1> QED BY <1>3, <1>8 DEF p, r


\* reciprocal picks from the probes of the peer at whose source one of ours arrived.
Found(n) == {a \in incoming[n] : <<a[2], a[1]>> \in received[n]}

LEMMA ReciprocalFacts ==
  ASSUME TypeOK, Evidence, NEW n \in Nodes
  PROVE  /\ Found(n) \in SUBSET (Endpoint[n] \X Endpoint[Peer(n)])
         /\ Found(n) = {} => Reciprocal(n) = <<>>
         /\ Found(n) # {} => Reciprocal(n) = Least(Found(n)) /\ Reciprocal(n) \in Found(n)
         /\ Reciprocal(n) \in Paths
<1>1. Peer(n) \in Nodes /\ Peer(Peer(n)) = n
  BY NodeFacts
<1>2. round[n] \in Rounds /\ env \in Environments
      /\ received[n] \subseteq Endpoints \X Endpoints /\ incoming[n] \subseteq Endpoints \X Endpoints
  BY DEF TypeOK
<1>3. Found(n) \in SUBSET (Endpoint[n] \X Endpoint[Peer(n)])
  <2> SUFFICES ASSUME NEW a \in incoming[n], <<a[2], a[1]>> \in received[n]
               PROVE  a \in Endpoint[n] \X Endpoint[Peer(n)]
    BY DEF Found
  <2>1. a = <<a[1], a[2]>> /\ a[1] \in Endpoints /\ a[2] \in Endpoints
    BY <1>2
  <2>2. Hop(n, round[n], a[1], a[2]) \in net
    BY DEF Evidence, EvidenceSound
  <2>3. Hop(Peer(n), round[n], a[2], a[1]) \in opened[Peer(n)]
    BY DEF Evidence, EvidenceSound
  <2>4. Hop(Peer(n), round[n], a[2], a[1]) \in net
    BY <2>3, <1>1 DEF Evidence, EvidenceSound
  <2>5. a[1] \in env.infer[n][round[n]]
    BY <2>1, <2>2, <1>2, HopFacts DEF Evidence, NetSound, ProbeSound
  <2>6. a[2] \in env.infer[Peer(n)][round[n]]
    BY <2>1, <2>4, <1>1, <1>2, HopFacts DEF Evidence, NetSound, ProbeSound
  <2>7. a[1] \in Endpoint[n] /\ a[2] \in Endpoint[Peer(n)]
    BY <2>5, <2>6, <1>1, <1>2, EnvFacts
  <2> QED BY <2>1, <2>7
<1>4. Endpoint[n] \in SUBSET Nat /\ Endpoint[Peer(n)] \in SUBSET Nat
      /\ Endpoint[n] \cap Endpoint[Peer(n)] = {}
      /\ Endpoint[n] \subseteq Endpoints /\ Endpoint[Peer(n)] \subseteq Endpoints
  BY <1>1, <1>2, EnvFacts
<1>5. Reciprocal(n) = IF Found(n) = {} THEN <<>> ELSE Least(Found(n))
  BY DEF Reciprocal, Found
<1>6. Found(n) # {} => Least(Found(n)) \in Found(n)
  BY <1>3, <1>4, LeastExists
<1>7. Found(n) # {} => Least(Found(n)) \in Paths
  BY <1>6, <1>3, <1>4 DEF Paths
<1> QED BY <1>3, <1>5, <1>6, <1>7 DEF Paths

-----------------------------------------------------------------------------
(***************************************************************************)
(* Every action is a step of one of these shapes.                          *)
(***************************************************************************)
LEMMA SendFacts ==
  ASSUME TypeOK, NEW n \in Nodes, NEW x \in Control, Send(n, x, inbox)
  PROVE  inbox' \in [Nodes -> Seq(Control)] /\ inbox'[n] = inbox[n] /\ Told(n, x)
<1>1. Peer(n) \in Nodes /\ Peer(n) # n /\ inbox \in [Nodes -> Seq(Control)]
  BY NodeFacts DEF TypeOK
<1>2. Append(inbox[Peer(n)], x) \in Seq(Control)
  BY <1>1, AppendFacts
<1> QED BY <1>1, <1>2 DEF Send, Told

LEMMA OfferFacts ==
  ASSUME TypeOK, NEW n \in Nodes, HasMessage(n)
  PROVE  /\ Offered(n, NextMessage(n)) /\ NextMessage(n) \in Control
         /\ Rest(n) \in [Nodes -> Seq(Control)] /\ Rest(n)[Peer(n)] = inbox[Peer(n)]
         /\ inbox' = Rest(n) => Takes(n, NextMessage(n)) /\ Untold(n)
<1>1. Peer(n) \in Nodes /\ Peer(n) # n /\ inbox \in [Nodes -> Seq(Control)]
      /\ pending[n] \in Control \cup {NoMessage}
  BY NodeFacts DEF TypeOK
<1>2. CASE pending[n] # NoMessage
  BY <1>1, <1>2 DEF NextMessage, Rest, Offered, Takes, Untold
<1>3. CASE pending[n] = NoMessage
  <2>1. inbox[n] # <<>> /\ inbox[n] \in Seq(Control)
    BY <1>1, <1>3 DEF HasMessage
  <2>2. Tail(inbox[n]) \in Seq(Control) /\ Head(inbox[n]) \in Control
    BY <2>1, TailFacts
  <2> QED BY <1>1, <1>3, <2>1, <2>2 DEF NextMessage, Rest, Offered, Takes, Untold
<1> QED BY <1>2, <1>3

LEMMA CutFacts ==
  ASSUME TypeOK, NEW n \in Nodes, inbox[n] # <<>>
  PROVE  /\ Head(inbox[n]) \in Control /\ [inbox EXCEPT ![n] = Tail(@)] \in [Nodes -> Seq(Control)]
         /\ inbox' = [inbox EXCEPT ![n] = Tail(@)] => inbox'[n] = Tail(inbox[n]) /\ Untold(n)
<1>1. Peer(n) \in Nodes /\ Peer(n) # n /\ inbox \in [Nodes -> Seq(Control)]
  BY NodeFacts DEF TypeOK
<1>2. Tail(inbox[n]) \in Seq(Control) /\ Head(inbox[n]) \in Control
  BY <1>1, TailFacts
<1> QED BY <1>1, <1>2 DEF Untold

LEMMA InferShape ==
  ASSUME TypeOK, NEW n \in Nodes, Infer(n)
  PROVE  TypeOK' /\ PeerKeeps(n) /\ DoesInfer(n)
<1>1. Peer(n) \in Nodes /\ Peer(n) # n
  BY NodeFacts
<1>2. round[n] \in Rounds /\ changed[n] \in BOOLEAN /\ env \in Environments
  BY DEF TypeOK
<1>3. env.infer[n][round[n]] \in SUBSET Endpoints
  BY <1>2, EnvFacts
<1>4. Candidates(round[n], changed[n], env.infer[n][round[n]]) \in Control
  BY <1>2, <1>3, BuiltMessages
<1>5. inbox' \in [Nodes -> Seq(Control)] /\ inbox'[n] = inbox[n]
      /\ Told(n, Candidates(round[n], changed[n], env.infer[n][round[n]]))
  BY <1>4, SendFacts DEF Infer
<1>6. TypeOK'
  BY <1>5 DEF Infer, TypeOK, tryVars, Waiting
<1>7. PeerKeeps(n)
  BY <1>1 DEF Infer, TypeOK, tryVars, PeerKeeps
<1>8. DoesInfer(n)
  BY <1>5 DEF Infer, TypeOK, tryVars, DoesInfer, EvidenceSame, TryKept, ProbesKept
<1> QED BY <1>6, <1>7, <1>8

LEMMA SkipShape ==
  ASSUME TypeOK, NEW n \in Nodes, SkipReport(n)
  PROVE  TypeOK' /\ PeerKeeps(n) /\ DoesSkip(n)
<1>1. Peer(n) \in Nodes /\ Peer(n) # n
  BY NodeFacts
<1>2. HasMessage(n) /\ inbox' = Rest(n) /\ pending[n] = NoMessage
  BY DEF SkipReport
<1>3. Rest(n) \in [Nodes -> Seq(Control)] /\ Untold(n) /\ Takes(n, NextMessage(n))
  BY <1>2, OfferFacts
<1>4. inbox[n] # <<>> /\ NextMessage(n) = Head(inbox[n]) /\ inbox'[n] = Tail(inbox[n])
  BY <1>2, <1>3 DEF Takes
<1>5. TypeOK'
  BY <1>2, <1>3 DEF SkipReport, TypeOK, tryVars
<1>6. PeerKeeps(n)
  BY <1>1 DEF SkipReport, TypeOK, tryVars, PeerKeeps
<1>7. DoesSkip(n)
  BY <1>3, <1>4 DEF SkipReport, HasMessage, tryVars, DoesSkip, PhaseKept, EvidenceSame, TryKept, ProbesKept
<1> QED BY <1>5, <1>6, <1>7

LEMMA TryShape ==
  ASSUME TypeOK, NEW n \in Nodes, Try(n)
  PROVE  TypeOK' /\ PeerKeeps(n) /\ DoesTry(n)
<1>1. Peer(n) \in Nodes /\ Peer(n) # n
  BY NodeFacts
<1> DEFINE x == NextMessage(n)
<1>2. HasMessage(n) /\ inbox' = Rest(n)
  BY DEF Try, Receive
<1>3. Rest(n) \in [Nodes -> Seq(Control)] /\ Untold(n) /\ Takes(n, x) /\ x \in Control
  BY <1>2, OfferFacts
<1>4. IsCandidates(n, x)
  BY DEF Try, Receive, Awaited, IsCandidates
<1>5. x.eps \in SUBSET Endpoints /\ round[n] \in Rounds /\ env \in Environments
  BY <1>3, <1>4, MessageFacts DEF IsCandidates, TypeOK
<1>6. \A d \in x.eps : Hop(Peer(n), round[n], d, env.nat[n][d]) \in Probe
  BY <1>1, <1>5, EnvFacts, HopFacts
<1>7. net' = net \cup {Hop(Peer(n), round[n], d, env.nat[n][d]) : d \in x.eps}
      /\ sent' = [sent EXCEPT ![n] = x.eps]
  BY DEF Try, Hop
<1> HIDE DEF x
<1>8. net' \subseteq Probe
  BY <1>6, <1>7 DEF TypeOK
<1>9. sent' \in [Nodes -> SUBSET Endpoints] /\ sent'[n] = x.eps /\ sent'[Peer(n)] = sent[Peer(n)]
  BY <1>1, <1>5, <1>7 DEF TypeOK
<1>10. pending' \in [Nodes -> Control \cup {NoMessage}]
  BY DEF Try, TypeOK
<1>11. TypeOK'
  BY <1>2, <1>3, <1>8, <1>9, <1>10 DEF Try, TypeOK, Collecting
<1>12. PeerKeeps(n)
  BY <1>1, <1>9 DEF Try, TypeOK, PeerKeeps
<1>13. DoesTry(n)
  BY <1>3, <1>4, <1>7, <1>9 DEF Try, TypeOK, DoesTry, x
<1> QED BY <1>11, <1>12, <1>13


LEMMA ArriveShape ==
  ASSUME TypeOK, NEW n \in Nodes, NEW p \in net, Arrive(n, p)
  PROVE  TypeOK' /\ PeerKeeps(n) /\ DoesArrive(n)
<1>1. Peer(n) \in Nodes /\ Peer(n) # n
  BY NodeFacts
<1>2. p \in Probe
  BY DEF TypeOK
<1>3. inbox' \in [Nodes -> Seq(Control)] /\ inbox'[n] = inbox[n] /\ Told(n, ProbeReport(p))
  BY <1>2, BuiltMessages, SendFacts DEF Arrive
<1>4. TypeOK'
  BY <1>2, <1>3 DEF Arrive, TypeOK, tryVars
<1>5. PeerKeeps(n)
  BY <1>1 DEF Arrive, TypeOK, tryVars, PeerKeeps
<1>6. DoesArrive(n)
  BY <1>3 DEF Arrive, Open, TypeOK, tryVars, DoesArrive, PhaseKept, TryKept
<1> QED BY <1>4, <1>5, <1>6

LEMMA CollectArrivalShape ==
  ASSUME TypeOK, NEW n \in Nodes, CollectArrival(n)
  PROVE  TypeOK' /\ PeerKeeps(n) /\ DoesCollectArrival(n)
<1>1. Peer(n) \in Nodes /\ Peer(n) # n
  BY NodeFacts
<1>2. PICK p \in arrivals[n] :
        /\ arrivals' = [arrivals EXCEPT ![n] = @ \ {p}]
        /\ incoming' = [incoming EXCEPT ![n] =
                          @ \cup IF p.round = round[n] THEN {<<p.dst, p.seen>>} ELSE {}]
  BY DEF CollectArrival
<1>3. <<p.dst, p.seen>> \in Endpoints \X Endpoints
  BY ProbeFacts DEF TypeOK
<1>4. arrivals' \in [Nodes -> SUBSET Probe]
      /\ incoming' \in [Nodes -> SUBSET (Endpoints \X Endpoints)]
  BY <1>2, <1>3 DEF TypeOK
<1>5. TypeOK'
  BY <1>4 DEF CollectArrival, TypeOK
<1>6. PeerKeeps(n)
  BY <1>1, <1>2 DEF CollectArrival, TypeOK, PeerKeeps
<1>7. DoesCollectArrival(n)
  BY <1>2 DEF CollectArrival, Collects, Collecting, TypeOK, DoesCollectArrival, PhaseKept, Untold
<1> QED BY <1>5, <1>6, <1>7

LEMMA CollectReportShape ==
  ASSUME TypeOK, NEW n \in Nodes, CollectReport(n)
  PROVE  TypeOK' /\ PeerKeeps(n) /\ DoesCollectReport(n)
<1>1. Peer(n) \in Nodes /\ Peer(n) # n
  BY NodeFacts
<1> DEFINE x == Head(inbox[n])
<1>2. inbox[n] # <<>> /\ inbox' = [inbox EXCEPT ![n] = Tail(@)] /\ x.code = "ProbeReport"
  BY DEF CollectReport
<1>3. inbox' \in [Nodes -> Seq(Control)] /\ inbox'[n] = Tail(inbox[n]) /\ Untold(n) /\ x \in Control
  BY <1>2, CutFacts
<1>4. <<x.dst, x.seen>> \in Endpoints \X Endpoints
  BY <1>2, <1>3, MessageFacts
<1>5. received' = [received EXCEPT ![n] =
            @ \cup IF x.dst \in sent[n] /\ x.round = round[n] THEN {<<x.dst, x.seen>>} ELSE {}]
  BY DEF CollectReport
<1> HIDE DEF x
<1>6. received' \in [Nodes -> SUBSET (Endpoints \X Endpoints)]
  BY <1>4, <1>5 DEF TypeOK
<1>7. TypeOK'
  BY <1>3, <1>6 DEF CollectReport, TypeOK
<1>8. PeerKeeps(n)
  BY <1>1, <1>5 DEF CollectReport, TypeOK, PeerKeeps
<1>9. DoesCollectReport(n)
  BY <1>2, <1>3, <1>5 DEF CollectReport, Collects, Collecting, TypeOK, DoesCollectReport, PhaseKept,
                          ProbesKept, x
<1> QED BY <1>7, <1>8, <1>9

LEMMA BarrierShape ==
  ASSUME TypeOK, NEW n \in Nodes, CollectBarrier(n)
  PROVE  TypeOK' /\ PeerKeeps(n) /\ DoesBarrier(n)
<1>1. Peer(n) \in Nodes /\ Peer(n) # n
  BY NodeFacts
<1>2. inbox[n] # <<>> /\ inbox' = [inbox EXCEPT ![n] = Tail(@)]
  BY DEF CollectBarrier
<1>3. inbox' \in [Nodes -> Seq(Control)] /\ inbox'[n] = Tail(inbox[n]) /\ Untold(n)
      /\ Head(inbox[n]) \in Control
  BY <1>2, CutFacts
<1>4. TypeOK'
  BY <1>3 DEF CollectBarrier, TypeOK, tryVars
<1>5. PeerKeeps(n)
  BY <1>1 DEF CollectBarrier, TypeOK, tryVars, PeerKeeps
<1>6. DoesBarrier(n)
  BY <1>2, <1>3 DEF CollectBarrier, Collects, Collecting, TypeOK, tryVars, DoesBarrier, PhaseKept,
                    IsBarrier, EvidenceSame, TryKept, ProbesKept
<1> QED BY <1>4, <1>5, <1>6

LEMMA FinishShape ==
  ASSUME TypeOK, Evidence, NEW n \in Nodes, FinishTry(n), pc[n] \in Collecting,
         pc[n] = "probing" /\ env.calm => Settled(n),
         UNCHANGED <<env, round, changed, pending, verdict, arrivals, opened, net, faults>>
  PROVE  TypeOK' /\ PeerKeeps(n) /\ DoesFinish(n)
<1>1. Peer(n) \in Nodes /\ Peer(n) # n
  BY NodeFacts
<1>2. Reciprocal(n) \in Paths /\ round[n] \in Rounds
  BY ReciprocalFacts DEF TypeOK
<1>3. inbox' \in [Nodes -> Seq(Control)] /\ inbox'[n] = inbox[n]
      /\ Told(n, RoundDone(round[n], Reciprocal(n)))
  BY <1>2, BuiltMessages, SendFacts DEF FinishTry
<1>4. store' \in [Nodes -> SUBSET (Endpoints \X Endpoints)] /\ grew' \in [Nodes -> BOOLEAN]
  BY DEF FinishTry, TypeOK
<1>5. TypeOK'
  BY <1>2, <1>3, <1>4 DEF FinishTry, TypeOK, Waiting
<1>6. PeerKeeps(n)
  BY <1>1 DEF FinishTry, TypeOK, PeerKeeps
<1>7. DoesFinish(n)
  BY <1>3 DEF FinishTry, TypeOK, DoesFinish, ProbesKept
<1> QED BY <1>5, <1>6, <1>7

LEMMA WindowShape ==
  ASSUME TypeOK, Evidence, NEW n \in Nodes, WindowEnds(n)
  PROVE  TypeOK' /\ PeerKeeps(n) /\ (DoesFinish(n) \/ DoesReporting(n))
<1>1. Peer(n) \in Nodes /\ Peer(n) # n
  BY NodeFacts
<1>2. CASE sent[n] = {} /\ FinishTry(n)
  BY <1>2, FinishShape DEF WindowEnds, Collecting
<1>3. CASE pc' = [pc EXCEPT ![n] = "reporting"] /\ UNCHANGED <<store, grew, path, inbox, tryVars>>
  <2>1. TypeOK'
    BY <1>3 DEF WindowEnds, TypeOK, Collecting, tryVars
  <2>2. PeerKeeps(n)
    BY <1>1, <1>3 DEF WindowEnds, TypeOK, PeerKeeps, tryVars
  <2>3. DoesReporting(n)
    BY <1>3 DEF WindowEnds, TypeOK, DoesReporting, EvidenceSame, TryKept, ProbesKept, Untold, tryVars
  <2> QED BY <2>1, <2>2, <2>3
<1> QED BY <1>2, <1>3 DEF WindowEnds

LEMMA ReportsEndShape ==
  ASSUME TypeOK, Evidence, NEW n \in Nodes, ReportsEnd(n)
  PROVE  TypeOK' /\ PeerKeeps(n) /\ DoesFinish(n)
BY FinishShape DEF ReportsEnd, Collecting

LEMMA ConnectShape ==
  ASSUME TypeOK, NEW n \in Nodes, Connect(n)
  PROVE  TypeOK' /\ PeerKeeps(n) /\ DoesConnect(n)
<1>1. Peer(n) \in Nodes /\ Peer(n) # n
  BY NodeFacts
<1> DEFINE x == NextMessage(n)
<1>2. HasMessage(n) /\ inbox' = Rest(n) /\ IsBarrier(n, x)
  BY DEF Connect, Receive, Awaited, IsBarrier
<1>3. Rest(n) \in [Nodes -> Seq(Control)] /\ Untold(n) /\ Takes(n, x) /\ x \in Control
  BY <1>2, OfferFacts
<1>4. Verdict("connected", path[n]) \in [reason: Reasons, path: Paths]
  BY DEF Verdict, Reasons, TypeOK
<1> HIDE DEF x
<1>5. TypeOK'
  BY <1>2, <1>3, <1>4 DEF Connect, TypeOK, tryVars
<1>6. PeerKeeps(n)
  BY <1>1 DEF Connect, TypeOK, tryVars, PeerKeeps
<1>7. DoesConnect(n)
  BY <1>2, <1>3 DEF Connect, TypeOK, tryVars, DoesConnect, EvidenceSame, TryKept, ProbesKept, x
<1> QED BY <1>5, <1>6, <1>7

LEMMA HandoffShape ==
  ASSUME TypeOK, NEW n \in Nodes, Handoff(n)
  PROVE  TypeOK' /\ PeerKeeps(n) /\ DoesHandoff(n)
<1>1. Peer(n) \in Nodes /\ Peer(n) # n
  BY NodeFacts
<1>2. inbox' \in [Nodes -> Seq(Control)] /\ inbox'[n] = inbox[n] /\ Told(n, WGReady)
  BY BuiltMessages, SendFacts DEF Handoff
<1>3. TypeOK'
  BY <1>2 DEF Handoff, TypeOK, tryVars, Waiting
<1>4. PeerKeeps(n)
  BY <1>1 DEF Handoff, TypeOK, tryVars, PeerKeeps
<1>5. DoesHandoff(n)
  BY <1>2 DEF Handoff, TypeOK, tryVars, DoesHandoff, EvidenceSame, TryKept, ProbesKept
<1> QED BY <1>3, <1>4, <1>5

LEMMA TransmitShape ==
  ASSUME TypeOK, NEW n \in Nodes, Transmit(n)
  PROVE  TypeOK' /\ PeerKeeps(n) /\ DoesTransmit(n)
<1>1. Peer(n) \in Nodes /\ Peer(n) # n
  BY NodeFacts
<1> DEFINE x == NextMessage(n)
<1>2. HasMessage(n) /\ inbox' = Rest(n) /\ x.code = "WGReady"
  BY DEF Transmit, Receive, Awaited
<1>3. Rest(n) \in [Nodes -> Seq(Control)] /\ Untold(n) /\ Takes(n, x) /\ x \in Control
  BY <1>2, OfferFacts
<1> HIDE DEF x
<1>4. TypeOK'
  BY <1>2, <1>3 DEF Transmit, TypeOK, tryVars
<1>5. PeerKeeps(n)
  BY <1>1 DEF Transmit, TypeOK, tryVars, PeerKeeps
<1>6. DoesTransmit(n)
  BY <1>2, <1>3 DEF Transmit, TypeOK, tryVars, DoesTransmit, EvidenceSame, TryKept, ProbesKept
<1> QED BY <1>4, <1>5, <1>6


LEMMA EndFacts ==
  ASSUME TypeOK, NEW n \in Nodes, NEW why \in Reasons, NEW told \in BOOLEAN,
         EndWith(n, why, told), faults' \in 0 .. MaxFaults, ~Final(n)
  PROVE  /\ TypeOK' /\ PeerKeeps(n) /\ Clears(n)
         /\ Concludes(n, why) \/ (verdict[n].reason # "open" /\ verdict'[n] = verdict[n])
<1>1. Peer(n) \in Nodes /\ Peer(n) # n /\ \A x \in Nodes : x = n \/ x = Peer(n)
  BY NodeFacts
<1>2. inbox[Peer(n)] \in Seq(Control) /\ <<>> \in Seq(Control)
      /\ Append(inbox[Peer(n)], DiscoveryEnd) \in Seq(Control)
  BY <1>1, BuiltMessages, AppendFacts, EmptyFacts DEF TypeOK
<1>3. inbox' = [m \in Nodes |-> IF m = n THEN <<>>
                               ELSE IF told /\ ~Final(m) THEN Append(inbox[m], DiscoveryEnd)
                               ELSE inbox[m]]
  BY DEF EndWith
<1>4. /\ inbox'[n] = <<>>
      /\ Untold(n) \/ (~Final(Peer(n)) /\ inbox'[Peer(n)] = Append(inbox[Peer(n)], DiscoveryEnd))
  BY <1>1, <1>3 DEF Untold
<1>5. inbox' \in [Nodes -> Seq(Control)]
  <2>1. ASSUME NEW x \in Nodes
        PROVE  (IF x = n THEN <<>>
                ELSE IF told /\ ~Final(x) THEN Append(inbox[x], DiscoveryEnd) ELSE inbox[x]) \in Seq(Control)
    BY <1>1, <1>2
  <2> QED BY <1>3, <2>1
<1>6. <<>> \in Paths
  BY DEF Paths
<1>7. Verdict(why, <<>>) \in [reason: Reasons, path: Paths]
  BY <1>6 DEF Verdict
<1>8. /\ verdict' \in [Nodes -> [reason: Reasons, path: Paths]] /\ verdict'[Peer(n)] = verdict[Peer(n)]
      /\ Concludes(n, why) \/ (verdict[n].reason # "open" /\ verdict'[n] = verdict[n])
  BY <1>1, <1>7 DEF EndWith, TypeOK, Concludes
<1>9. /\ changed' \in [Nodes -> BOOLEAN] /\ grew' \in [Nodes -> BOOLEAN]
      /\ changed'[Peer(n)] = changed[Peer(n)]
  <2>1. \E f \in BOOLEAN : changed' = [changed EXCEPT ![n] = f]
    BY DEF EndWith
  <2>2. \E f \in BOOLEAN : grew' = [grew EXCEPT ![n] = f]
    BY DEF EndWith
  <2> QED BY <1>1, <2>1, <2>2 DEF TypeOK
<1>10. TypeOK'
  BY <1>5, <1>6, <1>8, <1>9 DEF EndWith, TypeOK
<1>11. PeerKeeps(n)
  BY <1>1, <1>8, <1>9 DEF EndWith, TypeOK, PeerKeeps
<1>12. Clears(n)
  BY <1>4 DEF EndWith, TypeOK, Clears
<1> QED BY <1>8, <1>10, <1>11, <1>12

LEMMA EndSome ==
  ASSUME TypeOK, NEW n \in Nodes, NEW why \in Reasons,
         \E told \in BOOLEAN : EndWith(n, why, told), UNCHANGED faults, ~Final(n)
  PROVE  /\ TypeOK' /\ PeerKeeps(n) /\ Clears(n)
         /\ Concludes(n, why) \/ (verdict[n].reason # "open" /\ verdict'[n] = verdict[n])
BY EndFacts DEF TypeOK

LEMMA NoProgressShape ==
  ASSUME TypeOK, NEW n \in Nodes, PhaseAt(n), NoProgress(n)
  PROVE  TypeOK' /\ PeerKeeps(n) /\ EndsStuck(n)
<1>1. pc[n] = "candidates" /\ HasMessage(n) /\ ~changed[n] /\ ~NextMessage(n).changed
      /\ IsCandidates(n, NextMessage(n))
  BY DEF NoProgress, Receive, Awaited, IsCandidates
<1>2. verdict[n].reason = "open" /\ ~Final(n)
  BY <1>1 DEF PhaseAt, Final
<1>3. \E told \in BOOLEAN : EndWith(n, "no-progress", told)
  BY DEF NoProgress
<1>4. "no-progress" \in Reasons
  BY DEF Reasons
<1>5. TypeOK' /\ PeerKeeps(n) /\ Clears(n) /\ Concludes(n, "no-progress")
  BY <1>2, <1>3, <1>4, EndSome DEF NoProgress
<1>6. Offered(n, NextMessage(n)) /\ NextMessage(n) \in Control
  BY <1>1, OfferFacts
<1> QED BY <1>1, <1>5, <1>6 DEF EndsStuck

LEMMA PeerEndedShape ==
  ASSUME TypeOK, NEW n \in Nodes, PhaseAt(n), PeerEnded(n)
  PROVE  TypeOK' /\ PeerKeeps(n) /\ EndsFailed(n)
<1>1. ~Final(n) /\ inbox[n] # <<>> /\ Head(inbox[n]) = DiscoveryEnd /\ inbox[n] \in Seq(Control)
  BY DEF PeerEnded, Collects, Waiting, Final, TypeOK
<1>2. \E told \in BOOLEAN : EndWith(n, "failed", told)
  BY DEF PeerEnded
<1>3. "failed" \in Reasons
  BY DEF Reasons
<1>4. DiscoveryEnd \in Queued(n)
  BY <1>1, TailFacts DEF Queued
<1> QED BY <1>1, <1>2, <1>3, <1>4, EndSome DEF PeerEnded, EndsFailed

LEMMA DeadlineShape ==
  ASSUME TypeOK, NEW n \in Nodes, PhaseAt(n), Deadline(n)
  PROVE  TypeOK' /\ PeerKeeps(n) /\ EndsFailed(n)
<1>1. ~Final(n) /\ Final(Peer(n))
  BY DEF Deadline, Waiting, Final
<1>2. \E told \in BOOLEAN : EndWith(n, "failed", told)
  BY DEF Deadline
<1>3. "failed" \in Reasons
  BY DEF Reasons
<1> QED BY <1>1, <1>2, <1>3, EndSome DEF Deadline, EndsFailed

LEMMA CancelShape ==
  ASSUME TypeOK, NEW n \in Nodes, PhaseAt(n), Cancel(n)
  PROVE  TypeOK' /\ PeerKeeps(n) /\ EndsFailed(n)
<1>1. ~Final(n) /\ ~env.calm /\ faults' = faults + 1 /\ faults < MaxFaults
  BY DEF Cancel
<1>2. faults' \in 0 .. MaxFaults
  BY <1>1, RoundFacts DEF TypeOK
<1>3. PICK told \in BOOLEAN : EndWith(n, "failed", told)
  BY DEF Cancel
<1>4. "failed" \in Reasons
  BY DEF Reasons
<1> QED BY <1>1, <1>2, <1>3, <1>4, EndFacts DEF EndsFailed

\* NextRound, from a barrier that was taken or from Observe.
LEMMA NextRoundFacts ==
  ASSUME TypeOK, NEW n \in Nodes, NEW c \in BOOLEAN, NEW box \in [Nodes -> Seq(Control)],
         NextRound(n, c, box), UNCHANGED faults, box[Peer(n)] = inbox[Peer(n)], ~Final(n)
  PROVE  /\ TypeOK' /\ PeerKeeps(n)
         /\ \/ /\ round[n] = MaxIterations /\ Clears(n)
               /\ \/ Concludes(n, "budget-exhausted")
                  \/ verdict[n].reason # "open" /\ verdict'[n] = verdict[n]
            \/ /\ pc'[n] = "infer" /\ round[n] < MaxIterations /\ round'[n] = round[n] + 1
               /\ verdict'[n] = verdict[n] /\ path'[n] = <<>> /\ pending'[n] = NoMessage
               /\ inbox' = box /\ Untold(n) /\ EvidenceSame(n)
<1>1. Peer(n) \in Nodes /\ Peer(n) # n
  BY NodeFacts
<1>2. CASE round[n] = MaxIterations /\ EndWith(n, "budget-exhausted", TRUE)
  <2>1. \E told \in BOOLEAN : EndWith(n, "budget-exhausted", told)
    BY <1>2
  <2>2. "budget-exhausted" \in Reasons
    BY DEF Reasons
  <2> QED BY <1>2, <2>1, <2>2, EndSome
<1>3. CASE ~(round[n] = MaxIterations /\ EndWith(n, "budget-exhausted", TRUE))
  <2>1. /\ round[n] < MaxIterations
        /\ round' = [round EXCEPT ![n] = @ + 1]
        /\ changed' = [changed EXCEPT ![n] = c]
        /\ path' = [path EXCEPT ![n] = <<>>]
        /\ pending' = [pending EXCEPT ![n] = NoMessage]
        /\ pc' = [pc EXCEPT ![n] = "infer"]
        /\ inbox' = box
        /\ UNCHANGED <<env, store, tryVars, verdict, arrivals, opened, net>>
    BY <1>3 DEF NextRound
  <2>2. \E f \in BOOLEAN : grew' = [grew EXCEPT ![n] = f]
    BY <1>3 DEF NextRound
  <2>3. grew' \in [Nodes -> BOOLEAN]
    BY <2>2 DEF TypeOK
  <2>4. round[n] + 1 \in Rounds
    BY <2>1, RoundFacts DEF TypeOK
  <2>5. round' \in [Nodes -> Rounds]
    BY <2>1, <2>4 DEF TypeOK
  <2>6. TypeOK'
    BY <2>1, <2>3, <2>5 DEF TypeOK, tryVars, Paths
  <2>7. PeerKeeps(n)
    BY <1>1, <2>1 DEF TypeOK, tryVars, PeerKeeps
  <2>8. /\ pc'[n] = "infer" /\ round[n] < MaxIterations /\ round'[n] = round[n] + 1
        /\ verdict'[n] = verdict[n] /\ path'[n] = <<>> /\ pending'[n] = NoMessage
        /\ inbox' = box /\ Untold(n) /\ EvidenceSame(n)
    BY <1>1, <2>1 DEF TypeOK, tryVars, Untold, EvidenceSame, TryKept, ProbesKept
  <2> QED BY <2>6, <2>7, <2>8
<1> QED BY <1>2, <1>3

LEMMA ObserveShape ==
  ASSUME TypeOK, NEW n \in Nodes, PhaseAt(n), Observe(n)
  PROVE  TypeOK' /\ PeerKeeps(n) /\ (DoesAdvance(n) \/ EndsExhausted(n))
<1>1. PICK c \in BOOLEAN : NextRound(n, c, inbox)
  BY DEF Observe
<1>2. pc[n] = "observe" /\ UNCHANGED faults /\ inbox \in [Nodes -> Seq(Control)] /\ ~Final(n)
      /\ verdict[n].reason = "open"
  BY DEF Observe, TypeOK, Final, PhaseAt
<1> QED BY <1>1, <1>2, NextRoundFacts DEF DoesAdvance, EndsExhausted

LEMMA DisagreeShape ==
  ASSUME TypeOK, NEW n \in Nodes, PhaseAt(n), Disagree(n)
  PROVE  TypeOK' /\ PeerKeeps(n) /\ (DoesObserve(n) \/ DoesAdvance(n) \/ EndsExhausted(n))
<1>1. Peer(n) \in Nodes /\ Peer(n) # n
  BY NodeFacts
<1> DEFINE x == NextMessage(n)
<1>2. pc[n] = "agree" /\ HasMessage(n) /\ IsBarrier(n, x) /\ UNCHANGED faults
      /\ ~Mirror(path[n], x.path) /\ ~Final(n) /\ verdict[n].reason = "open"
  BY DEF Disagree, Receive, Awaited, IsBarrier, Final, PhaseAt
<1>3. Rest(n) \in [Nodes -> Seq(Control)] /\ Rest(n)[Peer(n)] = inbox[Peer(n)]
      /\ Offered(n, x) /\ x \in Control
      /\ (inbox' = Rest(n) => Takes(n, x) /\ Untold(n))
  BY <1>2, OfferFacts
<1> HIDE DEF x
<1>4. CASE \E c \in BOOLEAN : NextRound(n, c, Rest(n))
  BY <1>2, <1>3, <1>4, NextRoundFacts DEF DoesAdvance, EndsExhausted
<1>5. CASE /\ pc' = [pc EXCEPT ![n] = "observe"]
           /\ inbox' = Rest(n)
           /\ pending' = [pending EXCEPT ![n] = NoMessage]
           /\ UNCHANGED <<env, round, changed, store, grew, tryVars, path, verdict, arrivals,
                          opened, net>>
  <2>1. TypeOK'
    BY <1>2, <1>3, <1>5 DEF TypeOK, tryVars
  <2>2. PeerKeeps(n)
    BY <1>1, <1>5 DEF TypeOK, tryVars, PeerKeeps
  <2>3. DoesObserve(n)
    BY <1>2, <1>3, <1>5 DEF TypeOK, tryVars, DoesObserve, EvidenceSame, TryKept, ProbesKept
  <2> QED BY <2>1, <2>2, <2>3
<1>6. \/ \E c \in BOOLEAN : NextRound(n, c, Rest(n))
      \/ /\ pc' = [pc EXCEPT ![n] = "observe"]
         /\ inbox' = Rest(n)
         /\ pending' = [pending EXCEPT ![n] = NoMessage]
         /\ UNCHANGED <<env, round, changed, store, grew, tryVars, path, verdict, arrivals,
                        opened, net>>
  BY DEF Disagree
<1> QED BY <1>4, <1>5, <1>6

LEMMA Shapes ==
  ASSUME TypeOK, Phase, Evidence, Next
  PROVE  TypeOK' /\ \E n \in Nodes : PeerKeeps(n) /\ Does(n)
<1>1. PICK n \in Nodes : Step(n) \/ Cancel(n) \/ \E p \in net : Arrive(n, p)
  BY DEF Next
<1>2. PhaseAt(n)
  BY DEF Phase
<1>3. CASE \E p \in net : Arrive(n, p)
  BY <1>3, ArriveShape DEF Does
<1>4. CASE Cancel(n)
  BY <1>2, <1>4, CancelShape DEF Does
<1>5. CASE Step(n)
  BY <1>2, <1>5, InferShape, SkipShape, NoProgressShape, TryShape, CollectArrivalShape,
     CollectReportShape, BarrierShape, WindowShape, ReportsEndShape, ConnectShape, DisagreeShape,
     ObserveShape, HandoffShape, TransmitShape, PeerEndedShape, DeadlineShape DEF Step, Does
<1> QED BY <1>1, <1>3, <1>4, <1>5


-----------------------------------------------------------------------------
(***************************************************************************)
(* Phases.                                                                 *)
(***************************************************************************)
LEMMA PhaseStep ==
  ASSUME TypeOK, TypeOK', Phase, NEW n \in Nodes, PeerKeeps(n), Does(n)
  PROVE  Phase'
<1>1. Peer(n) \in Nodes /\ \A x \in Nodes : x = n \/ x = Peer(n)
  BY NodeFacts
<1>2. PhaseAt(n) /\ PhaseAt(Peer(n))
  BY <1>1 DEF Phase
<1>3. PhaseAt(Peer(n))'
  BY <1>2 DEF PhaseAt, PeerKeeps
<1>4. \A why, p : Verdict(why, p).reason = why /\ Verdict(why, p).path = p
  BY DEF Verdict
<1>5. PhaseAt(n)'
  <2>1. CASE DoesInfer(n)
    BY <1>2, <2>1 DEF PhaseAt, DoesInfer, Collecting
  <2>2. CASE DoesSkip(n)
    BY <1>2, <2>2 DEF PhaseAt, DoesSkip, PhaseKept
  <2>3. CASE DoesTry(n)
    BY <1>2, <2>3 DEF PhaseAt, DoesTry
  <2>4. CASE DoesArrive(n)
    BY <1>2, <2>4 DEF PhaseAt, DoesArrive, PhaseKept
  <2>5. CASE DoesCollectArrival(n)
    BY <1>2, <2>5 DEF PhaseAt, DoesCollectArrival, PhaseKept
  <2>6. CASE DoesCollectReport(n)
    BY <1>2, <2>6 DEF PhaseAt, DoesCollectReport, PhaseKept
  <2>7. CASE DoesBarrier(n)
    BY <1>2, <2>7 DEF PhaseAt, DoesBarrier, PhaseKept, IsBarrier
  <2>8. CASE DoesReporting(n)
    BY <1>2, <2>8 DEF PhaseAt, DoesReporting, Collecting
  <2>9. CASE DoesFinish(n)
    BY <1>2, <2>9 DEF PhaseAt, DoesFinish, Collecting
  <2>10. CASE DoesConnect(n)
    BY <1>2, <1>4, <2>10 DEF PhaseAt, DoesConnect
  <2>11. CASE DoesObserve(n)
    BY <1>2, <2>11 DEF PhaseAt, DoesObserve
  <2>12. CASE DoesAdvance(n)
    BY <1>2, <2>12 DEF PhaseAt, DoesAdvance
  <2>13. CASE DoesHandoff(n)
    BY <1>2, <2>13 DEF PhaseAt, DoesHandoff, Collecting
  <2>14. CASE DoesTransmit(n)
    BY <1>2, <2>14 DEF PhaseAt, DoesTransmit
  <2>15. CASE EndsStuck(n)
    BY <1>2, <1>4, <2>15 DEF PhaseAt, EndsStuck, Clears, Concludes
  <2>16. CASE EndsExhausted(n)
    BY <1>2, <1>4, <2>16 DEF PhaseAt, EndsExhausted, Clears, Concludes
  <2>17. CASE EndsFailed(n)
    BY <1>2, <1>4, <2>17 DEF PhaseAt, EndsFailed, Clears, Concludes
  <2> QED BY <2>1, <2>2, <2>3, <2>4, <2>5, <2>6, <2>7, <2>8, <2>9, <2>10, <2>11, <2>12, <2>13,
             <2>14, <2>15, <2>16, <2>17 DEF Does
<1> QED BY <1>1, <1>3, <1>5 DEF Phase

-----------------------------------------------------------------------------
(***************************************************************************)
(* Lines of numbers.                                                       *)
(***************************************************************************)
LEMMA LinedDrop ==
  ASSUME NEW l \in Nat, l >= 1, NEW f \in [1 .. l -> Nat], NEW d \in Nat, d >= 1, Lined(f, l, d), f[1] = 0,
         NEW g \in [1 .. l - 1 -> Nat], \A i \in 1 .. l - 1 : g[i] = f[i + 1]
  PROVE  Lined(g, l - 1, d)
<1>1. ASSUME NEW i \in 1 .. l - 1, g[i] # 0
      PROVE  d <= g[i] /\ (g[i] > d => \E j \in 1 .. l - 1 : j < i /\ g[j] = g[i] - 1)
  <2>1. i + 1 \in 1 .. l /\ g[i] = f[i + 1]
    OBVIOUS
  <2>2. d <= f[i + 1] /\ (f[i + 1] > d => \E j \in 1 .. l : j < i + 1 /\ f[j] = f[i + 1] - 1)
    BY <1>1, <2>1 DEF Lined
  <2>3. ASSUME f[i + 1] > d PROVE \E j \in 1 .. l - 1 : j < i /\ g[j] = g[i] - 1
    <3>1. PICK j \in 1 .. l : j < i + 1 /\ f[j] = f[i + 1] - 1
      BY <2>2, <2>3
    <3>2. j # 1
      BY <2>3, <3>1
    <3>3. j - 1 \in 1 .. l - 1 /\ (j - 1) + 1 = j /\ j - 1 < i
      BY <3>1, <3>2
    <3>4. g[j - 1] = f[j]
      BY <3>3
    <3> QED BY <2>1, <3>1, <3>3, <3>4
  <2> QED BY <2>1, <2>2, <2>3
<1>2. ASSUME NEW i \in 1 .. l - 1, NEW j \in 1 .. l - 1, g[i] # 0, g[i] = g[j] PROVE i = j
  <2>1. i + 1 \in 1 .. l /\ g[i] = f[i + 1] /\ j + 1 \in 1 .. l /\ g[j] = f[j + 1]
    OBVIOUS
  <2>2. i + 1 = j + 1
    BY <1>2, <2>1 DEF Lined
  <2> QED BY <2>2
<1> QED BY <1>1, <1>2 DEF Lined


LEMMA LinedTake ==
  ASSUME NEW l \in Nat, l >= 1, NEW f \in [1 .. l -> Nat], NEW d \in Nat, d >= 1, Lined(f, l, d),
         f[1] = d,
         NEW g \in [1 .. l - 1 -> Nat], \A i \in 1 .. l - 1 : g[i] = f[i + 1]
  PROVE  Lined(g, l - 1, d + 1)
<1>1. ASSUME NEW i \in 1 .. l - 1, g[i] # 0
      PROVE  d + 1 <= g[i] /\ (g[i] > d + 1 => \E j \in 1 .. l - 1 : j < i /\ g[j] = g[i] - 1)
  <2>1. i + 1 \in 1 .. l /\ g[i] = f[i + 1] /\ 1 \in 1 .. l /\ i + 1 # 1
    OBVIOUS
  <2>2. d <= f[i + 1] /\ (f[i + 1] > d => \E j \in 1 .. l : j < i + 1 /\ f[j] = f[i + 1] - 1)
    BY <1>1, <2>1 DEF Lined
  <2>3. f[i + 1] # d
    BY <2>1 DEF Lined
  <2>4. ASSUME f[i + 1] > d + 1 PROVE \E j \in 1 .. l - 1 : j < i /\ g[j] = g[i] - 1
    <3>1. PICK j \in 1 .. l : j < i + 1 /\ f[j] = f[i + 1] - 1
      BY <2>2, <2>4
    <3>2. j # 1
      BY <2>4, <3>1
    <3>3. j - 1 \in 1 .. l - 1 /\ (j - 1) + 1 = j /\ j - 1 < i
      BY <3>1, <3>2
    <3>4. g[j - 1] = f[j]
      BY <3>3
    <3> QED BY <2>1, <3>1, <3>3, <3>4
  <2> QED BY <2>1, <2>2, <2>3, <2>4
<1>2. ASSUME NEW i \in 1 .. l - 1, NEW j \in 1 .. l - 1, g[i] # 0, g[i] = g[j] PROVE i = j
  <2>1. i + 1 \in 1 .. l /\ g[i] = f[i + 1] /\ j + 1 \in 1 .. l /\ g[j] = f[j + 1]
    OBVIOUS
  <2>2. i + 1 = j + 1
    BY <1>2, <2>1 DEF Lined
  <2> QED BY <2>2
<1> QED BY <1>1, <1>2 DEF Lined

\* A number that is appended follows the last one.
LEMMA LinedAppend ==
  ASSUME NEW l \in Nat, NEW f \in [1 .. l -> Nat], NEW d \in Nat, Lined(f, l, d), NEW k \in Nat,
         \/ k = 0
         \/ /\ k >= d /\ \A i \in 1 .. l : f[i] < k
            /\ k > d => \E j \in 1 .. l : f[j] = k - 1,
         NEW g \in [1 .. l + 1 -> Nat], \A i \in 1 .. l : g[i] = f[i], g[l + 1] = k
  PROVE  Lined(g, l + 1, d)
<1>1. \A i \in 1 .. l + 1 : i \in 1 .. l \/ i = l + 1
  OBVIOUS
<1>2. \A i \in 1 .. l : i \in 1 .. l + 1 /\ i < l + 1
  OBVIOUS
<1>3. ASSUME NEW i \in 1 .. l + 1, g[i] # 0
      PROVE  d <= g[i] /\ (g[i] > d => \E j \in 1 .. l + 1 : j < i /\ g[j] = g[i] - 1)
  <2>1. CASE i \in 1 .. l
    BY <1>2, <1>3, <2>1 DEF Lined
  <2>2. CASE i = l + 1
    BY <1>2, <1>3, <2>2
  <2> QED BY <1>1, <2>1, <2>2
<1>4. ASSUME NEW i \in 1 .. l + 1, NEW j \in 1 .. l + 1, g[i] # 0, g[i] = g[j] PROVE i = j
  <2>1. CASE i \in 1 .. l /\ j \in 1 .. l
    BY <1>4, <2>1 DEF Lined
  <2>2. CASE i = l + 1 \/ j = l + 1
    BY <1>1, <1>4, <2>2
  <2> QED BY <1>1, <2>1, <2>2
<1> QED BY <1>3, <1>4 DEF Lined

LEMMA NumberFacts ==
  ASSUME NEW r \in Rounds, NEW x \in Control
  PROVE  /\ Number(r, x) \in Nat
         /\ Number(r, x) # 0 <=> x.code \in {"Candidates", "RoundDone", "WGReady"}
         /\ x.code = "Candidates" => Number(r, x) = 2 * x.round - 1
         /\ x.code = "RoundDone" => Number(r, x) = 2 * x.round
         /\ x.code = "WGReady" => Number(r, x) = 2 * r + 1
<1>1. r \in Nat
  BY RoundFacts
<1>2. x.code \in {"Candidates", "RoundDone"} => x.round \in Nat /\ x.round >= 1
  BY MessageFacts, RoundFacts
<1>3. CASE x.code = "Candidates"
  BY <1>2, <1>3 DEF Number
<1>4. CASE x.code = "RoundDone"
  BY <1>2, <1>4 DEF Number
<1>5. CASE x.code = "WGReady"
  BY <1>1, <1>5 DEF Number
<1>6. CASE x.code \notin {"Candidates", "RoundDone", "WGReady"}
  BY <1>6 DEF Number
<1> QED BY <1>3, <1>4, <1>5, <1>6

NumbersAt(n) ==
  /\ Numbers(n) \in [1 .. Len(inbox[n]) -> Nat] /\ Len(inbox[n]) \in Nat
  /\ \A i \in 1 .. Len(inbox[n]) :
       Numbers(n)[i] = Number(round[Peer(n)], inbox[n][i]) /\ inbox[n][i] \in Control

LEMMA NumbersType ==
  ASSUME TypeOK, NEW n \in Nodes
  PROVE  NumbersAt(n)
<1>1. Peer(n) \in Nodes /\ inbox[n] \in Seq(Control)
  BY NodeFacts DEF TypeOK
<1>2. round[Peer(n)] \in Rounds
  BY <1>1 DEF TypeOK
<1>3. Len(inbox[n]) \in Nat /\ \A i \in 1 .. Len(inbox[n]) : inbox[n][i] \in Control
  BY <1>1, LenProperties, ElementOfSeq
<1> QED BY <1>2, <1>3, NumberFacts DEF Numbers, NumbersAt

\* Where the phases of a node put it.
TurnAt(n) ==
  /\ round[n] \in Nat /\ round[n] >= 1
  /\ pc[n] = "infer" => Top(n) = 2 * round[n] - 2 /\ Due(n) = 2 * round[n] - 1
  /\ pc[n] = "candidates" => Top(n) = 2 * round[n] - 1 /\ Due(n) = 2 * round[n] - 1
  /\ pc[n] \in Collecting => Top(n) = 2 * round[n] - 1
  /\ pc[n] \in Collecting \cup {"agree"} =>
     Due(n) = IF pending[n] = NoMessage THEN 2 * round[n] ELSE 2 * round[n] + 1
  /\ pc[n] \in {"agree", "observe", "bind"} => Top(n) = 2 * round[n]
  /\ pc[n] \in {"observe", "bind", "handoff"} => Due(n) = 2 * round[n] + 1
  /\ pc[n] \in {"handoff", "connected", "ended"} => Top(n) = 2 * round[n] + 1
  /\ pc[n] = "connected" => Due(n) = 2 * round[n] + 2
  /\ pc[n] = "ended" => Due(n) = 2 * round[n] - 1
  /\ Top(n) \in Nat /\ Due(n) \in Nat /\ Due(n) >= 1
  /\ 2 * round[n] - 1 <= Due(n) /\ Due(n) <= 2 * round[n] + 2
  /\ 2 * round[n] - 2 <= Top(n) /\ Top(n) <= 2 * round[n] + 1

LEMMA TurnFacts ==
  ASSUME TypeOK, NEW n \in Nodes
  PROVE  TurnAt(n)
<1>1. round[n] \in Nat /\ round[n] >= 1
  BY RoundFacts DEF TypeOK
<1>2. pc[n] \in {"infer", "observe", "bind", "connected", "ended", "probing", "reporting",
                 "candidates", "agree", "handoff"}
  BY DEF TypeOK, Collecting, Waiting
<1>3. CASE pc[n] \in {"infer", "candidates", "ended", "connected"}
  BY <1>1, <1>3 DEF Top, Due, Collecting, TurnAt
<1>4. CASE pc[n] \in {"probing", "reporting", "agree"}
  BY <1>1, <1>4 DEF Top, Due, Collecting, TurnAt
<1>5. CASE pc[n] \in {"observe", "bind", "handoff"}
  BY <1>1, <1>5 DEF Top, Due, Collecting, TurnAt
<1> QED BY <1>1, <1>2, <1>3, <1>4, <1>5


LEMMA TurnsEverywhere == TypeOK => \A n \in Nodes : TurnAt(n) /\ NumbersAt(n)
BY TurnFacts, NumbersType

LEMMA TurnsNext == TypeOK' => (\A n \in Nodes : TurnAt(n) /\ NumbersAt(n))'
BY TurnsEverywhere, PTL


\* n takes the message it waits for, or none that has a number.
Pulls(n) ==
  \/ inbox'[n] = inbox[n] /\ Due(n)' = Due(n)
  \/ /\ inbox[n] # <<>> /\ inbox'[n] = Tail(inbox[n])
     /\ \/ Number(round[Peer(n)], Head(inbox[n])) = 0 /\ Due(n)' = Due(n)
        \/ Number(round[Peer(n)], Head(inbox[n])) = Due(n) /\ Due(n)' = Due(n) + 1

LEMMA OwnLine ==
  ASSUME TypeOK, TypeOK', NEW n \in Nodes, ~Final(n), LineAt(n), Due(n) <= Top(Peer(n)) + 1,
         PeerKeeps(n), Top(n) <= Top(n)', Pulls(n)
  PROVE  LineAt(n)' /\ Due(n)' <= Top(Peer(n))' + 1
<1> DEFINE m == Peer(n)
           f == Numbers(n)
           g == Numbers(n)'
           l == Len(inbox[n])
           k == Len(inbox'[n])
<1>1. m \in Nodes /\ m # n /\ inbox[n] \in Seq(Control)
  BY NodeFacts DEF TypeOK
<1>2. round'[m] = round[m] /\ pc'[m] = pc[m] /\ Top(m)' = Top(m)
  BY DEF PeerKeeps, Top
<1>3. /\ f \in [1 .. l -> Nat] /\ l \in Nat
      /\ \A i \in 1 .. l : f[i] = Number(round[m], inbox[n][i])
  BY NumbersType DEF NumbersAt
<1>4. /\ g \in [1 .. k -> Nat] /\ k \in Nat
      /\ \A i \in 1 .. k : g[i] = Number(round[m], inbox'[n][i])
  BY <1>2, TurnsNext DEF NumbersAt
<1>5. Top(n) \in Nat /\ Top(n)' \in Nat /\ Top(m) \in Nat /\ Due(n) \in Nat /\ Due(n) >= 1
  BY <1>1, TurnsEverywhere, TurnsNext DEF TurnAt
<1>6. /\ Lined(f, l, Due(n))
      /\ \A i \in 1 .. l : f[i] <= Top(m) /\ f[i] <= Top(n) + 1
      /\ pc[m] # "ended" /\ Due(n) <= Top(m) => \E i \in 1 .. l : f[i] = Top(m)
  BY DEF LineAt
<1> SUFFICES /\ Lined(g, k, Due(n)')
             /\ \A i \in 1 .. k : g[i] <= Top(m) /\ g[i] <= Top(n)' + 1
             /\ pc[m] # "ended" /\ Due(n)' <= Top(m) => \E i \in 1 .. k : g[i] = Top(m)
             /\ Due(n)' <= Top(m) + 1
  BY <1>2 DEF LineAt
<1> HIDE DEF m, f, g, l, k
<1>7. CASE inbox'[n] = inbox[n] /\ Due(n)' = Due(n)
  <2>1. k = l
    BY <1>7 DEF k, l
  <2>2. \A i \in 1 .. l : g[i] = f[i]
    BY <1>3, <1>4, <1>7, <2>1
  <2>3. g = f
    BY <1>3, <1>4, <2>1, <2>2
  <2> QED BY <1>3, <1>5, <1>6, <1>7, <2>1, <2>3 DEF m
<1>8. CASE inbox[n] # <<>> /\ inbox'[n] = Tail(inbox[n])
  <2>1. /\ k = l - 1 /\ l >= 1 /\ Head(inbox[n]) = inbox[n][1]
        /\ \A i \in 1 .. k : i + 1 \in 1 .. l /\ inbox'[n][i] = inbox[n][i + 1]
    BY <1>1, <1>8, TailFacts DEF k, l
  <2>2. \A i \in 1 .. l - 1 : i + 1 \in 1 .. l /\ g[i] = f[i + 1]
    BY <1>3, <1>4, <2>1
  <2>3. f[1] = Number(round[m], Head(inbox[n])) /\ 1 \in 1 .. l
    BY <1>3, <2>1
  <2>4. g \in [1 .. l - 1 -> Nat]
    BY <1>4, <2>1
  <2>5. \A i \in 1 .. k : g[i] <= Top(m) /\ g[i] <= Top(n)' + 1
    <3> SUFFICES ASSUME NEW i \in 1 .. k PROVE g[i] <= Top(m) /\ g[i] <= Top(n)' + 1
      OBVIOUS
    <3>1. i + 1 \in 1 .. l /\ g[i] = f[i + 1]
      BY <2>1, <2>2
    <3>2. f[i + 1] \in Nat /\ f[i + 1] <= Top(m) /\ f[i + 1] <= Top(n) + 1
      BY <1>3, <1>6, <3>1
    <3> QED BY <1>5, <3>1, <3>2
  <2>6. ASSUME NEW i \in 1 .. l, f[i] = Top(m), f[1] # Top(m)
        PROVE  \E j \in 1 .. k : g[j] = Top(m)
    <3>1. i - 1 \in 1 .. l - 1 /\ (i - 1) + 1 = i
      BY <1>3, <2>6
    <3>2. g[i - 1] = f[i]
      BY <2>2, <3>1
    <3> QED BY <2>1, <2>6, <3>1, <3>2
  <2>7. CASE Number(round[m], Head(inbox[n])) = 0 /\ Due(n)' = Due(n)
    <3>1. f[1] = 0
      BY <2>3, <2>7
    <3>2. Lined(g, k, Due(n)')
      <4>1. Lined(g, l - 1, Due(n))
        BY <1>3, <1>5, <1>6, <2>1, <2>2, <2>4, <3>1, LinedDrop
      <4> QED BY <2>1, <2>7, <4>1
    <3>3. pc[m] # "ended" /\ Due(n)' <= Top(m) => \E i \in 1 .. k : g[i] = Top(m)
      BY <1>5, <1>6, <2>6, <2>7, <3>1
    <3> QED BY <2>5, <2>7, <3>2, <3>3 DEF m
  <2>8. CASE Number(round[m], Head(inbox[n])) = Due(n) /\ Due(n)' = Due(n) + 1
    <3>1. f[1] = Due(n) /\ Due(n) <= Top(m)
      BY <1>6, <2>3, <2>8
    <3>2. Lined(g, k, Due(n)')
      BY <1>3, <1>5, <1>6, <2>1, <2>2, <2>4, <2>8, <3>1, LinedTake
    <3>3. pc[m] # "ended" /\ Due(n)' <= Top(m) => \E i \in 1 .. k : g[i] = Top(m)
      BY <1>5, <1>6, <2>6, <2>8, <3>1
    <3> QED BY <1>5, <2>5, <2>8, <3>1, <3>2, <3>3
  <2> QED BY <1>7, <1>8, <2>7, <2>8 DEF Pulls, m
<1> QED BY <1>7, <1>8 DEF Pulls

\* n sends its next message, or none that has a number.
Pushes(n) ==
  \/ Untold(n) /\ (Top(n)' = Top(n) \/ (pc'[n] = "ended" /\ Top(n) <= Top(n)'))
  \/ \E x \in Control :
       /\ Told(n, x) /\ Number(round[n], x) = 0
       /\ Top(n)' = Top(n) \/ (pc'[n] = "ended" /\ Top(n) <= Top(n)')
  \/ \E x \in Control :
       /\ Told(n, x) /\ Number(round[n], x) = Top(n) + 1 /\ Top(n)' = Top(n) + 1
       /\ Top(n) + 1 <= Due(n)

LEMMA PeerLine ==
  ASSUME TypeOK, TypeOK', NEW n \in Nodes, Line, PeerKeeps(n), Pushes(n), pc[n] # "ended",
         ~Final(Peer(n)) =>
           round'[n] = round[n] \/ (Untold(n) /\ \A x \in Queued(Peer(n)) : x.code # "WGReady")
  PROVE  LineAt(Peer(n))' /\ Due(Peer(n))' <= Top(n)' + 1
<1> DEFINE m == Peer(n)
           f == Numbers(m)
           g == Numbers(m)'
           l == Len(inbox[m])
           k == Len(inbox'[m])
<1>1. m \in Nodes /\ m # n /\ Peer(m) = n /\ inbox[m] \in Seq(Control) /\ round[n] \in Rounds
      /\ round'[n] \in Rounds
  BY NodeFacts DEF TypeOK
<1>2. pc'[m] = pc[m] /\ Top(m)' = Top(m) /\ Due(m)' = Due(m) /\ (Final(m)' <=> Final(m))
  BY DEF PeerKeeps, Top, Due, Final
<1>3. /\ f \in [1 .. l -> Nat] /\ l \in Nat
      /\ \A i \in 1 .. l : f[i] = Number(round[n], inbox[m][i]) /\ inbox[m][i] \in Control
  BY <1>1, NumbersType DEF NumbersAt
<1>4. /\ g \in [1 .. k -> Nat] /\ k \in Nat
      /\ \A i \in 1 .. k : g[i] = Number(round'[n], inbox'[m][i])
  BY <1>1, TurnsNext DEF NumbersAt
<1>5. Top(n) \in Nat /\ Top(n)' \in Nat /\ Top(m) \in Nat /\ Due(m) \in Nat /\ Due(m) >= 1
      /\ Due(n) \in Nat
  BY <1>1, TurnsEverywhere, TurnsNext DEF TurnAt
<1>6. Top(n) <= Top(n)' /\ Due(m) <= Top(n) + 1 /\ Due(n) <= Top(m) + 1
  BY <1>1, <1>5 DEF Pushes, Line
<1>7. Due(m)' <= Top(n)' + 1
  BY <1>2, <1>5, <1>6
<1>8. CASE Final(m)
  BY <1>2, <1>7, <1>8 DEF LineAt
<1>9. CASE ~Final(m)
  <2>1. LineAt(m)
    BY <1>1 DEF Line
  <2>2. /\ Lined(f, l, Due(m))
        /\ \A i \in 1 .. l : f[i] <= Top(n) /\ f[i] <= Top(m) + 1
        /\ pc[n] # "ended" /\ Due(m) <= Top(n) => \E i \in 1 .. l : f[i] = Top(n)
    BY <1>1, <1>9, <2>1 DEF LineAt
  <2> SUFFICES /\ Lined(g, k, Due(m))
               /\ \A i \in 1 .. k : g[i] <= Top(n)' /\ g[i] <= Top(m) + 1
               /\ pc'[n] # "ended" /\ Due(m) <= Top(n)' => \E i \in 1 .. k : g[i] = Top(n)'
    BY <1>1, <1>2, <1>7 DEF LineAt
  <2>3. ASSUME NEW i \in 1 .. l PROVE Number(round'[n], inbox[m][i]) = f[i]
    <3>1. inbox[m][i] \in Queued(m)
      BY DEF Queued, In
    <3>2. round'[n] = round[n] \/ inbox[m][i].code # "WGReady"
      BY <1>9, <3>1
    <3>3. Number(round'[n], inbox[m][i]) = Number(round[n], inbox[m][i])
      BY <3>2 DEF Number
    <3> QED BY <1>3, <3>3
  <2> HIDE DEF m, f, g, l, k
  <2>4. CASE Untold(n) /\ (Top(n)' = Top(n) \/ (pc'[n] = "ended" /\ Top(n) <= Top(n)'))
    <3>1. inbox'[m] = inbox[m] /\ k = l
      BY <2>4 DEF Untold, m, k, l
    <3>2. \A i \in 1 .. l : g[i] = f[i]
      BY <1>4, <2>3, <3>1
    <3>3. g = f
      BY <1>3, <1>4, <3>1, <3>2
    <3>4. \A i \in 1 .. l : f[i] \in Nat
      BY <1>3
    <3> QED BY <1>5, <1>6, <2>2, <2>4, <3>1, <3>3, <3>4
  <2>5. ASSUME NEW x \in Control, Told(n, x)
        PROVE  /\ round'[n] = round[n] \/ Untold(n)
               /\ k = l + 1 /\ g[l + 1] = Number(round'[n], x) /\ \A i \in 1 .. l : g[i] = f[i]
               /\ g \in [1 .. l + 1 -> Nat] /\ l + 1 \in 1 .. k
    <3>1. inbox'[m] = Append(inbox[m], x)
      BY <1>9, <2>5 DEF Told, m
    <3>2. /\ k = l + 1 /\ \A i \in 1 .. l : inbox'[m][i] = inbox[m][i]
          /\ inbox'[m][l + 1] = x
      BY <1>1, <3>1, AppendFacts DEF k, l
    <3>3. l + 1 \in 1 .. k /\ \A i \in 1 .. l : i \in 1 .. k
      BY <1>3, <3>2
    <3> QED BY <1>4, <1>9, <2>3, <3>2, <3>3 DEF m
  <2>6. \A i \in 1 .. l : f[i] \in Nat
    BY <1>3
  <2>7. ASSUME NEW x \in Control, Told(n, x), Number(round[n], x) = 0, round'[n] = round[n],
               Top(n)' = Top(n) \/ (pc'[n] = "ended" /\ Top(n) <= Top(n)')
        PROVE  /\ Lined(g, k, Due(m))
               /\ \A i \in 1 .. k : g[i] <= Top(n)' /\ g[i] <= Top(m) + 1
               /\ pc'[n] # "ended" /\ Due(m) <= Top(n)' => \E i \in 1 .. k : g[i] = Top(n)'
    <3>1. /\ k = l + 1 /\ g[l + 1] = 0 /\ \A i \in 1 .. l : g[i] = f[i]
          /\ g \in [1 .. l + 1 -> Nat]
      BY <2>5, <2>7
    <3>2. Lined(g, l + 1, Due(m))
      BY <1>3, <1>5, <2>2, <3>1, LinedAppend
    <3>3. \A i \in 1 .. k : i \in 1 .. l \/ i = l + 1
      BY <1>3, <3>1
    <3>4. \A i \in 1 .. l : i \in 1 .. k
      BY <1>3, <3>1
    <3> QED BY <1>5, <1>6, <2>2, <2>6, <2>7, <3>1, <3>2, <3>3, <3>4
  <2>8. ASSUME NEW x \in Control, Told(n, x), Number(round[n], x) = Top(n) + 1, round'[n] = round[n],
               Top(n)' = Top(n) + 1, Top(n) + 1 <= Due(n)
        PROVE  /\ Lined(g, k, Due(m))
               /\ \A i \in 1 .. k : g[i] <= Top(n)' /\ g[i] <= Top(m) + 1
               /\ pc'[n] # "ended" /\ Due(m) <= Top(n)' => \E i \in 1 .. k : g[i] = Top(n)'
    <3>1. /\ k = l + 1 /\ g[l + 1] = Top(n) + 1 /\ \A i \in 1 .. l : g[i] = f[i]
          /\ g \in [1 .. l + 1 -> Nat] /\ l + 1 \in 1 .. k
      BY <2>5, <2>8
    <3>2. /\ Top(n) + 1 >= Due(m) /\ \A i \in 1 .. l : f[i] < Top(n) + 1
          /\ Top(n) + 1 > Due(m) => \E j \in 1 .. l : f[j] = (Top(n) + 1) - 1
      BY <1>5, <1>6, <2>2, <2>6
    <3>3. Lined(g, l + 1, Due(m))
      <4>1. Top(n) + 1 \in Nat
        BY <1>5
      <4> QED BY <1>3, <1>5, <2>2, <3>1, <3>2, <4>1, LinedAppend
    <3>4. \A i \in 1 .. k : i \in 1 .. l \/ i = l + 1
      BY <1>3, <3>1
    <3>5. Top(n) + 1 <= Top(m) + 1
      BY <1>5, <1>6, <2>8
    <3> QED BY <1>5, <1>6, <2>2, <2>6, <2>8, <3>1, <3>3, <3>4, <3>5
  <2>9. ASSUME NEW x \in Control, Told(n, x) PROVE ~Untold(n)
    <3>1. inbox'[m] = Append(inbox[m], x)
      BY <1>9, <2>9 DEF Told, m
    <3>2. Len(inbox'[m]) = Len(inbox[m]) + 1 /\ Len(inbox[m]) \in Nat
      BY <1>1, <3>1, AppendFacts
    <3> QED BY <3>2 DEF Untold, m
  <2> QED BY <1>9, <2>4, <2>7, <2>8, <2>9 DEF Pushes, m
<1> QED BY <1>8, <1>9


\* A step whose messages are in turn keeps the lines.
LEMMA InTurn ==
  ASSUME TypeOK, TypeOK', NEW n \in Nodes, Line, PeerKeeps(n), ~Final(n), Pushes(n),
         \/ Pulls(n) /\ Top(n) <= Top(n)'
         \/ Final(n)' /\ Due(n)' <= Top(Peer(n)) + 1,
         ~Final(Peer(n)) =>
           round'[n] = round[n] \/ (Untold(n) /\ \A x \in Queued(Peer(n)) : x.code # "WGReady")
  PROVE  Line'
<1>1. Peer(n) \in Nodes /\ Peer(Peer(n)) = n /\ \A x \in Nodes : x = n \/ x = Peer(n)
  BY NodeFacts
<1>2. LineAt(Peer(n))' /\ Due(Peer(n))' <= Top(n)' + 1
  BY PeerLine DEF Final
<1>3. Top(Peer(n))' = Top(Peer(n))
  BY DEF PeerKeeps, Top
<1>4. LineAt(n)' /\ Due(n)' <= Top(Peer(n))' + 1
  <2>1. LineAt(n) /\ Due(n) <= Top(Peer(n)) + 1
    BY DEF Line
  <2>2. CASE Pulls(n) /\ Top(n) <= Top(n)'
    BY <2>1, <2>2, OwnLine
  <2>3. CASE Final(n)' /\ Due(n)' <= Top(Peer(n)) + 1
    BY <1>3, <2>3 DEF LineAt
  <2> QED BY <2>2, <2>3
<1>5. \A x \in Nodes : (Due(x) <= Top(Peer(x)) + 1 /\ LineAt(x))'
  BY <1>1, <1>2, <1>4
<1> QED BY <1>5 DEF Line

LEMMA LineStep ==
  ASSUME TypeOK, TypeOK', Phase, MessagesSound, Verdicts, Line,
         NEW n \in Nodes, PeerKeeps(n), Does(n)
  PROVE  Line'
<1> DEFINE m == Peer(n)
<1>1. m \in Nodes /\ Peer(m) = n /\ \A x \in Nodes : x = n \/ x = m
  BY NodeFacts
<1>2. TurnAt(n) /\ TurnAt(n)' /\ TurnAt(m) /\ PhaseAt(n)
  BY <1>1, TurnsEverywhere, TurnsNext DEF Phase
<1>3. Due(n) <= Top(m) + 1 /\ LineAt(n) /\ LineAt(m)
  BY <1>1 DEF Line
<1>4. round[n] \in Rounds /\ round[m] \in Rounds /\ inbox[n] \in Seq(Control)
      /\ pc[n] \in {"infer", "observe", "bind", "connected", "ended", "probing", "reporting",
                    "candidates", "agree", "handoff"}
  BY <1>1 DEF TypeOK, Collecting, Waiting
<1>5. inbox[n] # <<>> => Head(inbox[n]) \in Control
  BY <1>4, TailFacts
<1>6. ASSUME NEW x \in Control
      PROVE  /\ x.code \in {"ProbeReport", "DiscoveryEnd"} => \A r \in Rounds : Number(r, x) = 0
             /\ IsCandidates(n, x) => \A r \in Rounds : Number(r, x) = 2 * round[n] - 1
             /\ IsBarrier(n, x) => \A r \in Rounds : Number(r, x) = 2 * round[n]
             /\ x.code = "WGReady" => \A r \in Rounds : Number(r, x) = 2 * r + 1
  BY NumberFacts DEF IsCandidates, IsBarrier
<1>7. ASSUME pc[n] = "agree", NEW x \in Control, IsBarrier(n, x), Takes(n, x),
             Due(n)' = 2 * round[n] + 1
      PROVE  Pulls(n)
  <2>1. CASE pending[n] # NoMessage
    BY <1>2, <1>7, <2>1 DEF Takes, Pulls, TurnAt
  <2>2. CASE pending[n] = NoMessage
    <3>1. inbox[n] # <<>> /\ inbox'[n] = Tail(inbox[n]) /\ x = Head(inbox[n])
      BY <1>7, <2>2 DEF Takes
    <3>2. Due(n) = 2 * round[n] /\ Number(round[m], x) = 2 * round[n]
      BY <1>2, <1>4, <1>6, <1>7, <2>2 DEF TurnAt
    <3> QED BY <1>7, <3>1, <3>2 DEF Pulls
  <2> QED BY <2>1, <2>2
<1> HIDE DEF m
<1>8. CASE DoesInfer(n)
  <2> DEFINE x == Candidates(round[n], changed[n], env.infer[n][round[n]])
  <2>1. x \in Control /\ IsCandidates(n, x)
    <3>1. changed[n] \in BOOLEAN /\ env.infer[n][round[n]] \in SUBSET Endpoints
      BY <1>4, EnvFacts DEF TypeOK
    <3> QED BY <1>4, <3>1, BuiltMessages DEF IsCandidates
  <2>2. Told(n, x) /\ inbox'[n] = inbox[n] /\ pc[n] = "infer" /\ pc'[n] = "candidates"
        /\ round'[n] = round[n]
    BY <1>8 DEF DoesInfer
  <2>3. Number(round[n], x) = 2 * round[n] - 1
    BY <1>4, <1>6, <2>1
  <2> HIDE DEF x
  <2>4. Top(n) = 2 * round[n] - 2 /\ Due(n) = 2 * round[n] - 1 /\ Top(n)' = 2 * round[n] - 1
        /\ Due(n)' = 2 * round[n] - 1 /\ round[n] \in Nat
    BY <1>2, <2>2 DEF TurnAt
  <2>5. Pushes(n)
    BY <2>1, <2>2, <2>3, <2>4 DEF Pushes
  <2>6. Pulls(n) /\ Top(n) <= Top(n)' /\ ~Final(n)
    BY <2>2, <2>4 DEF Pulls, Final
  <2> QED BY <2>2, <2>5, <2>6, InTurn
<1>9. CASE DoesSkip(n) \/ DoesCollectReport(n)
  <2>1. /\ pc'[n] = pc[n] /\ round'[n] = round[n] /\ pending'[n] = pending[n] /\ ~Final(n)
        /\ inbox[n] # <<>> /\ inbox'[n] = Tail(inbox[n]) /\ Head(inbox[n]).code = "ProbeReport"
        /\ Untold(n)
    BY <1>9 DEF DoesSkip, DoesCollectReport, PhaseKept, Final, Waiting, Collecting
  <2>2. Top(n)' = Top(n) /\ Due(n)' = Due(n)
    BY <2>1 DEF Top, Due
  <2>3. Number(round[m], Head(inbox[n])) = 0
    BY <1>4, <1>5, <1>6, <2>1
  <2>4. Pulls(n) /\ Pushes(n) /\ Top(n) <= Top(n)'
    BY <1>2, <2>1, <2>2, <2>3 DEF Pulls, Pushes, TurnAt, m
  <2> QED BY <2>1, <2>4, InTurn
<1>10. CASE DoesTry(n)
  <2>1. PICK x \in Control : IsCandidates(n, x) /\ Takes(n, x)
    BY <1>10 DEF DoesTry
  <2>2. pc[n] = "candidates" /\ pc'[n] = "probing" /\ round'[n] = round[n] /\ pending'[n] = NoMessage
        /\ Untold(n)
    BY <1>10 DEF DoesTry
  <2>3. pending[n] = NoMessage
    BY <1>2, <2>2 DEF PhaseAt, Collecting
  <2>4. inbox[n] # <<>> /\ inbox'[n] = Tail(inbox[n]) /\ x = Head(inbox[n])
    BY <2>1, <2>3 DEF Takes
  <2>5. Top(n)' = Top(n) /\ Due(n) = 2 * round[n] - 1 /\ Due(n)' = 2 * round[n] /\ round[n] \in Nat
        /\ Top(n) \in Nat
    BY <1>2, <2>2 DEF TurnAt, Collecting
  <2>6. Number(round[m], x) = 2 * round[n] - 1
    BY <1>4, <1>6, <2>1
  <2>7. Pulls(n) /\ Pushes(n) /\ Top(n) <= Top(n)' /\ ~Final(n)
    BY <2>2, <2>4, <2>5, <2>6 DEF Pulls, Pushes, Final, m
  <2> QED BY <2>2, <2>7, InTurn
<1>11. CASE DoesArrive(n)
  <2>1. PICK p \in net : Told(n, ProbeReport(p))
    BY <1>11 DEF DoesArrive
  <2>2. ProbeReport(p) \in Control /\ ProbeReport(p).code = "ProbeReport"
    BY BuiltMessages DEF TypeOK
  <2>3. Number(round[n], ProbeReport(p)) = 0
    BY <1>4, <1>6, <2>2
  <2>4. pc'[n] = pc[n] /\ round'[n] = round[n] /\ pending'[n] = pending[n] /\ ~Final(n)
        /\ inbox'[n] = inbox[n]
    BY <1>11 DEF DoesArrive, PhaseKept
  <2>5. Top(n)' = Top(n) /\ Due(n)' = Due(n)
    BY <2>4 DEF Top, Due
  <2>6. Pulls(n) /\ Pushes(n) /\ Top(n) <= Top(n)'
    BY <1>2, <2>1, <2>2, <2>3, <2>4, <2>5 DEF Pulls, Pushes, TurnAt
  <2> QED BY <2>4, <2>6, InTurn
<1>12. CASE DoesCollectArrival(n) \/ DoesReporting(n)
  <2>1. /\ round'[n] = round[n] /\ pending'[n] = pending[n] /\ ~Final(n)
        /\ inbox'[n] = inbox[n] /\ Untold(n)
        /\ pc'[n] = pc[n] \/ (pc[n] = "probing" /\ pc'[n] = "reporting")
    BY <1>12 DEF DoesCollectArrival, DoesReporting, PhaseKept, Final, Collecting
  <2>2. Top(n)' = Top(n) /\ Due(n)' = Due(n)
    BY <2>1 DEF Top, Due
  <2>3. Pulls(n) /\ Pushes(n) /\ Top(n) <= Top(n)'
    BY <1>2, <2>1, <2>2 DEF Pulls, Pushes, TurnAt
  <2> QED BY <2>1, <2>3, InTurn
<1>13. CASE DoesBarrier(n)
  <2>1. /\ pc[n] \in Collecting /\ pc'[n] = pc[n] /\ round'[n] = round[n] /\ Untold(n)
        /\ pending[n] = NoMessage /\ pending'[n] = Head(inbox[n])
        /\ inbox[n] # <<>> /\ inbox'[n] = Tail(inbox[n]) /\ IsBarrier(n, Head(inbox[n]))
    BY <1>13 DEF DoesBarrier, PhaseKept
  <2>2. pending'[n] # NoMessage /\ ~Final(n)
    BY <1>5, <2>1, MessageFacts DEF Final, Collecting
  <2>3. Top(n)' = Top(n) /\ Due(n) = 2 * round[n] /\ Due(n)' = 2 * round[n] + 1 /\ Top(n) \in Nat
    BY <1>2, <2>1, <2>2 DEF TurnAt
  <2>4. Number(round[m], Head(inbox[n])) = 2 * round[n]
    BY <1>4, <1>5, <1>6, <2>1
  <2>5. Pulls(n) /\ Pushes(n) /\ Top(n) <= Top(n)'
    BY <2>1, <2>3, <2>4 DEF Pulls, Pushes, m
  <2> QED BY <2>1, <2>2, <2>5, InTurn
<1>14. CASE DoesFinish(n)
  <2> DEFINE x == RoundDone(round[n], Reciprocal(n))
  <2>1. Told(n, x) /\ inbox'[n] = inbox[n] /\ pc[n] \in Collecting /\ pc'[n] = "agree"
        /\ round'[n] = round[n] /\ pending'[n] = pending[n] /\ path'[n] = Reciprocal(n)
    BY <1>14 DEF DoesFinish
  <2>2. x \in Control /\ IsBarrier(n, x)
    <3>1. Reciprocal(n) \in Paths
      BY <2>1 DEF TypeOK
    <3> QED BY <1>4, <3>1, BuiltMessages DEF IsBarrier
  <2>3. Number(round[n], x) = 2 * round[n]
    BY <1>4, <1>6, <2>2
  <2> HIDE DEF x
  <2>4. Top(n) = 2 * round[n] - 1 /\ Top(n)' = 2 * round[n] /\ Due(n)' = Due(n)
        /\ 2 * round[n] <= Due(n) /\ round[n] \in Nat
    BY <1>2, <2>1 DEF TurnAt
  <2>5. Pulls(n) /\ Pushes(n) /\ Top(n) <= Top(n)' /\ ~Final(n)
    BY <2>1, <2>2, <2>3, <2>4 DEF Pulls, Pushes, Final, Collecting
  <2> QED BY <2>1, <2>5, InTurn
<1>15. CASE DoesConnect(n) \/ DoesObserve(n)
  <2>1. PICK x \in Control : IsBarrier(n, x) /\ Takes(n, x)
    BY <1>15 DEF DoesConnect, DoesObserve
  <2>2. pc[n] = "agree" /\ pc'[n] \in {"bind", "observe"} /\ round'[n] = round[n] /\ Untold(n)
    BY <1>15 DEF DoesConnect, DoesObserve
  <2>3. Top(n)' = Top(n) /\ Due(n)' = 2 * round[n] + 1 /\ Top(n) \in Nat
    BY <1>2, <2>2 DEF TurnAt
  <2>4. Pulls(n) /\ Pushes(n) /\ Top(n) <= Top(n)' /\ ~Final(n)
    BY <1>7, <2>1, <2>2, <2>3 DEF Pushes, Final
  <2> QED BY <2>2, <2>4, InTurn
<1>16. CASE DoesAdvance(n)
  <2>1. pc[n] \in {"agree", "observe"} /\ pc'[n] = "infer" /\ round'[n] = round[n] + 1 /\ Untold(n)
    BY <1>16 DEF DoesAdvance
  <2>2. Top(n)' = Top(n) /\ Due(n)' = 2 * round[n] + 1 /\ Top(n) \in Nat
    BY <1>2, <2>1 DEF TurnAt
  <2>3. Pulls(n)
    <3>1. CASE pc[n] = "observe"
      BY <1>2, <1>16, <2>2, <3>1 DEF DoesAdvance, Pulls, TurnAt
    <3>2. CASE pc[n] = "agree"
      BY <1>7, <1>16, <2>2, <3>2 DEF DoesAdvance
    <3> QED BY <2>1, <3>1, <3>2
  <2>4. ~Final(m) => \A x \in Queued(m) : x.code # "WGReady"
    <3>1. verdict[n].reason = "open"
      BY <1>2, <2>1 DEF PhaseAt
    <3> QED BY <1>1, <3>1 DEF MessagesSound, EndSound
  <2>5. Pushes(n) /\ Top(n) <= Top(n)' /\ ~Final(n)
    BY <2>1, <2>2 DEF Pushes, Final
  <2> QED BY <2>1, <2>3, <2>4, <2>5, InTurn DEF m
<1>17. CASE DoesHandoff(n)
  <2>1. Told(n, WGReady) /\ inbox'[n] = inbox[n] /\ pc[n] = "bind" /\ pc'[n] = "handoff"
        /\ round'[n] = round[n]
    BY <1>17 DEF DoesHandoff
  <2>2. WGReady \in Control /\ Number(round[n], WGReady) = 2 * round[n] + 1
    BY <1>4, <1>6, BuiltMessages
  <2>3. Top(n) = 2 * round[n] /\ Top(n)' = 2 * round[n] + 1 /\ Due(n)' = Due(n)
        /\ Due(n) = 2 * round[n] + 1 /\ round[n] \in Nat
    BY <1>2, <2>1 DEF TurnAt
  <2>4. Pulls(n) /\ Pushes(n) /\ Top(n) <= Top(n)' /\ ~Final(n)
    BY <2>1, <2>2, <2>3 DEF Pulls, Pushes, Final
  <2> QED BY <2>1, <2>4, InTurn
<1>18. CASE DoesTransmit(n)
  <2>1. PICK x \in Control : x.code = "WGReady" /\ Takes(n, x)
    BY <1>18 DEF DoesTransmit
  <2>2. pc[n] = "handoff" /\ pc'[n] = "connected" /\ round'[n] = round[n] /\ Untold(n)
    BY <1>18 DEF DoesTransmit
  <2>3. pending[n] = NoMessage /\ verdict[n].reason = "connected" /\ ~Final(n) /\ Final(n)'
    BY <1>2, <2>2 DEF PhaseAt, Collecting, Final
  <2>4. round[m] = round[n]
    BY <2>3 DEF Verdicts, ConnectedTogether, m
  <2>5. inbox[n] # <<>> /\ x = Head(inbox[n])
    BY <2>1, <2>3 DEF Takes
  <2>6. 1 \in 1 .. Len(inbox[n]) /\ x = inbox[n][1]
    BY <1>4, <2>5, TailFacts
  <2>7. 2 * round[m] + 1 <= Top(m)
    <3>1. Numbers(n)[1] = 2 * round[m] + 1
      BY <1>4, <1>6, <2>1, <2>6, NumbersType DEF NumbersAt, m
    <3> QED BY <1>3, <2>3, <2>6, <3>1 DEF LineAt, m
  <2>8. Top(n)' = Top(n) /\ Due(n)' = 2 * round[n] + 2 /\ round[n] \in Nat /\ Top(n) \in Nat
        /\ Top(m) \in Nat
    BY <1>2, <2>2 DEF TurnAt
  <2>9. Due(n)' <= Top(m) + 1
    BY <2>4, <2>7, <2>8
  <2>10. Pushes(n)
    BY <2>2, <2>8 DEF Pushes
  <2> QED BY <2>2, <2>3, <2>9, <2>10, InTurn DEF m
<1>19. CASE EndsStuck(n) \/ EndsExhausted(n) \/ EndsFailed(n)
  <2>1. /\ ~Final(n) /\ pc'[n] = "ended" /\ round'[n] = round[n]
        /\ Untold(n) \/ (~Final(m) /\ inbox'[m] = Append(inbox[m], DiscoveryEnd))
    BY <1>19 DEF EndsStuck, EndsExhausted, EndsFailed, Clears, m
  <2>2. Top(n) <= Top(n)' /\ Due(n)' <= Due(n) /\ Due(n) \in Nat /\ Due(n)' \in Nat /\ Top(m) \in Nat
    BY <1>2, <2>1 DEF TurnAt
  <2>3. Final(n)' /\ Due(n)' <= Top(m) + 1
    BY <1>3, <2>1, <2>2 DEF Final
  <2>4. DiscoveryEnd \in Control /\ Number(round[n], DiscoveryEnd) = 0
    BY <1>4, <1>6, BuiltMessages
  <2>5. Untold(n) \/ Told(n, DiscoveryEnd)
    BY <2>1 DEF Told, m
  <2>6. Pushes(n)
    BY <2>1, <2>2, <2>4, <2>5 DEF Pushes
  <2> QED BY <2>1, <2>3, <2>6, InTurn DEF m
<1> QED BY <1>8, <1>9, <1>10, <1>11, <1>12, <1>13, <1>14, <1>15, <1>16, <1>17, <1>18, <1>19 DEF Does


-----------------------------------------------------------------------------
(***************************************************************************)
(* What the messages say.                                                  *)
(***************************************************************************)
LEMMA TakesFacts ==
  ASSUME TypeOK, TypeOK', NEW n \in Nodes, NEW x \in Control, Takes(n, x)
  PROVE  x \in Unread(n) /\ Queued(n)' \subseteq Queued(n)
<1>1. inbox[n] \in Seq(Control)
  BY DEF TypeOK
<1> QED BY <1>1, TailFacts DEF Takes, Unread, Queued

LEMMA OfferedFacts ==
  ASSUME TypeOK, NEW n \in Nodes, NEW x \in Control, Offered(n, x)
  PROVE  x \in Unread(n)
<1>1. inbox[n] \in Seq(Control)
  BY DEF TypeOK
<1> QED BY <1>1, TailFacts DEF Offered, Unread, Queued

\* The actor is running, and its queue only shrinks.
LEMMA ActorFacts ==
  ASSUME TypeOK, TypeOK', NEW n \in Nodes, Does(n)
  PROVE  /\ ~Final(n) /\ Queued(n)' \subseteq Queued(n)
         /\ pending'[n] \in {pending[n], NoMessage} \cup Queued(n)
         /\ Unread(n)' \subseteq Unread(n) \cup {NoMessage}
<1>1. inbox[n] \in Seq(Control)
  BY DEF TypeOK
<1>2. ~Final(n) /\ Queued(n)' \subseteq Queued(n) /\ pending'[n] \in {pending[n], NoMessage} \cup Queued(n)
  <2>1. CASE DoesInfer(n)
    BY <2>1 DEF DoesInfer, Final, Queued
  <2>2. CASE DoesSkip(n)
    BY <1>1, <2>2, TailFacts DEF DoesSkip, Final, Queued, Waiting
  <2>3. CASE DoesTry(n)
    BY <2>3, TakesFacts DEF DoesTry, Final
  <2>4. CASE DoesArrive(n)
    BY <2>4 DEF DoesArrive, Queued
  <2>5. CASE DoesCollectArrival(n)
    BY <2>5 DEF DoesCollectArrival, Final, Collecting, Queued
  <2>6. CASE DoesCollectReport(n)
    BY <1>1, <2>6, TailFacts DEF DoesCollectReport, Final, Collecting, Queued
  <2>7. CASE DoesBarrier(n)
    BY <1>1, <2>7, TailFacts DEF DoesBarrier, Final, Collecting, Queued
  <2>8. CASE DoesReporting(n)
    BY <2>8 DEF DoesReporting, Final, Queued
  <2>9. CASE DoesFinish(n)
    BY <2>9 DEF DoesFinish, Final, Collecting, Queued
  <2>10. CASE DoesConnect(n)
    BY <2>10, TakesFacts DEF DoesConnect, Final
  <2>11. CASE DoesObserve(n)
    BY <2>11, TakesFacts DEF DoesObserve, Final
  <2>12. CASE DoesAdvance(n)
    <3>1. CASE pc[n] = "agree"
      BY <2>12, <3>1, TakesFacts DEF DoesAdvance, Final
    <3>2. CASE pc[n] # "agree"
      BY <2>12, <3>2 DEF DoesAdvance, Final, Queued
    <3> QED BY <3>1, <3>2
  <2>13. CASE DoesHandoff(n)
    BY <2>13 DEF DoesHandoff, Final, Queued
  <2>14. CASE DoesTransmit(n)
    BY <2>14, TakesFacts DEF DoesTransmit, Final
  <2>15. CASE EndsStuck(n) \/ EndsExhausted(n) \/ EndsFailed(n)
    BY <2>15, EmptyFacts DEF EndsStuck, EndsExhausted, EndsFailed, Clears, Queued
  <2> QED BY <2>1, <2>2, <2>3, <2>4, <2>5, <2>6, <2>7, <2>8, <2>9, <2>10, <2>11, <2>12, <2>13,
             <2>14, <2>15 DEF Does
<1> QED BY <1>2 DEF Unread

\* Every message in a queue or kept for Agree is a control message.
LEMMA UnreadType ==
  ASSUME TypeOK, NEW n \in Nodes
  PROVE  /\ Queued(n) \subseteq Control /\ Unread(n) \subseteq Control \cup {NoMessage}
         /\ \A x \in Queued(n) : \E i \in 1 .. Len(inbox[n]) : x = inbox[n][i]
<1>1. inbox[n] \in Seq(Control) /\ pending[n] \in Control \cup {NoMessage}
  BY DEF TypeOK
<1>2. \A i \in 1 .. Len(inbox[n]) : inbox[n][i] \in Control
  BY <1>1, ElementOfSeq, LenProperties
<1> QED BY <1>1, <1>2 DEF Queued, Unread, In

\* The numbers of the messages on their way to n are bounded.
LEMMA QueuedInTurn ==
  ASSUME TypeOK, Line, NEW n \in Nodes, ~Final(n), NEW x \in Queued(n)
  PROVE  /\ x.code = "Candidates" => Due(n) <= 2 * x.round - 1 /\ 2 * x.round - 1 <= Top(Peer(n))
                                     /\ 2 * x.round - 1 <= Top(n) + 1
         /\ x.code = "RoundDone" => Due(n) <= 2 * x.round /\ 2 * x.round <= Top(Peer(n))
                                    /\ 2 * x.round <= Top(n) + 1
<1>1. PICK i \in 1 .. Len(inbox[n]) : x = inbox[n][i]
  BY UnreadType
<1>2. Peer(n) \in Nodes /\ round[Peer(n)] \in Rounds /\ x \in Control
  BY NodeFacts, UnreadType DEF TypeOK
<1>3. Numbers(n)[i] = Number(round[Peer(n)], x)
  BY <1>1, NumbersType DEF NumbersAt
<1>4. Numbers(n)[i] # 0 => Due(n) <= Numbers(n)[i]
  BY DEF Line, LineAt, Lined
<1>5. Numbers(n)[i] <= Top(Peer(n)) /\ Numbers(n)[i] <= Top(n) + 1
  BY DEF Line, LineAt
<1> QED BY <1>2, <1>3, <1>4, <1>5, NumberFacts

\* A barrier that m has not read was sent.
LEMMA BarrierSent ==
  ASSUME TypeOK, Line, Phase, NEW n \in Nodes, ~Final(n), NEW x \in Unread(n), x.code = "RoundDone"
  PROVE  x \in Control /\ x.round \in Nat /\ 2 * x.round <= Top(Peer(n))
<1>1. x # NoMessage
  BY BuiltMessages
<1>2. x \in Control
  BY <1>1, UnreadType
<1>3. x.round \in Nat
  BY <1>2, MessageFacts, RoundFacts
<1>4. CASE x \in Queued(n)
  BY <1>2, <1>3, <1>4, QueuedInTurn
<1>5. CASE x = pending[n]
  <2>1. Peer(n) \in Nodes /\ TurnAt(n) /\ TurnAt(Peer(n)) /\ Due(n) <= Top(Peer(n)) + 1
    BY NodeFacts, TurnsEverywhere DEF Line
  <2>2. Due(n) = 2 * round[n] + 1 /\ x.round = round[n]
    BY <1>1, <1>5, <2>1 DEF Phase, PhaseAt, TurnAt
  <2> QED BY <1>2, <1>3, <2>1, <2>2 DEF TurnAt
<1> QED BY <1>4, <1>5 DEF Unread


LEMMA MirrorSym == \A p, q : Mirror(p, q) => Mirror(q, p)
BY DEF Mirror

\* A node has not split from a peer that is still collecting.
LEMMA NotSplit ==
  ASSUME TypeOK, Phase, Line, Verdicts, NEW n \in Nodes, pc[n] \in Collecting
  PROVE  ~Split(Peer(n), round[n])
<1> DEFINE m == Peer(n)
<1>1. m \in Nodes /\ Peer(m) = n /\ TurnAt(n) /\ TurnAt(m)
  BY NodeFacts, TurnsEverywhere
<1>2. Due(m) <= Top(n) + 1
  BY <1>1 DEF Line
<1>3. Due(m) <= 2 * round[n]
  BY <1>1, <1>2 DEF TurnAt
<1>4. verdict[n].reason = "open"
  BY DEF Phase, PhaseAt, Collecting
<1>5. round[m] # round[n] + 1
  BY <1>1, <1>3 DEF TurnAt
<1>6. round[m] = round[n] => pc[m] # "observe"
  BY <1>1, <1>3 DEF TurnAt
<1>7. verdict[m].reason # "budget-exhausted"
  BY <1>1, <1>4 DEF Verdicts, ExhaustedTogether, Collecting
<1> QED BY <1>5, <1>6, <1>7 DEF Split

LEMMA AgreeFrom ==
  ASSUME NEW n \in Nodes, Does(n), pc'[n] = "agree"
  PROVE  /\ round'[n] = round[n]
         /\ pc[n] \in Collecting \/ (pc[n] = "agree" /\ path'[n] = path[n])
BY DEF Does, DoesInfer, DoesSkip, DoesTry, DoesArrive, DoesCollectArrival, DoesCollectReport,
       DoesBarrier, DoesReporting, DoesFinish, DoesConnect, DoesObserve, DoesAdvance, DoesHandoff,
       DoesTransmit, EndsStuck, EndsExhausted, EndsFailed, Clears, PhaseKept, Collecting

LEMMA OwnMessages ==
  ASSUME TypeOK, TypeOK', Phase, Line, Verdicts, MessagesSound, NEW n \in Nodes, PeerKeeps(n), Does(n)
  PROVE  CandidatesSound(n)' /\ BarrierSound(n)' /\ EndSound(n)'
<1> DEFINE m == Peer(n)
<1>1. m \in Nodes /\ Peer(m) = n
  BY NodeFacts
<1>2. /\ ~Final(n) /\ Queued(n)' \subseteq Queued(n) /\ Unread(n)' \subseteq Unread(n) \cup {NoMessage}
  BY ActorFacts
<1>3. CandidatesSound(n) /\ BarrierSound(n) /\ EndSound(n)
  BY <1>2 DEF MessagesSound
<1>4. /\ env' = env /\ round'[m] = round[m] /\ pc'[m] = pc[m] /\ changed'[m] = changed[m]
      /\ verdict'[m] = verdict[m] /\ path'[m] = path[m]
  BY DEF PeerKeeps
<1>5. CandidatesSound(n)' /\ EndSound(n)'
  BY <1>2, <1>3, <1>4 DEF CandidatesSound, EndSound
<1>6. BarrierSound(n)'
  <2> SUFFICES ASSUME NEW x \in Unread(n)', x.code = "RoundDone"
      PROVE /\ round'[m] = x.round /\ pc'[m] \in {"agree", "observe"} => x.path = path'[m]
            /\ round'[m] = x.round /\ verdict'[m].reason = "connected" => x.path = verdict'[m].path
            /\ Split(m, x.round)' /\ pc'[n] = "agree" /\ round'[n] = x.round => ~Mirror(path'[n], x.path)
    BY DEF BarrierSound
  <2>1. x \in Unread(n)
    BY <1>2, BuiltMessages
  <2>2. Split(m, x.round)' <=> Split(m, x.round)
    BY <1>4 DEF Split
  <2>3. ASSUME Split(m, x.round)', pc'[n] = "agree", round'[n] = x.round
        PROVE  ~Mirror(path'[n], x.path)
    <3>1. round[n] = x.round /\ (pc[n] \in Collecting \/ (pc[n] = "agree" /\ path'[n] = path[n]))
      BY <2>3, AgreeFrom
    <3>2. pc[n] \notin Collecting
      BY <2>2, <2>3, <3>1, NotSplit
    <3> QED BY <1>3, <2>1, <2>2, <2>3, <3>1, <3>2 DEF BarrierSound
  <2> QED BY <1>3, <1>4, <2>1, <2>3 DEF BarrierSound
<1> QED BY <1>5, <1>6

\* What n sends.
Sends(n) ==
  \/ Queued(Peer(n))' = Queued(Peer(n))
  \/ \E x \in Control :
       /\ Queued(Peer(n))' = Queued(Peer(n)) \cup {x}
       /\ \/ DoesInfer(n) /\ x = Candidates(round[n], changed[n], env.infer[n][round[n]])
          \/ DoesFinish(n) /\ x = RoundDone(round[n], Reciprocal(n))
          \/ DoesHandoff(n) /\ x = WGReady
          \/ pc'[n] = "ended" /\ x = DiscoveryEnd
          \/ DoesArrive(n) /\ \E p \in net : x = ProbeReport(p) /\ opened'[n] = opened[n] \cup {p}

LEMMA SendsFacts ==
  ASSUME TypeOK, TypeOK', NEW n \in Nodes, PeerKeeps(n), Does(n), ~Final(Peer(n))
  PROVE  Sends(n)
<1> DEFINE m == Peer(n)
<1>1. m \in Nodes /\ inbox[m] \in Seq(Control)
  BY NodeFacts DEF TypeOK
<1>2. ASSUME NEW x \in Control, Told(n, x) PROVE Queued(m)' = Queued(m) \cup {x}
  BY <1>1, <1>2, AppendFacts DEF Told, Queued
<1>3. Untold(n) => Queued(m)' = Queued(m)
  BY DEF Untold, Queued
<1>4. CASE Untold(n)
  BY <1>3, <1>4 DEF Sends
<1>5. CASE DoesInfer(n)
  <2>1. changed[n] \in BOOLEAN /\ env.infer[n][round[n]] \in SUBSET Endpoints /\ round[n] \in Rounds
    BY EnvFacts DEF TypeOK
  <2>2. Candidates(round[n], changed[n], env.infer[n][round[n]]) \in Control
    BY <2>1, BuiltMessages
  <2> QED BY <1>2, <1>5, <2>2 DEF Sends, DoesInfer
<1>6. CASE DoesFinish(n)
  <2>1. Reciprocal(n) \in Paths /\ round[n] \in Rounds
    BY <1>6 DEF TypeOK, DoesFinish
  <2>2. RoundDone(round[n], Reciprocal(n)) \in Control
    BY <2>1, BuiltMessages
  <2> QED BY <1>2, <1>6, <2>2 DEF Sends, DoesFinish
<1>7. CASE DoesHandoff(n)
  BY <1>2, <1>7, BuiltMessages DEF Sends, DoesHandoff
<1>8. CASE DoesArrive(n)
  <2>1. PICK p \in net : Told(n, ProbeReport(p)) /\ opened'[n] = opened[n] \cup {p}
    BY <1>8 DEF DoesArrive
  <2>2. ProbeReport(p) \in Control
    BY BuiltMessages DEF TypeOK
  <2> QED BY <1>2, <1>8, <2>1, <2>2 DEF Sends
<1>9. CASE pc'[n] = "ended" /\ inbox'[m] = Append(inbox[m], DiscoveryEnd)
  <2>1. Queued(m)' = Queued(m) \cup {DiscoveryEnd}
    BY <1>1, <1>9, BuiltMessages, AppendFacts DEF Queued
  <2> QED BY <1>9, <2>1, BuiltMessages DEF Sends
<1> QED BY <1>4, <1>5, <1>6, <1>7, <1>8, <1>9 DEF Does, DoesSkip, DoesTry, DoesCollectArrival,
       DoesCollectReport, DoesBarrier, DoesReporting, DoesConnect, DoesObserve, DoesAdvance,
       DoesTransmit, EndsStuck, EndsExhausted, EndsFailed, Clears


\* How the actor's round, evidence and verdict move.
LEMMA ActorMoves ==
  ASSUME TypeOK, Phase, NEW n \in Nodes, Does(n)
  PROVE  /\ \/ round'[n] = round[n] /\ (changed'[n] = changed[n] \/ pc'[n] = "ended")
            \/ DoesAdvance(n) /\ round'[n] = round[n] + 1 /\ verdict'[n] = verdict[n]
         /\ \/ verdict'[n] = verdict[n] /\ ~DoesConnect(n)
            \/ DoesConnect(n) /\ verdict[n].reason = "open" /\ verdict'[n].reason = "connected"
               /\ verdict'[n].path = path[n]
            \/ EndsStuck(n) /\ verdict'[n].reason = "no-progress"
            \/ EndsExhausted(n) /\ verdict'[n].reason = "budget-exhausted"
            \/ EndsFailed(n) /\ verdict'[n].reason = "failed" /\ verdict[n].reason = "open"
<1>1. \A why, p : Verdict(why, p).reason = why /\ Verdict(why, p).path = p
  BY DEF Verdict
<1>2. PhaseAt(n)
  BY DEF Phase
<1>3. CASE DoesConnect(n)
  BY <1>1, <1>2, <1>3 DEF DoesConnect, PhaseAt
<1>4. CASE EndsStuck(n) \/ EndsExhausted(n) \/ EndsFailed(n)
  <2>1. pc'[n] = "ended" /\ round'[n] = round[n] /\ ~DoesConnect(n)
    BY <1>4 DEF EndsStuck, EndsExhausted, EndsFailed, Clears, DoesConnect
  <2>2. \/ verdict'[n] = verdict[n]
        \/ EndsStuck(n) /\ verdict'[n].reason = "no-progress"
        \/ EndsExhausted(n) /\ verdict'[n].reason = "budget-exhausted"
        \/ EndsFailed(n) /\ verdict'[n].reason = "failed" /\ verdict[n].reason = "open"
    BY <1>1, <1>4 DEF EndsStuck, EndsExhausted, EndsFailed, Concludes
  <2> QED BY <2>1, <2>2
<1>5. CASE DoesAdvance(n)
  BY <1>5 DEF DoesAdvance, DoesConnect
<1>6. CASE ~DoesConnect(n) /\ ~(EndsStuck(n) \/ EndsExhausted(n) \/ EndsFailed(n)) /\ ~DoesAdvance(n)
  BY <1>6 DEF Does, DoesInfer, DoesSkip, DoesTry, DoesArrive, DoesCollectArrival, DoesCollectReport,
       DoesBarrier, DoesReporting, DoesFinish, DoesObserve, DoesHandoff, DoesTransmit, PhaseKept
<1> QED BY <1>3, <1>4, <1>5, <1>6

LEMMA PeerCandidates ==
  ASSUME TypeOK, TypeOK', Phase, MessagesSound, NEW n \in Nodes, PeerKeeps(n), Does(n),
         ~Final(Peer(n))
  PROVE  CandidatesSound(Peer(n))'
<1> DEFINE m == Peer(n)
<1>1. m \in Nodes /\ Peer(m) = n
  BY NodeFacts
<1>2. CandidatesSound(m)
  BY <1>1 DEF MessagesSound
<1>3. ~Final(n) /\ PhaseAt(n) /\ pc[n] # "ended" /\ env' = env /\ round[n] \in Nat
      /\ round'[n] \in Nat
  BY ActorFacts, RoundFacts DEF Phase, PeerKeeps, Final, TypeOK
<1> SUFFICES ASSUME NEW x \in Queued(m)', x.code = "Candidates"
      PROVE /\ x.round <= round'[n] /\ x.eps = env.infer[n][x.round]
            /\ x.round = round'[n] /\ pc'[n] # "ended" => x.changed = changed'[n]
            /\ x.round = round'[n] /\ verdict'[n].reason = "no-progress" => ~x.changed
  BY <1>1, <1>3 DEF CandidatesSound
<1>4. CASE x \in Queued(m)
  <2>1. /\ x.round <= round[n] /\ x.eps = env.infer[n][x.round]
        /\ x.round = round[n] => x.changed = changed[n]
        /\ x.round = round[n] /\ verdict[n].reason = "no-progress" => ~x.changed
    BY <1>1, <1>2, <1>3, <1>4 DEF CandidatesSound
  <2>2. x.round \in Nat
    BY <1>1, <1>4, UnreadType, MessageFacts, RoundFacts
  <2>3. CASE DoesAdvance(n) /\ round'[n] = round[n] + 1 /\ verdict'[n] = verdict[n]
    BY <1>3, <2>1, <2>2, <2>3
  <2>4. CASE round'[n] = round[n] /\ (changed'[n] = changed[n] \/ pc'[n] = "ended")
    <3>1. verdict'[n].reason = "no-progress" => verdict[n].reason = "no-progress" \/ ~changed[n]
      <4>1. EndsStuck(n) => ~changed[n]
        BY DEF EndsStuck
      <4> QED BY <4>1, ActorMoves
    <3> QED BY <2>1, <2>4, <3>1
  <2> QED BY <2>3, <2>4, ActorMoves
<1>5. CASE x \notin Queued(m)
  <2>1. DoesInfer(n) /\ x = Candidates(round[n], changed[n], env.infer[n][round[n]])
    <3>1. Sends(n)
      BY SendsFacts
    <3>2. \A p \in net : ProbeReport(p).code = "ProbeReport"
      BY BuiltMessages DEF TypeOK
    <3>3. \A r, p : RoundDone(r, p).code = "RoundDone"
      BY DEF RoundDone
    <3> QED BY <1>5, <3>1, <3>2, <3>3, BuiltMessages DEF Sends
  <2>2. changed[n] \in BOOLEAN /\ env.infer[n][round[n]] \in SUBSET Endpoints /\ round[n] \in Rounds
    BY EnvFacts DEF TypeOK
  <2>3. x.round = round[n] /\ x.changed = changed[n] /\ x.eps = env.infer[n][round[n]]
    BY <2>1, <2>2, BuiltMessages
  <2>4. round'[n] = round[n] /\ changed'[n] = changed[n] /\ verdict'[n] = verdict[n] /\ pc[n] = "infer"
    BY <2>1 DEF DoesInfer
  <2>5. verdict[n].reason = "open"
    BY <1>3, <2>4 DEF PhaseAt
  <2> QED BY <1>3, <2>3, <2>4, <2>5
<1> QED BY <1>4, <1>5

LEMMA PeerEnds ==
  ASSUME TypeOK, TypeOK', Phase, MessagesSound, NEW n \in Nodes, PeerKeeps(n), Does(n),
         ~Final(Peer(n))
  PROVE  EndSound(Peer(n))'
<1> DEFINE m == Peer(n)
<1>1. m \in Nodes /\ Peer(m) = n
  BY NodeFacts
<1>2. EndSound(m)
  BY <1>1 DEF MessagesSound
<1>3. ~Final(n) /\ PhaseAt(n)
  BY ActorFacts DEF Phase
<1> SUFFICES ASSUME NEW x \in Queued(m)'
      PROVE /\ x.code = "WGReady" => verdict'[n].reason = "connected" /\ pc'[n] # "bind"
            /\ x.code = "DiscoveryEnd" => pc'[n] = "ended"
  BY <1>1 DEF EndSound
<1>4. CASE x \in Queued(m)
  <2>1. x.code # "DiscoveryEnd"
    BY <1>1, <1>2, <1>3, <1>4 DEF EndSound, Final
  <2>2. ASSUME x.code = "WGReady" PROVE verdict'[n].reason = "connected" /\ pc'[n] # "bind"
    <3>1. verdict[n].reason = "connected" /\ pc[n] # "bind"
      BY <1>1, <1>2, <1>4, <2>2 DEF EndSound
    <3>2. pc[n] = "handoff"
      BY <1>3, <3>1 DEF PhaseAt, Final
    <3>3. verdict'[n] = verdict[n]
      BY <3>1, <3>2, ActorMoves DEF EndsStuck, EndsExhausted, Concludes
    <3>4. pc'[n] # "bind"
      BY <3>2 DEF Does, DoesInfer, DoesSkip, DoesTry, DoesArrive, DoesCollectArrival,
           DoesCollectReport, DoesBarrier, DoesReporting, DoesFinish, DoesConnect, DoesObserve,
           DoesAdvance, DoesHandoff, DoesTransmit, EndsStuck, EndsExhausted, EndsFailed, Clears,
           PhaseKept, Collecting
    <3> QED BY <3>1, <3>3, <3>4
  <2> QED BY <2>1, <2>2
<1>5. CASE x \notin Queued(m)
  <2>1. Sends(n)
    BY SendsFacts
  <2>2. \A p \in net : ProbeReport(p).code = "ProbeReport"
    BY BuiltMessages DEF TypeOK
  <2>3. /\ \A r, p : RoundDone(r, p).code = "RoundDone"
        /\ \A r, c, eps : Candidates(r, c, eps).code = "Candidates"
    BY DEF RoundDone, Candidates
  <2>4. x.code = "DiscoveryEnd" => pc'[n] = "ended"
    BY <1>5, <2>1, <2>2, <2>3, BuiltMessages DEF Sends
  <2>5. x.code = "WGReady" => DoesHandoff(n)
    BY <1>5, <2>1, <2>2, <2>3, BuiltMessages DEF Sends
  <2>6. DoesHandoff(n) => verdict'[n].reason = "connected" /\ pc'[n] # "bind"
    BY <1>3 DEF DoesHandoff, PhaseAt
  <2> QED BY <2>4, <2>5, <2>6
<1> QED BY <1>4, <1>5


LEMMA ObserveFrom ==
  ASSUME NEW n \in Nodes, Does(n), pc'[n] = "observe"
  PROVE  /\ round'[n] = round[n] /\ path'[n] = path[n]
         /\ pc[n] = "observe" \/ (pc[n] = "agree" /\ DoesObserve(n))
BY DEF Does, DoesInfer, DoesSkip, DoesTry, DoesArrive, DoesCollectArrival, DoesCollectReport,
       DoesBarrier, DoesReporting, DoesFinish, DoesConnect, DoesObserve, DoesAdvance, DoesHandoff,
       DoesTransmit, EndsStuck, EndsExhausted, EndsFailed, Clears, PhaseKept

\* A node splits from its peer on a barrier that does not mirror its path.
LEMMA SplitFrom ==
  ASSUME TypeOK, TypeOK', Phase, NEW n \in Nodes, Does(n), NEW k \in Nat, Split(n, k)', ~Split(n, k)
  PROVE  /\ round[n] = k /\ pc[n] = "agree"
         /\ \E y \in Control : IsBarrier(n, y) /\ y \in Unread(n) /\ ~Mirror(path[n], y.path)
<1>1. ~Final(n) /\ PhaseAt(n) /\ round[n] \in Nat
  BY ActorFacts, RoundFacts DEF Phase, TypeOK
<1>2. verdict[n].reason # "budget-exhausted"
  BY <1>1 DEF PhaseAt, Final
<1>3. CASE DoesAdvance(n)
  <2>1. round'[n] = round[n] + 1 /\ pc'[n] = "infer" /\ verdict'[n] = verdict[n]
    BY <1>3 DEF DoesAdvance
  <2>2. round[n] = k
    BY <1>1, <1>2, <2>1 DEF Split
  <2>3. pc[n] # "observe"
    BY <2>2 DEF Split
  <2> QED BY <1>3, <2>2, <2>3, TakesFacts DEF DoesAdvance
<1>4. CASE round'[n] = round[n]
  <2>1. round[n] = k /\ (pc'[n] = "observe" \/ verdict'[n].reason = "budget-exhausted")
    BY <1>4 DEF Split
  <2>2. pc[n] # "observe"
    BY <2>1 DEF Split
  <2>3. CASE pc'[n] = "observe"
    BY <2>1, <2>2, <2>3, ObserveFrom, TakesFacts DEF DoesObserve
  <2>4. CASE verdict'[n].reason = "budget-exhausted"
    <3>1. EndsExhausted(n)
      BY <1>2, <2>4, ActorMoves
    <3> QED BY <2>1, <2>2, <3>1, OfferedFacts DEF EndsExhausted
  <2> QED BY <2>1, <2>3, <2>4
<1> QED BY <1>3, <1>4, ActorMoves

LEMMA PeerBarrier ==
  ASSUME TypeOK, TypeOK', Phase, Line, MessagesSound, NEW n \in Nodes, PeerKeeps(n), Does(n),
         ~Final(Peer(n))
  PROVE  BarrierSound(Peer(n))'
<1> DEFINE m == Peer(n)
<1>1. m \in Nodes /\ Peer(m) = n
  BY NodeFacts
<1>2. ~Final(n) /\ PhaseAt(n) /\ TurnAt(n)
  BY ActorFacts, TurnsEverywhere DEF Phase
<1>3. BarrierSound(m) /\ BarrierSound(n)
  BY <1>1, <1>2 DEF MessagesSound
<1>4. pc'[m] = pc[m] /\ round'[m] = round[m] /\ path'[m] = path[m] /\ pending'[m] = pending[m]
  BY DEF PeerKeeps
<1> SUFFICES ASSUME NEW x \in Unread(m)', x.code = "RoundDone"
      PROVE /\ round'[n] = x.round /\ pc'[n] \in {"agree", "observe"} => x.path = path'[n]
            /\ round'[n] = x.round /\ verdict'[n].reason = "connected" => x.path = verdict'[n].path
            /\ Split(n, x.round)' /\ pc[m] = "agree" /\ round[m] = x.round => ~Mirror(path[m], x.path)
  BY <1>1, <1>4 DEF BarrierSound
<1>5. CASE x \in Unread(m)
  <2>1. x.round \in Nat /\ 2 * x.round <= Top(n)
    BY <1>1, <1>5, BarrierSent
  <2>2. /\ round[n] = x.round /\ pc[n] \in {"agree", "observe"} => x.path = path[n]
        /\ round[n] = x.round /\ verdict[n].reason = "connected" => x.path = verdict[n].path
        /\ Split(n, x.round) /\ pc[m] = "agree" /\ round[m] = x.round => ~Mirror(path[m], x.path)
    BY <1>1, <1>3, <1>5 DEF BarrierSound
  <2>3. ASSUME round'[n] = x.round, pc'[n] = "agree" PROVE x.path = path'[n]
    <3>1. round[n] = x.round /\ (pc[n] \in Collecting \/ (pc[n] = "agree" /\ path'[n] = path[n]))
      BY <2>3, AgreeFrom
    <3>2. pc[n] \notin Collecting
      BY <1>2, <2>1, <3>1 DEF TurnAt
    <3> QED BY <2>2, <3>1, <3>2
  <2>4. ASSUME round'[n] = x.round, pc'[n] = "observe" PROVE x.path = path'[n]
    BY <2>2, <2>4, ObserveFrom
  <2>5. ASSUME round'[n] = x.round, verdict'[n].reason = "connected" PROVE x.path = verdict'[n].path
    <3>1. CASE DoesConnect(n)
      <4>1. pc[n] = "agree" /\ round'[n] = round[n]
        BY <3>1 DEF DoesConnect
      <4>2. verdict'[n].path = path[n]
        BY <3>1 DEF DoesConnect, Verdict
      <4> QED BY <2>2, <2>5, <4>1, <4>2
    <3>2. CASE ~DoesConnect(n)
      <4>1. verdict'[n] = verdict[n]
        BY <2>5, <3>2, ActorMoves
      <4>2. ~DoesAdvance(n)
        BY <1>2, <2>5, <4>1 DEF DoesAdvance, PhaseAt
      <4>3. round'[n] = round[n]
        BY <4>2, ActorMoves
      <4> QED BY <2>2, <2>5, <4>1, <4>3
    <3> QED BY <3>1, <3>2
  <2>6. ASSUME Split(n, x.round)', pc[m] = "agree", round[m] = x.round PROVE ~Mirror(path[m], x.path)
    <3>1. CASE Split(n, x.round)
      BY <2>2, <2>6, <3>1
    <3>2. CASE ~Split(n, x.round)
      <4>1. round[n] = x.round /\ pc[n] = "agree"
        BY <2>1, <2>6, <3>2, SplitFrom
      <4>2. PICK y \in Control : IsBarrier(n, y) /\ y \in Unread(n) /\ ~Mirror(path[n], y.path)
        BY <2>1, <2>6, <3>2, SplitFrom
      <4>3. y.path = path[m]
        BY <1>3, <2>6, <4>1, <4>2 DEF BarrierSound, IsBarrier
      <4>4. x.path = path[n]
        BY <2>2, <4>1
      <4> QED BY <4>2, <4>3, <4>4, MirrorSym
    <3> QED BY <3>1, <3>2
  <2> QED BY <2>3, <2>4, <2>5, <2>6
<1>6. CASE x \notin Unread(m)
  <2>1. x \in Queued(m)' /\ x \notin Queued(m)
    BY <1>4, <1>6 DEF Unread
  <2>2. DoesFinish(n) /\ x = RoundDone(round[n], Reciprocal(n))
    <3>1. Sends(n)
      BY SendsFacts
    <3>2. \A p \in net : ProbeReport(p).code = "ProbeReport"
      BY BuiltMessages DEF TypeOK
    <3>3. \A r, c, eps : Candidates(r, c, eps).code = "Candidates"
      BY DEF Candidates
    <3> QED BY <2>1, <3>1, <3>2, <3>3, BuiltMessages DEF Sends
  <2>3. path'[n] = Reciprocal(n) /\ round'[n] = round[n] /\ verdict'[n] = verdict[n] /\ pc'[n] = "agree"
        /\ pc[n] \in Collecting
    BY <2>2 DEF DoesFinish
  <2>4. x.path = path'[n] /\ x.round = round[n]
    BY <2>2, <2>3, BuiltMessages DEF TypeOK
  <2>5. verdict[n].reason = "open"
    BY <1>2, <2>3 DEF PhaseAt, Collecting
  <2>6. ~Split(n, x.round)'
    BY <1>2, <2>3, <2>4, <2>5 DEF Split, TurnAt
  <2> QED BY <2>3, <2>4, <2>5, <2>6
<1> QED BY <1>5, <1>6

LEMMA MessagesStep ==
  ASSUME TypeOK, TypeOK', Phase, Line, Verdicts, MessagesSound, NEW n \in Nodes, PeerKeeps(n), Does(n)
  PROVE  MessagesSound'
<1>1. Peer(n) \in Nodes /\ \A x \in Nodes : x = n \/ x = Peer(n)
  BY NodeFacts
<1>2. CandidatesSound(n)' /\ BarrierSound(n)' /\ EndSound(n)'
  BY OwnMessages
<1>3. Final(Peer(n))' <=> Final(Peer(n))
  BY DEF PeerKeeps, Final
<1>4. ~Final(Peer(n)) => (CandidatesSound(Peer(n)) /\ BarrierSound(Peer(n)) /\ EndSound(Peer(n)))'
  BY PeerCandidates, PeerBarrier, PeerEnds
<1>5. \A x \in Nodes : (~Final(x) => CandidatesSound(x) /\ BarrierSound(x) /\ EndSound(x))'
  BY <1>1, <1>2, <1>3, <1>4
<1> QED BY <1>5 DEF MessagesSound

-----------------------------------------------------------------------------
(***************************************************************************)
(* The two nodes conclude the same from the same exchange.                 *)
(***************************************************************************)
\* A node that is running has not concluded, or has connected.
LEMMA Running ==
  ASSUME TypeOK, Phase, NEW n \in Nodes, ~Final(n)
  PROVE  /\ verdict[n].reason \in {"open", "connected"}
         /\ verdict[n].reason = "connected" => pc[n] \in {"bind", "handoff"}
         /\ verdict[n].reason = "connected" <=> pc[n] \in {"bind", "handoff"}
BY DEF Phase, PhaseAt, Final

\* A peer that has sent the barrier of n's round.
LEMMA PeerAtBarrier ==
  ASSUME TypeOK, Phase, Line, Verdicts, NEW n \in Nodes, pc[n] \in {"agree", "observe"},
         2 * round[n] <= Top(Peer(n))
  PROVE  LET m == Peer(n) IN
         /\ round[m] \in {round[n], round[n] + 1}
         /\ round[m] = round[n] =>
              \/ pc[m] \in {"agree", "observe"}
              \/ verdict[m].reason \in {"connected", "budget-exhausted", "failed"}
<1> DEFINE m == Peer(n)
<1>1. m \in Nodes /\ Peer(m) = n /\ TurnAt(n) /\ TurnAt(m) /\ PhaseAt(m)
  BY NodeFacts, TurnsEverywhere DEF Phase
<1>2. Due(m) <= Top(n) + 1
  BY <1>1 DEF Line
<1>3. Due(m) <= 2 * round[n] + 1
  BY <1>1, <1>2 DEF TurnAt
<1>4. round[m] \in {round[n], round[n] + 1}
  <2>1. round[m] \in Nat /\ round[n] \in Nat /\ Due(m) \in Nat /\ Top(m) \in Nat
        /\ 2 * round[m] - 1 <= Due(m) /\ Top(m) <= 2 * round[m] + 1
    BY <1>1 DEF TurnAt
  <2> HIDE DEF m
  <2>2. round[n] <= round[m] /\ round[m] <= round[n] + 1
    BY <1>3, <2>1 DEF m
  <2> QED BY <2>1, <2>2
<1>5. ASSUME round[m] = round[n]
      PROVE  pc[m] \in {"agree", "observe", "bind", "handoff", "connected", "ended"}
  <2>1. pc[m] \notin {"infer", "candidates"} \cup Collecting
    BY <1>1, <1>5 DEF TurnAt
  <2> QED BY <1>1, <2>1 DEF TypeOK, Collecting, Waiting
<1>6. verdict[m].reason # "no-progress"
  <2>1. ~Final(n)
    BY DEF Final
  <2>2. verdict[n].reason = "open"
    BY <2>1, Running
  <2> QED BY <1>1, <2>2 DEF Verdicts, StuckTogether
<1>7. verdict[m].reason \in Reasons
  BY <1>1 DEF TypeOK
<1> QED BY <1>1, <1>4, <1>5, <1>6, <1>7 DEF PhaseAt, Reasons

LEMMA ConnectedOwn ==
  ASSUME TypeOK, TypeOK', Phase, Line, Verdicts, MessagesSound, NEW n \in Nodes, PeerKeeps(n), Does(n)
  PROVE  ConnectedTogether(n)'
<1> DEFINE m == Peer(n)
<1>1. m \in Nodes /\ Peer(m) = n /\ ~Final(n) /\ PhaseAt(n) /\ PhaseAt(m)
  BY NodeFacts, ActorFacts DEF Phase
<1>2. pc'[m] = pc[m] /\ round'[m] = round[m] /\ path'[m] = path[m] /\ verdict'[m] = verdict[m]
  BY DEF PeerKeeps
<1> SUFFICES ASSUME verdict'[n].reason = "connected"
    PROVE /\ round[m] = round'[n] /\ verdict'[n].path # <<>>
          /\ \/ verdict[m].reason = "failed"
             \/ pc[m] = "agree" /\ Mirror(verdict'[n].path, path[m])
             \/ verdict[m].reason = "connected" /\ Mirror(verdict'[n].path, verdict[m].path)
  BY <1>2 DEF ConnectedTogether
<1>3. CASE DoesConnect(n)
  <2>1. PICK x \in Control : IsBarrier(n, x) /\ Takes(n, x) /\ Mirror(path[n], x.path)
    BY <1>3 DEF DoesConnect
  <2>2. x \in Unread(n) /\ BarrierSound(n)
    BY <1>1, <2>1, TakesFacts DEF MessagesSound
  <2>3. pc[n] = "agree" /\ round'[n] = round[n] /\ verdict'[n].path = path[n] /\ path[n] # <<>>
    BY <1>3, <2>1 DEF DoesConnect, Verdict, Mirror
  <2>4. 2 * round[n] <= Top(m)
    BY <1>1, <2>1, <2>2, BarrierSent DEF IsBarrier
  <2>5. ~Split(m, round[n])
    BY <2>1, <2>2, <2>3 DEF BarrierSound, IsBarrier
  <2>6. /\ round[m] = round[n] 
        /\ pc[m] \in {"agree", "observe"} \/ verdict[m].reason \in {"connected", "budget-exhausted", "failed"}
    BY <2>3, <2>4, <2>5, PeerAtBarrier DEF Split
  <2>7. pc[m] = "agree" \/ verdict[m].reason \in {"connected", "failed"}
    BY <2>5, <2>6 DEF Split
  <2>8. /\ pc[m] = "agree" => x.path = path[m]
        /\ verdict[m].reason = "connected" => x.path = verdict[m].path
    BY <2>1, <2>2, <2>6 DEF BarrierSound, IsBarrier
  <2> QED BY <2>1, <2>3, <2>6, <2>7, <2>8
<1>4. CASE ~DoesConnect(n)
  <2>1. verdict'[n] = verdict[n]
    BY <1>4, ActorMoves
  <2>2. ~DoesAdvance(n)
    BY <1>1, <2>1 DEF DoesAdvance, PhaseAt
  <2>3. round'[n] = round[n]
    BY <2>2, ActorMoves
  <2> QED BY <2>1, <2>3 DEF Verdicts, ConnectedTogether
<1> QED BY <1>3, <1>4

LEMMA ConnectedPeer ==
  ASSUME TypeOK, TypeOK', Phase, Line, Verdicts, MessagesSound, NEW n \in Nodes, PeerKeeps(n), Does(n)
  PROVE  ConnectedTogether(Peer(n))'
<1> DEFINE m == Peer(n)
<1>1. m \in Nodes /\ Peer(m) = n /\ ~Final(n) /\ PhaseAt(n)
  BY NodeFacts, ActorFacts DEF Phase
<1>2. round'[m] = round[m] /\ verdict'[m] = verdict[m]
  BY DEF PeerKeeps
<1> SUFFICES ASSUME verdict[m].reason = "connected"
    PROVE /\ round'[n] = round[m] /\ verdict[m].path # <<>>
          /\ \/ verdict'[n].reason = "failed"
             \/ pc'[n] = "agree" /\ Mirror(verdict[m].path, path'[n])
             \/ verdict'[n].reason = "connected" /\ Mirror(verdict[m].path, verdict'[n].path)
  BY <1>1, <1>2 DEF ConnectedTogether
<1>3. /\ round[n] = round[m] /\ verdict[m].path # <<>>
      /\ \/ verdict[n].reason = "failed"
         \/ pc[n] = "agree" /\ Mirror(verdict[m].path, path[n])
         \/ verdict[n].reason = "connected" /\ Mirror(verdict[m].path, verdict[n].path)
  BY <1>1 DEF Verdicts, ConnectedTogether
<1>4. CASE pc[n] = "agree" /\ Mirror(verdict[m].path, path[n])
  <2>1. ASSUME NEW y \in Control, IsBarrier(n, y), y \in Unread(n) PROVE Mirror(path[n], y.path)
    <3>1. y.path = verdict[m].path
      BY <1>1, <1>3, <2>1 DEF MessagesSound, BarrierSound, IsBarrier
    <3> QED BY <1>4, <3>1, MirrorSym
  <2>2. \A y \in Control : IsBarrier(n, y) /\ (Takes(n, y) \/ Offered(n, y)) => Mirror(path[n], y.path)
    BY <2>1, TakesFacts, OfferedFacts
  <2>3. ~DoesObserve(n) /\ ~DoesAdvance(n) /\ ~EndsExhausted(n)
    BY <1>4, <2>2 DEF DoesObserve, DoesAdvance, EndsExhausted
  <2>4. CASE DoesConnect(n)
    BY <1>3, <1>4, <2>4 DEF DoesConnect, Verdict
  <2>5. CASE DoesSkip(n) \/ DoesArrive(n)
    BY <1>3, <1>4, <2>5 DEF DoesSkip, DoesArrive, PhaseKept
  <2>6. CASE EndsFailed(n)
    <3>1. verdict[n].reason = "open"
      BY <1>1, <1>4 DEF PhaseAt
    <3> QED BY <1>3, <2>6, <3>1 DEF EndsFailed, Clears, Concludes, Verdict
  <2> QED BY <1>4, <2>3, <2>4, <2>5, <2>6 DEF Does, DoesInfer, DoesTry, DoesCollectArrival,
           DoesCollectReport, DoesBarrier, DoesReporting, DoesFinish, DoesHandoff, DoesTransmit,
           EndsStuck, Collecting
<1>5. CASE verdict[n].reason = "connected" /\ Mirror(verdict[m].path, verdict[n].path)
  <2>1. ~DoesConnect(n) /\ ~DoesAdvance(n)
    BY <1>1, <1>5 DEF DoesConnect, DoesAdvance, PhaseAt
  <2>2. verdict'[n] = verdict[n]
    BY <1>5, <2>1, ActorMoves DEF EndsStuck, EndsExhausted, Concludes
  <2> QED BY <1>3, <1>5, <2>1, <2>2, ActorMoves
<1> QED BY <1>1, <1>3, <1>4, <1>5, Running

LEMMA ExhaustedOwn ==
  ASSUME TypeOK, TypeOK', Phase, Line, Verdicts, MessagesSound, NEW n \in Nodes, PeerKeeps(n), Does(n)
  PROVE  ExhaustedTogether(n)'
<1> DEFINE m == Peer(n)
<1>1. m \in Nodes /\ Peer(m) = n /\ ~Final(n) /\ PhaseAt(n) /\ TurnAt(n) /\ TurnAt(m)
  BY NodeFacts, ActorFacts, TurnsEverywhere DEF Phase
<1>2. pc'[m] = pc[m] /\ round'[m] = round[m] /\ verdict'[m] = verdict[m]
  BY DEF PeerKeeps
<1> SUFFICES ASSUME verdict'[n].reason = "budget-exhausted"
    PROVE /\ round[m] = round'[n]
          /\ verdict[m].reason \in {"failed", "budget-exhausted"} \/ pc[m] \in {"agree", "observe"}
  BY <1>2 DEF ExhaustedTogether
<1>3. EndsExhausted(n)
  BY <1>1, ActorMoves, Running
<1>4. pc[n] \in {"agree", "observe"} /\ round[n] = MaxIterations /\ round'[n] = round[n]
      /\ verdict[n].reason = "open"
  BY <1>3 DEF EndsExhausted, Clears, Concludes
<1>5. 2 * round[n] <= Top(m)
  <2>1. CASE pc[n] = "observe"
    BY <1>1, <2>1 DEF Line, TurnAt
  <2>2. CASE pc[n] = "agree"
    BY <1>1, <1>3, <2>2, OfferedFacts, BarrierSent DEF EndsExhausted, IsBarrier
  <2> QED BY <1>4, <2>1, <2>2
<1>6. round[m] = round[n]
  <2>1. round[m] \in {round[n], round[n] + 1}
    BY <1>4, <1>5, PeerAtBarrier
  <2>2. round[m] <= MaxIterations /\ MaxIterations \in Nat
    BY <1>1, RoundFacts DEF TypeOK
  <2> QED BY <1>4, <2>1, <2>2
<1>7. verdict[m].reason # "connected"
  <2> SUFFICES ASSUME verdict[m].reason = "connected" PROVE FALSE
    OBVIOUS
  <2>1. pc[n] = "agree" /\ Mirror(verdict[m].path, path[n])
    BY <1>1, <1>4 DEF Verdicts, ConnectedTogether
  <2>2. PICK y \in Control : IsBarrier(n, y) /\ y \in Unread(n) /\ ~Mirror(path[n], y.path)
    BY <1>3, <2>1, OfferedFacts DEF EndsExhausted
  <2>3. y.path = verdict[m].path
    BY <1>1, <1>6, <2>2 DEF MessagesSound, BarrierSound, IsBarrier
  <2> QED BY <2>1, <2>2, <2>3, MirrorSym
<1> QED BY <1>4, <1>5, <1>6, <1>7, PeerAtBarrier

LEMMA ExhaustedPeer ==
  ASSUME TypeOK, TypeOK', Phase, Line, Verdicts, MessagesSound, NEW n \in Nodes, PeerKeeps(n), Does(n)
  PROVE  ExhaustedTogether(Peer(n))'
<1> DEFINE m == Peer(n)
<1>1. m \in Nodes /\ Peer(m) = n /\ ~Final(n) /\ PhaseAt(n) /\ PhaseAt(m)
  BY NodeFacts, ActorFacts DEF Phase
<1>2. round'[m] = round[m] /\ verdict'[m] = verdict[m]
  BY DEF PeerKeeps
<1> SUFFICES ASSUME verdict[m].reason = "budget-exhausted"
    PROVE /\ round'[n] = round[m]
          /\ verdict'[n].reason \in {"failed", "budget-exhausted"} \/ pc'[n] \in {"agree", "observe"}
  BY <1>1, <1>2 DEF ExhaustedTogether
<1>3. round[n] = round[m] /\ pc[n] \in {"agree", "observe"} /\ round[m] = MaxIterations
  BY <1>1, Running DEF Verdicts, ExhaustedTogether, PhaseAt
<1>4. ~DoesConnect(n)
  <2>1. Split(m, round[n])
    BY <1>3 DEF Split
  <2> QED BY <1>1, <2>1, TakesFacts DEF DoesConnect, MessagesSound, BarrierSound, IsBarrier
<1>5. ~DoesAdvance(n)
  BY <1>1, <1>3, RoundFacts DEF DoesAdvance, TypeOK
<1>6. CASE DoesSkip(n) \/ DoesArrive(n) \/ DoesObserve(n)
  BY <1>3, <1>6 DEF DoesSkip, DoesArrive, DoesObserve, PhaseKept
<1>7. CASE EndsExhausted(n) \/ EndsFailed(n)
  <2>1. verdict[n].reason = "open"
    BY <1>1, <1>3 DEF PhaseAt
  <2> QED BY <1>3, <1>7, <2>1 DEF EndsExhausted, EndsFailed, Clears, Concludes, Verdict
<1> QED BY <1>3, <1>4, <1>5, <1>6, <1>7 DEF Does, DoesInfer, DoesTry, DoesCollectArrival,
           DoesCollectReport, DoesBarrier, DoesReporting, DoesFinish, DoesHandoff, DoesTransmit,
           EndsStuck, Collecting

\* The candidates n takes in its round.
LEMMA TakenCandidates ==
  ASSUME TypeOK, Phase, Line, MessagesSound, NEW n \in Nodes, pc[n] = "candidates",
         NEW x \in Control, IsCandidates(n, x), Offered(n, x) \/ Takes(n, x)
  PROVE  LET m == Peer(n) IN
         /\ x \in Queued(n) /\ round[m] = round[n] /\ x.eps = env.infer[m][round[n]]
         /\ 2 * round[n] - 1 <= Top(m) /\ Due(m) <= 2 * round[n]
         /\ pc[m] # "ended" => x.changed = changed[m]
         /\ verdict[m].reason = "no-progress" => ~x.changed
<1> DEFINE m == Peer(n)
<1>1. m \in Nodes /\ Peer(m) = n /\ ~Final(n) /\ PhaseAt(n) /\ TurnAt(n) /\ TurnAt(m)
      /\ inbox[n] \in Seq(Control)
  BY NodeFacts, TurnsEverywhere DEF Phase, Final, TypeOK
<1>2. pending[n] = NoMessage
  BY <1>1 DEF PhaseAt, Collecting
<1>3. x \in Queued(n)
  BY <1>1, <1>2, TailFacts DEF Offered, Takes, Queued
<1>4. 2 * round[n] - 1 <= Top(m)
  BY <1>1, <1>3, QueuedInTurn DEF IsCandidates
<1>5. Due(m) <= 2 * round[n]
  <2>1. Top(n) = 2 * round[n] - 1 /\ round[n] \in Nat
    BY <1>1 DEF TurnAt
  <2>2. Due(m) <= Top(n) + 1
    BY <1>1 DEF Line
  <2> QED BY <2>1, <2>2
<1>6. round[n] <= round[m]
  BY <1>1, <1>3 DEF MessagesSound, CandidatesSound, IsCandidates
<1>7. round[m] = round[n]
  <2>1. round[m] \in Nat /\ round[n] \in Nat /\ Due(m) \in Nat /\ 2 * round[m] - 1 <= Due(m)
    BY <1>1 DEF TurnAt
  <2> HIDE DEF m
  <2> QED BY <1>5, <1>6, <2>1
<1> QED BY <1>1, <1>3, <1>4, <1>5, <1>7 DEF MessagesSound, CandidatesSound, IsCandidates

LEMMA StuckOwn ==
  ASSUME TypeOK, TypeOK', Phase, Line, Verdicts, MessagesSound, NEW n \in Nodes, PeerKeeps(n), Does(n)
  PROVE  StuckTogether(n)'
<1> DEFINE m == Peer(n)
<1>1. m \in Nodes /\ Peer(m) = n /\ ~Final(n) /\ PhaseAt(m) /\ TurnAt(n) /\ TurnAt(m)
  BY NodeFacts, ActorFacts, TurnsEverywhere DEF Phase
<1>2. pc'[m] = pc[m] /\ round'[m] = round[m] /\ verdict'[m] = verdict[m] /\ changed'[m] = changed[m]
  BY DEF PeerKeeps
<1> SUFFICES ASSUME verdict'[n].reason = "no-progress"
    PROVE /\ round[m] = round'[n]
          /\ \/ verdict[m].reason \in {"failed", "no-progress"}
             \/ pc[m] = "candidates" /\ ~changed[m]
  BY <1>2 DEF StuckTogether
<1>3. EndsStuck(n)
  BY <1>1, ActorMoves, Running
<1>4. pc[n] = "candidates" /\ ~changed[n] /\ round'[n] = round[n] /\ verdict[n].reason = "open"
  BY <1>3 DEF EndsStuck, Clears, Concludes
<1>5. PICK x \in Control : IsCandidates(n, x) /\ Offered(n, x) /\ ~x.changed
  BY <1>3 DEF EndsStuck
<1>6. /\ round[m] = round[n] /\ 2 * round[n] - 1 <= Top(m) /\ Due(m) <= 2 * round[n]
      /\ pc[m] # "ended" => x.changed = changed[m]
  BY <1>4, <1>5, TakenCandidates
<1>7. pc[m] \notin {"infer", "observe", "bind", "handoff", "connected"}
  BY <1>1, <1>6 DEF TurnAt
<1>8. pc[m] \notin Collecting \cup {"agree"}
  BY <1>1, <1>4, <1>5, <1>6 DEF Verdicts, TriedTogether, Collecting
<1>9. pc[m] \in {"candidates", "ended"}
  BY <1>1, <1>7, <1>8 DEF TypeOK, Collecting, Waiting
<1>10. verdict[m].reason \notin {"connected", "budget-exhausted"}
  BY <1>1, <1>4 DEF Verdicts, ConnectedTogether, ExhaustedTogether
<1>11. pc[m] = "ended" => verdict[m].reason \in {"failed", "no-progress"}
  BY <1>1, <1>10 DEF PhaseAt, TypeOK, Reasons
<1> QED BY <1>4, <1>5, <1>6, <1>9, <1>11

LEMMA StuckPeer ==
  ASSUME TypeOK, TypeOK', Phase, Line, Verdicts, MessagesSound, NEW n \in Nodes, PeerKeeps(n), Does(n)
  PROVE  StuckTogether(Peer(n))'
<1> DEFINE m == Peer(n)
<1>1. m \in Nodes /\ Peer(m) = n /\ ~Final(n) /\ PhaseAt(n)
  BY NodeFacts, ActorFacts DEF Phase
<1>2. round'[m] = round[m] /\ verdict'[m] = verdict[m]
  BY DEF PeerKeeps
<1> SUFFICES ASSUME verdict[m].reason = "no-progress"
    PROVE /\ round'[n] = round[m]
          /\ \/ verdict'[n].reason \in {"failed", "no-progress"}
             \/ pc'[n] = "candidates" /\ ~changed'[n]
  BY <1>1, <1>2 DEF StuckTogether
<1>3. round[n] = round[m] /\ pc[n] = "candidates" /\ ~changed[n]
  BY <1>1, Running DEF Verdicts, StuckTogether
<1>4. ~DoesTry(n)
  BY <1>3, TakenCandidates DEF DoesTry
<1>5. CASE DoesSkip(n) \/ DoesArrive(n)
  BY <1>3, <1>5 DEF DoesSkip, DoesArrive, PhaseKept
<1>6. CASE EndsStuck(n) \/ EndsFailed(n)
  <2>1. verdict[n].reason = "open"
    BY <1>1, <1>3 DEF PhaseAt
  <2> QED BY <1>3, <1>6, <2>1 DEF EndsStuck, EndsFailed, Clears, Concludes, Verdict
<1> QED BY <1>3, <1>4, <1>5, <1>6 DEF Does, DoesInfer, DoesConnect, DoesObserve, DoesAdvance,
           DoesCollectArrival, DoesCollectReport, DoesBarrier, DoesReporting, DoesFinish, DoesHandoff,
           DoesTransmit, EndsExhausted, Collecting

LEMMA TriedStep ==
  ASSUME TypeOK, TypeOK', Phase, Line, Verdicts, MessagesSound, NEW n \in Nodes, PeerKeeps(n), Does(n)
  PROVE  TriedTogether(n)' /\ TriedTogether(Peer(n))'
<1> DEFINE m == Peer(n)
<1>1. m \in Nodes /\ Peer(m) = n /\ TurnAt(n) /\ TurnAt(m)
  BY NodeFacts, TurnsEverywhere
<1>2. pc'[m] = pc[m] /\ round'[m] = round[m] /\ changed'[m] = changed[m]
  BY DEF PeerKeeps
<1>3. ASSUME round[m] = round'[n], pc[m] = "candidates", pc'[n] \in Collecting \cup {"agree"}
      PROVE  changed'[n] \/ changed[m]
  <2>1. CASE DoesTry(n)
    <3>1. PICK x \in Control : IsCandidates(n, x) /\ Takes(n, x) /\ (changed[n] \/ x.changed)
      BY <2>1 DEF DoesTry
    <3>2. x.changed = changed[m]
      BY <1>3, <2>1, <3>1, TakenCandidates DEF DoesTry
    <3> QED BY <2>1, <3>1, <3>2 DEF DoesTry
  <2>2. CASE ~DoesTry(n)
    <3>1. pc[n] \in Collecting \cup {"agree"} /\ round'[n] = round[n] /\ changed'[n] = changed[n]
      BY <1>3, <2>2 DEF Does, DoesInfer, DoesSkip, DoesArrive, DoesCollectArrival, DoesCollectReport,
           DoesBarrier, DoesReporting, DoesFinish, DoesConnect, DoesObserve, DoesAdvance, DoesHandoff,
           DoesTransmit, EndsStuck, EndsExhausted, EndsFailed, Clears, PhaseKept, Collecting
    <3> QED BY <1>3, <3>1 DEF Verdicts, TriedTogether
  <2> QED BY <2>1, <2>2
<1>4. ASSUME round'[n] = round[m], pc'[n] = "candidates", pc[m] \in Collecting \cup {"agree"}
      PROVE  changed[m] \/ changed'[n]
  <2>1. ~DoesInfer(n)
    <3> SUFFICES ASSUME DoesInfer(n) PROVE FALSE
      OBVIOUS
    <3>1. pc[n] = "infer" /\ round[n] = round[m]
      BY <1>4 DEF DoesInfer
    <3>2. Due(m) >= 2 * round[m] /\ Due(m) <= Top(n) + 1
      BY <1>1, <1>4 DEF TurnAt, Line
    <3> QED BY <1>1, <3>1, <3>2 DEF TurnAt
  <2>2. pc[n] = "candidates" /\ round'[n] = round[n] /\ changed'[n] = changed[n]
    BY <1>4, <2>1 DEF Does, DoesSkip, DoesTry, DoesArrive, DoesCollectArrival, DoesCollectReport,
         DoesBarrier, DoesReporting, DoesFinish, DoesConnect, DoesObserve, DoesAdvance, DoesHandoff,
         DoesTransmit, EndsStuck, EndsExhausted, EndsFailed, Clears, PhaseKept, Collecting
  <2> QED BY <1>1, <1>4, <2>2 DEF Verdicts, TriedTogether
<1> QED BY <1>1, <1>2, <1>3, <1>4 DEF TriedTogether

LEMMA VerdictsStep ==
  ASSUME TypeOK, TypeOK', Phase, Line, Verdicts, MessagesSound, NEW n \in Nodes, PeerKeeps(n), Does(n)
  PROVE  Verdicts'
<1>1. Peer(n) \in Nodes /\ \A x \in Nodes : x = n \/ x = Peer(n)
  BY NodeFacts
<1>2. (ConnectedTogether(n) /\ ExhaustedTogether(n) /\ StuckTogether(n) /\ TriedTogether(n))'
  BY ConnectedOwn, ExhaustedOwn, StuckOwn, TriedStep
<1>3. (ConnectedTogether(Peer(n)) /\ ExhaustedTogether(Peer(n)) /\ StuckTogether(Peer(n))
       /\ TriedTogether(Peer(n)))'
  BY ConnectedPeer, ExhaustedPeer, StuckPeer, TriedStep
<1>4. \A x \in Nodes : (/\ ConnectedTogether(x) /\ ExhaustedTogether(x)
                        /\ StuckTogether(x) /\ TriedTogether(x))'
  BY <1>1, <1>2, <1>3
<1> QED BY <1>4 DEF Verdicts

-----------------------------------------------------------------------------
(***************************************************************************)
(* What is opened was sent, is reported once and is not lost.              *)
(***************************************************************************)
LEMMA PhaseMoves ==
  ASSUME NEW n \in Nodes, Does(n)
  PROVE  \/ DoesAdvance(n) /\ round'[n] = round[n] + 1
         \/ /\ round'[n] = round[n]
            /\ pc'[n] = "infer" => pc[n] = "infer"
            /\ pc'[n] = "candidates" => pc[n] \in {"infer", "candidates"}
BY DEF Does, DoesInfer, DoesSkip, DoesTry, DoesArrive, DoesCollectArrival, DoesCollectReport,
       DoesBarrier, DoesReporting, DoesFinish, DoesConnect, DoesObserve, DoesAdvance, DoesHandoff,
       DoesTransmit, EndsStuck, EndsExhausted, EndsFailed, Clears, PhaseKept, Collecting

\* What n probes with: what the peer proposed for this round.
LEMMA TryFacts ==
  ASSUME TypeOK, Phase, Line, MessagesSound, NEW n \in Nodes, DoesTry(n)
  PROVE  LET m == Peer(n) IN
         /\ round[m] = round[n] /\ pc[m] # "infer"
         /\ sent'[n] = env.infer[m][round[n]]
         /\ net' = net \cup {Hop(m, round[n], d, env.nat[n][d]) : d \in env.infer[m][round[n]]}
<1> DEFINE m == Peer(n)
<1>1. m \in Nodes /\ TurnAt(m)
  BY NodeFacts, TurnsEverywhere
<1>2. PICK x \in Control : /\ IsCandidates(n, x) /\ Takes(n, x) /\ sent'[n] = x.eps
        /\ net' = net \cup {Hop(m, round[n], d, env.nat[n][d]) : d \in x.eps}
  BY DEF DoesTry
<1>3. round[m] = round[n] /\ x.eps = env.infer[m][round[n]] /\ 2 * round[n] - 1 <= Top(m)
  BY <1>2, TakenCandidates DEF DoesTry
<1>4. pc[m] # "infer"
  BY <1>1, <1>3 DEF TurnAt
<1> QED BY <1>2, <1>3, <1>4

LEMMA NetMoves ==
  ASSUME NEW n \in Nodes, Does(n)
  PROVE  DoesTry(n) \/ net' = net
BY DEF Does, DoesInfer, DoesSkip, DoesArrive, DoesCollectArrival, DoesCollectReport,
       DoesBarrier, DoesReporting, DoesFinish, DoesConnect, DoesObserve, DoesAdvance, DoesHandoff,
       DoesTransmit, EndsStuck, EndsExhausted, EndsFailed, Clears, EvidenceSame, ProbesKept

LEMMA NetStep ==
  ASSUME TypeOK, TypeOK', Phase, Line, MessagesSound, Evidence, NEW n \in Nodes, PeerKeeps(n), Does(n)
  PROVE  NetSound' /\ net \subseteq net'
<1> DEFINE m == Peer(n)
<1>1. m \in Nodes /\ Peer(m) = n /\ m # n /\ \A x \in Nodes : x = n \/ x = m
  BY NodeFacts
<1>2. pc'[m] = pc[m] /\ round'[m] = round[m] /\ env' = env
  BY DEF PeerKeeps
<1>3. round[n] \in Rounds /\ round[m] \in Rounds /\ env \in Environments /\ net \subseteq Probe
  BY <1>1 DEF TypeOK
<1>4. \A r \in Rounds : r \in Nat
  BY RoundFacts
<1>5. ASSUME NEW p \in net PROVE ProbeSound(p)'
  <2>1. ProbeSound(p) /\ p.to \in Nodes /\ p.round \in Nat
    BY <1>3, <1>4, ProbeFacts DEF Evidence, NetSound
  <2>2. /\ p.round <= round'[n]
        /\ p.round = round'[n] /\ pc'[n] = "infer" => p.round = round[n] /\ pc[n] = "infer"
        /\ p.round = round'[n] /\ pc'[n] = "candidates" =>
             p.round = round[n] /\ pc[n] \in {"infer", "candidates"}
    <3>1. p.round <= round[n] /\ round[n] \in Nat
      BY <1>1, <1>3, <1>4, <2>1 DEF ProbeSound
    <3> QED BY <2>1, <3>1, PhaseMoves
  <2>3. CASE p.to = n
    BY <1>1, <1>2, <2>1, <2>2, <2>3 DEF ProbeSound
  <2>4. CASE p.to = m
    BY <1>1, <1>2, <2>1, <2>2, <2>4 DEF ProbeSound
  <2> QED BY <1>1, <2>1, <2>3, <2>4
<1>6. CASE DoesTry(n)
  <2>1. /\ round[m] = round[n] /\ pc[m] # "infer"
        /\ net' = net \cup {Hop(m, round[n], d, env.nat[n][d]) : d \in env.infer[m][round[n]]}
    BY <1>6, TryFacts
  <2>2. ASSUME NEW p \in net', p \notin net PROVE ProbeSound(p)'
    <3>1. PICK d \in env.infer[m][round[n]] : p = Hop(m, round[n], d, env.nat[n][d])
      BY <2>1, <2>2
    <3>2. d \in Endpoints /\ env.nat[n][d] \in Endpoints
      BY <1>1, <1>3, EnvFacts
    <3>3. p.to = m /\ p.round = round[n] /\ p.dst = d /\ p.seen = env.nat[n][d]
      BY <1>1, <1>3, <3>1, <3>2, HopFacts
    <3>4. pc'[n] = "probing" /\ round'[n] = round[n] /\ round[n] <= round[n]
      BY <1>3, <1>4, <1>6 DEF DoesTry
    <3> QED BY <1>1, <1>2, <2>1, <3>3, <3>4 DEF ProbeSound
  <2>3. \A p \in net' : ProbeSound(p)'
    BY <1>5, <2>2
  <2> QED BY <2>1, <2>3 DEF NetSound
<1>7. CASE net' = net
  BY <1>5, <1>7 DEF NetSound
<1> QED BY <1>6, <1>7, NetMoves

\* What happens to the two queues.
LEMMA OwnInbox ==
  ASSUME NEW n \in Nodes, Does(n)
  PROVE  \/ inbox'[n] = inbox[n]
         \/ inbox[n] # <<>> /\ inbox'[n] = Tail(inbox[n])
         \/ pc'[n] = "ended" /\ inbox'[n] = <<>>
BY DEF Does, DoesInfer, DoesSkip, DoesTry, DoesArrive, DoesCollectArrival, DoesCollectReport,
       DoesBarrier, DoesReporting, DoesFinish, DoesConnect, DoesObserve, DoesAdvance, DoesHandoff,
       DoesTransmit, EndsStuck, EndsExhausted, EndsFailed, Clears, Takes

LEMMA PeerInbox ==
  ASSUME TypeOK, TypeOK', NEW n \in Nodes, Does(n)
  PROVE  LET m == Peer(n) IN
         \/ inbox'[m] = inbox[m] /\ (DoesArrive(n) => Final(m))
         \/ /\ ~Final(m) /\ ~DoesArrive(n)
            /\ \E x \in Control : x.code # "ProbeReport" /\ inbox'[m] = Append(inbox[m], x)
         \/ /\ ~Final(m)
            /\ \E p \in net : /\ p.to = n /\ p \notin opened[n] /\ opened'[n] = opened[n] \cup {p}
                              /\ inbox'[m] = Append(inbox[m], ProbeReport(p))
<1> DEFINE m == Peer(n)
<1>1. CASE DoesArrive(n)
  BY <1>1 DEF DoesArrive, Told
<1>2. CASE ~DoesArrive(n)
  <2>1. CASE Untold(n)
    BY <1>2, <2>1 DEF Untold
  <2>2. CASE \E x \in Control : x.code # "ProbeReport" /\ Told(n, x)
    BY <1>2, <2>2 DEF Told
  <2>3. CASE DoesInfer(n)
    <3>1. changed[n] \in BOOLEAN /\ env.infer[n][round[n]] \in SUBSET Endpoints /\ round[n] \in Rounds
      BY EnvFacts DEF TypeOK
    <3> QED BY <2>2, <2>3, <3>1, BuiltMessages DEF DoesInfer
  <2>4. CASE DoesFinish(n)
    <3>1. Reciprocal(n) \in Paths /\ round[n] \in Rounds
      BY <2>4 DEF TypeOK, DoesFinish
    <3> QED BY <2>2, <2>4, <3>1, BuiltMessages DEF DoesFinish
  <2>5. CASE DoesHandoff(n)
    BY <2>2, <2>5, BuiltMessages DEF DoesHandoff
  <2>6. CASE Clears(n)
    BY <1>2, <2>1, <2>6, BuiltMessages DEF Clears
  <2> QED BY <1>2, <2>1, <2>3, <2>4, <2>5, <2>6 DEF Does, DoesSkip, DoesTry, DoesCollectArrival,
       DoesCollectReport, DoesBarrier, DoesReporting, DoesConnect, DoesObserve, DoesAdvance,
       DoesTransmit, EndsStuck, EndsExhausted, EndsFailed
<1> QED BY <1>1, <1>2

\* What n has opened grows by what arrives.
LEMMA OpenedMoves ==
  ASSUME NEW n \in Nodes, Does(n)
  PROVE  DoesArrive(n) \/ (opened'[n] = opened[n] /\ arrivals'[n] \subseteq arrivals[n])
BY DEF Does, DoesInfer, DoesSkip, DoesTry, DoesCollectArrival, DoesCollectReport,
       DoesBarrier, DoesReporting, DoesFinish, DoesConnect, DoesObserve, DoesAdvance, DoesHandoff,
       DoesTransmit, EndsStuck, EndsExhausted, EndsFailed, Clears, EvidenceSame, ProbesKept

LEMMA OpenedGrows ==
  ASSUME NEW n \in Nodes, Does(n)
  PROVE  opened[n] \subseteq opened'[n]
BY OpenedMoves DEF DoesArrive

\* Probes and their reports name each other.
LEMMA ReportFacts ==
  ASSUME NEW n \in Nodes, NEW p \in Probe, p.to = Peer(n)
  PROVE  /\ Reported(n, ProbeReport(p)) = p
         /\ \A q \in Probe : q.to = Peer(n) /\ ProbeReport(q) = ProbeReport(p) => q = p
<1>1. \A q \in Probe : q.to = Peer(n) => Reported(n, ProbeReport(q)) = q
  BY BuiltMessages, ProbeFacts DEF Reported
<1> QED BY <1>1

\* What the collection of n holds moves with the collection.
LEMMA TryMoves ==
  ASSUME TypeOK, Evidence, NEW n \in Nodes, Does(n)
  PROVE  /\ \/ received'[n] = received[n] /\ (round'[n] = round[n] \/ received[n] = {})
            \/ received'[n] = {}
            \/ DoesCollectReport(n)
         /\ \/ incoming'[n] = incoming[n] /\ (round'[n] = round[n] \/ incoming[n] = {})
            \/ incoming'[n] = {}
            \/ DoesCollectArrival(n)
         /\ pc'[n] \notin Collecting => sent'[n] = {} /\ received'[n] = {} /\ incoming'[n] = {}
<1>1. EvidenceSound(n)
  BY DEF Evidence
<1>2. pc[n] \notin Collecting => sent[n] = {} /\ received[n] = {} /\ incoming[n] = {}
  BY <1>1 DEF EvidenceSound
<1>3. CASE DoesAdvance(n)
  BY <1>2, <1>3 DEF DoesAdvance, EvidenceSame, TryKept, Collecting
<1>4. CASE DoesFinish(n) \/ EndsStuck(n) \/ EndsExhausted(n) \/ EndsFailed(n)
  BY <1>4 DEF DoesFinish, EndsStuck, EndsExhausted, EndsFailed, Clears
<1>5. CASE DoesTry(n) \/ DoesCollectArrival(n) \/ DoesCollectReport(n)
  BY <1>5 DEF DoesTry, DoesCollectArrival, DoesCollectReport, PhaseKept, Collecting
<1>6. CASE DoesInfer(n) \/ DoesSkip(n) \/ DoesArrive(n) \/ DoesBarrier(n) \/ DoesReporting(n)
           \/ DoesConnect(n) \/ DoesObserve(n) \/ DoesHandoff(n) \/ DoesTransmit(n)
  BY <1>2, <1>6 DEF DoesInfer, DoesSkip, DoesArrive, DoesBarrier, DoesReporting, DoesConnect,
       DoesObserve, DoesHandoff, DoesTransmit, EvidenceSame, TryKept, PhaseKept, Collecting
<1> QED BY <1>3, <1>4, <1>5, <1>6 DEF Does

LEMMA OwnEvidence ==
  ASSUME TypeOK, TypeOK', Evidence, NEW n \in Nodes, PeerKeeps(n), Does(n), net \subseteq net'
  PROVE  EvidenceSound(n)'
<1> DEFINE m == Peer(n)
<1>1. m \in Nodes /\ Peer(m) = n /\ inbox[n] \in Seq(Control) /\ opened[n] \subseteq Probe
  BY NodeFacts DEF TypeOK
<1>2. EvidenceSound(n)
  BY DEF Evidence
<1>3. opened'[m] = opened[m]
  BY DEF PeerKeeps
<1>4. Queued(n)' \subseteq Queued(n)
  BY ActorFacts
<1>5. opened'[n] \subseteq net' /\ arrivals'[n] \subseteq opened'[n] /\ \A p \in opened'[n] : p.to = n
  BY <1>2, OpenedMoves DEF EvidenceSound, DoesArrive
<1>6. \A x \in Queued(n)' : x.code = "ProbeReport" => Reported(n, x) \in opened'[m]
  BY <1>2, <1>3, <1>4 DEF EvidenceSound
<1>7. \A a \in received'[n] : Hop(m, round'[n], a[1], a[2]) \in opened'[m]
  <2>1. CASE DoesCollectReport(n)
    <3> DEFINE x == Head(inbox[n])
    <3>1. x \in Queued(n)
      BY <1>1, <2>1, TailFacts DEF DoesCollectReport, Queued
    <3>2. x.code = "ProbeReport" /\ round'[n] = round[n]
      BY <2>1 DEF DoesCollectReport, PhaseKept
    <3>3. Hop(m, x.round, x.dst, x.seen) \in opened[m]
      BY <1>2, <3>1, <3>2 DEF EvidenceSound, Reported
    <3>4. ASSUME NEW a \in received'[n] PROVE Hop(m, round[n], a[1], a[2]) \in opened[m]
      <4>1. CASE a \in received[n]
        BY <1>2, <4>1 DEF EvidenceSound
      <4>2. CASE a \notin received[n]
        <5>1. a = <<x.dst, x.seen>> /\ x.round = round[n]
          BY <2>1, <3>4, <4>2 DEF DoesCollectReport
        <5>2. a[1] = x.dst /\ a[2] = x.seen
          BY <5>1
        <5> QED BY <3>3, <5>1, <5>2
      <4> QED BY <4>1, <4>2
    <3> QED BY <1>3, <3>2, <3>4
  <2>2. CASE received'[n] = received[n] /\ (round'[n] = round[n] \/ received[n] = {})
    BY <1>2, <1>3, <2>2 DEF EvidenceSound
  <2> QED BY <2>1, <2>2, TryMoves
<1>8. \A a \in incoming'[n] : Hop(n, round'[n], a[1], a[2]) \in opened'[n]
  <2>1. CASE DoesCollectArrival(n)
    <3>1. PICK p \in arrivals[n] :
            incoming'[n] = incoming[n] \cup IF p.round = round[n] THEN {<<p.dst, p.seen>>} ELSE {}
      BY <2>1 DEF DoesCollectArrival
    <3>2. p \in opened[n] /\ p.to = n /\ p = Hop(n, p.round, p.dst, p.seen)
      BY <1>1, <1>2, ProbeFacts DEF EvidenceSound
    <3>3. round'[n] = round[n] /\ opened'[n] = opened[n]
      BY <2>1 DEF DoesCollectArrival, PhaseKept
    <3>4. ASSUME NEW a \in incoming'[n] PROVE Hop(n, round[n], a[1], a[2]) \in opened[n]
      <4>1. CASE a \in incoming[n]
        BY <1>2, <4>1 DEF EvidenceSound
      <4>2. CASE a \notin incoming[n]
        <5>1. a = <<p.dst, p.seen>> /\ p.round = round[n]
          BY <3>1, <3>4, <4>2
        <5>2. a[1] = p.dst /\ a[2] = p.seen
          BY <5>1
        <5> QED BY <3>2, <5>1, <5>2
      <4> QED BY <4>1, <4>2
    <3> QED BY <3>3, <3>4
  <2>2. CASE incoming'[n] = incoming[n] /\ (round'[n] = round[n] \/ incoming[n] = {})
    BY <1>2, <2>2, OpenedGrows DEF EvidenceSound
  <2> QED BY <2>1, <2>2, TryMoves
<1>9. pc'[n] \notin Collecting => sent'[n] = {} /\ received'[n] = {} /\ incoming'[n] = {}
  BY TryMoves
<1> QED BY <1>5, <1>6, <1>7, <1>8, <1>9 DEF EvidenceSound

LEMMA PeerEvidence ==
  ASSUME TypeOK, TypeOK', Evidence, NEW n \in Nodes, PeerKeeps(n), Does(n), net \subseteq net'
  PROVE  EvidenceSound(Peer(n))'
<1> DEFINE m == Peer(n)
<1>1. m \in Nodes /\ Peer(m) = n /\ inbox[m] \in Seq(Control) /\ net \subseteq Probe
  BY NodeFacts DEF TypeOK
<1>2. EvidenceSound(m)
  BY <1>1 DEF Evidence
<1>3. /\ opened'[m] = opened[m] /\ arrivals'[m] = arrivals[m] /\ sent'[m] = sent[m]
      /\ received'[m] = received[m] /\ incoming'[m] = incoming[m] /\ pc'[m] = pc[m]
      /\ round'[m] = round[m]
  BY DEF PeerKeeps
<1>4. opened[n] \subseteq opened'[n]
  BY OpenedGrows
<1>5. ASSUME NEW x \in Queued(m)', x.code = "ProbeReport" PROVE Reported(m, x) \in opened'[n]
  <2>1. CASE x \in Queued(m)
    BY <1>1, <1>2, <1>4, <1>5, <2>1 DEF EvidenceSound
  <2>2. CASE x \notin Queued(m)
    <3>1. \A y \in Control : inbox'[m] = Append(inbox[m], y) => Queued(m)' = Queued(m) \cup {y}
      BY <1>1, AppendFacts DEF Queued
    <3>2. PICK p \in net : /\ p.to = n /\ opened'[n] = opened[n] \cup {p}
                           /\ inbox'[m] = Append(inbox[m], ProbeReport(p))
      BY <1>5, <2>2, <3>1, PeerInbox DEF Queued
    <3>3. x = ProbeReport(p)
      BY <1>1, <1>5, <2>2, <3>1, <3>2, BuiltMessages
    <3> QED BY <1>1, <3>2, <3>3, ReportFacts
  <2> QED BY <2>1, <2>2
<1> QED BY <1>1, <1>2, <1>3, <1>4, <1>5 DEF EvidenceSound

LEMMA OwnReported ==
  ASSUME TypeOK, TypeOK', Evidence, NEW n \in Nodes, Does(n)
  PROVE  ReportedOnce(n)'
<1>1. inbox[n] \in Seq(Control) /\ ReportedOnce(n)
  BY DEF TypeOK, Evidence
<1>2. CASE inbox'[n] = inbox[n]
  BY <1>1, <1>2 DEF ReportedOnce
<1>3. CASE inbox[n] # <<>> /\ inbox'[n] = Tail(inbox[n])
  <2> DEFINE q == inbox[n]
             t == Tail(q)
  <2>1. /\ Len(q) \in Nat /\ Len(t) = Len(q) - 1
        /\ \A i \in 1 .. Len(t) : i + 1 \in 1 .. Len(q) /\ t[i] = q[i + 1]
    BY <1>1, <1>3, TailFacts
  <2>2. \A i, j \in 1 .. Len(t) : t[i].code = "ProbeReport" /\ t[i] = t[j] => i = j
    <3> SUFFICES ASSUME NEW i \in 1 .. Len(t), NEW j \in 1 .. Len(t),
                        t[i].code = "ProbeReport", t[i] = t[j]
                 PROVE  i = j
      OBVIOUS
    <3>1. i + 1 = j + 1
      BY <1>1, <2>1 DEF ReportedOnce
    <3>2. i \in Int /\ j \in Int
      BY <2>1
    <3> HIDE DEF t
    <3> QED BY <3>1, <3>2
  <2> QED BY <1>3, <2>2 DEF ReportedOnce
<1>4. CASE inbox'[n] = <<>>
  BY <1>4, EmptyFacts DEF ReportedOnce
<1> QED BY <1>2, <1>3, <1>4, OwnInbox

LEMMA PeerReported ==
  ASSUME TypeOK, TypeOK', Evidence, NEW n \in Nodes, PeerKeeps(n), Does(n)
  PROVE  ReportedOnce(Peer(n))'
<1> DEFINE m == Peer(n)
           q == inbox[m]
<1>1. m \in Nodes /\ Peer(m) = n /\ q \in Seq(Control) /\ ReportedOnce(m) /\ EvidenceSound(m)
      /\ net \subseteq Probe
  BY NodeFacts DEF TypeOK, Evidence
<1>2. ASSUME NEW y \in Control, inbox'[m] = Append(q, y),
             y.code = "ProbeReport" => \A i \in 1 .. Len(q) : q[i] # y
      PROVE  ReportedOnce(m)'
  <2> DEFINE t == Append(q, y)
  <2>1. /\ Len(q) \in Nat /\ t[Len(q) + 1] = y
        /\ \A i \in 1 .. Len(t) : i \in 1 .. Len(q) \/ i = Len(q) + 1
        /\ \A i \in 1 .. Len(q) : t[i] = q[i]
    BY <1>1, AppendFacts
  <2>2. \A i, j \in 1 .. Len(t) : t[i].code = "ProbeReport" /\ t[i] = t[j] => i = j
    <3> SUFFICES ASSUME NEW i \in 1 .. Len(t), NEW j \in 1 .. Len(t),
                        t[i].code = "ProbeReport", t[i] = t[j]
                 PROVE  i = j
      OBVIOUS
    <3>1. CASE i \in 1 .. Len(q) /\ j \in 1 .. Len(q)
      BY <1>1, <2>1, <3>1 DEF ReportedOnce
    <3>2. CASE i = Len(q) + 1 /\ j \in 1 .. Len(q)
      BY <1>2, <2>1, <3>2
    <3>3. CASE i \in 1 .. Len(q) /\ j = Len(q) + 1
      BY <1>2, <2>1, <3>3
    <3> QED BY <2>1, <3>1, <3>2, <3>3
  <2> QED BY <1>2, <2>2 DEF ReportedOnce
<1>3. CASE inbox'[m] = inbox[m]
  BY <1>1, <1>3 DEF ReportedOnce
<1>4. CASE \E x \in Control : x.code # "ProbeReport" /\ inbox'[m] = Append(inbox[m], x)
  BY <1>2, <1>4
<1>5. CASE \E p \in net : /\ p.to = n /\ p \notin opened[n]
                          /\ inbox'[m] = Append(inbox[m], ProbeReport(p))
  <2>1. PICK p \in net : /\ p.to = n /\ p \notin opened[n]
                         /\ inbox'[m] = Append(inbox[m], ProbeReport(p))
    BY <1>5
  <2>2. ASSUME NEW i \in 1 .. Len(q), q[i] = ProbeReport(p) PROVE FALSE
    <3>1. q[i] \in Queued(m) /\ q[i].code = "ProbeReport"
      BY <1>1, <2>2, BuiltMessages DEF Queued, In
    <3>2. Reported(m, q[i]) \in opened[n]
      BY <1>1, <3>1 DEF EvidenceSound
    <3> QED BY <1>1, <2>1, <2>2, <3>2, ReportFacts
  <2>3. ProbeReport(p) \in Control
    BY <1>1, BuiltMessages
  <2> QED BY <1>2, <2>1, <2>2, <2>3
<1> QED BY <1>3, <1>4, <1>5, PeerInbox

\* What was opened in a round is of a probe sent in it.
LEMMA OpenedFacts ==
  ASSUME TypeOK, Evidence, NEW n \in Nodes, NEW p \in opened[n]
  PROVE  /\ p \in net /\ p \in Probe /\ p.to = n /\ p.dst \in env.infer[n][p.round]
         /\ p.seen = env.nat[Peer(n)][p.dst]
         /\ p.round = round[n] => pc[n] # "infer"
         /\ p.round = round[Peer(n)] => pc[Peer(n)] \notin {"infer", "candidates"}
<1>1. p \in net /\ p.to = n /\ p \in Probe
  BY DEF Evidence, EvidenceSound, TypeOK
<1>2. ProbeSound(p)
  BY <1>1 DEF Evidence, NetSound
<1> QED BY <1>1, <1>2 DEF ProbeSound

LEMMA OwnKept ==
  ASSUME TypeOK, TypeOK', Phase, Line, MessagesSound, Evidence, NEW n \in Nodes, PeerKeeps(n), Does(n)
  PROVE  EvidenceKept(n)'
<1> DEFINE m == Peer(n)
<1>1. m \in Nodes /\ Peer(m) = n /\ inbox[n] \in Seq(Control)
  BY NodeFacts DEF TypeOK
<1>2. EvidenceKept(n) /\ EvidenceSound(n)
  BY DEF Evidence
<1>3. opened'[m] = opened[m] /\ env' = env
  BY DEF PeerKeeps
<1>4. net \subseteq net'
  BY NetStep
<1>5. pc'[n] \in Collecting => sent'[n] = env.infer[m][round'[n]]
  <2>1. CASE DoesTry(n)
    BY <2>1, TryFacts DEF DoesTry
  <2>2. CASE ~DoesTry(n)
    <3>1. pc'[n] \in Collecting => pc[n] \in Collecting /\ round'[n] = round[n] /\ sent'[n] = sent[n]
      BY <2>2 DEF Does, DoesInfer, DoesSkip, DoesArrive, DoesCollectArrival, DoesCollectReport,
           DoesBarrier, DoesReporting, DoesFinish, DoesConnect, DoesObserve, DoesAdvance, DoesHandoff,
           DoesTransmit, EndsStuck, EndsExhausted, EndsFailed, Clears, PhaseKept, Collecting,
           EvidenceSame, TryKept
    <3> QED BY <1>2, <3>1 DEF EvidenceKept
  <2> QED BY <2>1, <2>2
<1>6. pc'[n] \notin {"infer", "candidates", "ended"} =>
        \A d \in env.infer[m][round'[n]] : Hop(m, round'[n], d, env.nat[n][d]) \in net'
  <2>1. CASE DoesTry(n)
    BY <2>1, TryFacts DEF DoesTry
  <2>2. CASE ~DoesTry(n)
    <3>1. pc'[n] \notin {"infer", "candidates", "ended"} =>
            pc[n] \notin {"infer", "candidates", "ended"} /\ round'[n] = round[n]
      BY <2>2 DEF Does, DoesInfer, DoesSkip, DoesArrive, DoesCollectArrival, DoesCollectReport,
           DoesBarrier, DoesReporting, DoesFinish, DoesConnect, DoesObserve, DoesAdvance, DoesHandoff,
           DoesTransmit, EndsStuck, EndsExhausted, EndsFailed, Clears, PhaseKept, Collecting
    <3> QED BY <1>2, <1>4, <3>1 DEF EvidenceKept
  <2> QED BY <2>1, <2>2
<1>7. ASSUME pc'[n] \in Collecting \cup {"candidates"}, NEW p \in opened'[n], p.round = round'[n]
      PROVE  p \in arrivals'[n] \/ <<p.dst, p.seen>> \in incoming'[n]
  <2>1. CASE DoesInfer(n)
    <3>1. p \in opened[n] /\ p.round = round[n] /\ pc[n] = "infer"
      BY <1>7, <2>1 DEF DoesInfer, EvidenceSame, ProbesKept
    <3> QED BY <3>1, OpenedFacts
  <2>2. CASE ~DoesInfer(n)
    <3>1. pc[n] \in Collecting \cup {"candidates"} /\ round'[n] = round[n]
      BY <1>7, <2>2 DEF Does, DoesSkip, DoesTry, DoesArrive, DoesCollectArrival, DoesCollectReport,
           DoesBarrier, DoesReporting, DoesFinish, DoesConnect, DoesObserve, DoesAdvance, DoesHandoff,
           DoesTransmit, EndsStuck, EndsExhausted, EndsFailed, Clears, PhaseKept, Collecting
    <3>2. p \in opened[n] => p \in arrivals[n] \/ <<p.dst, p.seen>> \in incoming[n]
      BY <1>2, <1>7, <3>1 DEF EvidenceKept
    <3>3. CASE DoesArrive(n)
      BY <1>7, <3>2, <3>3 DEF DoesArrive, TryKept
    <3>4. CASE DoesCollectArrival(n)
      <4>1. PICK q \in arrivals[n] :
              /\ arrivals'[n] = arrivals[n] \ {q}
              /\ incoming'[n] = incoming[n] \cup IF q.round = round[n] THEN {<<q.dst, q.seen>>} ELSE {}
        BY <3>4 DEF DoesCollectArrival
      <4>2. p \in opened[n]
        BY <1>7, <3>4 DEF DoesCollectArrival
      <4> QED BY <1>7, <3>1, <3>2, <4>1, <4>2
    <3>5. CASE ~DoesArrive(n) /\ ~DoesCollectArrival(n)
      <4>1. opened'[n] = opened[n] /\ arrivals'[n] = arrivals[n] /\ incoming'[n] = incoming[n]
        BY <1>7, <2>2, <3>5 DEF Does, DoesSkip, DoesTry, DoesCollectReport,
             DoesBarrier, DoesReporting, DoesFinish, DoesConnect, DoesObserve, DoesAdvance, DoesHandoff,
             DoesTransmit, EndsStuck, EndsExhausted, EndsFailed, Clears, Collecting, EvidenceSame,
             TryKept, ProbesKept
      <4> QED BY <1>7, <3>2, <4>1
    <3> QED BY <3>3, <3>4, <3>5
  <2> QED BY <2>1, <2>2
<1>8. ASSUME pc'[n] \in Collecting, NEW p \in opened[m], p.round = round'[n]
      PROVE  ProbeReport(p) \in Queued(n)' \/ <<p.dst, p.seen>> \in received'[n]
  <2>0. p \in Probe /\ p.dst \in env.infer[m][p.round]
        /\ (p.round = round[n] => pc[n] \notin {"infer", "candidates"})
    BY <1>1, OpenedFacts
  <2>1. CASE DoesTry(n)
    BY <1>8, <2>0, <2>1 DEF DoesTry
  <2>2. CASE ~DoesTry(n)
    <3>1. pc[n] \in Collecting /\ round'[n] = round[n]
      BY <1>8, <2>2 DEF Does, DoesInfer, DoesSkip, DoesArrive, DoesCollectArrival, DoesCollectReport,
           DoesBarrier, DoesReporting, DoesFinish, DoesConnect, DoesObserve, DoesAdvance, DoesHandoff,
           DoesTransmit, EndsStuck, EndsExhausted, EndsFailed, Clears, PhaseKept, Collecting
    <3>2. ProbeReport(p) \in Queued(n) \/ <<p.dst, p.seen>> \in received[n]
      BY <1>2, <1>8, <3>1 DEF EvidenceKept
    <3>3. CASE DoesCollectReport(n)
      <4> DEFINE x == Head(inbox[n])
      <4>1. inbox[n] # <<>> /\ inbox'[n] = Tail(inbox[n])
            /\ received'[n] = received[n] \cup IF x.dst \in sent[n] /\ x.round = round[n]
                                                 THEN {<<x.dst, x.seen>>} ELSE {}
        BY <3>3 DEF DoesCollectReport
      <4>2. Queued(n) \subseteq Queued(n)' \cup {x}
        BY <1>1, <4>1, TailFacts DEF Queued
      <4>3. CASE x = ProbeReport(p)
        <5>1. x.dst = p.dst /\ x.round = p.round /\ x.seen = p.seen
          BY <2>0, <4>3, BuiltMessages
        <5>2. x.dst \in sent[n] /\ x.round = round[n]
          BY <1>2, <1>8, <2>0, <3>1, <5>1 DEF EvidenceKept
        <5> HIDE DEF x
        <5> QED BY <4>1, <5>1, <5>2
      <4> QED BY <3>2, <4>1, <4>2, <4>3
    <3>4. CASE DoesBarrier(n)
      <4> DEFINE x == Head(inbox[n])
      <4>1. inbox[n] # <<>> /\ inbox'[n] = Tail(inbox[n]) /\ x.code = "RoundDone"
            /\ received'[n] = received[n]
        BY <3>4 DEF DoesBarrier, IsBarrier, EvidenceSame, TryKept
      <4>2. Queued(n) \subseteq Queued(n)' \cup {x}
        BY <1>1, <4>1, TailFacts DEF Queued
      <4>3. x # ProbeReport(p)
        BY <2>0, <4>1, BuiltMessages
      <4> QED BY <3>2, <4>1, <4>2, <4>3
    <3>5. CASE ~DoesCollectReport(n) /\ ~DoesBarrier(n)
      <4>1. inbox'[n] = inbox[n] /\ received'[n] = received[n]
        BY <1>8, <2>2, <3>1, <3>5 DEF Does, DoesInfer, DoesSkip, DoesArrive, DoesCollectArrival,
             DoesReporting, DoesFinish, DoesConnect, DoesObserve, DoesAdvance, DoesHandoff,
             DoesTransmit, EndsStuck, EndsExhausted, EndsFailed, Clears, Collecting, Waiting,
             EvidenceSame, TryKept
      <4> QED BY <3>2, <4>1 DEF Queued
    <3> QED BY <3>3, <3>4, <3>5
  <2> QED BY <2>1, <2>2
<1> QED BY <1>3, <1>5, <1>6, <1>7, <1>8 DEF EvidenceKept

LEMMA PeerKept ==
  ASSUME TypeOK, TypeOK', Phase, Line, MessagesSound, Evidence, NEW n \in Nodes, PeerKeeps(n), Does(n)
  PROVE  EvidenceKept(Peer(n))'
<1> DEFINE m == Peer(n)
<1>1. m \in Nodes /\ Peer(m) = n /\ inbox[m] \in Seq(Control) /\ net \subseteq Probe
  BY NodeFacts DEF TypeOK
<1>2. EvidenceKept(m)
  BY <1>1 DEF Evidence
<1>3. /\ opened'[m] = opened[m] /\ arrivals'[m] = arrivals[m] /\ sent'[m] = sent[m] /\ env' = env
      /\ received'[m] = received[m] /\ incoming'[m] = incoming[m] /\ pc'[m] = pc[m]
      /\ round'[m] = round[m]
  BY DEF PeerKeeps
<1>4. net \subseteq net'
  BY NetStep
<1>5. \A y \in Control : inbox'[m] = Append(inbox[m], y) => Queued(m)' = Queued(m) \cup {y}
  BY <1>1, AppendFacts DEF Queued
<1>6. \A p \in net : ProbeReport(p) \in Control
  BY <1>1, BuiltMessages
<1>7. Queued(m) \subseteq Queued(m)'
  BY <1>5, <1>6, PeerInbox DEF Queued
<1>8. ASSUME pc[m] \in Collecting, NEW p \in opened'[n], p.round = round[m]
      PROVE  ProbeReport(p) \in Queued(m)' \/ <<p.dst, p.seen>> \in received[m]
  <2>1. CASE p \in opened[n]
    BY <1>1, <1>2, <1>7, <1>8, <2>1 DEF EvidenceKept
  <2>2. CASE p \notin opened[n]
    <3>1. DoesArrive(n) /\ ~Final(m)
      BY <1>8, <2>2, OpenedMoves DEF Final, Collecting
    <3>2. PICK q \in net : opened'[n] = opened[n] \cup {q} /\ inbox'[m] = Append(inbox[m], ProbeReport(q))
      BY <3>1, PeerInbox
    <3> QED BY <1>5, <1>6, <1>8, <2>2, <3>2
  <2> QED BY <2>1, <2>2
<1> QED BY <1>1, <1>2, <1>3, <1>4, <1>8 DEF EvidenceKept

LEMMA EvidenceStep ==
  ASSUME TypeOK, TypeOK', Phase, Line, MessagesSound, Evidence, NEW n \in Nodes, PeerKeeps(n), Does(n)
  PROVE  Evidence'
<1>1. Peer(n) \in Nodes /\ \A x \in Nodes : x = n \/ x = Peer(n)
  BY NodeFacts
<1>2. NetSound' /\ net \subseteq net'
  BY NetStep
<1>3. (EvidenceSound(n) /\ ReportedOnce(n) /\ EvidenceKept(n))'
  BY <1>2, OwnEvidence, OwnReported, OwnKept
<1>4. (EvidenceSound(Peer(n)) /\ ReportedOnce(Peer(n)) /\ EvidenceKept(Peer(n)))'
  BY <1>2, PeerEvidence, PeerReported, PeerKept
<1>5. \A x \in Nodes : (EvidenceSound(x) /\ ReportedOnce(x) /\ EvidenceKept(x))'
  BY <1>1, <1>3, <1>4
<1> QED BY <1>2, <1>5 DEF Evidence

-----------------------------------------------------------------------------
(***************************************************************************)
(* The path of a round.                                                    *)
(***************************************************************************)
LiveAt(n) ==
  pc[n] = "agree" /\ path[n] # <<>> =>
    /\ Hop(Peer(n), round[n], path[n][2], path[n][1]) \in opened[Peer(n)]
    /\ Hop(n, round[n], path[n][1], path[n][2]) \in opened[n]

LEMMA LiveFacts == PathIsLive <=> \A n \in Nodes : LiveAt(n)
BY DEF PathIsLive, LiveAt, Hop

LEMMA LiveNext == PathIsLive' <=> (\A n \in Nodes : LiveAt(n))'
BY LiveFacts, PTL

LEMMA PathStep ==
  ASSUME TypeOK, TypeOK', Evidence, PathIsLive, NEW n \in Nodes, PeerKeeps(n), Does(n)
  PROVE  PathIsLive'
<1> DEFINE m == Peer(n)
<1>1. m \in Nodes /\ Peer(m) = n /\ \A x \in Nodes : x = n \/ x = m
  BY NodeFacts
<1>2. LiveAt(n) /\ LiveAt(m)
  BY <1>1, LiveFacts
<1>3. pc'[m] = pc[m] /\ path'[m] = path[m] /\ round'[m] = round[m] /\ opened'[m] = opened[m]
  BY DEF PeerKeeps
<1>4. opened[n] \subseteq opened'[n]
  BY OpenedGrows
<1>5. LiveAt(m)'
  BY <1>1, <1>2, <1>3, <1>4 DEF LiveAt
<1>6. LiveAt(n)'
  <2> SUFFICES ASSUME pc'[n] = "agree", path'[n] # <<>>
      PROVE /\ Hop(m, round'[n], path'[n][2], path'[n][1]) \in opened'[m]
            /\ Hop(n, round'[n], path'[n][1], path'[n][2]) \in opened'[n]
    BY <1>1 DEF LiveAt
  <2>1. round'[n] = round[n]
    BY AgreeFrom
  <2>2. CASE pc[n] \in Collecting
    <3>1. path'[n] = Reciprocal(n)
      BY <2>2 DEF Does, DoesInfer, DoesSkip, DoesTry, DoesArrive, DoesCollectArrival,
           DoesCollectReport, DoesBarrier, DoesReporting, DoesFinish, DoesConnect, DoesObserve,
           DoesAdvance, DoesHandoff, DoesTransmit, EndsStuck, EndsExhausted, EndsFailed, Clears,
           PhaseKept, Collecting
    <3> DEFINE a == Reciprocal(n)
    <3>2. a \in Found(n)
      BY <3>1, ReciprocalFacts
    <3>3. a \in incoming[n] /\ <<a[2], a[1]>> \in received[n]
      BY <3>2 DEF Found
    <3> HIDE DEF a
    <3>4. Hop(n, round[n], a[1], a[2]) \in opened[n] /\ Hop(m, round[n], a[2], a[1]) \in opened[m]
      BY <3>3 DEF Evidence, EvidenceSound
    <3> QED BY <1>3, <1>4, <2>1, <3>1, <3>4 DEF a
  <2>3. CASE pc[n] = "agree" /\ path'[n] = path[n]
    BY <1>2, <1>3, <1>4, <2>1, <2>3 DEF LiveAt
  <2> QED BY <2>2, <2>3, AgreeFrom
<1>7. \A x \in Nodes : LiveAt(x)'
  BY <1>1, <1>5, <1>6
<1> QED BY <1>7, LiveNext

\* What Settled says of two nodes.
SettledAt(n) == LET m == Peer(n) IN
  /\ round[m] = round[n] /\ pc[n] \notin {"infer", "candidates"} /\ pc[m] \notin {"infer", "candidates"}
  /\ \A p \in net : (p.to = n => p \in opened[n]) /\ (p.to = m => p \in opened[m])
  /\ arrivals[n] = {}
  /\ \A x \in Queued(n) : x.code # "ProbeReport"

LEMMA SettledFacts == TypeOK => \A n \in Nodes : Settled(n) <=> SettledAt(n)
<1> SUFFICES ASSUME TypeOK, NEW n \in Nodes PROVE Settled(n) <=> SettledAt(n)
  OBVIOUS
<1> DEFINE m == Peer(n)
<1>1. m \in Nodes /\ \A x \in Nodes : x = n \/ x = m
  BY NodeFacts
<1>2. inbox[n] \in Seq(Control)
  BY DEF TypeOK
<1>3. DOMAIN inbox[n] = 1 .. Len(inbox[n])
  BY <1>2
<1>4. (\A i \in DOMAIN inbox[n] : inbox[n][i].code # "ProbeReport")
      <=> \A x \in Queued(n) : x.code # "ProbeReport"
  BY <1>3 DEF Queued, In
<1>5. \A p \in net : p.to \in Nodes
  BY ProbeFacts DEF TypeOK
<1>6. (\A p \in net : p \in opened[p.to])
      <=> \A p \in net : (p.to = n => p \in opened[n]) /\ (p.to = m => p \in opened[m])
  BY <1>1, <1>5
<1>7. (\A x \in Nodes : round[x] = round[n] /\ pc[x] \notin {"infer", "candidates"})
      <=> (round[m] = round[n] /\ pc[n] \notin {"infer", "candidates"} /\ pc[m] \notin {"infer", "candidates"})
  BY <1>1
<1> QED BY <1>4, <1>6, <1>7 DEF Settled, SettledAt

LEMMA SettledNext == TypeOK' => (\A n \in Nodes : Settled(n) <=> SettledAt(n))'
BY SettledFacts, PTL

\* With all the evidence of a round in, what a node found is what the NATs allow.
LEMMA FoundAll ==
  ASSUME TypeOK, Phase, Verdicts, Evidence, Calm, env.calm, NEW n \in Nodes, pc[n] \in Collecting,
         SettledAt(n)
  PROVE  Reciprocal(n) = Best(n, round[n])
<1> DEFINE m == Peer(n)
           r == round[n]
<1>1. m \in Nodes /\ Peer(m) = n /\ m # n /\ r \in Rounds /\ env \in Environments
  BY NodeFacts DEF TypeOK
<1>2. EvidenceSound(n) /\ EvidenceKept(n) /\ EvidenceKept(m)
  BY <1>1 DEF Evidence
<1>3. pc[m] # "ended"
  <2> SUFFICES ASSUME pc[m] = "ended" PROVE FALSE
    OBVIOUS
  <2>1. ~Final(n) /\ verdict[n].reason = "open"
    BY DEF Final, Collecting, Phase, PhaseAt
  <2>2. verdict[m].reason \in {"no-progress", "budget-exhausted"}
    BY <1>1, <2>1 DEF Calm, CalmAt
  <2> QED BY <1>1, <2>1, <2>2 DEF Verdicts, StuckTogether, ExhaustedTogether, Collecting
<1>4. ASSUME NEW a \in Found(n) PROVE a \in MutualAt(n, r)
  <2>1. a \in incoming[n] /\ <<a[2], a[1]>> \in received[n]
    BY DEF Found
  <2>2. a = <<a[1], a[2]>> /\ a[1] \in Endpoints /\ a[2] \in Endpoints
    BY <2>1 DEF TypeOK
  <2>3. Hop(n, r, a[1], a[2]) \in opened[n] /\ Hop(m, r, a[2], a[1]) \in opened[m]
    BY <1>2, <2>1 DEF EvidenceSound
  <2>4. a[1] \in env.infer[n][r] /\ a[2] = env.nat[m][a[1]]
    BY <1>1, <2>2, <2>3, OpenedFacts, HopFacts
  <2>5. a[2] \in env.infer[m][r] /\ a[1] = env.nat[n][a[2]]
    BY <1>1, <2>2, <2>3, OpenedFacts, HopFacts
  <2> QED BY <2>2, <2>4, <2>5 DEF MutualAt
<1>5. ASSUME NEW a \in MutualAt(n, r) PROVE a \in Found(n)
  <2>1. /\ a = <<a[1], a[2]>> /\ a[1] \in env.infer[n][r] /\ a[2] \in env.infer[m][r]
        /\ env.nat[n][a[2]] = a[1] /\ env.nat[m][a[1]] = a[2]
    BY DEF MutualAt
  <2>2. a[1] \in Endpoints /\ a[2] \in Endpoints
    BY <1>1, <2>1, EnvFacts
  <2> DEFINE p == Hop(m, r, a[2], a[1])
             q == Hop(n, r, a[1], a[2])
  <2>3. p \in net /\ q \in net
    <3>1. p \in net
      BY <1>2, <2>1 DEF EvidenceKept, Collecting
    <3>2. round[m] = r /\ pc[m] \notin {"infer", "candidates", "ended"}
      BY <1>3 DEF SettledAt
    <3>3. q \in net
      BY <1>1, <1>2, <2>1, <3>2 DEF EvidenceKept
    <3> QED BY <3>1, <3>3
  <2>4. /\ p \in Probe /\ p.to = m /\ p.round = r /\ p.dst = a[2] /\ p.seen = a[1]
        /\ q \in Probe /\ q.to = n /\ q.round = r /\ q.dst = a[1] /\ q.seen = a[2]
    BY <1>1, <2>2, HopFacts
  <2> HIDE DEF p, q
  <2>5. p \in opened[m] /\ q \in opened[n]
    BY <2>3, <2>4 DEF SettledAt
  <2>6. <<a[1], a[2]>> \in incoming[n]
    BY <1>2, <2>4, <2>5 DEF EvidenceKept, SettledAt
  <2>7. ProbeReport(p) \notin Queued(n)
    BY <2>4, BuiltMessages DEF SettledAt
  <2>8. <<a[2], a[1]>> \in received[n]
    BY <1>2, <2>4, <2>5, <2>7 DEF EvidenceKept
  <2> QED BY <2>1, <2>6, <2>8 DEF Found
<1>6. Found(n) = MutualAt(n, r)
  BY <1>4, <1>5
<1> QED BY <1>6, ReciprocalFacts DEF Best

LEMMA SettledOwn ==
  ASSUME TypeOK, TypeOK', Calm, env.calm, NEW n \in Nodes, PeerKeeps(n), Does(n), pc'[n] = "reporting"
  PROVE  SettledAt(n)'
<1> DEFINE m == Peer(n)
<1>1. m \in Nodes /\ Peer(m) = n /\ inbox[n] \in Seq(Control)
  BY NodeFacts DEF TypeOK
<1>2. pc'[m] = pc[m] /\ round'[m] = round[m] /\ opened'[m] = opened[m]
  BY DEF PeerKeeps
<1>3. CASE DoesReporting(n)
  <2>1. SettledAt(n)
    BY <1>3, SettledFacts DEF DoesReporting
  <2> QED BY <1>2, <1>3, <2>1 DEF SettledAt, DoesReporting, EvidenceSame, ProbesKept, Queued
<1>4. CASE ~DoesReporting(n)
  <2>1. pc[n] = "reporting" /\ round'[n] = round[n]
    BY <1>4 DEF Does, DoesInfer, DoesSkip, DoesTry, DoesArrive, DoesCollectArrival, DoesCollectReport,
       DoesBarrier, DoesFinish, DoesConnect, DoesObserve, DoesAdvance, DoesHandoff,
       DoesTransmit, EndsStuck, EndsExhausted, EndsFailed, Clears, PhaseKept
  <2>2. SettledAt(n)
    BY <2>1, SettledFacts DEF Calm, CalmAt
  <2>3. ~DoesArrive(n) /\ ~DoesCollectArrival(n)
    BY <2>2 DEF SettledAt, DoesArrive, DoesCollectArrival
  <2>4. ~DoesCollectReport(n)
    BY <1>1, <2>2, TailFacts DEF SettledAt, DoesCollectReport, Queued
  <2>5. DoesBarrier(n)
    BY <1>4, <2>1, <2>3, <2>4 DEF Does, DoesInfer, DoesSkip, DoesTry,
       DoesFinish, DoesConnect, DoesObserve, DoesAdvance, DoesHandoff,
       DoesTransmit, EndsStuck, EndsExhausted, EndsFailed, Clears, Waiting
  <2>6. net' = net /\ arrivals'[n] = arrivals[n] /\ opened'[n] = opened[n]
    BY <2>5 DEF DoesBarrier, EvidenceSame, ProbesKept
  <2>7. Queued(n)' \subseteq Queued(n)
    BY ActorFacts
  <2> QED BY <1>2, <2>1, <2>2, <2>6, <2>7 DEF SettledAt
<1> QED BY <1>3, <1>4

LEMMA SettledPeer ==
  ASSUME TypeOK, TypeOK', Phase, Line, NEW n \in Nodes, PeerKeeps(n), Does(n),
         pc[Peer(n)] = "reporting", SettledAt(Peer(n))
  PROVE  SettledAt(Peer(n))'
<1> DEFINE m == Peer(n)
<1>1. m \in Nodes /\ Peer(m) = n /\ inbox[m] \in Seq(Control) /\ TurnAt(n) /\ TurnAt(m)
  BY NodeFacts, TurnsEverywhere DEF TypeOK
<1>2. pc'[m] = pc[m] /\ round'[m] = round[m] /\ opened'[m] = opened[m] /\ arrivals'[m] = arrivals[m]
  BY DEF PeerKeeps
<1>3. round[n] = round[m] /\ pc[n] \notin {"infer", "candidates"}
      /\ \A p \in net : p.to = n => p \in opened[n]
  BY <1>1 DEF SettledAt
<1>4. Top(m) = 2 * round[n] - 1
  BY <1>1, <1>3 DEF TurnAt, Collecting
<1>5. ~DoesAdvance(n)
  <2> SUFFICES ASSUME DoesAdvance(n) PROVE FALSE
    OBVIOUS
  <2>1. CASE pc[n] = "observe"
    <3>1. Due(n) <= Top(m) + 1
      BY DEF Line
    <3> QED BY <1>1, <1>4, <2>1, <3>1 DEF TurnAt
  <2>2. CASE pc[n] = "agree"
    <3>1. PICK y \in Control : y.code = "RoundDone" /\ y.round = round[n] /\ y \in Unread(n)
      BY <2>2, TakesFacts DEF DoesAdvance, IsBarrier
    <3>2. 2 * round[n] <= Top(m)
      BY <2>2, <3>1, BarrierSent DEF Final
    <3> QED BY <1>1, <1>4, <3>2 DEF TurnAt
  <2> QED BY <2>1, <2>2 DEF DoesAdvance
<1>6. round'[n] = round[n] /\ pc'[n] \notin {"infer", "candidates"}
  BY <1>3, <1>5, PhaseMoves
<1>7. ~DoesArrive(n)
  BY <1>3 DEF DoesArrive
<1>8. net' = net /\ opened'[n] = opened[n]
  BY <1>3, <1>7, NetMoves, OpenedMoves DEF DoesTry
<1>9. \A x \in Queued(m)' : x.code # "ProbeReport"
  <2>1. \A y \in Control : inbox'[m] = Append(inbox[m], y) => Queued(m)' = Queued(m) \cup {y}
    BY <1>1, AppendFacts DEF Queued
  <2>2. \A x \in Queued(m) : x.code # "ProbeReport"
    BY DEF SettledAt
  <2>3. \/ Queued(m)' = Queued(m)
        \/ \E y \in Control : y.code # "ProbeReport" /\ Queued(m)' = Queued(m) \cup {y}
    BY <1>3, <2>1, PeerInbox DEF Queued
  <2> QED BY <2>2, <2>3
<1>10. SettledAt(m)
  OBVIOUS
<1> QED BY <1>1, <1>2, <1>6, <1>8, <1>9, <1>10 DEF SettledAt

LEMMA CalmStep ==
  ASSUME TypeOK, TypeOK', Phase, Line, MessagesSound, Verdicts, Evidence, Calm,
         NEW n \in Nodes, PeerKeeps(n), Does(n)
  PROVE  Calm'
<1> DEFINE m == Peer(n)
<1>1. m \in Nodes /\ Peer(m) = n /\ ~Final(n) /\ \A x \in Nodes : x = n \/ x = m
  BY NodeFacts, ActorFacts
<1>2. pc'[m] = pc[m] /\ round'[m] = round[m] /\ path'[m] = path[m] /\ env' = env
      /\ verdict'[m] = verdict[m]
  BY DEF PeerKeeps
<1>3. CalmAt(n) /\ CalmAt(m)
  BY <1>1 DEF Calm
<1>4. \A x \in Nodes, r \in Rounds : Best(x, r)' = Best(x, r)
  BY <1>2 DEF Best, MutualAt
<1>5. ASSUME env.calm PROVE CalmAt(n)'
  <2>1. ASSUME pc'[n] = "ended", ~Final(m)' PROVE verdict'[n].reason \in {"no-progress", "budget-exhausted"}
    <3>1. ~Final(m) /\ pc[m] # "ended"
      BY <1>2, <2>1 DEF Final
    <3>2. ~EndsFailed(n)
      <4>1. DiscoveryEnd \notin Queued(n)
        BY <1>1, <3>1, BuiltMessages DEF MessagesSound, EndSound
      <4> QED BY <1>5, <3>1, <4>1 DEF EndsFailed
    <3>3. EndsStuck(n) \/ EndsExhausted(n)
      BY <1>1, <2>1, <3>2 DEF Does, DoesInfer, DoesSkip, DoesTry, DoesArrive, DoesCollectArrival,
           DoesCollectReport, DoesBarrier, DoesReporting, DoesFinish, DoesConnect, DoesObserve,
           DoesAdvance, DoesHandoff, DoesTransmit, PhaseKept, Final
    <3> QED BY <3>3 DEF EndsStuck, EndsExhausted, Concludes, Verdict
  <2>2. pc'[n] = "reporting" => Settled(n)'
    BY <1>5, SettledOwn, SettledNext
  <2>3. ASSUME pc'[n] = "agree" PROVE path'[n] = Best(n, round[n]) /\ round'[n] = round[n]
    <3>1. CASE pc[n] \in Collecting
      <4>1. DoesFinish(n)
        BY <2>3, <3>1 DEF Does, DoesInfer, DoesSkip, DoesTry, DoesArrive, DoesCollectArrival,
             DoesCollectReport, DoesBarrier, DoesReporting, DoesFinish, DoesConnect, DoesObserve,
             DoesAdvance, DoesHandoff, DoesTransmit, EndsStuck, EndsExhausted, EndsFailed, Clears,
             PhaseKept, Collecting
      <4>2. Settled(n)
        BY <1>3, <1>5, <3>1, <4>1 DEF DoesFinish, CalmAt, Collecting
      <4>3. Reciprocal(n) = Best(n, round[n])
        BY <1>5, <3>1, <4>2, SettledFacts, FoundAll
      <4> QED BY <4>1, <4>3 DEF DoesFinish
    <3>2. CASE pc[n] = "agree" /\ path'[n] = path[n]
      BY <1>3, <1>5, <2>3, <3>2, AgreeFrom DEF CalmAt
    <3> QED BY <2>3, <3>1, <3>2, AgreeFrom
  <2>4. pc'[n] = "agree" => path'[n] = Best(n, round[n])' /\ round'[n] = round[n]
    BY <1>4, <2>3 DEF Best, MutualAt, TypeOK
  <2> QED BY <1>1, <1>2, <2>1, <2>2, <2>4 DEF CalmAt
<1>6. ASSUME env.calm PROVE CalmAt(m)'
  <2>1. pc[m] = "ended" => verdict[m].reason \in {"no-progress", "budget-exhausted"}
    BY <1>1, <1>3, <1>6 DEF CalmAt
  <2>2. pc[m] = "reporting" => Settled(m)'
    BY <1>1, <1>3, <1>6, SettledFacts, SettledPeer, SettledNext DEF CalmAt
  <2>3. pc[m] = "agree" => path[m] = Best(m, round[m])
    BY <1>3, <1>6 DEF CalmAt
  <2>4. Best(m, round[m])' = Best(m, round[m])
    BY <1>2 DEF Best, MutualAt
  <2> QED BY <1>1, <1>2, <2>1, <2>2, <2>3, <2>4 DEF CalmAt
<1>7. CalmAt(n)' /\ CalmAt(m)'
  <2>1. CASE env.calm
    BY <1>5, <1>6, <2>1
  <2>2. CASE ~env.calm
    BY <1>2, <2>2 DEF CalmAt
  <2> QED BY <2>1, <2>2
<1>8. \A x \in Nodes : CalmAt(x)'
  BY <1>1, <1>7
<1> QED BY <1>8 DEF Calm

-----------------------------------------------------------------------------
(***************************************************************************)
(* The invariant.                                                          *)
(***************************************************************************)
LEMMA InitFacts ==
  ASSUME Init
  PROVE  TypeOK /\ SearchInv
<1>1. \A n \in Nodes : /\ pc[n] = "infer" /\ round[n] = 1 /\ changed[n] = TRUE /\ sent[n] = {}
                       /\ received[n] = {} /\ incoming[n] = {} /\ path[n] = <<>>
                       /\ pending[n] = NoMessage /\ verdict[n].reason = "open" /\ inbox[n] = <<>>
                       /\ arrivals[n] = {} /\ opened[n] = {}
  BY DEF Init, Verdict
<1>2. net = {}
  BY DEF Init
<1>3. TypeOK
  BY RoundFacts, EmptyFacts DEF Init, TypeOK, Verdict, Reasons, Paths
<1>4. \A n \in Nodes : Peer(n) \in Nodes /\ TurnAt(n) /\ Len(inbox[n]) = 0 /\ Queued(n) = {}
  BY <1>1, <1>3, NodeFacts, TurnsEverywhere, EmptyFacts DEF Queued
<1>5. Phase
  BY <1>1 DEF Phase, PhaseAt
<1>6. Line
  <2> SUFFICES ASSUME NEW n \in Nodes PROVE Due(n) <= Top(Peer(n)) + 1 /\ LineAt(n)
    BY DEF Line
  <2>1. Due(n) = 1 /\ Top(Peer(n)) = 0
    BY <1>1, <1>4 DEF TurnAt
  <2>2. Len(inbox[n]) = 0
    BY <1>4
  <2> QED BY <2>1, <2>2 DEF LineAt, Lined
<1>7. MessagesSound
  BY <1>1, <1>4, BuiltMessages DEF MessagesSound, CandidatesSound, BarrierSound, EndSound, Unread
<1>8. Verdicts
  BY <1>1, <1>4 DEF Verdicts, ConnectedTogether, ExhaustedTogether, StuckTogether, TriedTogether
<1>9. Evidence
  <2>1. \A n \in Nodes : EvidenceSound(n)
    BY <1>1, <1>4 DEF EvidenceSound
  <2>2. \A n \in Nodes : ReportedOnce(n)
    BY <1>4 DEF ReportedOnce
  <2>3. \A n \in Nodes : EvidenceKept(n)
    BY <1>1, <1>4 DEF EvidenceKept, Collecting
  <2> QED BY <1>2, <2>1, <2>2, <2>3 DEF Evidence, NetSound
<1>10. PathIsLive /\ Calm
  BY <1>1 DEF PathIsLive, Calm, CalmAt
<1> QED BY <1>3, <1>5, <1>6, <1>7, <1>8, <1>9, <1>10 DEF SearchInv

LEMMA StutterFacts ==
  ASSUME TypeOK, SearchInv, UNCHANGED vars
  PROVE  TypeOK' /\ SearchInv'
<1> USE DEF vars, SearchInv
<1>1. TypeOK' /\ Phase'
  BY DEF TypeOK, Phase, PhaseAt
<1>2. Line'
  <2>1. \A n \in Nodes : Peer(n) \in Nodes /\ Due(n)' = Due(n) /\ Top(n)' = Top(n) /\ (Final(n)' <=> Final(n))
    BY NodeFacts DEF Due, Top, Final
  <2>2. \A n \in Nodes : Numbers(n)' = Numbers(n) /\ inbox'[n] = inbox[n] /\ pc'[n] = pc[n]
    BY DEF Numbers
  <2>3. ASSUME NEW n \in Nodes PROVE Due(n)' <= Top(Peer(n))' + 1 /\ LineAt(n)'
    <3>1. Due(n) <= Top(Peer(n)) + 1 /\ LineAt(n)
      BY DEF Line
    <3> QED BY <2>1, <2>2, <3>1 DEF LineAt, Lined
  <2> QED BY <2>3 DEF Line
<1>3. MessagesSound'
  BY DEF MessagesSound, CandidatesSound, BarrierSound, EndSound, Queued, Unread, Split, Final
<1>4. Verdicts'
  BY DEF Verdicts, ConnectedTogether, ExhaustedTogether, StuckTogether, TriedTogether
<1>5. Evidence'
  BY DEF Evidence, NetSound, ProbeSound, EvidenceSound, ReportedOnce, EvidenceKept, Queued
<1>6. PathIsLive'
  BY DEF PathIsLive
<1>7. Calm'
  BY DEF Calm, CalmAt, Final, Settled, Best, MutualAt
<1> QED BY <1>1, <1>2, <1>3, <1>4, <1>5, <1>6, <1>7

LEMMA StepFacts ==
  ASSUME TypeOK, SearchInv, Next
  PROVE  TypeOK' /\ SearchInv'
<1>1. Phase /\ Line /\ MessagesSound /\ Verdicts /\ Evidence /\ PathIsLive /\ Calm
  BY DEF SearchInv
<1>2. TypeOK'
  BY <1>1, Shapes
<1>3. PICK n \in Nodes : PeerKeeps(n) /\ Does(n)
  BY <1>1, Shapes
<1>4. Phase' /\ Line' /\ MessagesSound' /\ Verdicts'
  BY <1>1, <1>2, <1>3, PhaseStep, LineStep, MessagesStep, VerdictsStep
<1>5. Evidence' /\ PathIsLive' /\ Calm'
  BY <1>1, <1>2, <1>3, EvidenceStep, PathStep, CalmStep
<1> QED BY <1>2, <1>4, <1>5 DEF SearchInv

\* Every state of the search has the shape the argument needs: each node's phase fits its
\* verdict (RunPeer), what is on its way is what the receiver's next wait accepts (Line), the
\* messages describe their sender, the verdicts agree, and the probes that were opened are
\* counted once and for their own round only (Receiver.Open, collectRound).
THEOREM SearchInvariant == Spec => [](TypeOK /\ SearchInv)
<1>1. Init => TypeOK /\ SearchInv
  BY InitFacts
<1>2. TypeOK /\ SearchInv /\ [Next]_vars => (TypeOK /\ SearchInv)'
  BY StepFacts, StutterFacts
<1> QED BY <1>1, <1>2, PTL DEF Spec

\* RunPeer, udpAttempt and the probe receiver keep their state in its types: no round
\* beyond limits.MaxIterations, no path or report with an endpoint that nobody proposed.
THEOREM TypeCorrect == Spec => []TypeOK
<1> QED BY SearchInvariant, PTL

LEMMA VerdictsAgree == TypeOK /\ SearchInv => OneVerdict
<1> SUFFICES ASSUME TypeOK, SearchInv, NEW n \in Nodes,
                    verdict[n].reason \in {"connected", "no-progress", "budget-exhausted"}
    PROVE LET m == Peer(n) IN
      \/ verdict[m].reason = "failed"
      \/ /\ verdict[m].reason = "open" /\ round[m] = round[n]
         /\ CASE verdict[n].reason = "no-progress" -> pc[m] = "candidates"
              [] verdict[n].reason = "connected" -> pc[m] = "agree"
              [] OTHER -> pc[m] \in {"agree", "observe"}
      \/ /\ verdict[m].reason = verdict[n].reason
         /\ verdict[n].reason = "connected" => Mirror(verdict[n].path, verdict[m].path)
  BY DEF OneVerdict
<1> DEFINE m == Peer(n)
<1>1. m \in Nodes /\ PhaseAt(m)
  BY NodeFacts DEF SearchInv, Phase
<1>2. pc[m] \in {"candidates", "agree", "observe"} => verdict[m].reason = "open"
  BY <1>1 DEF PhaseAt
<1>3. ConnectedTogether(n) /\ ExhaustedTogether(n) /\ StuckTogether(n)
  BY DEF SearchInv, Verdicts
<1>4. CASE verdict[n].reason = "connected"
  BY <1>2, <1>3, <1>4 DEF ConnectedTogether
<1>5. CASE verdict[n].reason = "no-progress"
  BY <1>2, <1>3, <1>5 DEF StuckTogether
<1>6. CASE verdict[n].reason = "budget-exhausted"
  BY <1>2, <1>3, <1>6 DEF ExhaustedTogether
<1> QED BY <1>4, <1>5, <1>6

\* The two nodes reach one verdict, whatever the network and however many rounds: when
\* RunPeer of one returns a path, no progress or an exhausted budget, the other is at the
\* same exchange of the same round, has ended alike, or failed.
THEOREM OneVerdictHolds == Spec => []OneVerdict
<1> QED BY SearchInvariant, VerdictsAgree, PTL

-----------------------------------------------------------------------------
(***************************************************************************)
(* Neither node ends the search of the other by what it sends.             *)
(***************************************************************************)
\* The first message of a queue, if it has a number, is the one that is due.
LEMMA HeadIsDue ==
  ASSUME TypeOK, Line, NEW n \in Nodes, ~Final(n), inbox[n] # <<>>,
         Head(inbox[n]).code \notin {"ProbeReport", "DiscoveryEnd"}
  PROVE  /\ Head(inbox[n]) \in Control /\ Head(inbox[n]) \in Queued(n)
         /\ Head(inbox[n]).code \in {"Candidates", "RoundDone", "WGReady"}
         /\ Number(round[Peer(n)], Head(inbox[n])) = Due(n) /\ Due(n) <= Top(n) + 1
<1> DEFINE x == Head(inbox[n])
<1>1. Peer(n) \in Nodes /\ inbox[n] \in Seq(Control) /\ round[Peer(n)] \in Rounds
  BY NodeFacts DEF TypeOK
<1>2. x \in Control /\ x = inbox[n][1] /\ Len(inbox[n]) \in Nat /\ Len(inbox[n]) >= 1 /\ x \in Queued(n)
  BY <1>1, TailFacts DEF Queued
<1>3. x.code \in {"Candidates", "RoundDone", "WGReady"}
  BY <1>2, MessageFacts DEF Codes
<1>4. 1 \in 1 .. Len(inbox[n])
  BY <1>2
<1>5. Numbers(n)[1] = Number(round[Peer(n)], x) /\ Numbers(n)[1] # 0 /\ Numbers(n)[1] \in Nat
  BY <1>1, <1>2, <1>3, <1>4, NumbersType, NumberFacts DEF NumbersAt
<1>6. Lined(Numbers(n), Len(inbox[n]), Due(n)) /\ Numbers(n)[1] <= Top(n) + 1
  BY <1>4 DEF Line, LineAt
<1>7. Due(n) <= Numbers(n)[1] /\ ~(Numbers(n)[1] > Due(n))
  BY <1>2, <1>4, <1>5, <1>6 DEF Lined
<1>8. Due(n) \in Nat
  BY TurnsEverywhere DEF TurnAt
<1>9. Numbers(n)[1] = Due(n)
  BY <1>5, <1>7, <1>8
<1> QED BY <1>2, <1>3, <1>5, <1>6, <1>9

LEMMA NothingMisplaced ==
  ASSUME TypeOK, SearchInv, NEW n \in Nodes
  PROVE  ~Misplaced(n)
<1> DEFINE m == Peer(n)
           x == Head(inbox[n])
           r == round[n]
<1> USE DEF SearchInv
<1>1. m \in Nodes /\ Peer(m) = n /\ TurnAt(n) /\ TurnAt(m) /\ PhaseAt(n)
  BY NodeFacts, TurnsEverywhere DEF Phase
<1>2. r \in Nat /\ round[m] \in Nat /\ round[m] \in Rounds
  BY <1>1 DEF TurnAt, TypeOK
<1>3. ASSUME ~Final(n), inbox[n] # <<>>, x.code \notin {"ProbeReport", "DiscoveryEnd"}
      PROVE  /\ x \in Control /\ x \in Queued(n) /\ x.code \in {"Candidates", "RoundDone", "WGReady"}
             /\ x.code \in {"Candidates", "RoundDone"} => x.round \in Nat
             /\ x.code = "Candidates" => Due(n) = 2 * x.round - 1
             /\ x.code = "RoundDone" => Due(n) = 2 * x.round
             /\ x.code = "WGReady" => Due(n) = 2 * round[m] + 1 /\ x.round = 0
             /\ Due(n) <= Top(n) + 1
  <2>1. /\ x \in Control /\ x \in Queued(n) /\ x.code \in {"Candidates", "RoundDone", "WGReady"}
        /\ Number(round[m], x) = Due(n) /\ Due(n) <= Top(n) + 1
    BY <1>3, HeadIsDue
  <2> HIDE DEF x
  <2> QED BY <1>2, <2>1, NumberFacts, MessageFacts, RoundFacts
<1>4. ASSUME HasMessage(n), pending[n] # NoMessage PROVE <<NextMessage(n).code, NextMessage(n).round>> = Awaited(n)
  <2>1. pc[n] = "agree" /\ pending[n].code = "RoundDone" /\ pending[n].round = r
    BY <1>1, <1>4 DEF HasMessage, Waiting, PhaseAt, Collecting
  <2> QED BY <1>4, <2>1 DEF NextMessage, Awaited
<1>5. ASSUME HasMessage(n), pending[n] = NoMessage, x.code \notin {"ProbeReport", "DiscoveryEnd"}
      PROVE  <<x.code, x.round>> = Awaited(n)
  <2>1. ~Final(n) /\ inbox[n] # <<>> /\ pc[n] \in Waiting
    BY <1>5 DEF HasMessage, Final, Waiting
  <2>2. /\ x \in Control /\ x \in Queued(n) /\ x.code \in {"Candidates", "RoundDone", "WGReady"}
        /\ x.code \in {"Candidates", "RoundDone"} => x.round \in Nat
        /\ x.code = "Candidates" => Due(n) = 2 * x.round - 1
        /\ x.code = "RoundDone" => Due(n) = 2 * x.round
        /\ x.code = "WGReady" => Due(n) = 2 * round[m] + 1 /\ x.round = 0
    BY <1>3, <1>5, <2>1
  <2> HIDE DEF x
  <2>3. CASE pc[n] = "candidates"
    <3>1. Due(n) = 2 * r - 1
      BY <1>1, <2>3 DEF TurnAt
    <3>2. x.code # "RoundDone"
      BY <1>2, <2>2, <3>1
    <3>3. x.code # "WGReady"
      <4> SUFFICES ASSUME x.code = "WGReady" PROVE FALSE
        OBVIOUS
      <4>1. verdict[m].reason = "connected"
        BY <2>1, <2>2 DEF MessagesSound, EndSound
      <4>2. round[m] = r
        BY <1>1, <4>1 DEF Verdicts, ConnectedTogether
      <4> QED BY <1>2, <2>2, <3>1, <4>2
    <3>4. x.code = "Candidates" /\ x.round = r
      BY <1>2, <2>2, <3>1, <3>2, <3>3
    <3> QED BY <2>3, <3>4 DEF Awaited
  <2>4. CASE pc[n] = "agree"
    <3>1. Due(n) = 2 * r
      BY <1>1, <1>5, <2>4 DEF TurnAt
    <3>2. x.code = "RoundDone" /\ x.round = r
      BY <1>2, <2>2, <3>1
    <3> QED BY <2>4, <3>2 DEF Awaited
  <2>5. CASE pc[n] = "handoff"
    <3>1. Due(n) = 2 * r + 1
      BY <1>1, <2>5 DEF TurnAt
    <3>2. round[m] = r
      BY <1>1, <2>5 DEF PhaseAt, Verdicts, ConnectedTogether
    <3>3. x.code # "Candidates"
      <4> SUFFICES ASSUME x.code = "Candidates" PROVE FALSE
        OBVIOUS
      <4>1. x.round <= round[m]
        BY <2>1, <2>2 DEF MessagesSound, CandidatesSound
      <4> QED BY <1>2, <2>2, <3>1, <3>2, <4>1
    <3>4. x.code = "WGReady" /\ x.round = 0
      BY <1>2, <2>2, <3>1, <3>3
    <3> QED BY <2>5, <3>4 DEF Awaited
  <2> QED BY <2>1, <2>3, <2>4, <2>5 DEF Waiting
<1>6. ASSUME pc[n] \in Collecting, inbox[n] # <<>>, x.code \notin {"ProbeReport", "DiscoveryEnd"}
      PROVE  pending[n] = NoMessage /\ <<x.code, x.round>> = <<"RoundDone", r>>
  <2>1. ~Final(n)
    BY <1>6 DEF Final, Collecting
  <2>2. /\ x.code \in {"Candidates", "RoundDone", "WGReady"}
        /\ x.code \in {"Candidates", "RoundDone"} => x.round \in Nat
        /\ x.code = "Candidates" => Due(n) = 2 * x.round - 1
        /\ x.code = "RoundDone" => Due(n) = 2 * x.round
        /\ x.code = "WGReady" => Due(n) = 2 * round[m] + 1
        /\ Due(n) <= Top(n) + 1
    BY <1>3, <1>6, <2>1
  <2> HIDE DEF x
  <2>3. Top(n) = 2 * r - 1 /\ Due(n) = IF pending[n] = NoMessage THEN 2 * r ELSE 2 * r + 1
    BY <1>1, <1>6 DEF TurnAt
  <2>4. pending[n] = NoMessage /\ Due(n) = 2 * r
    BY <1>2, <2>2, <2>3
  <2>5. x.code = "RoundDone" /\ x.round = r
    BY <1>2, <2>2, <2>4
  <2> QED BY <2>4, <2>5
<1>7. Collects(n) => pc[n] \in Collecting
  BY DEF Collects, Collecting
<1>8. pending[n] = NoMessage => NextMessage(n) = x
  BY DEF NextMessage
<1> HIDE DEF x, r
<1> QED BY <1>4, <1>5, <1>6, <1>7, <1>8 DEF Misplaced, x, r

LEMMA RoundsClose ==
  ASSUME TypeOK, SearchInv, NEW n \in Nodes
  PROVE  round[n] <= round[Peer(n)] + 1
<1> DEFINE m == Peer(n)
<1>1. m \in Nodes /\ TurnAt(n) /\ TurnAt(m)
  BY NodeFacts, TurnsEverywhere
<1>2. Due(n) <= Top(m) + 1
  BY DEF SearchInv, Line
<1>3. /\ round[n] \in Nat /\ round[m] \in Nat /\ Due(n) \in Nat /\ Top(m) \in Nat
      /\ 2 * round[n] - 1 <= Due(n) /\ Top(m) <= 2 * round[m] + 1
  BY <1>1 DEF TurnAt
<1> HIDE DEF m
<1> QED BY <1>2, <1>3 DEF m

\* There are finitely many probes to send.
LEMMA ProbesFinite == IsFiniteSet(Probe)
<1>1. IsFiniteSet(Nodes) /\ IsFiniteSet(Rounds)
  <2>1. IsFiniteSet({Initiator}) /\ IsFiniteSet({Responder})
    BY FS_Singleton
  <2>2. IsFiniteSet({Initiator} \cup {Responder})
    BY <2>1, FS_Union
  <2>3. {Initiator} \cup {Responder} = Nodes
    BY DEF Nodes
  <2>4. IsFiniteSet(1 .. MaxIterations)
    BY FS_Interval, RoundFacts
  <2> QED BY <2>2, <2>3, <2>4 DEF Rounds
<1>2. IsFiniteSet(Endpoints)
  BY SearchAssumption, NodeFacts, FS_Union DEF Endpoints
<1>3. IsFiniteSet(Nodes \X Rounds) /\ IsFiniteSet(Endpoints \X Endpoints)
  BY <1>1, <1>2, FS_Product
<1> DEFINE T == (Nodes \X Rounds) \X (Endpoints \X Endpoints)
           f == [p \in Probe |-> <<<<p.to, p.round>>, <<p.dst, p.seen>>>>]
<1>4. IsFiniteSet(T)
  BY <1>3, FS_Product
<1>5. f \in [Probe -> T]
  BY ProbeFacts
<1>6. ASSUME NEW p \in Probe, NEW q \in Probe, f[p] = f[q] PROVE p = q
  <2>1. <<p.to, p.round>> = <<q.to, q.round>> /\ <<p.dst, p.seen>> = <<q.dst, q.seen>>
    BY <1>6
  <2>2. p.to = q.to /\ p.round = q.round /\ p.dst = q.dst /\ p.seen = q.seen
    BY <2>1
  <2> QED BY <2>2, ProbeFacts
<1>7. f \in Injection(Probe, T)
  BY <1>5, <1>6 DEF Injection, IsInjective
<1> HIDE DEF f, T
<1> QED BY <1>4, <1>7, FS_Injection

LEMMA ReportsBounded ==
  ASSUME TypeOK, SearchInv, NEW n \in Nodes
  PROVE  Cardinality({i \in DOMAIN inbox[n] : inbox[n][i].code = "ProbeReport"})
           <= Cardinality({p \in net : p.to = Peer(n)})
<1> DEFINE S == {i \in DOMAIN inbox[n] : inbox[n][i].code = "ProbeReport"}
           T == {p \in net : p.to = Peer(n)}
           f == [i \in S |-> Reported(n, inbox[n][i])]
<1>1. Peer(n) \in Nodes /\ inbox[n] \in Seq(Control) /\ net \subseteq Probe
  BY NodeFacts DEF TypeOK
<1>2. DOMAIN inbox[n] = 1 .. Len(inbox[n]) /\ \A i \in 1 .. Len(inbox[n]) : inbox[n][i] \in Control
  BY <1>1
<1>3. EvidenceSound(n) /\ EvidenceSound(Peer(n)) /\ ReportedOnce(n)
  BY <1>1 DEF SearchInv, Evidence
<1>4. IsFiniteSet(T)
  <2>1. T \in SUBSET Probe
    BY <1>1
  <2> HIDE DEF T
  <2> QED BY <2>1, ProbesFinite, FS_Subset
<1>5. ASSUME NEW i \in S
      PROVE  /\ inbox[n][i].round \in Rounds /\ inbox[n][i].dst \in Endpoints
             /\ inbox[n][i].seen \in Endpoints /\ f[i] \in T
             /\ i \in 1 .. Len(inbox[n]) /\ inbox[n][i] \in Control /\ inbox[n][i].code = "ProbeReport"
  <2> DEFINE x == inbox[n][i]
  <2>1. i \in 1 .. Len(inbox[n]) /\ x \in Control /\ x.code = "ProbeReport" /\ x \in Queued(n)
    BY <1>2 DEF Queued, In
  <2>2. x.round \in Rounds /\ x.dst \in Endpoints /\ x.seen \in Endpoints
    BY <2>1, MessageFacts
  <2>3. Reported(n, x) \in opened[Peer(n)]
    BY <1>3, <2>1 DEF EvidenceSound
  <2>4. Reported(n, x) \in net /\ Reported(n, x).to = Peer(n)
    BY <1>3, <2>3 DEF EvidenceSound
  <2> QED BY <2>1, <2>2, <2>4
<1>6. \A x, y \in Control :
        x.code = "ProbeReport" /\ y.code = "ProbeReport" /\ Reported(n, x) = Reported(n, y) => x = y
  <2> SUFFICES ASSUME NEW x \in Control, NEW y \in Control, x.code = "ProbeReport",
                      y.code = "ProbeReport", Reported(n, x) = Reported(n, y)
               PROVE  x = y
    OBVIOUS
  <2> DEFINE R == [code: {"ProbeReport"}, round: Rounds, dst: Endpoints, seen: Endpoints]
  <2>1. x \in R /\ y \in R
    BY DEF Control, WGReady, DiscoveryEnd
  <2>2. x.round = y.round /\ x.dst = y.dst /\ x.seen = y.seen
    BY <1>1, <2>1, HopFacts DEF Reported
  <2> QED BY <2>1, <2>2
<1>7. ASSUME NEW i \in S, NEW j \in S, f[i] = f[j] PROVE i = j
  <2>1. inbox[n][i] = inbox[n][j]
    BY <1>5, <1>6, <1>7
  <2> QED BY <1>3, <1>5, <2>1 DEF ReportedOnce
<1>8. f \in [S -> T]
  BY <1>5
<1>9. f \in Injection(S, T)
  BY <1>7, <1>8 DEF Injection, IsInjective
<1> HIDE DEF f, S, T
<1>10. Cardinality(S) <= Cardinality(T)
  BY <1>4, <1>9, FS_Injection
<1> QED BY <1>10 DEF S, T

\* wait and collectRound never refuse a message of a peer that runs the same code, the rounds
\* of the two nodes are at most one apart, and no more reports are queued for a node than it
\* sent probes, however the probes are repeated and the two windows interleave.
THEOREM InStepHolds == Spec => []InStep
<1>1. TypeOK /\ SearchInv => InStep
  <2> SUFFICES ASSUME TypeOK, SearchInv PROVE InStep
    OBVIOUS
  <2>1. \A n \in Nodes : ~Misplaced(n)
    BY NothingMisplaced
  <2>2. round[Initiator] <= round[Responder] + 1 /\ round[Responder] <= round[Initiator] + 1
    BY RoundsClose DEF Nodes, Peer, Initiator, Responder
  <2>3. QueueBounded
    BY ReportsBounded DEF QueueBounded
  <2> QED BY <2>1, <2>2, <2>3 DEF InStep, Lockstep
<1> QED BY <1>1, SearchInvariant, PTL

-----------------------------------------------------------------------------
LEMMA CalmFinds == TypeOK /\ SearchInv => CalmConnects
<1> SUFFICES ASSUME TypeOK, SearchInv, env.calm, \A n \in Nodes : pc[n] = "agree"
    PROVE IF Mutual(round[Initiator]) = {} THEN \A n \in Nodes : path[n] = <<>>
          ELSE path[Initiator] \in Mutual(round[Initiator]) /\ Mirror(path[Initiator], path[Responder])
  BY DEF CalmConnects
<1> DEFINE a == Initiator
           b == Responder
           k == round[a]
           A == Endpoint[a]
           B == Endpoint[b]
           S == MutualAt(a, k)
           T == MutualAt(b, k)
<1>1. a \in Nodes /\ b \in Nodes /\ Peer(a) = b /\ Peer(b) = a /\ \A n \in Nodes : n = a \/ n = b
  BY DEF Nodes, Peer, Initiator, Responder
<1>2. round[b] = k /\ k \in Rounds
  <2>1. \A n \in Nodes : Due(n) <= Top(Peer(n)) + 1 /\ TurnAt(n) /\ pc[n] = "agree"
    BY TurnsEverywhere DEF SearchInv, Line
  <2>2. Due(a) <= Top(b) + 1 /\ Due(b) <= Top(a) + 1
    BY <1>1, <2>1
  <2>3. /\ round[a] \in Nat /\ round[b] \in Nat /\ Due(a) \in Nat /\ Due(b) \in Nat
        /\ Due(a) >= 2 * round[a] /\ Due(b) >= 2 * round[b]
        /\ Top(a) = 2 * round[a] /\ Top(b) = 2 * round[b]
    BY <1>1, <2>1 DEF TurnAt
  <2>4. round[a] = round[b]
    BY <2>2, <2>3
  <2> QED BY <1>1, <2>4 DEF TypeOK
<1>3. path[a] = Best(a, k) /\ path[b] = Best(b, k)
  BY <1>1, <1>2 DEF SearchInv, Calm, CalmAt
<1>4. /\ A \in SUBSET Nat /\ B \in SUBSET Nat /\ A \cap B = {} /\ env \in Environments
      /\ env.infer[a][k] \subseteq A /\ env.infer[b][k] \subseteq B
  BY <1>1, <1>2, EnvFacts DEF TypeOK
<1>5. S \in SUBSET (A \X B) /\ T \in SUBSET (B \X A)
  BY <1>1, <1>4 DEF MutualAt
<1>6. \A x \in A, y \in B : <<x, y>> \in S <=> <<y, x>> \in T
  BY <1>1 DEF MutualAt
<1>7. Mutual(k) = S
  BY <1>1 DEF Mutual, MutualAt
<1> HIDE DEF a, b, k, A, B, S, T
<1>8. CASE S = {}
  <2>1. T = {}
    <3> SUFFICES ASSUME NEW t \in T PROVE FALSE
      OBVIOUS
    <3>1. t = <<t[1], t[2]>> /\ t[1] \in B /\ t[2] \in A
      BY <1>5, PairFacts
    <3> QED BY <1>6, <1>8, <3>1
  <2>2. path[a] = <<>> /\ path[b] = <<>>
    <3>1. Best(a, k) = <<>>
      BY <1>8 DEF Best, S
    <3>2. Best(b, k) = <<>>
      BY <2>1 DEF Best, T
    <3> QED BY <1>3, <3>1, <3>2
  <2> QED BY <1>1, <1>7, <1>8, <2>2 DEF a, k
<1>9. CASE S # {}
  <2>1. Least(S) \in S
    BY <1>4, <1>5, <1>9, LeastExists
  <2>2. T # {} /\ Least(T) = <<Least(S)[2], Least(S)[1]>>
    <3>1. Mirrored(A, B, S, T)
      BY <1>4, <1>5, <1>6 DEF Mirrored
    <3> QED BY <1>9, <3>1, LeastMirrors
  <2>3. path[a] = Least(S) /\ path[b] = Least(T)
    <3>1. Best(a, k) = Least(S)
      BY <1>9 DEF Best, S
    <3>2. Best(b, k) = Least(T)
      BY <2>2 DEF Best, T
    <3> QED BY <1>3, <3>1, <3>2
  <2>4. Least(S) = <<Least(S)[1], Least(S)[2]>>
    BY <1>5, <2>1, PairFacts
  <2>5. path[a] # <<>> /\ path[b] # <<>>
    <3>1. \A x, y : <<x, y>> # <<>>
      OBVIOUS
    <3> QED BY <2>2, <2>3, <2>4, <3>1
  <2>6. path[b][1] = path[a][2] /\ path[b][2] = path[a][1]
    BY <2>2, <2>3
  <2>7. Mirror(path[a], path[b])
    BY <2>5, <2>6 DEF Mirror
  <2> QED BY <1>7, <1>9, <2>1, <2>3, <2>7 DEF a, b, k
<1> QED BY <1>8, <1>9

\* A path that a node reports for a round worked in both directions in that round, and in a
\* calm network a round that has a mutual path finds it and reciprocal picks the same one at
\* both ends, for any endpoints, candidates and NATs.
THEOREM PathsSoundHolds == Spec => []PathsSound
<1>1. TypeOK /\ SearchInv => PathsSound
  BY CalmFinds DEF PathsSound, SearchInv
<1> QED BY <1>1, SearchInvariant, PTL
=============================================================================

------------------------- MODULE DynamicLinkProofs -------------------------
(***************************************************************************)
(* Theorems about automatic Link Attempts, for any number of dials and of  *)
(* failures and whether or not timers fire.                                *)
(*                                                                         *)
(* An operation is new to a node until that node prepares an Attempt for   *)
(* it (Fresh): its Proposal is the first frame of its session and is sent  *)
(* once, and a node has one session of its own at a time.  So an interface *)
(* is never created under a name that something else still refers to, and  *)
(* what a node holds is in one of three hands (Held): its Attempt, its     *)
(* deferred cleanup or the retry of a failed one.                          *)
(***************************************************************************)
EXTENDS DynamicLink, SequenceTheorems, TLAPS

\* The Attempt of a node holds its interface; a Proposal has not configured it.
AttemptHeld(n) ==
  att[n] # NoAttempt =>
    /\ pend[n] = NoCleanup
    /\ kern[n] # NoInterface /\ kern[n].alias = att[n].alias
    /\ kern[n].mode # "down" => kern[n].conf = att[n].op
    /\ att[n].alias \in owned[n] /\ att[n].alias \notin dirty[n]
    /\ att[n].state = "proposing" => kern[n].mode = "down" /\ Dialler(att[n].op) = n

\* A deferred cleanup holds an interface nobody configured.
CleanupHeld(n) ==
  pend[n] # NoCleanup =>
    /\ kern[n] # NoInterface /\ kern[n].alias = pend[n].alias /\ kern[n].mode = "down"
    /\ pend[n].alias \in owned[n] /\ pend[n].alias \notin dirty[n]

\* The runner has a state for the interface of an established Attempt and no other.
LinkHeld(n) ==
  IF att[n] # NoAttempt /\ att[n].state \in {"up", "recovering"}
    THEN link[n] # NoLink /\ link[n].alias = att[n].alias
         /\ (link[n].active <=> att[n].state = "up")
    ELSE link[n] = NoLink

\* Every generation is accounted for.
Accounted(n) ==
  /\ dirty[n] \subseteq owned[n]
  /\ kern[n] # NoInterface => kern[n].alias \in owned[n]
  /\ \A a \in owned[n] : a \notin dirty[n] =>
       \/ att[n] # NoAttempt /\ att[n].alias = a
       \/ pend[n] # NoCleanup /\ pend[n].alias = a

NodeHeld(n) == AttemptHeld(n) /\ CleanupHeld(n) /\ LinkHeld(n) /\ Accounted(n)
Held == \A n \in Nodes : NodeHeld(n)

\* n has not begun operation s.
New(s, n) ==
  /\ s \notin owned[n] /\ worker[s][n] = "none"
  /\ att[n] # NoAttempt => att[n].op # s

Preparing(s, n) == ends[s][n] = "unused" \/ pc[s][n] = "dialled"
Unproposed(s, n) == Preparing(s, n) \/ pc[s][n] = "propose"

\* An operation is new to its dialler until it is prepared, and to the peer until it has
\* taken the Proposal, which is the first frame of its session.
Fresh ==
  \A s \in Ops : LET d == Dialler(s) IN
    /\ Preparing(s, d) => New(s, d)
    /\ Unproposed(s, d) => worker[s][d] = "none" /\ chan[s][Peer(d)] = <<>> /\ New(s, Peer(d))
    /\ \A n \in Nodes : \A i \in 1 .. Len(chan[s][n]) : chan[s][n][i] = "PROPOSE" =>
         i = 1 /\ n # d /\ New(s, n)

Running == {"open", "closing"}

\* A node dials one session at a time, and none while a deferred cleanup is due.
OneDial ==
  /\ \A s, t \in Ops : /\ Dialler(s) = Dialler(t)
                       /\ ends[s][Dialler(s)] \in Running /\ ends[t][Dialler(t)] \in Running
                       => s = t
  /\ \A s \in Ops, n \in Nodes : pc[s][n] \in {"dialled", "propose"} =>
       n = Dialler(s) /\ ends[s][n] \in Running
  /\ \A s \in Ops, n \in Nodes : pc[s][n] = "dialled" => pend[n] = NoCleanup

\* A worker past its first critical section configured the interface, and WG_READY says so.
Configured ==
  /\ \A s \in Ops, n \in Nodes : worker[s][n] \in {"announce", "barrier"} =>
       /\ s \in heard[n]
       /\ Current(n, s) => kern[n].mode # "down"
  /\ \A s \in Ops, n \in Nodes : \A i \in 1 .. Len(chan[s][n]) :
       chan[s][n][i] = "WG_READY" => s \in heard[Peer(n)]
  /\ \A s \in Ops, n \in Nodes : \A i \in 1 .. Len(inbox[s][n]) :
       inbox[s][n][i] = "WG_READY" => s \in heard[Peer(n)]

LinkInv == Held /\ Fresh /\ OneDial /\ Configured /\ TransmitAfterReady

-----------------------------------------------------------------------------
(***************************************************************************)
(* Nodes, queues and records.                                              *)
(***************************************************************************)
States == {"proposing", "probing", "attempting", "up", "recovering"}

LEMMA NodeFacts ==
  /\ Low \in Nodes /\ High \in Nodes
  /\ \A n \in Nodes : Peer(n) \in Nodes /\ Peer(n) # n /\ Peer(Peer(n)) = n
  /\ \A n, x \in Nodes : x = n \/ x = Peer(n)
  /\ \A s \in Ops : Dialler(s) \in Nodes /\ s # None
BY DEF Nodes, Low, High, Peer, Ops, Dialler, None

LEMMA NothingFacts ==
  /\ \A x \in Attempt : x # NoAttempt
  /\ \A x \in Cleanup : x # NoCleanup
  /\ \A x \in Interface : x # NoInterface
  /\ \A x \in Link : x # NoLink
<1>1. ASSUME NEW x \in Attempt PROVE x # NoAttempt
  <2>1. x.op \in Ops /\ NoAttempt.op = None
    BY DEF Attempt, NoAttempt
  <2> QED BY <2>1, NodeFacts
<1>2. ASSUME NEW x \in Cleanup PROVE x # NoCleanup
  <2>1. x.op \in Ops /\ NoCleanup.op = None
    BY DEF Cleanup, NoCleanup
  <2> QED BY <2>1, NodeFacts
<1>3. ASSUME NEW x \in Interface PROVE x # NoInterface
  <2>1. x.alias \in Ops /\ NoInterface.alias = None
    BY DEF Interface, NoInterface
  <2> QED BY <2>1, NodeFacts
<1>4. ASSUME NEW x \in Link PROVE x # NoLink
  <2>1. x.alias \in Ops /\ NoLink.alias = None
    BY DEF Link, NoLink
  <2> QED BY <2>1, NodeFacts
<1> QED BY <1>1, <1>2, <1>3, <1>4

LEMMA Queues ==
  ASSUME NEW S, NEW q \in Seq(S), NEW m \in S
  PROVE  /\ q # <<>> => /\ Tail(q) \in Seq(S) /\ Head(q) \in S /\ Head(q) = q[1]
                        /\ 1 \in 1 .. Len(q)
                        /\ \A i \in 1 .. Len(Tail(q)) :
                             i + 1 \in 1 .. Len(q) /\ Tail(q)[i] = q[i + 1] /\ i + 1 # 1
         /\ Append(q, m) \in Seq(S)
         /\ \A i \in 1 .. Len(Append(q, m)) :
              \/ i \in 1 .. Len(q) /\ Append(q, m)[i] = q[i]
              \/ i = Len(q) + 1 /\ Append(q, m)[i] = m
         /\ <<>> \in Seq(S) /\ Len(<<>>) = 0
<1>1. ASSUME q # <<>>
      PROVE  /\ Tail(q) \in Seq(S) /\ Head(q) \in S /\ Head(q) = q[1] /\ Len(q) \in Nat \ {0}
             /\ Len(Tail(q)) = Len(q) - 1
             /\ \A i \in 1 .. Len(Tail(q)) : Tail(q)[i] = q[i + 1]
  BY <1>1, HeadTailProperties, EmptySeq
<1>2. Append(q, m) \in Seq(S) /\ Len(Append(q, m)) = Len(q) + 1 /\ Len(q) \in Nat
      /\ Append(q, m)[Len(q) + 1] = m /\ \A i \in 1 .. Len(q) : Append(q, m)[i] = q[i]
  BY AppendProperties, LenProperties
<1>3. <<>> \in Seq(S) /\ Len(<<>>) = 0
  OBVIOUS
<1>4. ASSUME q # <<>> PROVE 1 \in 1 .. Len(q)
  BY <1>1, <1>4
<1>5. ASSUME q # <<>>, NEW i \in 1 .. Len(Tail(q)) PROVE i + 1 \in 1 .. Len(q) /\ i + 1 # 1
  BY <1>1, <1>5
<1> QED BY <1>1, <1>2, <1>3, <1>4, <1>5

\* The values the actions build.
LEMMA BuiltAttempt ==
  ASSUME NEW s \in Ops, NEW a \in Ops, NEW local \in BOOLEAN, NEW st \in States
  PROVE  /\ Prepared(s, a, local, st) \in Attempt /\ Prepared(s, a, local, st).op = s
         /\ Prepared(s, a, local, st).alias = a /\ Prepared(s, a, local, st).state = st
BY DEF Prepared, Attempt, States

LEMMA Built ==
  /\ \A s, a \in Ops : LET c == [op |-> s, alias |-> a] IN c \in Cleanup /\ c.alias = a
  /\ \A s \in Ops : LET k == [alias |-> s, mode |-> "down", conf |-> None] IN
       k \in Interface /\ k.alias = s /\ k.mode = "down"
  /\ \A s \in Ops, b \in BOOLEAN : LET l == [alias |-> s, active |-> b] IN
       l \in Link /\ l.alias = s /\ l.active = b
BY DEF Cleanup, Interface, Link

-----------------------------------------------------------------------------
(***************************************************************************)
(* What a step of n on session s does.                                     *)
(***************************************************************************)
HeldType ==
  /\ att \in [Nodes -> Attempt \cup {NoAttempt}] /\ pend \in [Nodes -> Cleanup \cup {NoCleanup}]
  /\ late \in [Nodes -> SUBSET Cleanup]
  /\ kern \in [Nodes -> Interface \cup {NoInterface}] /\ link \in [Nodes -> Link \cup {NoLink}]
  /\ owned \in [Nodes -> SUBSET Ops] /\ dirty \in [Nodes -> SUBSET Ops]

ProtocolType ==
  /\ ends \in [Ops -> [Nodes -> {"unused", "open", "closing", "closed"}]]
  /\ chan \in [Ops -> [Nodes -> Seq(Frames \cup Records)]]
  /\ pc \in [Ops -> [Nodes -> {"idle", "dialled", "propose", "accept", "start"}]]

ProbingType ==
  /\ worker \in [Ops -> [Nodes -> {"none", "search", "agree", "handoff", "announce", "barrier", "done"}]]
  /\ inbox \in [Ops -> [Nodes -> Seq(Records)]]
  /\ heard \in [Nodes -> SUBSET Ops]

BudgetType == budget \in [faults: 0 .. MaxFaults, timers: Timers]

\* n takes the Proposal of s, or prepares its own.
Begun(s, n) ==
  \/ pc[s][n] = "dialled" /\ n = Dialler(s) /\ pc'[s][n] \in {"idle", "propose"}
  \/ Receives(s, n, "PROPOSE") /\ chan'[s][n] = Tail(chan[s][n])

\* Attempts and generations appear only for an operation that begins, and an Attempt that
\* stays keeps its interface configured.
ResourceStep(s, n) ==
  /\ HeldType' /\ Held'
  /\ \A x \in Nodes : att'[x] # NoAttempt =>
       \/ /\ att[x] # NoAttempt /\ att'[x].op = att[x].op
          /\ kern[x].mode # "down" => kern'[x].mode # "down"
       \/ x = n /\ s \in Ops /\ att'[x].op = s /\ Begun(s, n)
  /\ \A x \in Nodes : \A a \in owned'[x] :
       a \in owned[x] \/ (x = n /\ a = s /\ s \in Ops /\ Begun(s, n))
  /\ \A x \in Nodes : kern'[x] # NoInterface /\ kern'[x].mode = "full" =>
       \/ kern[x] # NoInterface /\ kern[x].mode = "full" /\ kern'[x].conf = kern[x].conf
       \/ kern'[x].conf \in heard[Peer(x)]
  /\ \A x \in Nodes : pend'[x] # NoCleanup =>
       pend'[x] = pend[x] \/ \A t \in Ops : pc[t][x] # "dialled"

\* What n may put on session s.
MaySend(s, n, m) ==
  /\ m = "PROPOSE" => pc[s][n] = "propose" /\ pc'[s][n] = "idle" /\ ends[s][n] = "open"
  /\ m # "PROPOSE" => ~Unproposed(s, n)
  /\ m = "WG_READY" => s \in heard[n]

EndsStep ==
  /\ ends' \in [Ops -> [Nodes -> {"unused", "open", "closing", "closed"}]]
  /\ \A t \in Ops, x \in Nodes :
       \/ ends'[t][x] = ends[t][x]
       \/ ends[t][x] \in Running /\ ends'[t][x] = "closing"
       \/ ends[t][x] \in Running /\ ends'[t][x] = "closed" /\ pc'[t][x] \notin {"dialled", "propose"}

PcStep ==
  /\ pc' \in [Ops -> [Nodes -> {"idle", "dialled", "propose", "accept", "start"}]]
  /\ \A t \in Ops, x \in Nodes :
       \/ pc'[t][x] = pc[t][x]
       \/ pc'[t][x] \in {"idle", "accept", "start"}
       \/ pc'[t][x] = "propose" /\ pc[t][x] = "dialled"

ChanStep(s, n) ==
  /\ chan' \in [Ops -> [Nodes -> Seq(Frames \cup Records)]]
  /\ \A t \in Ops, x \in Nodes :
       \/ chan'[t][x] = chan[t][x]
       \/ chan'[t][x] = <<>>
       \/ chan[t][x] # <<>> /\ chan'[t][x] = Tail(chan[t][x])
       \/ /\ t = s /\ x = Peer(n)
          /\ \E m \in Frames \cup Records : chan'[t][x] = Append(chan[t][x], m) /\ MaySend(s, n, m)

ProtocolStep(s, n) == EndsStep /\ PcStep /\ ChanStep(s, n)

\* n works for an operation it has begun.
Works(s, n) == ~New(s, n) /\ (n = Dialler(s) => ~Unproposed(s, n))

WorkerStep(s, n) ==
  /\ worker' \in [Ops -> [Nodes -> {"none", "search", "agree", "handoff", "announce", "barrier", "done"}]]
  /\ \A t \in Ops, x \in Nodes :
       \/ worker'[t][x] = worker[t][x]
       \/ /\ t = s /\ x = n /\ Works(s, n)
          /\ worker'[t][x] \in {"announce", "barrier"} =>
               s \in heard'[n] /\ (att'[n] # NoAttempt /\ att'[n].op = s => kern'[n].mode # "down")

InboxStep ==
  /\ inbox' \in [Ops -> [Nodes -> Seq(Records)]]
  /\ \A t \in Ops, x \in Nodes :
       \/ inbox'[t][x] = inbox[t][x]
       \/ inbox'[t][x] = <<>>
       \/ inbox[t][x] # <<>> /\ inbox'[t][x] = Tail(inbox[t][x])
       \/ chan[t][x] # <<>> /\ Head(chan[t][x]) \in Records
          /\ inbox'[t][x] = Append(inbox[t][x], Head(chan[t][x]))

HeardStep ==
  /\ heard' \in [Nodes -> SUBSET Ops]
  /\ \A x \in Nodes : heard[x] \subseteq heard'[x]

ProbingStep(s, n) == WorkerStep(s, n) /\ InboxStep /\ HeardStep

Moves(s, n) == ResourceStep(s, n) /\ ProtocolStep(s, n) /\ ProbingStep(s, n) /\ BudgetType'

LEMMA TypeParts == TypeOK <=> HeldType /\ ProtocolType /\ ProbingType /\ BudgetType
BY DEF TypeOK, HeldType, ProtocolType, ProbingType, BudgetType

-----------------------------------------------------------------------------
(***************************************************************************)
(* A step of that kind keeps what is not about resources.                  *)
(***************************************************************************)
LEMMA ReadyStep ==
  ASSUME TypeOK, LinkInv, NEW s, NEW n \in Nodes, Moves(s, n)
  PROVE  TransmitAfterReady'
<1> SUFFICES ASSUME NEW x \in Nodes, kern'[x] # NoInterface, kern'[x].mode = "full"
             PROVE  kern'[x].conf \in heard'[Peer(x)]
  BY DEF TransmitAfterReady
<1>1. heard[Peer(x)] \subseteq heard'[Peer(x)]
  BY NodeFacts DEF Moves, ProbingStep, WorkerStep, InboxStep, HeardStep, Works
<1>2. kern'[x].conf \in heard[Peer(x)]
  BY DEF Moves, ResourceStep, LinkInv, TransmitAfterReady
<1> QED BY <1>1, <1>2

LEMMA DialStep ==
  ASSUME TypeOK, LinkInv, NEW s, NEW n \in Nodes, Moves(s, n)
  PROVE  OneDial'
<1>1. ASSUME NEW t \in Ops, NEW x \in Nodes, ends'[t][x] \in Running
      PROVE  ends[t][x] \in Running
  BY <1>1 DEF Moves, ProtocolStep, EndsStep, PcStep, ChanStep, Running
<1>2. ASSUME NEW t \in Ops, NEW u \in Ops, Dialler(t) = Dialler(u),
             ends'[t][Dialler(t)] \in Running, ends'[u][Dialler(u)] \in Running
      PROVE  t = u
  BY <1>1, <1>2, NodeFacts DEF LinkInv, OneDial
<1>3. ASSUME NEW t \in Ops, NEW x \in Nodes, pc'[t][x] \in {"dialled", "propose"}
      PROVE  pc[t][x] \in {"dialled", "propose"} /\ (pc'[t][x] = "dialled" => pc[t][x] = "dialled")
  BY <1>3 DEF Moves, ProtocolStep, EndsStep, PcStep, ChanStep
<1>4. ASSUME NEW t \in Ops, NEW x \in Nodes, pc'[t][x] \in {"dialled", "propose"}
      PROVE  x = Dialler(t) /\ ends'[t][x] \in Running
  <2>1. x = Dialler(t) /\ ends[t][x] \in Running
    BY <1>3, <1>4 DEF LinkInv, OneDial
  <2> QED BY <1>4, <2>1 DEF Moves, ProtocolStep, EndsStep, PcStep, ChanStep, Running
<1>5. ASSUME NEW t \in Ops, NEW x \in Nodes, pc'[t][x] = "dialled"
      PROVE  pend'[x] = NoCleanup
  <2>1. pc[t][x] = "dialled"
    BY <1>3, <1>5
  <2>2. pend[x] = NoCleanup
    BY <2>1 DEF LinkInv, OneDial
  <2> QED BY <2>1, <2>2 DEF Moves, ResourceStep
<1> QED BY <1>2, <1>4, <1>5 DEF OneDial

\* Whoever begins an operation finds it new.
LEMMA BegunNew ==
  ASSUME TypeOK, LinkInv, NEW s \in Ops, NEW n \in Nodes, Begun(s, n)
  PROVE  New(s, n)
<1>1. CASE pc[s][n] = "dialled" /\ n = Dialler(s)
  BY <1>1 DEF LinkInv, Fresh, Preparing
<1>2. CASE Receives(s, n, "PROPOSE")
  <2>1. chan[s][n] \in Seq(Frames \cup Records) /\ chan[s][n] # <<>> /\ Head(chan[s][n]) = "PROPOSE"
    BY <1>2 DEF Receives, TypeOK
  <2>2. "PROPOSE" \in Frames \cup Records
    BY DEF Frames
  <2>3. 1 \in 1 .. Len(chan[s][n]) /\ chan[s][n][1] = "PROPOSE"
    BY <2>1, <2>2, Queues
  <2> QED BY <2>3 DEF LinkInv, Fresh
<1> QED BY <1>1, <1>2 DEF Begun

LEMMA ConfiguredStep ==
  ASSUME TypeOK, LinkInv, NEW s, NEW n \in Nodes, Moves(s, n)
  PROVE  Configured'
<1>1. ASSUME NEW x \in Nodes PROVE heard[x] \subseteq heard'[x]
  BY DEF Moves, ProbingStep, WorkerStep, InboxStep, HeardStep, Works
<1>2. ASSUME NEW t \in Ops, NEW x \in Nodes, worker'[t][x] \in {"announce", "barrier"}
      PROVE  t \in heard'[x] /\ (att'[x] # NoAttempt /\ att'[x].op = t => kern'[x].mode # "down")
  <2>1. CASE worker'[t][x] # worker[t][x]
    BY <1>2, <2>1 DEF Moves, ProbingStep, WorkerStep, InboxStep, HeardStep, Works
  <2>2. CASE worker'[t][x] = worker[t][x]
    <3>1. t \in heard[x] /\ (att[x] # NoAttempt /\ att[x].op = t => kern[x].mode # "down")
      BY <1>2, <2>2 DEF LinkInv, Configured, Current
    <3>2. ASSUME att'[x] # NoAttempt, att'[x].op = t PROVE kern'[x].mode # "down"
      <4>1. CASE att[x] # NoAttempt /\ att'[x].op = att[x].op
                 /\ (kern[x].mode # "down" => kern'[x].mode # "down")
        BY <3>1, <3>2, <4>1
      <4>2. CASE x = n /\ s \in Ops /\ att'[x].op = s /\ Begun(s, n)
        <5>1. New(s, n)
          BY <4>2, BegunNew
        <5>2. worker[s][n] = "none"
          BY <5>1 DEF New
        <5> QED BY <1>2, <2>2, <3>2, <4>2, <5>2
      <4> QED BY <3>2, <4>1, <4>2 DEF Moves, ResourceStep
    <3> QED BY <1>1, <3>1, <3>2
  <2> QED BY <2>1, <2>2
<1>3. ASSUME NEW t \in Ops, NEW x \in Nodes, NEW i \in 1 .. Len(chan'[t][x]),
             chan'[t][x][i] = "WG_READY"
      PROVE  t \in heard'[Peer(x)]
  <2>0. chan[t][x] \in Seq(Frames \cup Records) /\ "END" \in Frames \cup Records
    BY DEF TypeOK, Records
  <2>1. CASE chan'[t][x] = chan[t][x]
    BY <1>1, <1>3, <2>1, NodeFacts DEF LinkInv, Configured
  <2>2. CASE chan'[t][x] = <<>>
    BY <1>3, <2>2
  <2>3. CASE chan[t][x] # <<>> /\ chan'[t][x] = Tail(chan[t][x])
    <3>1. i + 1 \in 1 .. Len(chan[t][x]) /\ chan[t][x][i + 1] = "WG_READY"
      BY <1>3, <2>0, <2>3, Queues
    <3> QED BY <1>1, <3>1, NodeFacts DEF LinkInv, Configured
  <2>4. ASSUME t = s, x = Peer(n), NEW m \in Frames \cup Records,
               chan'[t][x] = Append(chan[t][x], m), MaySend(s, n, m)
        PROVE  t \in heard'[Peer(x)]
    <3>1. CASE i \in 1 .. Len(chan[t][x]) /\ chan[t][x][i] = "WG_READY"
      BY <1>1, <3>1, NodeFacts DEF LinkInv, Configured
    <3>2. CASE m = "WG_READY"
      BY <1>1, <2>4, <3>2, NodeFacts DEF MaySend
    <3> QED BY <1>3, <2>0, <2>4, <3>1, <3>2, Queues
  <2> QED BY <2>1, <2>2, <2>3, <2>4 DEF Moves, ProtocolStep, EndsStep, PcStep, ChanStep
<1>4. ASSUME NEW t \in Ops, NEW x \in Nodes, NEW i \in 1 .. Len(inbox'[t][x]),
             inbox'[t][x][i] = "WG_READY"
      PROVE  t \in heard'[Peer(x)]
  <2>0. inbox[t][x] \in Seq(Records) /\ "END" \in Records
    BY DEF TypeOK, Records
  <2>1. CASE inbox'[t][x] = inbox[t][x]
    BY <1>1, <1>4, <2>1, NodeFacts DEF LinkInv, Configured
  <2>2. CASE inbox'[t][x] = <<>>
    BY <1>4, <2>2
  <2>3. CASE inbox[t][x] # <<>> /\ inbox'[t][x] = Tail(inbox[t][x])
    <3>1. i + 1 \in 1 .. Len(inbox[t][x]) /\ inbox[t][x][i + 1] = "WG_READY"
      BY <1>4, <2>0, <2>3, Queues
    <3> QED BY <1>1, <3>1, NodeFacts DEF LinkInv, Configured
  <2>4. CASE chan[t][x] # <<>> /\ Head(chan[t][x]) \in Records
             /\ inbox'[t][x] = Append(inbox[t][x], Head(chan[t][x]))
    <3>1. CASE i \in 1 .. Len(inbox[t][x]) /\ inbox[t][x][i] = "WG_READY"
      BY <1>1, <3>1, NodeFacts DEF LinkInv, Configured
    <3>2. CASE Head(chan[t][x]) = "WG_READY"
      <4>1. chan[t][x] \in Seq(Frames \cup Records) /\ "END" \in Frames \cup Records
        BY DEF TypeOK, Records
      <4>2. 1 \in 1 .. Len(chan[t][x]) /\ chan[t][x][1] = "WG_READY"
        BY <2>4, <3>2, <4>1, Queues
      <4> QED BY <1>1, <4>2, NodeFacts DEF LinkInv, Configured
    <3> QED BY <1>4, <2>0, <2>4, <3>1, <3>2, Queues
  <2> QED BY <2>1, <2>2, <2>3, <2>4 DEF Moves, ProbingStep, WorkerStep, InboxStep, HeardStep, Works
<1> QED BY <1>2, <1>3, <1>4 DEF Configured, Current

LEMMA FreshStep ==
  ASSUME TypeOK, LinkInv, NEW s, NEW n \in Nodes, Moves(s, n)
  PROVE  Fresh'
<1>1. ASSUME NEW t \in Ops, NEW x \in Nodes, New(t, x)
      PROVE  New(t, x)' \/ (t = s /\ x = n /\ Begun(s, n))
  <2> SUFFICES ASSUME ~(t = s /\ x = n /\ Begun(s, n))
               PROVE  New(t, x)'
    OBVIOUS
  <2>1. t \notin owned'[x]
    BY <1>1 DEF Moves, ResourceStep, New
  <2>2. worker'[t][x] = "none"
    BY <1>1 DEF Moves, ProbingStep, WorkerStep, InboxStep, HeardStep, Works, New
  <2>3. att'[x] # NoAttempt => att'[x].op # t
    BY <1>1 DEF Moves, ResourceStep, New
  <2> QED BY <2>1, <2>2, <2>3 DEF New
<1>2. ASSUME NEW t \in Ops, NEW x \in Nodes
      PROVE  /\ Preparing(t, x)' => Preparing(t, x) /\ ~(t = s /\ x = n /\ Begun(s, n))
             /\ Unproposed(t, x)' => Unproposed(t, x)
  <2>1. ends'[t][x] = "unused" => ends[t][x] = "unused"
    BY DEF Moves, ProtocolStep, EndsStep, PcStep, ChanStep
  <2>2. pc'[t][x] = "dialled" => pc[t][x] = "dialled"
    BY DEF Moves, ProtocolStep, EndsStep, PcStep, ChanStep
  <2>3. pc'[t][x] = "propose" => pc[t][x] \in {"dialled", "propose"}
    BY DEF Moves, ProtocolStep, EndsStep, PcStep, ChanStep
  <2>4. ASSUME t = s, x = n, Begun(s, n) PROVE ends'[t][x] # "unused" /\ pc'[t][x] # "dialled"
    <3>1. CASE Receives(s, n, "PROPOSE")
      BY <2>1, <2>2, <2>4, <3>1 DEF Receives, Moves, ProtocolStep, EndsStep, PcStep, ChanStep
    <3>2. CASE pc[s][n] = "dialled" /\ pc'[s][n] \in {"idle", "propose"}
      <4>1. ends[s][n] \in Running
        BY <2>4, <3>2 DEF LinkInv, OneDial
      <4> QED BY <2>1, <2>4, <3>2, <4>1 DEF Running
    <3> QED BY <2>4, <3>1, <3>2 DEF Begun
  <2> QED BY <2>1, <2>2, <2>3, <2>4 DEF Preparing, Unproposed
<1>3. ASSUME NEW t \in Ops, Preparing(t, Dialler(t))'
      PROVE  New(t, Dialler(t))'
  <2>1. Dialler(t) \in Nodes
    BY NodeFacts
  <2>2. Preparing(t, Dialler(t)) /\ ~(t = s /\ Dialler(t) = n /\ Begun(s, n))
    BY <1>2, <1>3, <2>1
  <2>3. New(t, Dialler(t))
    BY <2>2 DEF LinkInv, Fresh
  <2> QED BY <1>1, <2>1, <2>2, <2>3
<1>4. ASSUME NEW t \in Ops, Unproposed(t, Dialler(t))'
      PROVE  worker'[t][Dialler(t)] = "none" /\ chan'[t][Peer(Dialler(t))] = <<>>
             /\ New(t, Peer(Dialler(t)))'
  <2> DEFINE d == Dialler(t)
  <2>1. d \in Nodes /\ Peer(d) \in Nodes /\ Peer(Peer(d)) = d /\ Peer(n) \in Nodes /\ Peer(Peer(n)) = n
        /\ Peer(d) # d
    BY NodeFacts
  <2>2. Unproposed(t, d)
    BY <1>2, <1>4, <2>1
  <2>3. worker[t][d] = "none" /\ chan[t][Peer(d)] = <<>> /\ New(t, Peer(d))
    BY <2>2 DEF LinkInv, Fresh
  <2>4. worker'[t][d] = "none"
    BY <2>1, <2>2, <2>3 DEF Moves, ProbingStep, WorkerStep, InboxStep, HeardStep, Works
  <2>5. chan'[t][Peer(d)] = <<>>
    <3>1. SUFFICES ASSUME t = s, Peer(d) = Peer(n), NEW m \in Frames \cup Records, MaySend(s, n, m)
                   PROVE  FALSE
      BY <2>1, <2>3 DEF Moves, ProtocolStep, EndsStep, PcStep, ChanStep
    <3>2. d = n
      BY <2>1, <3>1
    <3>3. m = "PROPOSE" /\ pc[s][n] = "propose" /\ pc'[s][n] = "idle" /\ ends[s][n] = "open"
      BY <2>2, <3>1, <3>2 DEF MaySend
    <3>4. ends'[s][n] # "unused"
      BY <3>1, <3>3 DEF Moves, ProtocolStep, EndsStep, PcStep, ChanStep
    <3> QED BY <1>4, <3>1, <3>2, <3>3, <3>4 DEF Unproposed, Preparing
  <2>6. ~(t = s /\ Peer(d) = n /\ Begun(s, n))
    <3>1. SUFFICES ASSUME t = s, Peer(d) = n, Begun(s, n) PROVE FALSE
      OBVIOUS
    <3>2. chan[s][n] = <<>> /\ n # Dialler(s)
      BY <2>1, <2>3, <3>1
    <3> QED BY <3>1, <3>2 DEF Begun, Receives
  <2>7. New(t, Peer(d))'
    BY <1>1, <2>1, <2>3, <2>6
  <2> QED BY <2>4, <2>5, <2>7
<1>5. ASSUME NEW t \in Ops, NEW x \in Nodes, NEW i \in 1 .. Len(chan'[t][x]),
             chan'[t][x][i] = "PROPOSE"
      PROVE  i = 1 /\ x # Dialler(t) /\ New(t, x)'
  <2>0. chan[t][x] \in Seq(Frames \cup Records) /\ "PROPOSE" \in Frames \cup Records
        /\ Len(chan[t][x]) \in Nat
    BY LenProperties DEF TypeOK, Frames
  <2>1. CASE chan'[t][x] = chan[t][x]
    <3>1. i = 1 /\ x # Dialler(t) /\ New(t, x)
      BY <1>5, <2>1 DEF LinkInv, Fresh
    <3>2. ~(t = s /\ x = n /\ Begun(s, n))
      <4>1. SUFFICES ASSUME t = s, x = n, Begun(s, n) PROVE FALSE
        OBVIOUS
      <4>2. Receives(s, n, "PROPOSE") /\ chan'[s][n] = Tail(chan[s][n])
        BY <3>1, <4>1 DEF Begun
      <4>3. chan[t][x] # <<>>
        BY <4>1, <4>2 DEF Receives
      <4>4. Len(Tail(chan[t][x])) = Len(chan[t][x]) - 1
        BY <2>0, <4>3, HeadTailProperties
      <4>5. Len(Tail(chan[t][x])) = Len(chan[t][x])
        BY <2>1, <4>1, <4>2, Zenon
      <4>6. \A k \in Nat : k # k - 1
        OBVIOUS
      <4> QED BY <2>0, <4>4, <4>5, <4>6, Zenon
    <3> QED BY <1>1, <3>1, <3>2
  <2>2. CASE chan'[t][x] = <<>>
    BY <1>5, <2>2
  <2>3. CASE chan[t][x] # <<>> /\ chan'[t][x] = Tail(chan[t][x])
    <3>1. i + 1 \in 1 .. Len(chan[t][x]) /\ chan[t][x][i + 1] = "PROPOSE" /\ i + 1 # 1
      BY <1>5, <2>0, <2>3, Queues
    <3> QED BY <3>1 DEF LinkInv, Fresh
  <2>4. ASSUME t = s, x = Peer(n), NEW m \in Frames \cup Records,
               chan'[t][x] = Append(chan[t][x], m), MaySend(s, n, m)
        PROVE  i = 1 /\ x # Dialler(t) /\ New(t, x)'
    <3>0. x # n /\ Peer(n) \in Nodes
      BY <2>4, NodeFacts
    <3>1. CASE i \in 1 .. Len(chan[t][x]) /\ chan[t][x][i] = "PROPOSE"
      <4>1. i = 1 /\ x # Dialler(t) /\ New(t, x)
        BY <3>1 DEF LinkInv, Fresh
      <4> QED BY <1>1, <3>0, <4>1
    <3>2. CASE m = "PROPOSE" /\ i = Len(chan[t][x]) + 1
      <4>1. pc[s][n] = "propose"
        BY <3>2, <2>4 DEF MaySend
      <4>2. n = Dialler(s)
        BY <2>4, <4>1 DEF LinkInv, OneDial
      <4>3. chan[t][x] = <<>> /\ New(t, x)
        BY <2>4, <4>1, <4>2 DEF LinkInv, Fresh, Unproposed
      <4>4. Len(chan[t][x]) = 0
        BY <4>3
      <4> QED BY <1>1, <2>4, <3>0, <3>2, <4>2, <4>3, <4>4
    <3> QED BY <1>5, <2>0, <2>4, <3>1, <3>2, Queues
  <2> QED BY <2>1, <2>2, <2>3, <2>4 DEF Moves, ProtocolStep, EndsStep, PcStep, ChanStep
<1> QED BY <1>3, <1>4, <1>5 DEF Fresh

-----------------------------------------------------------------------------
(***************************************************************************)
(* Resources: each way an operation of a node changes them.                *)
(***************************************************************************)
Only(n) ==
  /\ att' = [att EXCEPT ![n] = att'[n]] /\ pend' = [pend EXCEPT ![n] = pend'[n]]
  /\ kern' = [kern EXCEPT ![n] = kern'[n]] /\ link' = [link EXCEPT ![n] = link'[n]]
  /\ owned' = [owned EXCEPT ![n] = owned'[n]] /\ dirty' = [dirty EXCEPT ![n] = dirty'[n]]

LateType == late \in [Nodes -> SUBSET Cleanup]

LEMMA HeldTypes ==
  ASSUME HeldType, NEW n \in Nodes, Only(n), LateType',
         att'[n] \in Attempt \cup {NoAttempt}, pend'[n] \in Cleanup \cup {NoCleanup},
         kern'[n] \in Interface \cup {NoInterface}, link'[n] \in Link \cup {NoLink},
         owned'[n] \in SUBSET Ops, dirty'[n] \in SUBSET Ops
  PROVE  HeldType'
<1>1. att' \in [Nodes -> Attempt \cup {NoAttempt}]
  BY DEF HeldType, Only
<1>2. pend' \in [Nodes -> Cleanup \cup {NoCleanup}]
  BY DEF HeldType, Only
<1>3. kern' \in [Nodes -> Interface \cup {NoInterface}]
  BY DEF HeldType, Only
<1>4. link' \in [Nodes -> Link \cup {NoLink}]
  BY DEF HeldType, Only
<1>5. owned' \in [Nodes -> SUBSET Ops]
  BY DEF HeldType, Only
<1>6. dirty' \in [Nodes -> SUBSET Ops]
  BY DEF HeldType, Only
<1> QED BY <1>1, <1>2, <1>3, <1>4, <1>5, <1>6 DEF HeldType, LateType

\* The part of ResourceStep that is about n itself.
NodeStep(s, n) ==
  /\ LateType' /\ NodeHeld(n)'
  /\ att'[n] \in Attempt \cup {NoAttempt} /\ pend'[n] \in Cleanup \cup {NoCleanup}
  /\ kern'[n] \in Interface \cup {NoInterface} /\ link'[n] \in Link \cup {NoLink}
  /\ owned'[n] \in SUBSET Ops /\ dirty'[n] \in SUBSET Ops
  /\ att'[n] # NoAttempt =>
       \/ /\ att[n] # NoAttempt /\ att'[n].op = att[n].op
          /\ kern[n].mode # "down" => kern'[n].mode # "down"
       \/ s \in Ops /\ att'[n].op = s /\ Begun(s, n)
  /\ \A a \in owned'[n] : a \in owned[n] \/ (a = s /\ s \in Ops /\ Begun(s, n))
  /\ kern'[n] # NoInterface /\ kern'[n].mode = "full" =>
       \/ kern[n] # NoInterface /\ kern[n].mode = "full" /\ kern'[n].conf = kern[n].conf
       \/ kern'[n].conf \in heard[Peer(n)]
  /\ pend'[n] # NoCleanup => pend'[n] = pend[n] \/ \A t \in Ops : pc[t][n] # "dialled"

LEMMA NodeStepSuffices ==
  ASSUME TypeOK, Held, NEW s, NEW n \in Nodes, Only(n), NodeStep(s, n)
  PROVE  ResourceStep(s, n)
<1>1. HeldType
  BY TypeParts
<1>2. HeldType'
  BY <1>1, HeldTypes DEF NodeStep
<1>3. ASSUME NEW x \in Nodes, x # n
      PROVE  /\ att'[x] = att[x] /\ pend'[x] = pend[x] /\ kern'[x] = kern[x] /\ link'[x] = link[x]
             /\ owned'[x] = owned[x] /\ dirty'[x] = dirty[x]
  BY <1>1, <1>3 DEF HeldType, Only
<1>4. ASSUME NEW x \in Nodes, x # n PROVE NodeHeld(x)'
  <2>1. NodeHeld(x)
    BY DEF Held
  <2> QED BY <1>3, <1>4, <2>1 DEF NodeHeld, AttemptHeld, CleanupHeld, LinkHeld, Accounted
<1>5. Held'
  BY <1>4 DEF Held, NodeStep
<1>6. \A x \in Nodes : att'[x] # NoAttempt =>
       \/ /\ att[x] # NoAttempt /\ att'[x].op = att[x].op
          /\ kern[x].mode # "down" => kern'[x].mode # "down"
       \/ x = n /\ s \in Ops /\ att'[x].op = s /\ Begun(s, n)
  BY <1>3 DEF NodeStep
<1>7. \A x \in Nodes : \A a \in owned'[x] :
       a \in owned[x] \/ (x = n /\ a = s /\ s \in Ops /\ Begun(s, n))
  BY <1>3 DEF NodeStep
<1>8. \A x \in Nodes : kern'[x] # NoInterface /\ kern'[x].mode = "full" =>
       \/ kern[x] # NoInterface /\ kern[x].mode = "full" /\ kern'[x].conf = kern[x].conf
       \/ kern'[x].conf \in heard[Peer(x)]
  BY <1>3 DEF NodeStep
<1>9. \A x \in Nodes : pend'[x] # NoCleanup =>
       pend'[x] = pend[x] \/ \A t \in Ops : pc[t][x] # "dialled"
  BY <1>3 DEF NodeStep
<1> QED BY <1>2, <1>5, <1>6, <1>7, <1>8, <1>9 DEF ResourceStep

held == <<att, pend, late, resources>>

LEMMA LateChanged ==
  ASSUME TypeOK, Held, NEW s, NEW n \in Nodes, UNCHANGED <<att, pend, resources>>, LateType'
  PROVE  ResourceStep(s, n)
<1>1. att' = att /\ pend' = pend /\ kern' = kern /\ link' = link /\ owned' = owned /\ dirty' = dirty
  BY DEF resources
<1>2. HeldType'
  BY <1>1, TypeParts DEF HeldType, LateType
<1>3. Held'
  BY <1>1 DEF Held, NodeHeld, AttemptHeld, CleanupHeld, LinkHeld, Accounted
<1> QED BY <1>1, <1>2, <1>3 DEF ResourceStep

LEMMA HeldUnchanged ==
  ASSUME TypeOK, Held, NEW s, NEW n \in Nodes, UNCHANGED held
  PROVE  ResourceStep(s, n)
<1>1. UNCHANGED <<att, pend, resources>> /\ LateType'
  BY TypeParts DEF held, HeldType, LateType
<1> QED BY <1>1, LateChanged

\* The types at one node, and what it holds.
LEMMA At ==
  ASSUME TypeOK, Held, NEW n \in Nodes
  PROVE  /\ att[n] \in Attempt \cup {NoAttempt} /\ pend[n] \in Cleanup \cup {NoCleanup}
         /\ kern[n] \in Interface \cup {NoInterface} /\ link[n] \in Link \cup {NoLink}
         /\ owned[n] \in SUBSET Ops /\ dirty[n] \in SUBSET Ops /\ late[n] \in SUBSET Cleanup
         /\ att[n] # NoAttempt => att[n].op \in Ops /\ att[n].alias \in Ops
         /\ pend[n] # NoCleanup => pend[n].alias \in Ops
         /\ AttemptHeld(n) /\ CleanupHeld(n) /\ LinkHeld(n) /\ Accounted(n)
         /\ LateType
         /\ \A f : ([att EXCEPT ![n] = f])[n] = f /\ ([pend EXCEPT ![n] = f])[n] = f
                /\ ([kern EXCEPT ![n] = f])[n] = f /\ ([link EXCEPT ![n] = f])[n] = f
                /\ ([owned EXCEPT ![n] = f])[n] = f /\ ([dirty EXCEPT ![n] = f])[n] = f
<1>1. HeldType
  BY TypeParts
<1>2. /\ att[n] \in Attempt \cup {NoAttempt} /\ pend[n] \in Cleanup \cup {NoCleanup}
      /\ kern[n] \in Interface \cup {NoInterface} /\ link[n] \in Link \cup {NoLink}
      /\ owned[n] \in SUBSET Ops /\ dirty[n] \in SUBSET Ops /\ late[n] \in SUBSET Cleanup
  BY <1>1 DEF HeldType
<1>3. att[n] # NoAttempt => att[n].op \in Ops /\ att[n].alias \in Ops
  BY <1>2 DEF Attempt
<1>4. pend[n] # NoCleanup => pend[n].alias \in Ops
  BY <1>2 DEF Cleanup
<1>5. \A f : ([att EXCEPT ![n] = f])[n] = f /\ ([pend EXCEPT ![n] = f])[n] = f
          /\ ([kern EXCEPT ![n] = f])[n] = f /\ ([link EXCEPT ![n] = f])[n] = f
          /\ ([owned EXCEPT ![n] = f])[n] = f /\ ([dirty EXCEPT ![n] = f])[n] = f
  BY <1>1 DEF HeldType
<1> QED BY <1>1, <1>2, <1>3, <1>4, <1>5 DEF Held, NodeHeld, HeldType, LateType

\* A function updated with its own value.
LEMMA Same ==
  ASSUME HeldType, NEW n \in Nodes
  PROVE  /\ [att EXCEPT ![n] = att[n]] = att /\ [pend EXCEPT ![n] = pend[n]] = pend
         /\ [kern EXCEPT ![n] = kern[n]] = kern /\ [link EXCEPT ![n] = link[n]] = link
         /\ [owned EXCEPT ![n] = owned[n]] = owned /\ [dirty EXCEPT ![n] = dirty[n]] = dirty
BY DEF HeldType


\* removeInterface by whoever holds the interface: an Attempt that ends or a cleanup due.
LEMMA Dropped ==
  ASSUME TypeOK, Held, NEW s, NEW n \in Nodes, NEW a, NEW fails \in BOOLEAN,
         \/ att[n] # NoAttempt /\ a = att[n].alias
         \/ att[n] = NoAttempt /\ pend[n] # NoCleanup /\ a = pend[n].alias,
         att' = [att EXCEPT ![n] = NoAttempt], pend' = [pend EXCEPT ![n] = NoCleanup],
         LateType', Removed(n, a, owned[n], fails)
  PROVE  ResourceStep(s, n)
<1>1. kern[n] # NoInterface /\ kern[n].alias = a /\ a \in owned[n] /\ a \in Ops /\ a \notin dirty[n]
  BY At DEF AttemptHeld, CleanupHeld
<1>2. ~(link[n] # NoLink /\ link[n].alias # a)
  BY At DEF LinkHeld
<1>3. /\ link' = [link EXCEPT ![n] = NoLink]
      /\ kern' = [kern EXCEPT ![n] = IF fails THEN kern[n] ELSE NoInterface]
      /\ owned' = [owned EXCEPT ![n] = IF fails THEN owned[n] ELSE owned[n] \ {a}]
      /\ dirty' = [dirty EXCEPT ![n] = IF fails THEN dirty[n] \cup (owned[n] \cap {a}) ELSE dirty[n] \ {a}]
  BY <1>1, <1>2 DEF Removed
<1>4. /\ att'[n] = NoAttempt /\ pend'[n] = NoCleanup /\ link'[n] = NoLink
      /\ kern'[n] = IF fails THEN kern[n] ELSE NoInterface
      /\ owned'[n] = IF fails THEN owned[n] ELSE owned[n] \ {a}
      /\ dirty'[n] = IF fails THEN dirty[n] \cup (owned[n] \cap {a}) ELSE dirty[n] \ {a}
  BY <1>3, TypeParts DEF HeldType
<1>5. Only(n)
  BY <1>3, <1>4 DEF Only
<1>6. \A b \in owned[n] : b \notin dirty[n] => b = a
  BY At DEF Accounted, AttemptHeld
<1>7. Accounted(n)'
  <2>1. CASE fails
    <3>1. kern'[n] = kern[n] /\ owned'[n] = owned[n] /\ dirty'[n] = dirty[n] \cup {a}
      BY <1>1, <1>4, <2>1
    <3> QED BY <1>1, <1>6, <3>1, At DEF Accounted
  <2>2. CASE ~fails
    <3>1. kern'[n] = NoInterface /\ owned'[n] = owned[n] \ {a} /\ dirty'[n] = dirty[n] \ {a}
      BY <1>4, <2>2
    <3> QED BY <1>1, <1>6, <3>1, At DEF Accounted
  <2> QED BY <2>1, <2>2
<1>8. NodeHeld(n)'
  BY <1>4, <1>7 DEF NodeHeld, AttemptHeld, CleanupHeld, LinkHeld
<1>9. kern'[n] \in {kern[n], NoInterface} /\ owned'[n] \subseteq owned[n]
      /\ dirty'[n] \subseteq dirty[n] \cup {a}
  BY <1>4
<1>10. NodeStep(s, n)
  BY <1>1, <1>4, <1>8, <1>9, At DEF NodeStep
<1> QED BY <1>5, <1>10, NodeStepSuffices

\* The same without a cleanup to cancel.
LEMMA AttemptDropped ==
  ASSUME TypeOK, Held, NEW s, NEW n \in Nodes, NEW fails \in BOOLEAN, att[n] # NoAttempt,
         att' = [att EXCEPT ![n] = NoAttempt], UNCHANGED <<pend, late>>,
         Removed(n, att[n].alias, owned[n], fails)
  PROVE  ResourceStep(s, n)
<1>1. pend[n] = NoCleanup
  BY At DEF AttemptHeld
<1>2. pend' = [pend EXCEPT ![n] = NoCleanup]
  BY <1>1, Same, TypeParts
<1>3. LateType'
  BY At DEF LateType
<1> QED BY <1>2, <1>3, Dropped

\* A new interface for an operation that begins, where there is none or a lost Link's is
\* replaced.
LEMMA Began ==
  ASSUME TypeOK, LinkInv, NEW s \in Ops, NEW n \in Nodes, NEW local \in BOOLEAN, NEW state,
         NEW o, Begun(s, n), LateType', pend' = [pend EXCEPT ![n] = NoCleanup],
         state = "probing" \/ (state = "proposing" /\ Dialler(s) = n),
         \/ att[n] = NoAttempt /\ pend[n] = NoCleanup /\ kern[n] = NoInterface /\ o = owned[n]
            /\ link' = link
         \/ att[n] # NoAttempt /\ o = owned[n] \ {att[n].alias}
            /\ link' = [link EXCEPT ![n] = NoLink],
         Begin(n, s, local, state, o), dirty' = dirty
  PROVE  ResourceStep(s, n)
<1>0. Held /\ HeldType
  BY TypeParts DEF LinkInv
<1>1. New(s, n)
  BY BegunNew
<1>2. s \notin owned[n] /\ s \notin dirty[n]
  BY <1>0, <1>1, At DEF New, Accounted
<1>3. state \in States
  BY DEF States
<1>4. /\ att'[n] = Prepared(s, s, local, state) /\ pend'[n] = NoCleanup
      /\ kern'[n] = [alias |-> s, mode |-> "down", conf |-> None]
      /\ owned'[n] = o \cup {s} /\ dirty'[n] = dirty[n]
  BY <1>0, At DEF Begin
<1>5. link'[n] = NoLink /\ link' = [link EXCEPT ![n] = link'[n]]
  <2>1. CASE att[n] = NoAttempt /\ link' = link
    <3>1. link[n] = NoLink
      BY <1>0, <2>1, At DEF LinkHeld
    <3> QED BY <1>0, <2>1, <3>1, Same
  <2>2. CASE link' = [link EXCEPT ![n] = NoLink]
    <3>1. link'[n] = NoLink
      BY <1>0, <2>2, At
    <3> QED BY <2>2, <3>1
  <2> QED BY <2>1, <2>2
<1>6. Only(n)
  <2>1. dirty' = [dirty EXCEPT ![n] = dirty'[n]]
    BY <1>0, Same
  <2> QED BY <1>4, <1>5, <2>1 DEF Only, Begin
<1>7. /\ att'[n] \in Attempt /\ att'[n] # NoAttempt /\ att'[n].op = s /\ att'[n].alias = s
      /\ att'[n].state = state
      /\ kern'[n] \in Interface /\ kern'[n] # NoInterface /\ kern'[n].alias = s /\ kern'[n].mode = "down"
  <2>1. /\ att'[n] \in Attempt /\ att'[n].op = s /\ att'[n].alias = s /\ att'[n].state = state
    BY <1>3, <1>4, BuiltAttempt
  <2>2. kern'[n] \in Interface /\ kern'[n].alias = s /\ kern'[n].mode = "down"
    BY <1>4, Built
  <2> QED BY <2>1, <2>2, NothingFacts
<1>8. /\ \A b \in o : b \in dirty[n]
      /\ o \subseteq owned[n] /\ dirty[n] \subseteq o
  BY <1>0, At DEF Accounted, AttemptHeld
<1>9. NodeHeld(n)'
  <2>1. AttemptHeld(n)'
    BY <1>2, <1>4, <1>7 DEF AttemptHeld
  <2>2. CleanupHeld(n)'
    BY <1>4 DEF CleanupHeld
  <2>3. LinkHeld(n)'
    BY <1>5, <1>7 DEF LinkHeld
  <2>4. Accounted(n)'
    BY <1>4, <1>7, <1>8 DEF Accounted
  <2> QED BY <2>1, <2>2, <2>3, <2>4 DEF NodeHeld
<1>10. owned'[n] \in SUBSET Ops /\ dirty'[n] \in SUBSET Ops
  BY <1>0, <1>4, <1>8, At
<1>11. \A a \in owned'[n] : a \in owned[n] \/ (a = s /\ s \in Ops /\ Begun(s, n))
  BY <1>4, <1>8
<1>12. NodeStep(s, n)
  BY <1>4, <1>5, <1>7, <1>9, <1>10, <1>11 DEF NodeStep
<1> QED BY <1>0, <1>6, <1>12, NodeStepSuffices

\* prepareAttemptLocked fails: what it leaves behind has the cleanup flag.
LEMMA GivenUp ==
  ASSUME TypeOK, LinkInv, NEW s \in Ops, NEW n \in Nodes, Begun(s, n),
         att[n] = NoAttempt, GivesUp(n, s), UNCHANGED <<att, pend, late>>, pend[n] = NoCleanup
  PROVE  ResourceStep(s, n)
<1>0. Held /\ HeldType
  BY TypeParts DEF LinkInv
<1>1. New(s, n)
  BY BegunNew
<1>2. s \notin owned[n] /\ s \notin dirty[n] /\ link[n] = NoLink
  BY <1>0, <1>1, At DEF New, Accounted, LinkHeld
<1>3. CASE UNCHANGED resources
  BY <1>0, <1>3, HeldUnchanged DEF held
<1>4. ASSUME owned' = [owned EXCEPT ![n] = owned[n] \cup {s}],
             dirty' = [dirty EXCEPT ![n] = dirty[n] \cup {s}],
             link'[n] = NoLink, link' = [link EXCEPT ![n] = link'[n]],
             kern' = [kern EXCEPT ![n] = kern'[n]],
             \/ kern'[n] = kern[n]
             \/ kern'[n] = [alias |-> s, mode |-> "down", conf |-> None]
      PROVE  ResourceStep(s, n)
  <2>1. owned'[n] = owned[n] \cup {s} /\ dirty'[n] = dirty[n] \cup {s}
    BY <1>0, <1>4, At
  <2>2. Only(n)
    BY <1>0, <1>4, <2>1, Same DEF Only
  <2>3. /\ kern'[n] \in Interface \cup {NoInterface}
        /\ kern'[n] # NoInterface => kern'[n].alias \in owned'[n]
        /\ kern'[n] # NoInterface => kern'[n] = kern[n] \/ kern'[n].mode = "down"
    <3>1. CASE kern'[n] = kern[n]
      BY <1>0, <2>1, <3>1, At DEF Accounted
    <3>2. CASE kern'[n] = [alias |-> s, mode |-> "down", conf |-> None]
      BY <2>1, <3>2, Built
    <3> QED BY <1>4, <3>1, <3>2
  <2>4. NodeHeld(n)'
    <3>1. Accounted(n)'
      BY <1>0, <2>1, <2>3, At DEF Accounted
    <3> QED BY <1>4, <3>1 DEF NodeHeld, AttemptHeld, CleanupHeld, LinkHeld
  <2>5. owned'[n] \in SUBSET Ops /\ dirty'[n] \in SUBSET Ops /\ LateType'
    BY <1>0, <2>1, At DEF LateType
  <2>6. NodeStep(s, n)
    BY <1>4, <2>1, <2>3, <2>4, <2>5 DEF NodeStep
  <2> QED BY <1>0, <2>2, <2>6, NodeStepSuffices
<1>5. CASE kern[n] # NoInterface /\ Removed(n, s, owned[n] \cup {s}, FALSE)
  <2>1. kern[n].alias # s
    BY <1>0, <1>2, <1>5, At DEF Accounted
  <2>2. (owned[n] \cup {s}) \cap {s} = {s}
    OBVIOUS
  <2>3. /\ link' = [link EXCEPT ![n] = NoLink] /\ kern' = [kern EXCEPT ![n] = kern[n]]
        /\ owned' = [owned EXCEPT ![n] = owned[n] \cup {s}]
        /\ dirty' = [dirty EXCEPT ![n] = dirty[n] \cup {s}]
    BY <1>2, <1>5, <2>1, <2>2 DEF Removed
  <2>4. link'[n] = NoLink /\ kern'[n] = kern[n]
    BY <1>0, <2>3, At
  <2> QED BY <1>4, <2>3, <2>4
<1>6. CASE /\ kern' = [kern EXCEPT ![n] = [alias |-> s, mode |-> "down", conf |-> None]]
           /\ owned' = [owned EXCEPT ![n] = @ \cup {s}]
           /\ dirty' = [dirty EXCEPT ![n] = @ \cup {s}]
           /\ UNCHANGED link
  <2>1. kern'[n] = [alias |-> s, mode |-> "down", conf |-> None]
    BY <1>0, <1>6, At
  <2>2. link'[n] = NoLink /\ link' = [link EXCEPT ![n] = link'[n]]
    BY <1>0, <1>2, <1>6, Same
  <2> QED BY <1>4, <1>6, <2>1, <2>2
<1> QED BY <1>3, <1>5, <1>6 DEF GivesUp


\* prepareInbound takes over the interface of a Proposal that lost, or was declined.
LEMMA Reused ==
  ASSUME TypeOK, LinkInv, NEW s \in Ops, NEW n \in Nodes, Begun(s, n), Supersedes(n), LateType',
         pend' = [pend EXCEPT ![n] = NoCleanup], UNCHANGED resources,
         att' = [att EXCEPT ![n] = Prepared(s, Reserved(n), FALSE, "probing")]
  PROVE  ResourceStep(s, n)
<1>0. Held /\ HeldType
  BY TypeParts DEF LinkInv
<1>1. /\ kern[n] # NoInterface /\ kern[n].alias = Reserved(n) /\ kern[n].mode = "down"
      /\ Reserved(n) \in owned[n] /\ Reserved(n) \in Ops /\ Reserved(n) \notin dirty[n]
      /\ link[n] = NoLink
      /\ \A b \in owned[n] : b \notin dirty[n] => b = Reserved(n)
  <2>1. CASE att[n] # NoAttempt
    <3>1. att[n].state = "proposing" /\ Reserved(n) = att[n].alias
      BY <2>1 DEF Supersedes, LosesTo, Reserved
    <3> QED BY <1>0, <2>1, <3>1, At DEF AttemptHeld, LinkHeld, Accounted
  <2>2. CASE att[n] = NoAttempt
    <3>1. pend[n] # NoCleanup /\ Reserved(n) = pend[n].alias
      BY <2>2 DEF Supersedes, Reserved
    <3> QED BY <1>0, <2>2, <3>1, At DEF CleanupHeld, LinkHeld, Accounted
  <2> QED BY <2>1, <2>2
<1>2. /\ att'[n] \in Attempt /\ att'[n].op = s /\ att'[n].alias = Reserved(n)
      /\ att'[n].state = "probing"
  <2>1. att'[n] = Prepared(s, Reserved(n), FALSE, "probing")
    BY <1>0, At
  <2>2. "probing" \in States /\ FALSE \in BOOLEAN
    BY DEF States
  <2>3. \A b \in BOOLEAN : LET y == Prepared(s, Reserved(n), b, "probing") IN
          y \in Attempt /\ y.op = s /\ y.alias = Reserved(n) /\ y.state = "probing"
    BY <1>1, <2>2, BuiltAttempt
  <2> QED BY <2>1, <2>2, <2>3, Zenon
<1>3. att'[n] # NoAttempt
  BY <1>2, NothingFacts
<1>4. pend'[n] = NoCleanup
  BY <1>0, At
<1>5. kern' = kern /\ link' = link /\ owned' = owned /\ dirty' = dirty
  BY DEF resources
<1>6. Only(n)
  <2>1. /\ kern' = [kern EXCEPT ![n] = kern'[n]] /\ link' = [link EXCEPT ![n] = link'[n]]
        /\ owned' = [owned EXCEPT ![n] = owned'[n]] /\ dirty' = [dirty EXCEPT ![n] = dirty'[n]]
    BY <1>0, <1>5, Same
  <2>2. att' = [att EXCEPT ![n] = att'[n]] /\ pend' = [pend EXCEPT ![n] = pend'[n]]
    BY <1>0, At
  <2> QED BY <2>1, <2>2 DEF Only
<1>7. NodeHeld(n)'
  <2>1. AttemptHeld(n)'
    BY <1>1, <1>2, <1>4, <1>5 DEF AttemptHeld
  <2>2. CleanupHeld(n)'
    BY <1>4 DEF CleanupHeld
  <2>3. LinkHeld(n)'
    BY <1>1, <1>2, <1>5 DEF LinkHeld
  <2>4. Accounted(n)'
    BY <1>0, <1>1, <1>2, <1>3, <1>5, At DEF Accounted
  <2> QED BY <2>1, <2>2, <2>3, <2>4 DEF NodeHeld
<1>8. NodeStep(s, n)
  BY <1>0, <1>1, <1>2, <1>4, <1>5, <1>7, At DEF NodeStep
<1> QED BY <1>0, <1>6, <1>8, NodeStepSuffices

\* deferCleanupLocked: a declined Proposal leaves its interface to a cleanup.
LEMMA Deferred ==
  ASSUME TypeOK, LinkInv, NEW s \in Ops, NEW n \in Nodes, In(n, s, {"proposing"}), LateType',
         UNCHANGED resources, \A t \in Ops : pc[t][n] # "dialled",
         att' = [att EXCEPT ![n] = NoAttempt],
         pend' = [pend EXCEPT ![n] = [op |-> s, alias |-> att[n].alias]]
  PROVE  ResourceStep(s, n)
<1>0. Held /\ HeldType
  BY TypeParts DEF LinkInv
<1>1. att[n] # NoAttempt /\ att[n].state = "proposing"
  BY DEF In, Current
<1>2. /\ kern[n] # NoInterface /\ kern[n].alias = att[n].alias /\ kern[n].mode = "down"
      /\ att[n].alias \in owned[n] /\ att[n].alias \in Ops /\ att[n].alias \notin dirty[n]
      /\ link[n] = NoLink
      /\ \A b \in owned[n] : b \notin dirty[n] => b = att[n].alias
  BY <1>0, <1>1, At DEF AttemptHeld, LinkHeld, Accounted
<1>3. att'[n] = NoAttempt /\ pend'[n] = [op |-> s, alias |-> att[n].alias]
  BY <1>0, At
<1>4. pend'[n] \in Cleanup /\ pend'[n].alias = att[n].alias
  BY <1>2, <1>3, Built
<1>5. kern' = kern /\ link' = link /\ owned' = owned /\ dirty' = dirty
  BY DEF resources
<1>6. Only(n)
  <2>1. /\ kern' = [kern EXCEPT ![n] = kern'[n]] /\ link' = [link EXCEPT ![n] = link'[n]]
        /\ owned' = [owned EXCEPT ![n] = owned'[n]] /\ dirty' = [dirty EXCEPT ![n] = dirty'[n]]
    BY <1>0, <1>5, Same
  <2> QED BY <1>3, <2>1 DEF Only
<1>7. NodeHeld(n)'
  <2>1. pend'[n] # NoCleanup
    BY <1>4, NothingFacts
  <2>2. AttemptHeld(n)' /\ LinkHeld(n)'
    BY <1>2, <1>3, <1>5 DEF AttemptHeld, LinkHeld
  <2>3. CleanupHeld(n)'
    BY <1>2, <1>4, <1>5 DEF CleanupHeld
  <2>4. Accounted(n)'
    BY <1>0, <1>2, <1>4, <1>5, <2>1, At DEF Accounted
  <2> QED BY <2>2, <2>3, <2>4 DEF NodeHeld
<1>8. NodeStep(s, n)
  BY <1>0, <1>3, <1>4, <1>5, <1>7, At DEF NodeStep
<1> QED BY <1>0, <1>6, <1>8, NodeStepSuffices

\* The retry of a failed cleanup takes what neither an Attempt nor a cleanup holds.
LEMMA Retried ==
  ASSUME TypeOK, LinkInv, NEW s, NEW n \in Nodes, RetryLinkCleanup(n)
  PROVE  ResourceStep(s, n)
<1>0. Held /\ HeldType
  BY TypeParts DEF LinkInv
<1>1. PICK a \in dirty[n] :
       /\ kern[n] # NoInterface => kern[n].alias = a
       /\ kern' = [kern EXCEPT ![n] = NoInterface]
       /\ owned' = [owned EXCEPT ![n] = @ \ {a}]
       /\ dirty' = [dirty EXCEPT ![n] = @ \ {a}]
  BY DEF RetryLinkCleanup
<1>2. att' = att /\ pend' = pend /\ late' = late /\ link' = link
  BY DEF RetryLinkCleanup
<1>3. att[n] = NoAttempt /\ pend[n] = NoCleanup
  BY <1>0, <1>1, At DEF AttemptHeld, CleanupHeld
<1>4. kern'[n] = NoInterface /\ owned'[n] = owned[n] \ {a} /\ dirty'[n] = dirty[n] \ {a}
  BY <1>0, <1>1, At
<1>5. Only(n)
  <2>1. /\ att' = [att EXCEPT ![n] = att'[n]] /\ pend' = [pend EXCEPT ![n] = pend'[n]]
        /\ link' = [link EXCEPT ![n] = link'[n]]
    BY <1>0, <1>2, Same
  <2> QED BY <1>1, <1>4, <2>1 DEF Only
<1>6. NodeHeld(n)'
  <2>1. LinkHeld(n)'
    BY <1>0, <1>2, At DEF LinkHeld
  <2>2. Accounted(n)'
    BY <1>0, <1>1, <1>2, <1>3, <1>4, At DEF Accounted
  <2> QED BY <1>2, <1>3, <2>1, <2>2 DEF NodeHeld, AttemptHeld, CleanupHeld
<1>7. NodeStep(s, n)
  BY <1>0, <1>2, <1>3, <1>4, <1>6, At DEF NodeStep, LateType
<1> QED BY <1>0, <1>5, <1>7, NodeStepSuffices

\* An Attempt that goes on keeps its interface.
LEMMA Kept ==
  ASSUME TypeOK, Held, NEW s, NEW n \in Nodes, att[n] # NoAttempt,
         att' = [att EXCEPT ![n] = att'[n]], kern' = [kern EXCEPT ![n] = kern'[n]],
         link' = [link EXCEPT ![n] = link'[n]],
         UNCHANGED <<pend, late, owned, dirty>>,
         att'[n] \in Attempt, att'[n].op = att[n].op, att'[n].alias = att[n].alias,
         att'[n].state = "proposing" => att[n].state = "proposing" /\ kern'[n] = kern[n],
         kern'[n] \in Interface, kern'[n].alias = kern[n].alias,
         kern'[n].mode # "down" => kern'[n].conf = att[n].op,
         kern[n].mode # "down" => kern'[n].mode # "down",
         kern'[n].mode = "full" =>
           \/ kern[n].mode = "full" /\ kern'[n].conf = kern[n].conf
           \/ kern'[n].conf \in heard[Peer(n)],
         link'[n] \in Link \cup {NoLink}, LinkHeld(n)'
  PROVE  ResourceStep(s, n)
<1>0. HeldType
  BY TypeParts
<1>1. AttemptHeld(n) /\ Accounted(n) /\ CleanupHeld(n)
  BY At
<1>2. att'[n] # NoAttempt /\ kern'[n] # NoInterface
  BY NothingFacts
<1>3. pend' = pend /\ late' = late /\ owned' = owned /\ dirty' = dirty
  OBVIOUS
<1>4. Only(n)
  BY <1>0, <1>3, Same DEF Only
<1>5. AttemptHeld(n)'
  BY <1>1, <1>2, <1>3 DEF AttemptHeld
<1>6. CleanupHeld(n)'
  BY <1>1, <1>3 DEF CleanupHeld, AttemptHeld
<1>7. Accounted(n)'
  BY <1>1, <1>2, <1>3 DEF Accounted, AttemptHeld
<1>8. NodeHeld(n)'
  BY <1>5, <1>6, <1>7 DEF NodeHeld
<1>9. kern[n] # NoInterface /\ pend[n] = NoCleanup
  BY <1>1 DEF AttemptHeld
<1>10. NodeStep(s, n)
  BY <1>2, <1>3, <1>8, <1>9, At DEF NodeStep, LateType
<1> QED BY <1>4, <1>10, NodeStepSuffices

Staged(x, st, d) == [x EXCEPT !.state = st, !.deadline = d]
Cancelled(x, c, d) == [x EXCEPT !.cancelled = c, !.deadline = d]

LEMMA Updated ==
  ASSUME NEW x \in Attempt, NEW st \in States, NEW c \in BOOLEAN, NEW d \in BOOLEAN
  PROVE  /\ Staged(x, st, d) \in Attempt /\ Staged(x, st, d).op = x.op
         /\ Staged(x, st, d).alias = x.alias /\ Staged(x, st, d).state = st
         /\ Cancelled(x, c, d) \in Attempt /\ Cancelled(x, c, d).op = x.op
         /\ Cancelled(x, c, d).alias = x.alias /\ Cancelled(x, c, d).state = x.state
BY DEF Attempt, States, Staged, Cancelled

-----------------------------------------------------------------------------
(***************************************************************************)
(* Sessions, workers and the budget.                                       *)
(***************************************************************************)
LEMMA BudgetStep ==
  ASSUME TypeOK, Fault \/ UNCHANGED budget
  PROVE  BudgetType'
<1>0. budget \in [faults: 0 .. MaxFaults, timers: Timers] /\ MaxFaults \in Nat
  BY TypeParts, DynamicLinkConstants DEF BudgetType
<1>1. CASE Fault
  <2>1. budget' = [budget EXCEPT !.faults = budget.faults - 1] /\ budget.faults > 0
    BY <1>1 DEF Fault
  <2>2. budget.faults - 1 \in 0 .. MaxFaults
    BY <1>0, <2>1
  <2> QED BY <1>0, <2>1, <2>2 DEF BudgetType
<1>2. CASE UNCHANGED budget
  BY <1>0, <1>2 DEF BudgetType
<1> QED BY <1>1, <1>2

LEMMA EndsClose ==
  ASSUME TypeOK, NEW t \in Ops, NEW x \in Nodes,
         ends' = ends \/ ends' = Closing(ends, t, x)
  PROVE  EndsStep
<1>1. ends \in [Ops -> [Nodes -> {"unused", "open", "closing", "closed"}]]
  BY DEF TypeOK
<1> QED BY <1>1 DEF EndsStep, Closing, Running

LEMMA EndsSame ==
  ASSUME TypeOK, ends' = ends
  PROVE  EndsStep
BY DEF TypeOK, EndsStep

LEMMA PcSet ==
  ASSUME TypeOK, NEW s \in Ops, NEW n \in Nodes, NEW v,
         v \in {"idle", "accept", "start"} \/ (v = "propose" /\ pc[s][n] = "dialled"),
         pc' = [pc EXCEPT ![s][n] = v]
  PROVE  PcStep /\ pc'[s][n] = v
<1>1. pc \in [Ops -> [Nodes -> {"idle", "dialled", "propose", "accept", "start"}]]
  BY DEF TypeOK
<1>2. \A t \in Ops, x \in Nodes : pc'[t][x] = IF t = s /\ x = n THEN v ELSE pc[t][x]
  BY <1>1
<1>3. pc' \in [Ops -> [Nodes -> {"idle", "dialled", "propose", "accept", "start"}]]
  BY <1>1
<1> QED BY <1>2, <1>3 DEF PcStep

LEMMA PcSame ==
  ASSUME TypeOK, pc' = pc
  PROVE  PcStep
BY DEF TypeOK, PcStep

LEMMA ChanSame ==
  ASSUME TypeOK, NEW s, NEW n, chan' = chan
  PROVE  ChanStep(s, n)
BY DEF TypeOK, ChanStep

LEMMA ChanPop ==
  ASSUME TypeOK, NEW s \in Ops, NEW n \in Nodes, chan[s][n] # <<>>, chan' = Pop(s, n)
  PROVE  ChanStep(s, n) /\ chan'[s][n] = Tail(chan[s][n])
<1>1. chan \in [Ops -> [Nodes -> Seq(Frames \cup Records)]] /\ "END" \in Frames \cup Records
  BY DEF TypeOK, Records
<1>2. Tail(chan[s][n]) \in Seq(Frames \cup Records)
  BY <1>1, Queues
<1>3. chan' = [chan EXCEPT ![s][n] = Tail(chan[s][n])]
  BY DEF Pop
<1>4. \A t \in Ops, x \in Nodes :
        chan'[t][x] = IF t = s /\ x = n THEN Tail(chan[s][n]) ELSE chan[t][x]
  BY <1>1, <1>3
<1>5. chan' \in [Ops -> [Nodes -> Seq(Frames \cup Records)]]
  BY <1>1, <1>2, <1>3
<1> QED BY <1>4, <1>5 DEF ChanStep

LEMMA ChanClear ==
  ASSUME TypeOK, NEW s \in Ops, NEW n \in Nodes, chan' = [chan EXCEPT ![s][n] = <<>>]
  PROVE  ChanStep(s, n)
<1>1. chan \in [Ops -> [Nodes -> Seq(Frames \cup Records)]] /\ "END" \in Frames \cup Records
      /\ <<>> \in Seq(Frames \cup Records)
  BY DEF TypeOK, Records
<1>2. \A t \in Ops, x \in Nodes : chan'[t][x] = IF t = s /\ x = n THEN <<>> ELSE chan[t][x]
  BY <1>1
<1>3. chan' \in [Ops -> [Nodes -> Seq(Frames \cup Records)]]
  BY <1>1
<1> QED BY <1>2, <1>3 DEF ChanStep

LEMMA ChanSend ==
  ASSUME TypeOK, NEW s \in Ops, NEW n \in Nodes, NEW m \in Frames \cup Records,
         Sends(s, n, m), ends[s][n] = "open" => MaySend(s, n, m)
  PROVE  ChanStep(s, n)
<1>1. chan \in [Ops -> [Nodes -> Seq(Frames \cup Records)]] /\ Peer(n) \in Nodes
  BY NodeFacts DEF TypeOK
<1>2. CASE chan' = chan
  BY <1>2, ChanSame
<1>3. CASE ends[s][n] = "open" /\ chan' = [chan EXCEPT ![s][Peer(n)] = Append(@, m)]
  <2>1. Append(chan[s][Peer(n)], m) \in Seq(Frames \cup Records)
    BY <1>1, Queues
  <2>2. \A t \in Ops, x \in Nodes :
          chan'[t][x] = IF t = s /\ x = Peer(n) THEN Append(chan[s][Peer(n)], m) ELSE chan[t][x]
    BY <1>1, <1>3
  <2>3. chan' \in [Ops -> [Nodes -> Seq(Frames \cup Records)]]
    BY <1>1, <1>3, <2>1
  <2> QED BY <1>3, <2>2, <2>3 DEF ChanStep
<1> QED BY <1>2, <1>3 DEF Sends

\* A node that reads from a session has proposed on it or is its peer.
LEMMA Reader ==
  ASSUME TypeOK, NEW s \in Ops, NEW n \in Nodes, NEW m, Receives(s, n, m)
  PROVE  ~Unproposed(s, n) /\ chan[s][n] # <<>>
BY DEF Receives, Unproposed, Preparing

LEMMA ChanReply ==
  ASSUME TypeOK, NEW s \in Ops, NEW n \in Nodes, NEW m \in {"DECLINE"}, NEW f,
         Receives(s, n, f), Replies(s, n, m)
  PROVE  ChanStep(s, n) /\ chan'[s][n] = Tail(chan[s][n])
<1>1. chan \in [Ops -> [Nodes -> Seq(Frames \cup Records)]] /\ Peer(n) \in Nodes /\ Peer(n) # n
      /\ m \in Frames \cup Records
  BY NodeFacts DEF TypeOK, Frames
<1>2. chan[s][n] # <<>> /\ ~Unproposed(s, n)
  BY Reader
<1>3. Tail(chan[s][n]) \in Seq(Frames \cup Records) /\ Append(chan[s][Peer(n)], m) \in Seq(Frames \cup Records)
  BY <1>1, <1>2, Queues
<1>4. MaySend(s, n, m)
  BY <1>2 DEF MaySend
<1> DEFINE row == [x \in Nodes |->
                     IF x = n THEN Tail(chan[s][n])
                     ELSE IF ends[s][n] = "open" /\ ends[s][x] # "closed" THEN Append(chan[s][x], m)
                     ELSE chan[s][x]]
<1>5. chan' = [chan EXCEPT ![s] = row]
  BY DEF Replies
<1>6. \A x \in Nodes : x = n \/ x = Peer(n)
  BY NodeFacts
<1>7. /\ row \in [Nodes -> Seq(Frames \cup Records)] /\ row[n] = Tail(chan[s][n])
      /\ row[Peer(n)] \in {chan[s][Peer(n)], Append(chan[s][Peer(n)], m)}
  BY <1>1, <1>3, <1>6
<1> HIDE DEF row
<1>8. chan' \in [Ops -> [Nodes -> Seq(Frames \cup Records)]]
  BY <1>1, <1>5, <1>7
<1>9. \A t \in Ops, x \in Nodes : chan'[t][x] = IF t = s THEN row[x] ELSE chan[t][x]
  BY <1>1, <1>5
<1> QED BY <1>1, <1>2, <1>4, <1>6, <1>7, <1>8, <1>9 DEF ChanStep

-----------------------------------------------------------------------------
LEMMA Busyness ==
  ASSUME LinkInv, NEW s \in Ops, NEW n \in Nodes, worker[s][n] # "none"
  PROVE  Works(s, n)
BY DEF Works, New, LinkInv, Fresh

LEMMA WorkerSet ==
  ASSUME TypeOK, NEW s \in Ops, NEW n \in Nodes, Works(s, n),
         NEW v \in {"search", "agree", "handoff", "announce", "barrier", "done"},
         v \in {"announce", "barrier"} =>
           s \in heard'[n] /\ (att'[n] # NoAttempt /\ att'[n].op = s => kern'[n].mode # "down"),
         worker' = [worker EXCEPT ![s][n] = v]
  PROVE  WorkerStep(s, n)
<1>1. worker \in [Ops -> [Nodes -> {"none", "search", "agree", "handoff", "announce", "barrier", "done"}]]
  BY DEF TypeOK
<1>2. \A t \in Ops, x \in Nodes : worker'[t][x] = IF t = s /\ x = n THEN v ELSE worker[t][x]
  BY <1>1
<1>3. worker' \in [Ops -> [Nodes -> {"none", "search", "agree", "handoff", "announce", "barrier", "done"}]]
  BY <1>1
<1> QED BY <1>2, <1>3 DEF WorkerStep

LEMMA WorkerSame ==
  ASSUME TypeOK, NEW s, NEW n, worker' = worker
  PROVE  WorkerStep(s, n)
BY DEF TypeOK, WorkerStep

LEMMA InboxSame ==
  ASSUME TypeOK, inbox' = inbox
  PROVE  InboxStep
BY DEF TypeOK, InboxStep

LEMMA InboxSet ==
  ASSUME TypeOK, NEW s \in Ops, NEW n \in Nodes, NEW q, inbox' = [inbox EXCEPT ![s][n] = q],
         \/ q = <<>>
         \/ inbox[s][n] # <<>> /\ q = Tail(inbox[s][n])
         \/ chan[s][n] # <<>> /\ Head(chan[s][n]) \in Records /\ q = Append(inbox[s][n], Head(chan[s][n]))
  PROVE  InboxStep
<1>1. inbox \in [Ops -> [Nodes -> Seq(Records)]] /\ "END" \in Records
  BY DEF TypeOK, Records
<1>2. q \in Seq(Records)
  <2>1. inbox[s][n] \in Seq(Records)
    BY <1>1
  <2>2. ASSUME NEW r \in Records PROVE Append(inbox[s][n], r) \in Seq(Records)
    BY <2>1, Queues
  <2>3. inbox[s][n] # <<>> => Tail(inbox[s][n]) \in Seq(Records)
    BY <1>1, <2>1, Queues
  <2>4. <<>> \in Seq(Records)
    OBVIOUS
  <2> QED BY <2>2, <2>3, <2>4
<1>3. \A t \in Ops, x \in Nodes : inbox'[t][x] = IF t = s /\ x = n THEN q ELSE inbox[t][x]
  BY <1>1
<1>4. inbox' \in [Ops -> [Nodes -> Seq(Records)]]
  BY <1>1, <1>2
<1> QED BY <1>3, <1>4 DEF InboxStep

LEMMA HeardSame ==
  ASSUME TypeOK, heard' = heard
  PROVE  HeardStep
BY DEF TypeOK, HeardStep

LEMMA ProbingSame ==
  ASSUME TypeOK, NEW s, NEW n, UNCHANGED probing
  PROVE  ProbingStep(s, n)
BY WorkerSame, InboxSame, HeardSame DEF ProbingStep, probing

LEMMA ProtocolSame ==
  ASSUME TypeOK, NEW s, NEW n, UNCHANGED protocol
  PROVE  ProtocolStep(s, n)
BY EndsSame, PcSame, ChanSame DEF ProtocolStep, protocol

LEMMA Failed ==
  ASSUME TypeOK, LinkInv, NEW u, NEW s, NEW n \in Nodes, NEW states,
         FailAttempt(n, s, states), UNCHANGED <<pend, late>>
  PROVE  ResourceStep(u, n) /\ EndsStep /\ BudgetType'
<1>0. Held
  BY DEF LinkInv
<1>1. CASE In(n, s, states)
  <2>1. Discard(n) /\ Remove(n, att[n].alias) /\ att[n] # NoAttempt
    BY <1>1 DEF FailAttempt, In, Current
  <2>2. \E f \in BOOLEAN : Removed(n, att[n].alias, owned[n], f)
    BY <2>1, Zenon DEF Remove
  <2>3. ResourceStep(u, n)
    BY <1>0, <2>1, <2>2, AttemptDropped DEF Discard
  <2>4. att[n].op \in Ops
    BY <1>0, <2>1, At
  <2>5. EndsStep
    BY <2>1, <2>4, EndsClose DEF Discard
  <2>6. BudgetType'
    BY <2>1, BudgetStep DEF Remove
  <2> QED BY <2>3, <2>5, <2>6
<1>2. CASE ~In(n, s, states)
  <2>1. UNCHANGED <<att, ends, resources, budget>>
    BY <1>2 DEF FailAttempt
  <2>2. ResourceStep(u, n)
    BY <1>0, <2>1, HeldUnchanged DEF held
  <2> QED BY <2>1, <2>2, EndsSame, BudgetStep
<1> QED BY <1>1, <1>2

-----------------------------------------------------------------------------
(***************************************************************************)
(* One lemma per action: what each handler, worker step and timer is.      *)
(***************************************************************************)
LEMMA MovesParts ==
  ASSUME NEW s, NEW n, ResourceStep(s, n), EndsStep, PcStep, ChanStep(s, n),
         ProbingStep(s, n), BudgetType'
  PROVE  Moves(s, n)
BY DEF Moves, ProtocolStep

LEMMA RefuseOutboundMoves ==
  ASSUME TypeOK, LinkInv, NEW s \in Ops, NEW n \in Nodes, RefuseOutbound(s, n)
  PROVE  Moves(s, n)
<1>1. UNCHANGED held /\ UNCHANGED probing /\ UNCHANGED budget /\ chan' = chan
      /\ pc' = [pc EXCEPT ![s][n] = "idle"] /\ ends' = Closing(ends, s, n)
  BY DEF RefuseOutbound, held
<1>2. ResourceStep(s, n)
  BY <1>1, HeldUnchanged DEF LinkInv
<1> QED BY <1>1, <1>2, EndsClose, PcSet, ChanSame, ProbingSame, BudgetStep, MovesParts

LEMMA PrepareOutboundMoves ==
  ASSUME TypeOK, LinkInv, NEW s \in Ops, NEW n \in Nodes, PrepareOutbound(s, n)
  PROVE  Moves(s, n)
<1>0. Held /\ HeldType
  BY TypeParts DEF LinkInv
<1>1. /\ pc[s][n] = "dialled" /\ att[n] = NoAttempt /\ pend' = pend /\ late' = late /\ chan' = chan
      /\ UNCHANGED probing
  BY DEF PrepareOutbound
<1>2. n = Dialler(s) /\ pend[n] = NoCleanup
  BY <1>1 DEF LinkInv, OneDial
<1>3. pend' = [pend EXCEPT ![n] = NoCleanup] /\ LateType'
  BY <1>0, <1>1, <1>2, Same, At DEF LateType
<1>4. CASE /\ kern[n] = NoInterface /\ Begin(n, s, TRUE, "proposing", owned[n])
           /\ pc' = [pc EXCEPT ![s][n] = "propose"] /\ UNCHANGED <<link, dirty, ends, budget>>
  <2>1. PcStep /\ pc'[s][n] = "propose"
    BY <1>1, <1>4, PcSet
  <2>2. Begun(s, n)
    BY <1>1, <1>2, <2>1 DEF Begun
  <2>3. \E b \in BOOLEAN : Begin(n, s, b, "proposing", owned[n])
    BY <1>4, Zenon
  <2>4. ResourceStep(s, n)
    BY <1>1, <1>2, <1>3, <1>4, <2>2, <2>3, Began
  <2> QED BY <1>1, <1>4, <2>1, <2>4, EndsSame, ChanSame, ProbingSame, BudgetStep, MovesParts
<1>5. CASE /\ GivesUp(n, s) /\ pc' = [pc EXCEPT ![s][n] = "idle"]
           /\ ends' = Closing(ends, s, n) /\ UNCHANGED att
  <2>1. PcStep /\ pc'[s][n] = "idle"
    BY <1>5, PcSet
  <2>2. Begun(s, n)
    BY <1>1, <1>2, <2>1 DEF Begun
  <2>3. ResourceStep(s, n)
    BY <1>1, <1>2, <1>5, <2>2, GivenUp
  <2>4. BudgetType'
    BY <1>5, BudgetStep DEF GivesUp
  <2> QED BY <1>1, <1>5, <2>1, <2>3, <2>4, EndsClose, ChanSame, ProbingSame, MovesParts
<1> QED BY <1>4, <1>5 DEF PrepareOutbound

LEMMA SendProposalMoves ==
  ASSUME TypeOK, LinkInv, NEW s \in Ops, NEW n \in Nodes, SendProposal(s, n)
  PROVE  Moves(s, n)
<1>1. /\ pc[s][n] = "propose" /\ pc' = [pc EXCEPT ![s][n] = "idle"] /\ Sends(s, n, "PROPOSE")
      /\ UNCHANGED <<pend, late>> /\ UNCHANGED probing
      /\ IF ends[s][n] = "open"
           THEN UNCHANGED <<att, ends, resources, budget>>
           ELSE FailAttempt(n, s, {"proposing"})
  BY DEF SendProposal
<1>2. PcStep /\ pc'[s][n] = "idle"
  BY <1>1, PcSet
<1>3. ends[s][n] = "open" => MaySend(s, n, "PROPOSE")
  BY <1>1, <1>2 DEF MaySend
<1>4. ChanStep(s, n)
  <2>1. "PROPOSE" \in Frames \cup Records
    BY DEF Frames
  <2> QED BY <1>1, <1>3, <2>1, ChanSend
<1>5. ResourceStep(s, n) /\ EndsStep /\ BudgetType'
  <2>1. CASE ends[s][n] = "open"
    BY <1>1, <2>1, HeldUnchanged, EndsSame, BudgetStep DEF LinkInv, held
  <2>2. CASE ends[s][n] # "open"
    BY <1>1, <2>2, Failed
  <2> QED BY <2>1, <2>2
<1> QED BY <1>1, <1>2, <1>4, <1>5, ProbingSame, MovesParts

LEMMA ResponseTimeoutMoves ==
  ASSUME TypeOK, LinkInv, NEW s \in Ops, NEW n \in Nodes, ResponseTimeout(s, n)
  PROVE  Moves(s, n)
<1>1. /\ FailAttempt(n, s, {"proposing"}) /\ UNCHANGED <<pend, late>> /\ chan' = chan /\ pc' = pc
      /\ UNCHANGED probing
  BY DEF ResponseTimeout
<1>2. ResourceStep(s, n) /\ EndsStep /\ BudgetType'
  BY <1>1, Failed
<1> QED BY <1>1, <1>2, PcSame, ChanSame, ProbingSame, MovesParts

LEMMA DeclineProposalMoves ==
  ASSUME TypeOK, LinkInv, NEW s \in Ops, NEW n \in Nodes, DeclineProposal(s, n)
  PROVE  Moves(s, n)
<1>1. /\ Receives(s, n, "PROPOSE") /\ Replies(s, n, "DECLINE") /\ UNCHANGED held
      /\ ends' = ends /\ pc' = pc /\ UNCHANGED probing /\ (Fault \/ UNCHANGED budget)
  BY DEF DeclineProposal, held
<1>2. ChanStep(s, n)
  BY <1>1, ChanReply
<1>3. ResourceStep(s, n)
  BY <1>1, HeldUnchanged DEF LinkInv
<1> QED BY <1>1, <1>2, <1>3, EndsSame, PcSame, ProbingSame, BudgetStep, MovesParts

LEMMA CancelledCleanup ==
  ASSUME TypeOK, NEW n \in Nodes, CancelCleanup(n)
  PROVE  pend' = [pend EXCEPT ![n] = NoCleanup] /\ LateType'
<1>1. late \in [Nodes -> SUBSET Cleanup] /\ pend[n] \in Cleanup \cup {NoCleanup}
  BY DEF TypeOK
<1>2. late' \in [Nodes -> SUBSET Cleanup]
  <2>1. CASE pend[n] = NoCleanup
    BY <1>1, <2>1 DEF CancelCleanup
  <2>2. CASE pend[n] # NoCleanup
    BY <1>1, <2>2 DEF CancelCleanup
  <2> QED BY <2>1, <2>2
<1> QED BY <1>2 DEF CancelCleanup, LateType

LEMMA ReuseReservationMoves ==
  ASSUME TypeOK, LinkInv, NEW s \in Ops, NEW n \in Nodes, ReuseReservation(s, n)
  PROVE  Moves(s, n)
<1>0. Held
  BY DEF LinkInv
<1>1. /\ Receives(s, n, "PROPOSE") /\ Supersedes(n) /\ CancelCleanup(n) /\ UNCHANGED probing
      /\ ends' = IF att[n] # NoAttempt THEN Closing(ends, att[n].op, n) ELSE ends
  BY DEF ReuseReservation
<1>2. pend' = [pend EXCEPT ![n] = NoCleanup] /\ LateType'
  BY <1>1, CancelledCleanup
<1>3. EndsStep
  <2>1. CASE att[n] # NoAttempt
    BY <1>0, <1>1, <2>1, At, EndsClose
  <2>2. CASE att[n] = NoAttempt
    BY <1>1, <2>2, EndsSame
  <2> QED BY <2>1, <2>2
<1>4. CASE /\ att' = [att EXCEPT ![n] = Prepared(s, Reserved(n), FALSE, "probing")]
           /\ pc' = [pc EXCEPT ![s][n] = "accept"]
           /\ chan' = Pop(s, n)
           /\ UNCHANGED <<resources, budget>>
  <2>1. ChanStep(s, n) /\ chan'[s][n] = Tail(chan[s][n])
    BY <1>1, <1>4, Reader, ChanPop
  <2>2. Begun(s, n)
    BY <1>1, <2>1 DEF Begun
  <2>3. ResourceStep(s, n)
    BY <1>1, <1>2, <1>4, <2>2, Reused
  <2>4. PcStep
    BY <1>4, PcSet
  <2> QED BY <1>1, <1>3, <1>4, <2>1, <2>3, <2>4, ProbingSame, BudgetStep, MovesParts
<1>5. CASE /\ att' = [att EXCEPT ![n] = NoAttempt]
           /\ Removed(n, Reserved(n), owned[n], FALSE) /\ Fault
           /\ Replies(s, n, "DECLINE")
           /\ UNCHANGED pc
  <2>1. \/ att[n] # NoAttempt /\ Reserved(n) = att[n].alias
        \/ att[n] = NoAttempt /\ pend[n] # NoCleanup /\ Reserved(n) = pend[n].alias
    BY <1>1 DEF Supersedes, Reserved
  <2>2. \E f \in BOOLEAN : Removed(n, Reserved(n), owned[n], f)
    BY <1>5, Zenon
  <2>3. ResourceStep(s, n)
    BY <1>0, <1>2, <1>5, <2>1, <2>2, Dropped
  <2>4. ChanStep(s, n)
    BY <1>1, <1>5, ChanReply
  <2> QED BY <1>1, <1>3, <1>5, <2>3, <2>4, PcSame, ProbingSame, BudgetStep, MovesParts
<1> QED BY <1>4, <1>5 DEF ReuseReservation

LEMMA AcceptFreshMoves ==
  ASSUME TypeOK, LinkInv, NEW s \in Ops, NEW n \in Nodes, AcceptFresh(s, n)
  PROVE  Moves(s, n)
<1>0. Held /\ HeldType
  BY TypeParts DEF LinkInv
<1>1. /\ Receives(s, n, "PROPOSE") /\ att[n] = NoAttempt /\ pend[n] = NoCleanup
      /\ pend' = pend /\ late' = late /\ ends' = ends /\ UNCHANGED probing
  BY DEF AcceptFresh
<1>2. pend' = [pend EXCEPT ![n] = NoCleanup] /\ LateType'
  BY <1>0, <1>1, Same, At DEF LateType
<1>3. CASE /\ kern[n] = NoInterface /\ Begin(n, s, FALSE, "probing", owned[n])
           /\ pc' = [pc EXCEPT ![s][n] = "accept"] /\ chan' = Pop(s, n)
           /\ UNCHANGED <<link, dirty, budget>>
  <2>1. ChanStep(s, n) /\ chan'[s][n] = Tail(chan[s][n])
    BY <1>1, <1>3, Reader, ChanPop
  <2>2. Begun(s, n)
    BY <1>1, <2>1 DEF Begun
  <2>3. \E b \in BOOLEAN : Begin(n, s, b, "probing", owned[n])
    BY <1>3, Zenon
  <2>4. ResourceStep(s, n)
    BY <1>1, <1>2, <1>3, <2>2, <2>3, Began
  <2>5. PcStep
    BY <1>3, PcSet
  <2> QED BY <1>1, <1>3, <2>1, <2>4, <2>5, EndsSame, ProbingSame, BudgetStep, MovesParts
<1>4. CASE GivesUp(n, s) /\ Replies(s, n, "DECLINE") /\ UNCHANGED <<att, pc>>
  <2>1. ChanStep(s, n) /\ chan'[s][n] = Tail(chan[s][n])
    BY <1>1, <1>4, ChanReply
  <2>2. Begun(s, n)
    BY <1>1, <2>1 DEF Begun
  <2>3. ResourceStep(s, n)
    BY <1>1, <1>4, <2>2, GivenUp
  <2>4. BudgetType'
    BY <1>4, BudgetStep DEF GivesUp
  <2> QED BY <1>1, <1>4, <2>1, <2>3, <2>4, EndsSame, PcSame, ProbingSame, MovesParts
<1> QED BY <1>3, <1>4 DEF AcceptFresh

LEMMA ReplaceRecoveringMoves ==
  ASSUME TypeOK, LinkInv, NEW s \in Ops, NEW n \in Nodes, ReplaceRecovering(s, n)
  PROVE  Moves(s, n)
<1>0. Held
  BY DEF LinkInv
<1>1. Receives(s, n, "PROPOSE") /\ att[n] # NoAttempt /\ ends' = ends /\ UNCHANGED probing
  BY DEF ReplaceRecovering
<1>2. CASE /\ Begin(n, s, FALSE, "probing", owned[n] \ {att[n].alias})
           /\ link' = [link EXCEPT ![n] = NoLink]
           /\ pc' = [pc EXCEPT ![s][n] = "accept"] /\ chan' = Pop(s, n)
           /\ CancelCleanup(n)
           /\ UNCHANGED <<dirty, budget>>
  <2>1. ChanStep(s, n) /\ chan'[s][n] = Tail(chan[s][n])
    BY <1>1, <1>2, Reader, ChanPop
  <2>2. Begun(s, n)
    BY <1>1, <2>1 DEF Begun
  <2>3. \E b \in BOOLEAN : Begin(n, s, b, "probing", owned[n] \ {att[n].alias})
    BY <1>2, Zenon
  <2>4. pend' = [pend EXCEPT ![n] = NoCleanup] /\ LateType'
    BY <1>2, CancelledCleanup
  <2>5. ResourceStep(s, n)
    BY <1>1, <1>2, <2>2, <2>3, <2>4, Began
  <2>6. PcStep
    BY <1>2, PcSet
  <2> QED BY <1>1, <1>2, <2>1, <2>5, <2>6, EndsSame, ProbingSame, BudgetStep, MovesParts
<1>3. CASE /\ att' = [att EXCEPT ![n] = NoAttempt]
           /\ Fault
           /\ \/ Removed(n, att[n].alias, owned[n], TRUE) /\ UNCHANGED <<pend, late>>
              \/ Removed(n, att[n].alias, owned[n], FALSE) /\ CancelCleanup(n)
           /\ Replies(s, n, "DECLINE")
           /\ UNCHANGED pc
  <2>1. ResourceStep(s, n)
    <3>1. CASE Removed(n, att[n].alias, owned[n], TRUE) /\ UNCHANGED <<pend, late>>
      <4>1. \E f \in BOOLEAN : Removed(n, att[n].alias, owned[n], f)
        BY <3>1, Zenon
      <4> QED BY <1>0, <1>1, <1>3, <3>1, <4>1, AttemptDropped
    <3>2. CASE Removed(n, att[n].alias, owned[n], FALSE) /\ CancelCleanup(n)
      <4>1. \E f \in BOOLEAN : Removed(n, att[n].alias, owned[n], f)
        BY <3>2, Zenon
      <4> QED BY <1>0, <1>1, <1>3, <3>2, <4>1, CancelledCleanup, Dropped
    <3> QED BY <1>3, <3>1, <3>2
  <2>2. ChanStep(s, n)
    BY <1>1, <1>3, ChanReply
  <2> QED BY <1>1, <1>3, <2>1, <2>2, EndsSame, PcSame, ProbingSame, BudgetStep, MovesParts
<1> QED BY <1>2, <1>3 DEF ReplaceRecovering


LEMMA SendAcceptMoves ==
  ASSUME TypeOK, LinkInv, NEW s \in Ops, NEW n \in Nodes, SendAccept(s, n)
  PROVE  Moves(s, n)
<1>1. /\ pc[s][n] = "accept" /\ Sends(s, n, "ACCEPT") /\ UNCHANGED <<pend, late>>
      /\ UNCHANGED probing
      /\ IF ends[s][n] = "open"
           THEN /\ pc' = [pc EXCEPT ![s][n] = "start"]
                /\ UNCHANGED <<att, ends, resources, budget>>
           ELSE /\ pc' = [pc EXCEPT ![s][n] = "idle"]
                /\ FailAttempt(n, s, {"probing"})
  BY DEF SendAccept
<1>2. ends[s][n] = "open" => MaySend(s, n, "ACCEPT")
  BY <1>1 DEF MaySend, Unproposed, Preparing
<1>3. ChanStep(s, n)
  <2>1. "ACCEPT" \in Frames \cup Records
    BY DEF Frames
  <2> QED BY <1>1, <1>2, <2>1, ChanSend
<1>4. PcStep
  BY <1>1, PcSet
<1>5. ResourceStep(s, n) /\ EndsStep /\ BudgetType'
  <2>1. CASE ends[s][n] = "open"
    BY <1>1, <2>1, HeldUnchanged, EndsSame, BudgetStep DEF LinkInv, held
  <2>2. CASE ends[s][n] # "open"
    BY <1>1, <2>2, Failed
  <2> QED BY <2>1, <2>2
<1> QED BY <1>1, <1>3, <1>4, <1>5, ProbingSame, MovesParts

LEMMA StartProbeMoves ==
  ASSUME TypeOK, LinkInv, NEW s \in Ops, NEW n \in Nodes, StartProbe(s, n)
  PROVE  Moves(s, n)
<1>1. /\ pc[s][n] = "start" /\ pc' = [pc EXCEPT ![s][n] = "idle"] /\ UNCHANGED held
      /\ worker' = IF Current(n, s) THEN [worker EXCEPT ![s][n] = "search"] ELSE worker
      /\ ends' = ends /\ chan' = chan /\ inbox' = inbox /\ heard' = heard /\ UNCHANGED budget
  BY DEF StartProbe, held
<1>2. ResourceStep(s, n)
  BY <1>1, HeldUnchanged DEF LinkInv
<1>3. WorkerStep(s, n)
  <2>1. CASE Current(n, s)
    <3>1. ~New(s, n)
      BY <2>1 DEF Current, New
    <3>2. Works(s, n)
      BY <1>1, <3>1 DEF Works, LinkInv, Fresh, Unproposed, Preparing
    <3> QED BY <1>1, <2>1, <3>2, WorkerSet
  <2>2. CASE ~Current(n, s)
    BY <1>1, <2>2, WorkerSame
  <2> QED BY <2>1, <2>2
<1>4. ProbingStep(s, n)
  BY <1>1, <1>3, InboxSame, HeardSame DEF ProbingStep
<1>5. PcStep
  BY <1>1, PcSet
<1> QED BY <1>1, <1>2, <1>4, <1>5, EndsSame, ChanSame, BudgetStep, MovesParts

LEMMA HandleAcceptMoves ==
  ASSUME TypeOK, LinkInv, NEW s \in Ops, NEW n \in Nodes, HandleAccept(s, n)
  PROVE  Moves(s, n)
<1>0. Held /\ HeldType
  BY TypeParts DEF LinkInv
<1>1. /\ Receives(s, n, "ACCEPT") /\ chan' = Pop(s, n) /\ pend' = pend /\ late' = late /\ pc' = pc
      /\ inbox' = inbox /\ heard' = heard
  BY DEF HandleAccept
<1>2. ChanStep(s, n) /\ PcStep
  BY <1>1, Reader, ChanPop, PcSame
<1>3. CASE /\ In(n, s, {"proposing"}) /\ att' = [att EXCEPT ![n].state = "probing"]
           /\ worker' = [worker EXCEPT ![s][n] = "search"]
           /\ UNCHANGED <<ends, resources, budget>>
  <2>1. att[n] # NoAttempt /\ att[n].op = s /\ att[n].state = "proposing" /\ att[n] \in Attempt
    BY <1>0, <1>3, At DEF In, Current
  <2>2. att'[n] = [att[n] EXCEPT !.state = "probing"] /\ att' = [att EXCEPT ![n] = att'[n]]
    BY <1>0, <1>3 DEF HeldType
  <2>3. att'[n] \in Attempt /\ att'[n].op = s /\ att'[n].alias = att[n].alias /\ att'[n].state = "probing"
    <3>1. "probing" \in States
      BY DEF States
    <3> QED BY <2>1, <2>2, <3>1 DEF Attempt
  <2>4. kern' = kern /\ link' = link /\ owned' = owned /\ dirty' = dirty
    BY <1>3 DEF resources
  <2>5. LinkHeld(n)'
    BY <1>0, <2>1, <2>3, <2>4, At DEF LinkHeld
  <2>6. kern[n] \in Interface /\ (kern[n].mode # "down" => kern[n].conf = att[n].op)
    BY <1>0, <2>1, At DEF AttemptHeld
  <2>7. kern' = [kern EXCEPT ![n] = kern'[n]] /\ link' = [link EXCEPT ![n] = link'[n]]
    BY <1>0, <2>4, Same
  <2>8. link[n] \in Link \cup {NoLink}
    BY <1>0, At
  <2>9. ResourceStep(s, n)
    BY <1>0, <1>1, <2>1, <2>2, <2>3, <2>4, <2>5, <2>6, <2>7, <2>8, Kept
  <2>10. Works(s, n)
    BY <1>1, <2>1, Reader DEF Works, New
  <2>11. ProbingStep(s, n)
    BY <1>1, <1>3, <2>10, WorkerSet, InboxSame, HeardSame DEF ProbingStep
  <2> QED BY <1>2, <1>3, <2>9, <2>11, EndsSame, BudgetStep, MovesParts
<1>4. CASE /\ In(n, s, {"proposing"}) /\ Fault /\ Discard(n)
           /\ Removed(n, att[n].alias, owned[n], FALSE) /\ UNCHANGED worker
  <2>1. \E f \in BOOLEAN : Removed(n, att[n].alias, owned[n], f)
    BY <1>4, Zenon
  <2>2. att[n] # NoAttempt
    BY <1>4 DEF In, Current
  <2>3. ResourceStep(s, n)
    BY <1>0, <1>1, <1>4, <2>1, <2>2, AttemptDropped DEF Discard
  <2>4. EndsStep
    BY <1>0, <1>4, <2>2, At, EndsClose DEF Discard
  <2> QED BY <1>1, <1>2, <1>4, <2>3, <2>4, WorkerSame, InboxSame, HeardSame, BudgetStep, MovesParts
          DEF ProbingStep
<1>5. CASE UNCHANGED <<att, worker, ends, resources, budget>>
  <2>1. ResourceStep(s, n)
    BY <1>0, <1>1, <1>5, HeldUnchanged DEF held
  <2> QED BY <1>1, <1>2, <1>5, <2>1, EndsSame, WorkerSame, InboxSame, HeardSame, BudgetStep, MovesParts
          DEF ProbingStep
<1> QED BY <1>3, <1>4, <1>5 DEF HandleAccept

LEMMA HandleDeclineMoves ==
  ASSUME TypeOK, LinkInv, NEW s \in Ops, NEW n \in Nodes, HandleDecline(s, n)
  PROVE  Moves(s, n)
<1>0. Held /\ HeldType
  BY TypeParts DEF LinkInv
<1>1. /\ Receives(s, n, "DECLINE") /\ chan' = Pop(s, n) /\ UNCHANGED resources /\ pc' = pc
      /\ UNCHANGED probing /\ UNCHANGED budget
  BY DEF HandleDecline
<1>2. ChanStep(s, n) /\ PcStep /\ ProbingStep(s, n) /\ BudgetType'
  BY <1>1, Reader, ChanPop, PcSame, ProbingSame, BudgetStep
<1>3. CASE In(n, s, {"proposing"})
  <2>1. /\ Discard(n) /\ pend' = [pend EXCEPT ![n] = [op |-> s, alias |-> att[n].alias]]
        /\ late' = IF pend[n] = NoCleanup THEN late ELSE [late EXCEPT ![n] = @ \cup {pend[n]}]
    BY <1>3 DEF HandleDecline
  <2>2. LateType'
    <3>1. late \in [Nodes -> SUBSET Cleanup] /\ pend[n] \in Cleanup \cup {NoCleanup}
      BY <1>0 DEF HeldType
    <3> QED BY <2>1, <3>1 DEF LateType
  <2>3. att[n] # NoAttempt /\ att[n].op = s /\ att[n].state = "proposing"
    BY <1>3 DEF In, Current
  <2>4. Dialler(s) = n
    BY <1>0, <2>3, At DEF AttemptHeld
  <2>5. ASSUME NEW t \in Ops, pc[t][n] = "dialled" PROVE FALSE
    <3>1. Dialler(t) = n /\ ends[t][n] \in Running
      BY <2>5 DEF LinkInv, OneDial
    <3>2. ends[s][n] \in Running /\ pc[s][n] = "idle"
      BY <1>1 DEF Receives, Running
    <3>3. t = s
      BY <2>4, <3>1, <3>2 DEF LinkInv, OneDial
    <3> QED BY <2>5, <3>2, <3>3
  <2>6. ResourceStep(s, n)
    BY <1>1, <1>3, <2>1, <2>2, <2>5, Deferred DEF Discard
  <2>7. EndsStep
    BY <2>1, <2>3, EndsClose DEF Discard
  <2> QED BY <1>2, <2>6, <2>7, MovesParts
<1>4. CASE ~In(n, s, {"proposing"})
  <2>1. UNCHANGED <<att, ends, pend, late>>
    BY <1>4 DEF HandleDecline
  <2>2. ResourceStep(s, n)
    BY <1>0, <1>1, <2>1, HeldUnchanged DEF held
  <2> QED BY <1>2, <2>1, <2>2, EndsSame, MovesParts
<1> QED BY <1>3, <1>4

LEMMA HandleControlMoves ==
  ASSUME TypeOK, LinkInv, NEW s \in Ops, NEW n \in Nodes, HandleControl(s, n)
  PROVE  Moves(s, n)
<1>1. PICK r \in Records :
        /\ Receives(s, n, r)
        /\ inbox' = IF In(n, s, {"probing"}) THEN [inbox EXCEPT ![s][n] = Append(@, r)] ELSE inbox
  BY DEF HandleControl
<1>2. /\ chan' = Pop(s, n) /\ UNCHANGED held /\ ends' = ends /\ pc' = pc /\ worker' = worker
      /\ heard' = heard /\ UNCHANGED budget
  BY DEF HandleControl, held
<1>3. chan[s][n] # <<>> /\ Head(chan[s][n]) = r
  BY <1>1 DEF Receives
<1>4. InboxStep
  <2>1. CASE In(n, s, {"probing"})
    <3>1. inbox' = [inbox EXCEPT ![s][n] = Append(inbox[s][n], Head(chan[s][n]))]
      BY <1>1, <1>3, <2>1
    <3> QED BY <1>3, <3>1, InboxSet
  <2>2. CASE ~In(n, s, {"probing"})
    BY <1>1, <2>2, InboxSame
  <2> QED BY <2>1, <2>2
<1>5. ProbingStep(s, n)
  BY <1>2, <1>4, WorkerSame, HeardSame DEF ProbingStep
<1>6. ResourceStep(s, n)
  BY <1>2, HeldUnchanged DEF LinkInv
<1> QED BY <1>2, <1>3, <1>5, <1>6, EndsSame, PcSame, ChanPop, BudgetStep, MovesParts

LEMMA SessionClosedMoves ==
  ASSUME TypeOK, LinkInv, NEW s \in Ops, NEW n \in Nodes, SessionClosed(s, n)
  PROVE  Moves(s, n)
<1>0. Held
  BY DEF LinkInv
<1>1. /\ ends[s][n] \in Running
      /\ IF In(n, s, {"proposing", "probing"})
           THEN att' = [att EXCEPT ![n] = NoAttempt] /\ Remove(n, att[n].alias)
           ELSE UNCHANGED <<att, resources, budget>>
      /\ ends' = [ends EXCEPT ![s][n] = "closed"]
      /\ chan' = [chan EXCEPT ![s][n] = <<>>]
      /\ pc' = [pc EXCEPT ![s][n] = "idle"]
      /\ UNCHANGED <<pend, late>> /\ UNCHANGED probing
  BY DEF SessionClosed, Running
<1>2. ResourceStep(s, n) /\ BudgetType'
  <2>1. CASE In(n, s, {"proposing", "probing"})
    <3>1. att[n] # NoAttempt /\ att' = [att EXCEPT ![n] = NoAttempt] /\ Remove(n, att[n].alias)
      BY <1>1, <2>1 DEF In, Current
    <3>2. \E f \in BOOLEAN : Removed(n, att[n].alias, owned[n], f)
      BY <3>1, Zenon DEF Remove
    <3> QED BY <1>0, <1>1, <3>1, <3>2, AttemptDropped, BudgetStep DEF Remove
  <2>2. CASE ~In(n, s, {"proposing", "probing"})
    BY <1>0, <1>1, <2>2, HeldUnchanged, BudgetStep DEF held
  <2> QED BY <2>1, <2>2
<1>3. PcStep /\ pc'[s][n] = "idle"
  BY <1>1, PcSet
<1>4. EndsStep
  <2>1. ends \in [Ops -> [Nodes -> {"unused", "open", "closing", "closed"}]]
    BY DEF TypeOK
  <2>2. \A t \in Ops, x \in Nodes : ends'[t][x] = IF t = s /\ x = n THEN "closed" ELSE ends[t][x]
    BY <1>1, <2>1
  <2>3. ends' \in [Ops -> [Nodes -> {"unused", "open", "closing", "closed"}]]
    BY <1>1, <2>1
  <2> QED BY <1>1, <1>3, <2>2, <2>3 DEF EndsStep
<1> QED BY <1>1, <1>2, <1>3, <1>4, ChanClear, ProbingSame, MovesParts

LEMMA BreakMoves ==
  ASSUME TypeOK, LinkInv, NEW s \in Ops, NEW n \in Nodes, Break(s, n)
  PROVE  Moves(s, n)
<1>1. /\ Fault /\ ends' = Closing(ends, s, n) /\ UNCHANGED held /\ chan' = chan /\ pc' = pc
      /\ UNCHANGED probing
  BY DEF Break, held
<1>2. ResourceStep(s, n)
  BY <1>1, HeldUnchanged DEF LinkInv
<1> QED BY <1>1, <1>2, EndsClose, PcSame, ChanSame, ProbingSame, BudgetStep, MovesParts

-----------------------------------------------------------------------------
\* A worker's session was dialled or accepted long ago.
LEMMA Sender ==
  ASSUME TypeOK, LinkInv, NEW s \in Ops, NEW n \in Nodes, worker[s][n] # "none", ends[s][n] = "open"
  PROVE  ~Unproposed(s, n)
<1>1. CASE n = Dialler(s)
  BY <1>1, Busyness DEF Works
<1>2. CASE n # Dialler(s)
  BY <1>2 DEF Unproposed, Preparing, LinkInv, OneDial
<1> QED BY <1>1, <1>2

LEMMA SendRoundMoves ==
  ASSUME TypeOK, LinkInv, NEW s \in Ops, NEW n \in Nodes, SendRound(s, n)
  PROVE  Moves(s, n)
<1>1. /\ worker[s][n] = "search" /\ worker' = [worker EXCEPT ![s][n] = "agree"]
      /\ ends[s][n] = "open" /\ Sends(s, n, "ROUND_DONE") /\ UNCHANGED held /\ ends' = ends /\ pc' = pc
      /\ inbox' = inbox /\ heard' = heard /\ UNCHANGED budget
  BY DEF SendRound, Steps, held
<1>2. MaySend(s, n, "ROUND_DONE")
  BY <1>1, Sender DEF MaySend
<1>3. ChanStep(s, n)
  <2>1. "ROUND_DONE" \in Frames \cup Records
    BY DEF Records
  <2> QED BY <1>1, <1>2, <2>1, ChanSend
<1>4. Works(s, n)
  BY <1>1, Busyness
<1>5. ProbingStep(s, n)
  BY <1>1, <1>4, WorkerSet, InboxSame, HeardSame DEF ProbingStep
<1>6. ResourceStep(s, n)
  BY <1>1, HeldUnchanged DEF LinkInv
<1> QED BY <1>1, <1>3, <1>5, <1>6, EndsSame, PcSame, BudgetStep, MovesParts

LEMMA AgreeMoves ==
  ASSUME TypeOK, LinkInv, NEW s \in Ops, NEW n \in Nodes, Agree(s, n)
  PROVE  Moves(s, n)
<1>1. /\ worker[s][n] = "agree" /\ worker' = [worker EXCEPT ![s][n] = "handoff"]
      /\ inbox[s][n] # <<>> /\ inbox' = [inbox EXCEPT ![s][n] = Tail(inbox[s][n])]
      /\ UNCHANGED held /\ UNCHANGED protocol /\ heard' = heard /\ UNCHANGED budget
  BY DEF Agree, Steps, Arrived, Take, held
<1>2. Works(s, n)
  BY <1>1, Busyness
<1>3. InboxStep
  BY <1>1, InboxSet
<1>4. ProbingStep(s, n)
  BY <1>1, <1>2, <1>3, WorkerSet, HeardSame DEF ProbingStep
<1>5. ResourceStep(s, n)
  BY <1>1, HeldUnchanged DEF LinkInv
<1> QED BY <1>1, <1>4, <1>5, ProtocolSame, BudgetStep DEF Moves

LEMMA ConfigureReceiveMoves ==
  ASSUME TypeOK, LinkInv, NEW s \in Ops, NEW n \in Nodes, ConfigureReceive(s, n)
  PROVE  Moves(s, n)
<1>0. Held /\ HeldType
  BY TypeParts DEF LinkInv
<1>1. /\ worker[s][n] = "handoff" /\ worker' = [worker EXCEPT ![s][n] = "announce"]
      /\ In(n, s, {"probing"})
      /\ kern' = [kern EXCEPT ![n].mode = "receive", ![n].conf = s]
      /\ heard' = [heard EXCEPT ![n] = heard[n] \cup {s}]
      /\ att' = att /\ pend' = pend /\ late' = late /\ link' = link /\ owned' = owned /\ dirty' = dirty
      /\ UNCHANGED protocol /\ inbox' = inbox /\ UNCHANGED budget
  BY DEF ConfigureReceive, Steps
<1>2. att[n] # NoAttempt /\ att[n].op = s /\ att[n].state = "probing" /\ att[n] \in Attempt
  BY <1>0, <1>1, At DEF In, Current
<1>3. kern[n] \in Interface
  BY <1>0, <1>2, At DEF AttemptHeld
<1>4. /\ kern'[n] = [kern[n] EXCEPT !.mode = "receive", !.conf = s]
      /\ kern' = [kern EXCEPT ![n] = kern'[n]]
  BY <1>0, <1>1 DEF HeldType
<1>5. kern'[n] \in Interface /\ kern'[n].alias = kern[n].alias /\ kern'[n].mode = "receive"
      /\ kern'[n].conf = s
  BY <1>3, <1>4 DEF Interface
<1>6. LinkHeld(n)'
  BY <1>0, <1>1, At DEF LinkHeld
<1>7. att' = [att EXCEPT ![n] = att'[n]] /\ link' = [link EXCEPT ![n] = link'[n]]
  BY <1>0, <1>1, Same
<1>8. link[n] \in Link \cup {NoLink}
  BY <1>0, At
<1>9. ResourceStep(s, n)
  BY <1>0, <1>1, <1>2, <1>4, <1>5, <1>6, <1>7, <1>8, Kept
<1>10. heard \in [Nodes -> SUBSET Ops]
  BY DEF TypeOK
<1>11. HeardStep /\ s \in heard'[n]
  BY <1>1, <1>10 DEF HeardStep
<1>12. Works(s, n)
  BY <1>1, Busyness
<1>13. WorkerStep(s, n)
  BY <1>1, <1>5, <1>11, <1>12, WorkerSet
<1> QED BY <1>1, <1>9, <1>11, <1>13, ProtocolSame, InboxSame, BudgetStep DEF Moves, ProbingStep

LEMMA AnnounceMoves ==
  ASSUME TypeOK, LinkInv, NEW s \in Ops, NEW n \in Nodes, Announce(s, n)
  PROVE  Moves(s, n)
<1>1. /\ worker[s][n] = "announce" /\ worker' = [worker EXCEPT ![s][n] = "barrier"]
      /\ ends[s][n] = "open" /\ Sends(s, n, "WG_READY") /\ UNCHANGED held /\ ends' = ends /\ pc' = pc
      /\ inbox' = inbox /\ heard' = heard /\ UNCHANGED budget
  BY DEF Announce, Steps, held
<1>2. s \in heard[n] /\ (att[n] # NoAttempt /\ att[n].op = s => kern[n].mode # "down")
  BY <1>1 DEF LinkInv, Configured, Current
<1>3. MaySend(s, n, "WG_READY")
  BY <1>1, <1>2, Sender DEF MaySend
<1>4. ChanStep(s, n)
  <2>1. "WG_READY" \in Frames \cup Records
    BY DEF Records
  <2> QED BY <1>1, <1>3, <2>1, ChanSend
<1>5. Works(s, n)
  BY <1>1, Busyness
<1>6. att' = att /\ kern' = kern
  BY <1>1 DEF held, resources
<1>7. WorkerStep(s, n)
  BY <1>1, <1>2, <1>5, <1>6, WorkerSet
<1>8. ProbingStep(s, n)
  BY <1>1, <1>7, InboxSame, HeardSame DEF ProbingStep
<1>9. ResourceStep(s, n)
  BY <1>1, HeldUnchanged DEF LinkInv
<1> QED BY <1>1, <1>4, <1>8, <1>9, EndsSame, PcSame, BudgetStep, MovesParts

LEMMA EnableTransmitMoves ==
  ASSUME TypeOK, LinkInv, NEW s \in Ops, NEW n \in Nodes, EnableTransmit(s, n)
  PROVE  Moves(s, n)
<1>0. Held /\ HeldType
  BY TypeParts DEF LinkInv
<1>1. /\ worker[s][n] = "barrier" /\ worker' = [worker EXCEPT ![s][n] = "done"]
      /\ inbox[s][n] # <<>> /\ Head(inbox[s][n]) = "WG_READY"
      /\ inbox' = [inbox EXCEPT ![s][n] = <<>>]
      /\ In(n, s, {"probing"})
      /\ kern' = [kern EXCEPT ![n].mode = "full"]
      /\ att' = [att EXCEPT ![n].state = "attempting", ![n].deadline = TRUE]
      /\ pend' = pend /\ late' = late /\ link' = link /\ owned' = owned /\ dirty' = dirty
      /\ UNCHANGED protocol /\ heard' = heard /\ UNCHANGED budget
  BY DEF EnableTransmit, Steps, Arrived, Forget
<1>2. att[n] # NoAttempt /\ att[n].op = s /\ att[n].state = "probing" /\ att[n] \in Attempt
  BY <1>0, <1>1, At DEF In, Current
<1>3. kern[n] \in Interface /\ kern[n].mode # "down" /\ kern[n].conf = s
  <2>1. kern[n].mode # "down"
    BY <1>1, <1>2 DEF LinkInv, Configured, Current
  <2> QED BY <1>0, <1>2, <2>1, At DEF AttemptHeld
<1>4. s \in heard[Peer(n)]
  <2>1. inbox[s][n] \in Seq(Records) /\ "END" \in Records
    BY DEF TypeOK, Records
  <2>2. 1 \in 1 .. Len(inbox[s][n]) /\ inbox[s][n][1] = "WG_READY"
    BY <1>1, <2>1, Queues
  <2> QED BY <2>2 DEF LinkInv, Configured
<1>5. /\ kern'[n] = [kern[n] EXCEPT !.mode = "full"] /\ kern' = [kern EXCEPT ![n] = kern'[n]]
      /\ att'[n] = [att[n] EXCEPT !.state = "attempting", !.deadline = TRUE]
      /\ att' = [att EXCEPT ![n] = att'[n]]
  BY <1>0, <1>1 DEF HeldType
<1>6. kern'[n] \in Interface /\ kern'[n].alias = kern[n].alias /\ kern'[n].mode = "full"
      /\ kern'[n].conf = s
  BY <1>3, <1>5 DEF Interface
<1>7. att'[n] \in Attempt /\ att'[n].op = s /\ att'[n].alias = att[n].alias
      /\ att'[n].state = "attempting"
  <2>1. "attempting" \in States /\ TRUE \in BOOLEAN
    BY DEF States
  <2>2. \A d \in BOOLEAN : LET y == Staged(att[n], "attempting", d) IN
          y \in Attempt /\ y.op = att[n].op /\ y.alias = att[n].alias /\ y.state = "attempting"
    BY <1>2, <2>1, Updated
  <2>3. att'[n] = Staged(att[n], "attempting", TRUE)
    BY <1>5 DEF Staged
  <2> QED BY <1>2, <2>1, <2>2, <2>3, Zenon
<1>8. LinkHeld(n)'
  BY <1>0, <1>1, <1>2, <1>7, At DEF LinkHeld
<1>9. link' = [link EXCEPT ![n] = link'[n]] /\ link[n] \in Link \cup {NoLink}
  BY <1>0, <1>1, Same, At
<1>10. ResourceStep(s, n)
  BY <1>0, <1>1, <1>2, <1>3, <1>4, <1>5, <1>6, <1>7, <1>8, <1>9, Kept
<1>11. Works(s, n)
  BY <1>1, Busyness
<1>12. ProbingStep(s, n)
  BY <1>1, <1>11, WorkerSet, InboxSet, HeardSame DEF ProbingStep
<1> QED BY <1>1, <1>10, <1>12, ProtocolSame, BudgetStep DEF Moves

LEMMA ProbeFailsMoves ==
  ASSUME TypeOK, LinkInv, NEW s \in Ops, NEW n \in Nodes, ProbeFails(s, n)
  PROVE  Moves(s, n)
<1>1. /\ worker[s][n] # "none" /\ worker' = [worker EXCEPT ![s][n] = "done"]
      /\ Sends(s, n, "END") /\ inbox' = [inbox EXCEPT ![s][n] = <<>>]
      /\ FailAttempt(n, s, {"probing"}) /\ UNCHANGED <<pend, late>> /\ pc' = pc /\ heard' = heard
  BY DEF ProbeFails, Forget
<1>2. ends[s][n] = "open" => MaySend(s, n, "END")
  BY <1>1, Sender DEF MaySend
<1>3. ChanStep(s, n)
  <2>1. "END" \in Frames \cup Records
    BY DEF Records
  <2> QED BY <1>1, <1>2, <2>1, ChanSend
<1>4. ResourceStep(s, n) /\ EndsStep /\ BudgetType'
  BY <1>1, Failed
<1>5. Works(s, n)
  BY <1>1, Busyness
<1>6. ProbingStep(s, n)
  BY <1>1, <1>5, WorkerSet, InboxSet, HeardSame DEF ProbingStep
<1> QED BY <1>1, <1>3, <1>4, <1>6, PcSame, MovesParts


-----------------------------------------------------------------------------
LEMMA CleanupFiresMoves ==
  ASSUME TypeOK, LinkInv, NEW s, NEW n \in Nodes, NEW c, CleanupFires(n, c)
  PROVE  Moves(s, n)
<1>0. Held /\ HeldType
  BY TypeParts DEF LinkInv
<1>1. /\ c \in late[n] \cup ({pend[n]} \ {NoCleanup}) /\ late' = [late EXCEPT ![n] = late[n] \ {c}]
      /\ IF pend[n] # c
           THEN UNCHANGED <<pend, resources, budget>>
           ELSE /\ pend' = [pend EXCEPT ![n] = NoCleanup]
                /\ IF att[n] # NoAttempt THEN UNCHANGED <<resources, budget>> ELSE Remove(n, c.alias)
      /\ att' = att /\ UNCHANGED protocol /\ UNCHANGED probing
  BY DEF CleanupFires
<1>2. LateType'
  BY <1>0, <1>1 DEF HeldType, LateType
<1>3. ResourceStep(s, n) /\ BudgetType'
  <2>1. CASE pend[n] # c
    BY <1>0, <1>1, <1>2, <2>1, LateChanged, BudgetStep
  <2>2. CASE pend[n] = c
    <3>1. pend[n] # NoCleanup
      BY <1>0, <1>1, <2>2, At, NothingFacts
    <3>2. att[n] = NoAttempt
      BY <1>0, <3>1, At DEF AttemptHeld
    <3>3. att' = [att EXCEPT ![n] = NoAttempt]
      BY <1>0, <1>1, <3>2, Same
    <3>4. Remove(n, pend[n].alias) /\ pend' = [pend EXCEPT ![n] = NoCleanup]
      BY <1>1, <2>2, <3>2
    <3>5. \E f \in BOOLEAN : Removed(n, pend[n].alias, owned[n], f)
      BY <3>4, Zenon DEF Remove
    <3>6. ResourceStep(s, n)
      BY <1>0, <1>2, <3>1, <3>2, <3>3, <3>4, <3>5, Dropped
    <3> QED BY <3>4, <3>6, BudgetStep DEF Remove
  <2> QED BY <2>1, <2>2
<1> QED BY <1>1, <1>3, ProtocolSame, ProbingSame DEF Moves

\* An Attempt and its Link change state; the interface does not.
LEMMA Restated ==
  ASSUME TypeOK, Held, NEW s, NEW n \in Nodes, att[n] # NoAttempt,
         att' = [att EXCEPT ![n] = att'[n]], link' = [link EXCEPT ![n] = link'[n]],
         UNCHANGED <<pend, late, kern, owned, dirty>>,
         att'[n] \in Attempt, att'[n].op = att[n].op, att'[n].alias = att[n].alias,
         att'[n].state = "proposing" => att[n].state = "proposing",
         link'[n] \in Link \cup {NoLink}, LinkHeld(n)'
  PROVE  ResourceStep(s, n)
<1>1. kern' = kern /\ kern[n] \in Interface /\ (kern[n].mode # "down" => kern[n].conf = att[n].op)
  BY At DEF AttemptHeld
<1>2. kern' = [kern EXCEPT ![n] = kern'[n]]
  BY <1>1, Same, TypeParts
<1> QED BY <1>1, <1>2, Kept

LEMMA DeadlineFiresMoves ==
  ASSUME TypeOK, LinkInv, NEW s, NEW n \in Nodes, DeadlineFires(n)
  PROVE  Moves(s, n)
<1>0. Held /\ HeldType
  BY TypeParts DEF LinkInv
<1>1. /\ att[n] # NoAttempt /\ att' = [att EXCEPT ![n].cancelled = TRUE, ![n].deadline = FALSE]
      /\ pend' = pend /\ late' = late /\ kern' = kern /\ link' = link /\ owned' = owned /\ dirty' = dirty
      /\ UNCHANGED protocol /\ UNCHANGED probing /\ UNCHANGED budget
  BY DEF DeadlineFires, resources
<1>2. att[n] \in Attempt
  BY <1>0, <1>1, At
<1>3. att'[n] = Cancelled(att[n], TRUE, FALSE) /\ att' = [att EXCEPT ![n] = att'[n]]
  BY <1>0, <1>1 DEF HeldType, Cancelled
<1>4. att'[n] \in Attempt /\ att'[n].op = att[n].op /\ att'[n].alias = att[n].alias
      /\ att'[n].state = att[n].state
  <2>1. \A c, d \in BOOLEAN : LET y == Cancelled(att[n], c, d) IN
          y \in Attempt /\ y.op = att[n].op /\ y.alias = att[n].alias /\ y.state = att[n].state
    <3>1. "up" \in States
      BY DEF States
    <3> QED BY <1>2, <3>1, Updated
  <2>2. TRUE \in BOOLEAN /\ FALSE \in BOOLEAN
    OBVIOUS
  <2> QED BY <1>3, <2>1, <2>2, Zenon
<1>5. att'[n] # NoAttempt
  BY <1>4, NothingFacts
<1>6. LinkHeld(n)' /\ link[n] \in Link \cup {NoLink}
  BY <1>0, <1>1, <1>4, <1>5, At DEF LinkHeld
<1>7. link' = [link EXCEPT ![n] = link'[n]]
  BY <1>0, <1>1, Same
<1>8. ResourceStep(s, n)
  BY <1>0, <1>1, <1>3, <1>4, <1>6, <1>7, Restated
<1> QED BY <1>1, <1>8, ProtocolSame, ProbingSame, BudgetStep DEF Moves

LEMMA CommitLinkMoves ==
  ASSUME TypeOK, LinkInv, NEW s, NEW n \in Nodes, CommitLink(n)
  PROVE  Moves(s, n)
<1>0. Held /\ HeldType
  BY TypeParts DEF LinkInv
<1>1. /\ att[n] # NoAttempt /\ pend' = pend /\ late' = late /\ chan' = chan /\ pc' = pc
      /\ UNCHANGED probing
  BY DEF CommitLink
<1>2. att[n] \in Attempt /\ att[n].op \in Ops /\ att[n].alias \in Ops
  BY <1>0, <1>1, At
<1>3. CASE /\ link' = [link EXCEPT ![n] = [alias |-> att[n].alias, active |-> TRUE]]
           /\ att' = [att EXCEPT ![n].state = "up", ![n].deadline = FALSE]
           /\ ends' = IF att[n].local THEN Closing(ends, att[n].op, n) ELSE ends
           /\ UNCHANGED <<kern, owned, dirty, budget>>
  <2>1. att'[n] = Staged(att[n], "up", FALSE) /\ att' = [att EXCEPT ![n] = att'[n]]
    BY <1>0, <1>3 DEF HeldType, Staged
  <2>2. att'[n] \in Attempt /\ att'[n].op = att[n].op /\ att'[n].alias = att[n].alias
        /\ att'[n].state = "up"
    <3>1. \A d \in BOOLEAN : LET y == Staged(att[n], "up", d) IN
            y \in Attempt /\ y.op = att[n].op /\ y.alias = att[n].alias /\ y.state = "up"
      <4>1. "up" \in States
        BY DEF States
      <4> QED BY <1>2, <4>1, Updated
    <3> QED BY <2>1, <3>1, Zenon
  <2>3. link'[n] = [alias |-> att[n].alias, active |-> TRUE] /\ link' = [link EXCEPT ![n] = link'[n]]
    BY <1>0, <1>3 DEF HeldType
  <2>4. link'[n] \in Link /\ link'[n].alias = att[n].alias /\ link'[n].active
    BY <1>2, <2>3 DEF Link
  <2>5. LinkHeld(n)'
    BY <2>2, <2>4, NothingFacts DEF LinkHeld
  <2>6. ResourceStep(s, n)
    BY <1>0, <1>1, <1>3, <2>1, <2>2, <2>3, <2>4, <2>5, Restated
  <2>7. EndsStep
    BY <1>2, <1>3, EndsClose
  <2> QED BY <1>1, <1>3, <2>6, <2>7, PcSame, ChanSame, ProbingSame, BudgetStep, MovesParts
<1>4. CASE Discard(n) /\ Removed(n, att[n].alias, owned[n], FALSE) /\ Fault
  <2>1. \E f \in BOOLEAN : Removed(n, att[n].alias, owned[n], f)
    BY <1>4, Zenon
  <2>2. ResourceStep(s, n)
    BY <1>0, <1>1, <1>4, <2>1, AttemptDropped DEF Discard
  <2>3. EndsStep
    BY <1>2, <1>4, EndsClose DEF Discard
  <2> QED BY <1>1, <1>4, <2>2, <2>3, PcSame, ChanSame, ProbingSame, BudgetStep, MovesParts
<1> QED BY <1>3, <1>4 DEF CommitLink

LEMMA LinkLostMoves ==
  ASSUME TypeOK, LinkInv, NEW s, NEW n \in Nodes, LinkLost(n)
  PROVE  Moves(s, n)
<1>0. Held /\ HeldType
  BY TypeParts DEF LinkInv
<1>1. /\ att[n] # NoAttempt /\ att[n].state = "up" /\ (Fault \/ UNCHANGED budget)
      /\ link' = [link EXCEPT ![n].active = FALSE]
      /\ att' = [att EXCEPT ![n].state = "recovering", ![n].deadline = TRUE]
      /\ pend' = pend /\ late' = late /\ kern' = kern /\ owned' = owned /\ dirty' = dirty
      /\ UNCHANGED protocol /\ UNCHANGED probing
  BY DEF LinkLost
<1>2. att[n] \in Attempt /\ link[n] \in Link /\ link[n].alias = att[n].alias
  BY <1>0, <1>1, At DEF LinkHeld
<1>3. att'[n] = Staged(att[n], "recovering", TRUE) /\ att' = [att EXCEPT ![n] = att'[n]]
  BY <1>0, <1>1 DEF HeldType, Staged
<1>4. att'[n] \in Attempt /\ att'[n].op = att[n].op /\ att'[n].alias = att[n].alias
      /\ att'[n].state = "recovering"
  <2>1. \A d \in BOOLEAN : LET y == Staged(att[n], "recovering", d) IN
          y \in Attempt /\ y.op = att[n].op /\ y.alias = att[n].alias /\ y.state = "recovering"
    <3>1. "recovering" \in States
      BY DEF States
    <3> QED BY <1>2, <3>1, Updated
  <2> QED BY <1>3, <2>1, Zenon
<1>5. link'[n] = [link[n] EXCEPT !.active = FALSE] /\ link' = [link EXCEPT ![n] = link'[n]]
  BY <1>0, <1>1 DEF HeldType
<1>6. link'[n] \in Link /\ link'[n].alias = link[n].alias /\ ~link'[n].active
  BY <1>2, <1>5 DEF Link
<1>7. LinkHeld(n)'
  BY <1>2, <1>4, <1>6, NothingFacts DEF LinkHeld
<1>8. ResourceStep(s, n)
  BY <1>0, <1>1, <1>3, <1>4, <1>5, <1>6, <1>7, Restated
<1> QED BY <1>1, <1>8, ProtocolSame, ProbingSame, BudgetStep DEF Moves

LEMMA SupervisionEndsMoves ==
  ASSUME TypeOK, LinkInv, NEW s, NEW n \in Nodes, SupervisionEnds(n)
  PROVE  Moves(s, n)
<1>0. Held
  BY DEF LinkInv
<1>1. /\ att[n] # NoAttempt /\ UNCHANGED <<pend, late>> /\ chan' = chan /\ pc' = pc
      /\ UNCHANGED probing
  BY DEF SupervisionEnds
<1>2. ResourceStep(s, n) /\ EndsStep /\ BudgetType'
  <2>1. CASE FailAttempt(n, att[n].op, Supervised)
    BY <1>1, <2>1, Failed
  <2>2. CASE Fault /\ Discard(n) /\ Removed(n, att[n].alias, owned[n], FALSE)
    <3>1. \E f \in BOOLEAN : Removed(n, att[n].alias, owned[n], f)
      BY <2>2, Zenon
    <3>2. ResourceStep(s, n)
      BY <1>0, <1>1, <2>2, <3>1, AttemptDropped DEF Discard
    <3>3. EndsStep
      BY <1>0, <1>1, <2>2, At, EndsClose DEF Discard
    <3> QED BY <2>2, <3>2, <3>3, BudgetStep
  <2> QED BY <2>1, <2>2 DEF SupervisionEnds
<1> QED BY <1>1, <1>2, PcSame, ChanSame, ProbingSame, MovesParts

LEMMA RetryLinkCleanupMoves ==
  ASSUME TypeOK, LinkInv, NEW s, NEW n \in Nodes, RetryLinkCleanup(n)
  PROVE  Moves(s, n)
<1>1. UNCHANGED protocol /\ UNCHANGED probing /\ UNCHANGED budget
  BY DEF RetryLinkCleanup
<1> QED BY <1>1, Retried, ProtocolSame, ProbingSame, BudgetStep DEF Moves

-----------------------------------------------------------------------------
(***************************************************************************)
(* The inductive invariant and the theorems.                               *)
(***************************************************************************)
LEMMA InitHolds == Init => TypeOK /\ LinkInv
<1> SUFFICES ASSUME Init PROVE TypeOK /\ LinkInv
  OBVIOUS
<1>1. TypeOK
  <2>1. budget \in [faults: 0 .. MaxFaults, timers: Timers]
    BY DynamicLinkConstants DEF Init
  <2>2. <<>> \in Seq(Frames \cup Records) /\ <<>> \in Seq(Records)
    OBVIOUS
  <2> QED BY <2>1, <2>2 DEF Init, TypeOK
<1>2. \A n \in Nodes : /\ att[n] = NoAttempt /\ pend[n] = NoCleanup /\ kern[n] = NoInterface
                       /\ link[n] = NoLink /\ owned[n] = {} /\ dirty[n] = {} /\ Peer(n) \in Nodes
  BY NodeFacts DEF Init
<1>3. \A s \in Ops, n \in Nodes : /\ ends[s][n] = "unused" /\ chan[s][n] = <<>> /\ pc[s][n] = "idle"
                                  /\ worker[s][n] = "none" /\ inbox[s][n] = <<>>
  BY DEF Init
<1>4. Held
  BY <1>2 DEF Held, NodeHeld, AttemptHeld, CleanupHeld, LinkHeld, Accounted
<1>5. Fresh
  BY <1>2, <1>3, NodeFacts DEF Fresh, New
<1>6. OneDial
  BY <1>3, NodeFacts DEF OneDial, Running
<1>7. Configured
  BY <1>3 DEF Configured
<1>8. TransmitAfterReady
  BY <1>2 DEF TransmitAfterReady
<1> QED BY <1>1, <1>4, <1>5, <1>6, <1>7, <1>8 DEF LinkInv

LEMMA MovesKeeps ==
  ASSUME TypeOK, LinkInv, NEW s, NEW n \in Nodes, Moves(s, n)
  PROVE  TypeOK' /\ LinkInv'
<1>1. HeldType' /\ ProtocolType' /\ ProbingType' /\ BudgetType'
  BY DEF Moves, ResourceStep, ProtocolStep, EndsStep, PcStep, ChanStep, ProbingStep, WorkerStep,
         InboxStep, HeardStep, ProtocolType, ProbingType
<1>2. TypeOK'
  BY <1>1 DEF TypeOK, HeldType, ProtocolType, ProbingType, BudgetType
<1>3. Held'
  BY DEF Moves, ResourceStep
<1> QED BY <1>2, <1>3, ReadyStep, DialStep, ConfiguredStep, FreshStep DEF LinkInv

LEMMA DialKeeps ==
  ASSUME TypeOK, LinkInv, NEW n \in Nodes, Dial(n)
  PROVE  TypeOK' /\ LinkInv'
<1>1. PICK i \in 1 .. MaxDials :
        /\ ends[<<n, i>>][n] = "unused"
        /\ ends' = [ends EXCEPT ![<<n, i>>] = [x \in Nodes |-> "open"]]
        /\ pc' = [pc EXCEPT ![<<n, i>>][n] = "dialled"]
  BY DEF Dial
<1> DEFINE s == <<n, i>>
<1>2. s \in Ops /\ Dialler(s) = n
  BY DEF Ops, Dialler
<1>3. ends[s][n] = "unused" /\ ends' = [ends EXCEPT ![s] = [x \in Nodes |-> "open"]]
      /\ pc' = [pc EXCEPT ![s][n] = "dialled"]
  BY <1>1
<1>4. \A t \in Ops : Dialler(t) = n => ends[t][n] \in {"unused", "closed"}
  BY DEF Dial, Ops, Dialler
<1>5. /\ pend[n] = NoCleanup /\ att' = att /\ pend' = pend /\ late' = late /\ kern' = kern
      /\ link' = link /\ owned' = owned /\ dirty' = dirty /\ chan' = chan /\ worker' = worker
      /\ inbox' = inbox /\ heard' = heard /\ budget' = budget
  BY DEF Dial, resources, probing
<1> HIDE DEF s
<1>6. /\ ends \in [Ops -> [Nodes -> {"unused", "open", "closing", "closed"}]]
      /\ pc \in [Ops -> [Nodes -> {"idle", "dialled", "propose", "accept", "start"}]]
  BY DEF TypeOK
<1>7. /\ ends' \in [Ops -> [Nodes -> {"unused", "open", "closing", "closed"}]]
      /\ pc' \in [Ops -> [Nodes -> {"idle", "dialled", "propose", "accept", "start"}]]
  BY <1>3, <1>6
<1>8. TypeOK'
  BY <1>5, <1>7 DEF TypeOK
<1>9. /\ \A t \in Ops, x \in Nodes : ends'[t][x] = IF t = s THEN "open" ELSE ends[t][x]
      /\ \A t \in Ops, x \in Nodes : pc'[t][x] = IF t = s /\ x = n THEN "dialled" ELSE pc[t][x]
  BY <1>2, <1>3, <1>6
<1>10. Held'
  BY <1>5 DEF LinkInv, Held, NodeHeld, AttemptHeld, CleanupHeld, LinkHeld, Accounted
<1>11. Fresh'
  <2>1. ASSUME NEW t \in Ops
        PROVE  /\ Preparing(t, Dialler(t))' => Preparing(t, Dialler(t))
               /\ Unproposed(t, Dialler(t))' => Unproposed(t, Dialler(t))
    BY <1>2, <1>3, <1>9, NodeFacts DEF Preparing, Unproposed
  <2>2. \A t \in Ops, x \in Nodes : New(t, x)' <=> New(t, x)
    BY <1>5 DEF New
  <2>3. Fresh
    BY DEF LinkInv
  <2>4. ASSUME NEW t \in Ops
        PROVE  /\ Preparing(t, Dialler(t))' => New(t, Dialler(t))'
               /\ Unproposed(t, Dialler(t))' =>
                    worker'[t][Dialler(t)] = "none" /\ chan'[t][Peer(Dialler(t))] = <<>>
                    /\ New(t, Peer(Dialler(t)))'
               /\ \A x \in Nodes : \A k \in 1 .. Len(chan'[t][x]) : chan'[t][x][k] = "PROPOSE" =>
                    k = 1 /\ x # Dialler(t) /\ New(t, x)'
    BY <1>5, <2>1, <2>2, <2>3, NodeFacts DEF Fresh
  <2> QED BY <2>4 DEF Fresh
<1>12. OneDial'
  <2>1. ASSUME NEW t \in Ops, NEW u \in Ops, Dialler(t) = Dialler(u),
               ends'[t][Dialler(t)] \in Running, ends'[u][Dialler(u)] \in Running
        PROVE  t = u
    <3>1. Dialler(t) \in Nodes /\ Dialler(u) \in Nodes
      BY NodeFacts
    <3>2. CASE Dialler(t) = n
      <4>1. ASSUME NEW v \in Ops, Dialler(v) = n, ends'[v][n] \in Running PROVE v = s
        <5>1. ends[v][n] \in {"unused", "closed"}
          BY <1>4, <4>1
        <5>2. ends'[v][n] = IF v = s THEN "open" ELSE ends[v][n]
          BY <1>9
        <5> QED BY <4>1, <5>1, <5>2 DEF Running
      <4> QED BY <2>1, <3>2, <4>1
    <3>3. CASE Dialler(t) # n
      BY <1>2, <1>9, <2>1, <3>1, <3>3 DEF LinkInv, OneDial
    <3> QED BY <3>2, <3>3
  <2>2. ASSUME NEW t \in Ops, NEW x \in Nodes, pc'[t][x] \in {"dialled", "propose"}
        PROVE  x = Dialler(t) /\ ends'[t][x] \in Running
    BY <1>2, <1>9, <2>2 DEF LinkInv, OneDial, Running
  <2>3. ASSUME NEW t \in Ops, NEW x \in Nodes, pc'[t][x] = "dialled" PROVE pend'[x] = NoCleanup
    BY <1>5, <1>9, <2>3 DEF LinkInv, OneDial
  <2> QED BY <2>1, <2>2, <2>3 DEF OneDial
<1>13. Configured' /\ TransmitAfterReady'
  BY <1>5 DEF LinkInv, Configured, TransmitAfterReady, Current
<1> QED BY <1>8, <1>10, <1>11, <1>12, <1>13 DEF LinkInv

LEMMA NextKeeps == TypeOK /\ LinkInv /\ [Next]_vars => TypeOK' /\ LinkInv'
<1> SUFFICES ASSUME TypeOK, LinkInv, [Next]_vars PROVE TypeOK' /\ LinkInv'
  OBVIOUS
<1>1. ASSUME NEW n \in Nodes, Dial(n) PROVE TypeOK' /\ LinkInv'
  BY <1>1, DialKeeps
<1>2. ASSUME NEW n \in Nodes, Elapse(n) PROVE \E s : Moves(s, n)
  BY <1>2, ResponseTimeoutMoves, CleanupFiresMoves, DeadlineFiresMoves DEF Elapse
<1>3. ASSUME NEW n \in Nodes, Supervise(n) PROVE \E s : Moves(s, n)
  BY <1>3, CommitLinkMoves, LinkLostMoves, SupervisionEndsMoves, RetryLinkCleanupMoves DEF Supervise
<1>4. ASSUME NEW s \in Ops, NEW n \in Nodes, Handler(s, n) PROVE Moves(s, n)
  BY <1>4, RefuseOutboundMoves, PrepareOutboundMoves, SendProposalMoves, DeclineProposalMoves,
     ReuseReservationMoves, AcceptFreshMoves, ReplaceRecoveringMoves, SendAcceptMoves,
     StartProbeMoves, HandleAcceptMoves, HandleDeclineMoves, HandleControlMoves, SessionClosedMoves
     DEF Handler
<1>5. ASSUME NEW s \in Ops, NEW n \in Nodes, Probe(s, n) PROVE Moves(s, n)
  BY <1>5, SendRoundMoves, AgreeMoves, ConfigureReceiveMoves, AnnounceMoves, EnableTransmitMoves,
     ProbeFailsMoves DEF Probe
<1>6. ASSUME NEW s \in Ops, NEW n \in Nodes, Break(s, n) PROVE Moves(s, n)
  BY <1>6, BreakMoves
<1>7. CASE UNCHANGED vars
  <2>1. /\ att' = att /\ pend' = pend /\ late' = late /\ kern' = kern /\ link' = link
        /\ owned' = owned /\ dirty' = dirty /\ ends' = ends /\ chan' = chan /\ pc' = pc
        /\ worker' = worker /\ inbox' = inbox /\ heard' = heard /\ budget' = budget
    BY <1>7 DEF vars
  <2>2. ASSUME NEW n \in Nodes PROVE Moves(None, n)
    <3>1. ResourceStep(None, n)
      BY <2>1, HeldUnchanged DEF LinkInv, held, resources
    <3> QED BY <2>1, <3>1, ProtocolSame, ProbingSame, BudgetStep DEF Moves, protocol, probing
  <2> QED BY <2>2, NodeFacts, MovesKeeps
<1> QED BY <1>1, <1>2, <1>3, <1>4, <1>5, <1>6, <1>7, MovesKeeps DEF Next

\* Whatever Proposals, timers and failures interleave, every interface is in one of three
\* hands, an operation is new to whoever begins it, and WG_READY is true.
THEOREM LinkInvariant == Spec => [](TypeOK /\ LinkInv)
<1>1. Init => TypeOK /\ LinkInv
  BY InitHolds
<1>2. TypeOK /\ LinkInv /\ [Next]_vars => (TypeOK /\ LinkInv)'
  BY NextKeeps
<1> QED BY <1>1, <1>2, PTL DEF Spec

\* The engine's state stays within its types.
THEOREM TypeCorrect == Spec => []TypeOK
BY LinkInvariant, PTL

\* removeInterface, prepareAttemptLocked, linkManager: for any number of Attempts, each owns
\* its interface, no cleanup takes another's, and nothing in the kernel is forgotten.
THEOREM InterfacesOwnedHolds == Spec => []InterfacesOwned
<1>1. TypeOK /\ LinkInv => InterfacesOwned
  BY At DEF LinkInv, InterfacesOwned, AttemptOwnsInterface, NoLeak, AttemptHeld, CleanupHeld, Accounted
<1> QED BY <1>1, LinkInvariant, PTL

\* handoff: transmission starts only once the peer's receiver of the same operation was
\* configured, however stale records and superseded workers interleave.
THEOREM TransmitAfterReadyHolds == Spec => []TransmitAfterReady
<1>1. LinkInv => TransmitAfterReady
  BY DEF LinkInv
<1> QED BY <1>1, LinkInvariant, PTL
=============================================================================

----------------------- MODULE DurableAgreementProofs -----------------------
(***************************************************************************)
(* Theorems about durable agreements, for every number of identifiers,     *)
(* endpoints and faults and any choice of qualified, full, passive nodes.  *)
(*                                                                         *)
(* A session carries one frame at a time (OneFrame), so a node that has    *)
(* sent DURABLE_SAVED waits for the answer on that session or has given    *)
(* the operation up.  Hence the two nodes never both wait on a             *)
(* confirmation that would be accepted (OneMatch), and the node that       *)
(* accepts one finds its peer with nothing else confirmed (MatchSound).    *)
(***************************************************************************)
EXTENDS DurableAgreement, SequenceTheorems, TLAPS

Frames(i, n) == {chan[i][n][k] : k \in 1 .. Len(chan[i][n])}

\* What n holds, in memory and in the file, is in its history.
HeldStored == \A n \in Nodes : \A r \in {mem[n], disk[n]} : Has(r) => TermsOf(r) \in stored[n]

\* An operation that stored its record has it in memory; one that has not is unconfirmed.
OpSound ==
  \A n \in Nodes : LiveOp(n) =>
    IF op[n].saved THEN Has(mem[n]) /\ TermsOf(mem[n]) = TermsOf(op[n].rec)
    ELSE ~op[n].rec.confirmed

\* A daemon that does not run has no operation.
DownIsIdle == \A n \in Nodes : ~alive[n] => op[n] = NoOp

\* PROPOSE, SAVED and DECLINE alternate: a session has one frame in flight.
OneFrame ==
  \A i \in Nodes :
    /\ \A n \in Nodes : Len(chan[i][n]) <= 1
    /\ chan[i][Low] = <<>> \/ chan[i][High] = <<>>

\* n would accept the DURABLE_SAVED in flight on session i.
Match(i, n) ==
  LiveOp(n) /\ op[n].session = i /\ [type |-> "SAVED", id |-> op[n].rec.id] \in Frames(i, n)

\* At most one of the two nodes is about to accept a confirmation.
OneMatch == ~(\E i, j \in Nodes : Match(i, Low) /\ Match(j, High))

\* n holds agreement t as confirmed.
Believes(n, t) == \E r \in {mem[n], disk[n]} : Has(r) /\ r.confirmed /\ TermsOf(r) = t

\* A node about to accept a confirmation has a peer that confirmed this agreement or none.
MatchSound ==
  \A i, n \in Nodes : Match(i, n) =>
    \A t \in Terms : Believes(Peer(n), t) => t = TermsOf(op[n].rec)

\* What the two nodes hold as confirmed is one agreement, restarts included.
BeliefsAgree == \A t, u \in Terms : Believes(Low, t) /\ Believes(High, u) => t = u

DurableInv ==
  /\ HeldStored /\ OpSound /\ DownIsIdle /\ OneFrame
  /\ FixedEndpointsImmutable /\ PeerStored
  /\ OneMatch /\ MatchSound /\ BeliefsAgree

-----------------------------------------------------------------------------
(***************************************************************************)
(* Nodes, queues and records.                                              *)
(***************************************************************************)
Message == ProposeMsg \cup ReplyMsg

Final(r) == [r EXCEPT !.confirmed = TRUE]

LEMMA NodeFacts ==
  /\ Low \in Nodes /\ High \in Nodes /\ Low # High
  /\ \A n \in Nodes : Peer(n) \in Nodes /\ Peer(n) # n /\ Peer(Peer(n)) = n
  /\ \A n, x \in Nodes : x = n \/ x = Peer(n)
BY DEF Nodes, Low, High, Peer

LEMMA Queues ==
  ASSUME NEW S, NEW s \in Seq(S), NEW m \in S
  PROVE  /\ s # <<>> /\ Len(s) <= 1 => Tail(s) = <<>> /\ s = <<Head(s)>> /\ Head(s) \in S
         /\ s = <<>> => Append(s, m) = <<m>>
         /\ <<m>> \in Seq(S) /\ <<m>> # <<>> /\ Len(<<m>>) = 1
         /\ <<>> \in Seq(S) /\ Len(<<>>) = 0
<1>1. ASSUME s # <<>>, Len(s) <= 1 PROVE Tail(s) = <<>> /\ s = <<Head(s)>> /\ Head(s) \in S
  <2>1. Len(s) \in Nat \ {0}
    BY <1>1, EmptySeq
  <2>2. Len(s) = 1
    <3>1. \A k \in Nat \ {0} : k <= 1 => k = 1
      OBVIOUS
    <3>2. Len(s) <= 1
      BY <1>1
    <3> QED BY <2>1, <3>1, <3>2, Zenon
  <2>3. Tail(s) \in Seq(S) /\ Len(Tail(s)) = 0
    BY <1>1, <2>2, HeadTailProperties
  <2>4. Tail(s) = <<>>
    BY <2>3, EmptySeq
  <2>5. <<Head(s)>> \in Seq(S) /\ Len(<<Head(s)>>) = 1 /\ <<Head(s)>>[1] = s[1]
    <3>1. Head(s) \in S /\ Head(s) = s[1]
      BY <1>1, HeadTailProperties
    <3> QED BY <3>1
  <2>6. s = <<Head(s)>>
    BY <2>2, <2>5, SeqEqual
  <2> QED BY <1>1, <2>4, <2>6, HeadTailProperties
<1>2. <<m>> \in Seq(S) /\ <<m>> # <<>> /\ Len(<<m>>) = 1
  OBVIOUS
<1>3. <<>> \in Seq(S) /\ Len(<<>>) = 0
  OBVIOUS
<1>4. Append(<<>>, m) = <<m>>
  OBVIOUS
<1> QED BY <1>1, <1>2, <1>3, <1>4

LEMMA FramesOf ==
  ASSUME NEW i, NEW n
  PROVE  /\ chan[i][n] = <<>> => Frames(i, n) = {}
         /\ \A m : chan[i][n] = <<m>> => Frames(i, n) = {m}
BY DEF Frames

LEMMA RecordFacts ==
  /\ \A r \in Record : Has(r) /\ TermsOf(r) \in Terms
  /\ ~Has(NoRecord)
  /\ \A r \in Record : /\ Final(r) \in Record /\ Final(r).confirmed = TRUE
                       /\ TermsOf(Final(r)) = TermsOf(r)
  /\ \A o \in Operation : o # NoOp
<1>1. \A r \in Record : Has(r) /\ TermsOf(r) \in Terms
  BY DEF Record, Has, NoRecord, TermsOf, Terms, Ids
<1>2. ASSUME NEW r \in Record, NEW b \in BOOLEAN
      PROVE  [r EXCEPT !.confirmed = b] \in Record
  BY DEF Record
<1>3. ASSUME NEW r \in Record PROVE Final(r) \in Record
  BY <1>2 DEF Final
<1>4. ASSUME NEW r \in Record PROVE Final(r).confirmed = TRUE /\ TermsOf(Final(r)) = TermsOf(r)
  BY DEF Final, Record, TermsOf
<1>5. ASSUME NEW o \in Operation PROVE o # NoOp
  <2>1. o.session # "no operation"
    BY DEF Operation, Nodes, Low, High
  <2>2. NoOp.session = "no operation"
    BY DEF NoOp
  <2> QED BY <2>1, <2>2
<1>6. ~Has(NoRecord)
  BY DEF Has
<1> QED BY <1>1, <1>3, <1>4, <1>5, <1>6

-----------------------------------------------------------------------------
(***************************************************************************)
(* What a step does to stores, operations and sessions.                    *)
(***************************************************************************)
core == <<mem, disk, stored, op, dial, chan>>

\* Only n moves.
Own(n) ==
  /\ mem' = [mem EXCEPT ![n] = mem'[n]] /\ disk' = [disk EXCEPT ![n] = disk'[n]]
  /\ stored' = [stored EXCEPT ![n] = stored'[n]]
  /\ op' = [op EXCEPT ![n] = op'[n]] /\ dial' = [dial EXCEPT ![n] = dial'[n]]

Wired == chan' = [j \in Nodes |-> [x \in Nodes |-> chan'[j][x]]]
\* Frames are lost, or read and not answered.
Drops == Wired /\ \A j, x \in Nodes : chan'[j][x] \in {<<>>, chan[j][x]}
\* n sends m on session i, where nothing is in flight to n any more.
Sends(i, n, m) ==
  /\ Wired /\ m \in Message
  /\ \A j, x \in Nodes : \/ chan'[j][x] \in {<<>>, chan[j][x]}
                         \/ j = i /\ x = Peer(n) /\ chan'[j][x] = <<m>>
  /\ chan'[i][n] = <<>> /\ chan'[i][Peer(n)] \in {<<>>, <<m>>}

Gone(o) == [o EXCEPT !.session = "gone"]
Propose(r, flag) == [type |-> "PROPOSE", id |-> r.id, fixed |-> r.fixed, noDurable |-> flag]
Saved(r) == [type |-> "SAVED", id |-> r.id]
Operate(r, i, out, saved) == [rec |-> r, session |-> i, outgoing |-> out, saved |-> saved]

\* n learns nothing: it may lose its record or its operation, or store what it has again.
Yields(n) ==
  /\ Own(n) /\ stored' = stored
  /\ mem'[n] \in {mem[n], disk[n], NoRecord} /\ disk'[n] \in {mem[n], disk[n], NoRecord}
  /\ dial'[n] \in {dial[n], NoDial}
  /\ \/ op'[n] = NoOp
     \/ mem'[n] = mem[n] /\ op'[n] = op[n]
     \/ mem'[n] = mem[n] /\ LiveOp(n) /\ op'[n] = Gone(op[n])
  /\ \/ Drops
     \/ \E i \in Nodes, id \in Ids : Sends(i, n, [type |-> "DECLINE", id |-> id])

Known(n, r) == TermsOf(r) \in stored[n]
Unused(r) == r.id \notin InUse

Starts(n, r) ==
  /\ Own(n) /\ UNCHANGED <<mem, disk, stored, chan>>
  /\ r \in Record /\ ~r.confirmed /\ (Known(n, r) \/ Unused(r))
  /\ op'[n] = Operate(r, "none", TRUE, FALSE)
  /\ \E flag \in BOOLEAN : dial'[n] = Propose(r, flag)

Dials(n) ==
  /\ Own(n) /\ UNCHANGED <<mem, disk, stored>>
  /\ dial[n] # NoDial /\ dial'[n] = NoDial /\ Sends(n, n, dial[n])
  /\ \/ op'[n] = op[n]
     \/ LiveOp(n) /\ op'[n] = [op[n] EXCEPT !.session = n]

Counters(i, n, r) ==
  /\ Own(n) /\ UNCHANGED <<mem, disk, stored, dial>>
  /\ r \in Record /\ ~r.confirmed /\ Unused(r)
  /\ op'[n] = Operate(r, i, FALSE, FALSE)
  /\ \E flag \in BOOLEAN : Sends(i, n, Propose(r, flag))

Keeps(n, r) == stored'[n] = stored[n] \cup {TermsOf(r)}

\* n was offered r in m, and stores it or fails to.
Offered(i, n, r) ==
  /\ Own(n) /\ dial' = dial /\ r \in Record
  /\ \E m \in Frames(i, n) : m.type = "PROPOSE" /\ TermsOf(m) = TermsOf(r)
  /\ r.confirmed => Believes(n, TermsOf(r))
Accepts(i, n, r) ==
  /\ Offered(i, n, r) /\ mem'[n] = r /\ disk'[n] = r /\ Keeps(n, r)
  /\ \/ op'[n] = Operate(r, i, FALSE, TRUE) /\ Sends(i, n, Saved(r))
     \/ op'[n] = Operate(r, "gone", FALSE, TRUE) /\ Drops
AcceptFails(i, n, r) ==
  /\ Offered(i, n, r) /\ mem' = mem
  /\ (disk' = disk /\ stored' = stored) \/ (disk'[n] = r /\ Keeps(n, r))
  /\ op'[n] = op[n] \/ (LiveOp(n) /\ op'[n] = Gone(op[n]))
  /\ Drops

\* n accepts the confirmation of its operation, or stops on the way.
Confirmed(i, n) ==
  LET r == op[n].rec IN
  /\ Own(n) /\ dial' = dial /\ Match(i, n)
  /\ \/ /\ mem'[n] \in {r, Final(r)} /\ disk'[n] \in {r, Final(r)} /\ Keeps(n, r)
        /\ op'[n] = NoOp \/ op'[n] = Operate(r, "gone", op[n].outgoing, TRUE)
        /\ Drops \/ Sends(i, n, Saved(r))
     \/ /\ mem' = mem /\ op'[n] = Gone(op[n]) /\ Drops
        /\ \/ disk' = disk /\ stored' = stored
           \/ Keeps(n, r) /\ disk'[n] = IF op[n].saved THEN Final(r) ELSE r

LEMMA ChanType ==
  ASSUME TypeOK
  PROVE  /\ chan \in [Nodes -> [Nodes -> Seq(Message)]]
         /\ \A i, n \in Nodes : chan[i][n] \in Seq(Message)
BY DEF TypeOK, Message

LEMMA CloseDrops ==
  ASSUME TypeOK, NEW i \in Nodes, NEW n \in Nodes, CloseWire(i, n)
  PROVE  Drops
<1>1. chan \in [Nodes -> [Nodes -> Seq(Message)]]
  BY ChanType
<1> QED BY <1>1 DEF CloseWire, Drops, Wired

\* A session with a frame to n has none to the peer, and no second one.
LEMMA FrameRead ==
  ASSUME TypeOK, OneFrame, NEW i \in Nodes, NEW n \in Nodes, chan[i][n] # <<>>
  PROVE  /\ Tail(chan[i][n]) = <<>> /\ chan[i][Peer(n)] = <<>>
         /\ Head(chan[i][n]) \in Message /\ Frames(i, n) = {Head(chan[i][n])}
<1>1. chan[i][n] \in Seq(Message) /\ Len(chan[i][n]) <= 1
  BY ChanType DEF OneFrame
<1>2. /\ Tail(chan[i][n]) = <<>> /\ chan[i][n] = <<Head(chan[i][n])>>
      /\ Head(chan[i][n]) \in Message
  <2> DEFINE s == chan[i][n]
  <2>1. s \in Seq(Message) /\ s # <<>> /\ Len(s) <= 1
    BY <1>1
  <2>2. Head(s) \in Message
    BY <2>1
  <2> HIDE DEF s
  <2>3. Tail(s) = <<>> /\ s = <<Head(s)>>
    BY <2>1, <2>2, Queues
  <2> QED BY <2>2, <2>3 DEF s
<1>3. chan[i][Peer(n)] = <<>>
  BY NodeFacts DEF OneFrame, Nodes, Peer
<1>4. Frames(i, n) = {Head(chan[i][n])}
  BY <1>2, FramesOf
<1> QED BY <1>2, <1>3, <1>4

LEMMA AnswerSends ==
  ASSUME TypeOK, OneFrame, NEW i \in Nodes, NEW n \in Nodes, chan[i][n] # <<>>,
         NEW m \in Message, Answer(i, n, m) \/ AnswerAndClose(i, n, m)
  PROVE  Sends(i, n, m)
<1>1. Tail(chan[i][n]) = <<>> /\ chan[i][Peer(n)] = <<>>
  BY FrameRead
<1>2. chan \in [Nodes -> [Nodes -> Seq(Message)]] /\ <<>> \in Seq(Message)
  BY ChanType
<1>3. Append(<<>>, m) = <<m>>
  BY <1>2, Queues
<1>4. Peer(n) \in Nodes /\ Peer(n) # n /\ \A x \in Nodes : x = n \/ x = Peer(n)
  BY NodeFacts
<1> DEFINE w == [x \in Nodes |-> IF x = n THEN <<>> ELSE IF Open(i, Peer(n)) THEN <<m>> ELSE <<>>]
<1>5. chan' = [chan EXCEPT ![i] = w]
  <2>1. CASE Answer(i, n, m)
    <3>1. [x \in Nodes |-> IF x = n THEN Pop(i, n)
                            ELSE IF Open(i, Peer(n)) THEN Append(chan[i][x], m) ELSE chan[i][x]] = w
      BY <1>1, <1>3, <1>4 DEF Pop
    <3> QED BY <2>1, <3>1 DEF Answer
  <2>2. CASE AnswerAndClose(i, n, m)
    <3>1. [x \in Nodes |-> IF x = n \/ ~Open(i, Peer(n)) THEN <<>> ELSE Append(chan[i][x], m)] = w
      BY <1>1, <1>3, <1>4
    <3> QED BY <2>2, <3>1 DEF AnswerAndClose
  <2> QED BY <2>1, <2>2
<1>6. \A j, x \in Nodes : chan'[j][x] = IF j = i THEN w[x] ELSE chan[j][x]
  BY <1>2, <1>5
<1>7. Wired
  BY <1>2, <1>5 DEF Wired
<1> QED BY <1>4, <1>6, <1>7 DEF Sends

\* Detach leaves an operation alone or forgets its session.
LEMMA Detached ==
  ASSUME TypeOK, NEW i, NEW n \in Nodes
  PROVE  Detach(n, i, op[n]) = op[n] \/ (LiveOp(n) /\ Detach(n, i, op[n]) = Gone(op[n]))
BY DEF Detach, LiveOp, Gone

-----------------------------------------------------------------------------
(***************************************************************************)
(* The shape of every step.                                                *)
(***************************************************************************)
LEMMA StoreType ==
  ASSUME TypeOK, NEW n \in Nodes
  PROVE  /\ mem \in [Nodes -> Record \cup {NoRecord}] /\ disk \in [Nodes -> Record \cup {NoRecord}]
         /\ op \in [Nodes -> Operation \cup {NoOp}] /\ dial \in [Nodes -> ProposeMsg \cup {NoDial}]
         /\ stored \in [Nodes -> SUBSET Terms]
BY DEF TypeOK

\* Steps that leave stores, operations and sessions as they are.
LEMMA QuietYields == ASSUME TypeOK, NEW n \in Nodes, UNCHANGED core PROVE Yields(n)
BY StoreType, ChanType DEF core, Yields, Own, Drops, Wired

LEMMA NotedHeld ==
  ASSUME TypeOK, HeldStored, NEW n \in Nodes
  PROVE  Noted(n, mem[n]) = stored /\ Noted(n, NoRecord) = stored
BY StoreType DEF Noted, HeldStored, Has

\* deleteLocked and the saves of what is in memory.
LEMMA SaveYields ==
  ASSUME TypeOK, HeldStored, NEW n \in Nodes, UNCHANGED <<dial, chan>>,
         \/ SaveOk(n, NoRecord) /\ op' = [op EXCEPT ![n] = NoOp]
         \/ SaveFails(n, NoRecord) /\ op' = op
         \/ SaveOk(n, mem[n]) /\ op' = op
  PROVE  Yields(n)
BY StoreType, ChanType, NotedHeld DEF Yields, Own, Drops, Wired, SaveOk, SaveFails

LEMMA SessionYields ==
  ASSUME TypeOK, OneFrame, NEW i \in Nodes, NEW n \in Nodes,
         DeclinePropose(i, n) \/ HandleLinkError(i, n) \/ SessionEnds(i, n)
  PROVE  Yields(n)
<1>1. /\ UNCHANGED <<mem, disk, stored, dial>> /\ op' = [op EXCEPT ![n] = Detach(n, i, op[n])]
  BY DEF DeclinePropose, HandleLinkError, SessionEnds, store
<1>2. Own(n)
  BY <1>1, StoreType DEF Own
<1>3. op'[n] = op[n] \/ (LiveOp(n) /\ op'[n] = Gone(op[n]))
  BY <1>1, StoreType, Detached
<1>4. Drops \/ \E j \in Nodes, id \in Ids : Sends(j, n, [type |-> "DECLINE", id |-> id])
  <2>1. CASE HandleLinkError(i, n) \/ SessionEnds(i, n)
    BY <2>1, CloseDrops DEF HandleLinkError, SessionEnds
  <2>2. CASE DeclinePropose(i, n)
    <3> DEFINE m == Head(chan[i][n])
    <3>1. chan[i][n] # <<>> /\ m.type = "PROPOSE"
      BY <2>2 DEF DeclinePropose, Reading
    <3>2. m \in Message
      BY <3>1, FrameRead
    <3>3. m.id \in Ids
      BY <3>1, <3>2 DEF Message, ProposeMsg, ReplyMsg
    <3>4. [type |-> "DECLINE", id |-> m.id] \in Message
      BY <3>3 DEF Message, ReplyMsg
    <3>5. AnswerAndClose(i, n, [type |-> "DECLINE", id |-> m.id])
      BY <2>2 DEF DeclinePropose
    <3>6. Sends(i, n, [type |-> "DECLINE", id |-> m.id])
      BY <3>1, <3>4, <3>5, AnswerSends
    <3> QED BY <3>3, <3>6
  <2> QED BY <2>1, <2>2
<1> QED BY <1>1, <1>2, <1>3, <1>4 DEF Yields

LEMMA ManagerYields ==
  ASSUME TypeOK, HeldStored, NEW n \in Nodes,
         \/ DialFails(n) \/ ExpireOperation(n) \/ Observe(n) \/ ObservationLapses(n)
         \/ CooldownEnds(n) \/ StartCheck(n) \/ HandleCheck(n) \/ AcceptStatus(n)
         \/ AcceptAbsent(n) \/ CheckFails(n) \/ ReadyLapses(n) \/ DirectFailure(n)
         \/ DeleteDurable(n) \/ Resave(n)
  PROVE  Yields(n)
<1>1. CASE DialFails(n) \/ ExpireOperation(n)
  BY <1>1, StoreType, ChanType DEF DialFails, ExpireOperation, store, wire, Yields, Own, Drops, Wired
<1>2. CASE Observe(n)
  BY <1>2, SaveYields, QuietYields DEF Observe, DeleteOk, DeleteFails, store, wire, core
<1>3. CASE AcceptAbsent(n)
  BY <1>3, SaveYields DEF AcceptAbsent, wire
<1>4. CASE CheckFails(n)
  BY <1>4, SaveYields, QuietYields DEF CheckFails, store, wire, core
<1>5. CASE DirectFailure(n) \/ DeleteDurable(n)
  BY <1>5, SaveYields DEF DirectFailure, DeleteDurable, DeleteOk, DeleteFails, wire
<1>6. CASE Resave(n)
  BY <1>6, SaveYields DEF Resave, wire
<1>7. CASE UNCHANGED core
  BY <1>7, QuietYields
<1> QED
  BY <1>1, <1>2, <1>3, <1>4, <1>5, <1>6, <1>7
  DEF ObservationLapses, CooldownEnds, StartCheck, HandleCheck, AcceptStatus, ReadyLapses,
      store, wire, core

LEMMA EnvironmentYields ==
  ASSUME TypeOK, DownIsIdle, NEW n \in Nodes, Environment(n)
  PROVE  Yields(n)
<1>1. CASE Crash(n)
  BY <1>1, StoreType, ChanType DEF Crash, Yields, Own, Drops, Wired
<1>2. CASE Restart(n)
  <2>1. op[n] = NoOp
    BY <1>2 DEF Restart, DownIsIdle
  <2>2. mem'[n] \in {mem[n], disk[n], NoRecord} /\ disk'[n] \in {mem[n], disk[n], NoRecord}
    BY <1>2, StoreType DEF Restart
  <2>3. UNCHANGED <<stored, dial, op, chan>> /\ Own(n)
    BY <1>2, StoreType DEF Restart, wire, Own
  <2> QED BY <2>1, <2>2, <2>3, ChanType DEF Yields, Drops, Wired
<1>3. CASE LinkDown(n) \/ LinkUp(n) \/ Roam(n)
  BY <1>3, QuietYields DEF LinkDown, LinkUp, Roam, store, wire, core
<1> QED BY <1>1, <1>2, <1>3 DEF Environment

\* tick starts an operation with a record it has or under an identifier nothing names.
LEMMA TickStarts ==
  ASSUME TypeOK, HeldStored, NEW n \in Nodes, TickFresh(n) \/ TickResume(n)
  PROVE  \E r \in Record : Starts(n, r)
<1>0. NoDurable(n) \in BOOLEAN
  BY DEF NoDurable, Has
<1>1. ASSUME NEW r \in Record, StartOperation(n, r), UNCHANGED <<mem, disk, stored, chan>>,
             ~r.confirmed, Known(n, r) \/ Unused(r)
      PROVE  Starts(n, r)
  BY <1>0, <1>1, StoreType DEF StartOperation, Starts, Own, Operate, Propose
<1>2. CASE TickFresh(n)
  <2>1. PICK id \in Ids :
          /\ Fresh(id)
          /\ StartOperation(n, [id |-> id, confirmed |-> FALSE,
                                fixed |-> [m \in Nodes |-> IF m = n THEN obs[n].local ELSE 0]])
    BY <1>2 DEF TickFresh
  <2> DEFINE f == [m \in Nodes |-> IF m = n THEN obs[n].local ELSE 0]
             r == [id |-> id, confirmed |-> FALSE, fixed |-> f]
  <2>2. f \in Fixed
    BY DurableAssumption DEF TypeOK, Observation, Fixed, Endpoint
  <2>3. r \in Record /\ r.id = id /\ ~r.confirmed
    <3> HIDE DEF f
    <3> QED BY <2>2 DEF Record
  <2>4. Unused(r)
    BY <2>1, <2>3 DEF Unused, Fresh
  <2>5. UNCHANGED <<mem, disk, stored, chan>>
    BY <1>2 DEF TickFresh, store, wire
  <2> HIDE DEF r, f
  <2>6. StartOperation(n, r)
    BY <2>1 DEF r, f
  <2> QED BY <1>1, <2>3, <2>4, <2>5, <2>6
<1>3. CASE TickResume(n)
  <2>1. mem[n] \in Record
    BY <1>3, StoreType DEF TickResume, Has
  <2>2. Known(n, mem[n])
    BY <1>3 DEF TickResume, HeldStored, Known
  <2> QED BY <1>1, <1>3, <2>1, <2>2 DEF TickResume, store, wire
<1> QED BY <1>2, <1>3

LEMMA DialDials == ASSUME TypeOK, NEW n \in Nodes, Dial(n) PROVE Dials(n)
<1>1. UNCHANGED <<mem, disk, stored>> /\ Own(n) /\ dial[n] # NoDial /\ dial'[n] = NoDial
  BY StoreType DEF Dial, store, Own
<1>2. dial[n] \in Message
  BY <1>1, StoreType DEF Message
<1>3. chan' = [chan EXCEPT ![n] = [m \in Nodes |-> IF m = n THEN <<>> ELSE <<dial[n]>>]]
  BY DEF Dial
<1>4. Sends(n, n, dial[n])
  <2> DEFINE w == [m \in Nodes |-> IF m = n THEN <<>> ELSE <<dial[n]>>]
  <2>1. chan' = [chan EXCEPT ![n] = w] /\ chan \in [Nodes -> [Nodes -> Seq(Message)]]
    BY <1>3, ChanType
  <2>2. \A j, x \in Nodes : chan'[j][x] = IF j = n THEN w[x] ELSE chan[j][x]
    BY <2>1
  <2>3. Wired
    BY <2>1 DEF Wired
  <2>4. Peer(n) \in Nodes /\ Peer(n) # n /\ \A x \in Nodes : x = n \/ x = Peer(n)
    BY NodeFacts
  <2> QED BY <1>2, <2>2, <2>3, <2>4 DEF Sends
<1>5. op'[n] = op[n] \/ (LiveOp(n) /\ op'[n] = [op[n] EXCEPT !.session = n])
  BY StoreType DEF Dial
<1> QED BY <1>1, <1>4, <1>5 DEF Dials

LEMMA OperateGone ==
  ASSUME NEW r, NEW i, NEW out, NEW saved
  PROVE  Gone(Operate(r, i, out, saved)) = Operate(r, "gone", out, saved)
BY DEF Gone, Operate

\* A PROPOSE that n reads.
LEMMA ReadsPropose ==
  ASSUME TypeOK, OneFrame, NEW i \in Nodes, NEW n \in Nodes, Reading(i, n, "PROPOSE")
  PROVE  LET m == Head(chan[i][n])
         IN chan[i][n] # <<>> /\ m \in ProposeMsg /\ m.type = "PROPOSE" /\ m \in Frames(i, n)
<1>1. chan[i][n] # <<>> /\ Head(chan[i][n]).type = "PROPOSE"
  BY DEF Reading
<1>2. Head(chan[i][n]) \in Message /\ Head(chan[i][n]) \in Frames(i, n)
  BY <1>1, FrameRead
<1>3. Head(chan[i][n]) \in ProposeMsg
  BY <1>1, <1>2 DEF Message, ReplyMsg
<1> QED BY <1>1, <1>2, <1>3

LEMMA CounterCounters ==
  ASSUME TypeOK, OneFrame, NEW i \in Nodes, NEW n \in Nodes, CounterPropose(i, n)
  PROVE  \E r \in Record : Counters(i, n, r)
<1> DEFINE m == Head(chan[i][n])
           f == [m.fixed EXCEPT ![n] = obs[n].local]
<1>1. chan[i][n] # <<>> /\ m \in ProposeMsg
  BY ReadsPropose DEF CounterPropose
<1>2. f \in Fixed
  BY <1>1 DEF ProposeMsg, Fixed, TypeOK, Observation
<1>3. PICK id \in Ids :
        /\ Fresh(id)
        /\ op' = [op EXCEPT ![n] = [rec |-> [id |-> id, fixed |-> f, confirmed |-> FALSE],
                                   session |-> i, outgoing |-> FALSE, saved |-> FALSE]]
        /\ Answer(i, n, [type |-> "PROPOSE", id |-> id, fixed |-> f, noDurable |-> FALSE])
  BY DEF CounterPropose
<1> DEFINE r == [id |-> id, fixed |-> f, confirmed |-> FALSE]
<1> HIDE DEF f
<1>4. r \in Record /\ r.id = id /\ ~r.confirmed
  BY <1>2 DEF Record
<1>5. Propose(r, FALSE) \in Message
  BY <1>2 DEF Propose, Message, ProposeMsg
<1>6. Sends(i, n, Propose(r, FALSE))
  BY <1>1, <1>3, <1>5, AnswerSends DEF Propose
<1>7. Unused(r)
  BY <1>3, <1>4 DEF Unused, Fresh
<1>8. UNCHANGED <<mem, disk, stored, dial>>
  BY DEF CounterPropose, store
<1>9. op' = [op EXCEPT ![n] = Operate(r, i, FALSE, FALSE)]
  BY <1>3 DEF Operate
<1> HIDE DEF r
<1>10. Own(n) /\ op'[n] = Operate(r, i, FALSE, FALSE)
  BY <1>8, <1>9, StoreType DEF Own
<1>11. Counters(i, n, r)
  <2>1. \E flag \in BOOLEAN : Sends(i, n, Propose(r, flag))
    BY <1>6
  <2> QED BY <1>4, <1>7, <1>8, <1>10, <2>1 DEF Counters
<1> QED BY <1>4, <1>11

LEMMA AcceptShape ==
  ASSUME TypeOK, OneFrame, NEW i \in Nodes, NEW n \in Nodes, AcceptPropose(i, n)
  PROVE  \E r \in Record : Accepts(i, n, r) \/ AcceptFails(i, n, r)
<1> DEFINE m == Head(chan[i][n])
           c == Resumes(n, m) /\ mem[n].confirmed
           r == [id |-> m.id, fixed |-> m.fixed, confirmed |-> c]
           adopted == [rec |-> r, session |-> i, outgoing |-> FALSE, saved |-> TRUE]
<1>1. chan[i][n] # <<>> /\ m \in ProposeMsg /\ m \in Frames(i, n) /\ m.type = "PROPOSE"
  BY ReadsPropose DEF AcceptPropose
<1>2. c \in BOOLEAN /\ m.id \in Ids /\ m.fixed \in Fixed
  BY <1>1 DEF ProposeMsg
<1>3. c => Has(mem[n]) /\ mem[n].confirmed /\ TermsOf(mem[n]) = TermsOf(m)
  <2>1. ~Declines(i, n, m)
    BY DEF AcceptPropose
  <2> QED BY <2>1 DEF Declines, Resumes, TermsOf
<1> HIDE DEF c
<1>4. r \in Record
  BY <1>2 DEF Record
<1>5. r.id = m.id /\ r.fixed = m.fixed /\ r.confirmed = c /\ TermsOf(m) = TermsOf(r)
  BY DEF TermsOf
<1>6. Saved(r) \in Message /\ Saved(r) = [type |-> "SAVED", id |-> m.id]
  BY <1>2, <1>5 DEF Saved, Message, ReplyMsg
<1>7. /\ dial' = dial
      /\ \/ SaveOk(n, r) /\ op' = [op EXCEPT ![n] = adopted] /\ Answer(i, n, Saved(r))
         \/ SaveOk(n, r) /\ op' = [op EXCEPT ![n] = Detach(n, i, adopted)] /\ CloseWire(i, n)
         \/ SaveFails(n, r) /\ op' = [op EXCEPT ![n] = Detach(n, i, op[n])] /\ CloseWire(i, n)
  BY <1>6 DEF AcceptPropose, c
<1>8. adopted = Operate(r, i, FALSE, TRUE) /\ adopted # NoOp
  <2>1. adopted \in Operation
    BY <1>4 DEF Operation
  <2> QED BY <2>1, RecordFacts DEF Operate
<1>9. Detach(n, i, adopted) = Operate(r, "gone", FALSE, TRUE)
  <2>1. adopted.session = i
    OBVIOUS
  <2> HIDE DEF adopted
  <2>2. Gone(adopted) = Operate(r, "gone", FALSE, TRUE)
    BY <1>8, OperateGone
  <2> QED BY <1>8, <2>1, <2>2 DEF Detach, Gone
<1> HIDE DEF r, adopted
<1>10. Noted(n, r) = [stored EXCEPT ![n] = stored[n] \cup {TermsOf(r)}]
  BY <1>4, RecordFacts DEF Noted
<1>11. r.confirmed => Believes(n, TermsOf(r))
  BY <1>3, <1>5 DEF Believes
<1>12. Own(n) => Offered(i, n, r)
  BY <1>1, <1>4, <1>5, <1>7, <1>11 DEF Offered
<1>13. ASSUME SaveOk(n, r), NEW o, op' = [op EXCEPT ![n] = o]
       PROVE  Offered(i, n, r) /\ mem'[n] = r /\ disk'[n] = r /\ Keeps(n, r) /\ op'[n] = o
  BY <1>7, <1>10, <1>12, <1>13, StoreType DEF SaveOk, Own, Keeps
<1>14. ASSUME SaveFails(n, r), op' = [op EXCEPT ![n] = Detach(n, i, op[n])]
       PROVE  /\ Offered(i, n, r) /\ mem' = mem
              /\ (disk' = disk /\ stored' = stored) \/ (disk'[n] = r /\ Keeps(n, r))
              /\ op'[n] = op[n] \/ (LiveOp(n) /\ op'[n] = Gone(op[n]))
  <2>1. op'[n] = Detach(n, i, op[n])
    BY <1>14, StoreType
  <2>2. Own(n)
    BY <1>7, <1>10, <1>14, StoreType DEF SaveFails, Own
  <2>3. (disk' = disk /\ stored' = stored) \/ (disk'[n] = r /\ Keeps(n, r))
    BY <1>10, <1>14, StoreType DEF SaveFails, Keeps
  <2> QED BY <1>12, <1>14, <2>1, <2>2, <2>3, Detached DEF SaveFails
<1> QED
  BY <1>1, <1>4, <1>6, <1>7, <1>8, <1>9, <1>13, <1>14, AnswerSends, CloseDrops
  DEF Accepts, AcceptFails

\* The parts of an operation that waits on session i.
LEMMA OperationParts ==
  ASSUME TypeOK, NEW n \in Nodes, LiveOp(n)
  PROVE  /\ op[n] \in Operation /\ op[n].rec \in Record
         /\ op[n].saved \in BOOLEAN /\ op[n].outgoing \in BOOLEAN
BY StoreType DEF LiveOp, Operation

LEMMA SavedGone ==
  ASSUME TypeOK, NEW n \in Nodes, LiveOp(n), NEW i, op[n].session = i
  PROVE  /\ Detach(n, i, op[n]) = Gone(op[n])
         /\ Detach(n, i, [op[n] EXCEPT !.saved = TRUE])
              = Operate(op[n].rec, "gone", op[n].outgoing, TRUE)
<1>1. op[n] \in Operation /\ op[n] # NoOp
  BY OperationParts DEF LiveOp
<1>2. ASSUME NEW b \in BOOLEAN
      PROVE  /\ [op[n] EXCEPT !.saved = b] \in Operation
             /\ [op[n] EXCEPT !.saved = b].session = i
             /\ [op[n] EXCEPT !.saved = b] = Operate(op[n].rec, i, op[n].outgoing, b)
  BY <1>1 DEF Operation, Operate
<1>3. ASSUME NEW b \in BOOLEAN
      PROVE  Detach(n, i, [op[n] EXCEPT !.saved = b]) = Operate(op[n].rec, "gone", op[n].outgoing, b)
  <2> DEFINE o == [op[n] EXCEPT !.saved = b]
  <2>1. o # NoOp /\ o.session = i /\ o = Operate(op[n].rec, i, op[n].outgoing, b)
    BY <1>2, RecordFacts
  <2> HIDE DEF o
  <2>2. Gone(o) = Operate(op[n].rec, "gone", op[n].outgoing, b)
    BY <2>1, OperateGone
  <2>3. Detach(n, i, o) = Operate(op[n].rec, "gone", op[n].outgoing, b)
    BY <2>1, <2>2 DEF Detach, Gone
  <2> QED BY <2>3 DEF o
<1>4. Detach(n, i, op[n]) = Gone(op[n])
  BY <1>1 DEF Detach, Gone
<1> QED BY <1>3, <1>4

\* A confirmation that n reads, and the frame it may answer with.
LEMMA ReadsMatch ==
  ASSUME TypeOK, OneFrame, NEW i \in Nodes, NEW n \in Nodes,
         Reading(i, n, "SAVED"), Confirms(i, n, Head(chan[i][n]))
  PROVE  /\ chan[i][n] # <<>> /\ LiveOp(n) /\ op[n].session = i /\ Match(i, n)
         /\ Saved(op[n].rec) \in Message
<1> DEFINE m == Head(chan[i][n])
<1>1. chan[i][n] # <<>> /\ m.type = "SAVED" /\ LiveOp(n) /\ op[n].rec.id = m.id
      /\ op[n].session = i
  BY DEF Reading, Confirms
<1>2. m \in Message /\ m \in Frames(i, n)
  BY <1>1, FrameRead
<1>3. m \in ReplyMsg
  BY <1>1, <1>2 DEF Message, ProposeMsg
<1>4. m = [type |-> "SAVED", id |-> op[n].rec.id]
  BY <1>1, <1>3 DEF ReplyMsg
<1> HIDE DEF m
<1>5. Match(i, n)
  BY <1>1, <1>2, <1>4 DEF Match
<1> QED BY <1>1, <1>2, <1>4, <1>5 DEF Saved

LEMMA ConfirmShape ==
  ASSUME TypeOK, OneFrame, NEW i \in Nodes, NEW n \in Nodes,
         ConfirmSaved(i, n) \/ ConfirmStops(i, n)
  PROVE  Confirmed(i, n)
<1> DEFINE r == op[n].rec
<1>1. /\ chan[i][n] # <<>> /\ LiveOp(n) /\ op[n].session = i /\ Match(i, n)
      /\ Saved(r) \in Message
  BY ReadsMatch DEF ConfirmSaved, ConfirmStops
<1>2. r \in Record /\ Final(r) \in Record /\ TermsOf(Final(r)) = TermsOf(r)
  BY <1>1, OperationParts, RecordFacts
<1>3. /\ Noted(n, r) = [stored EXCEPT ![n] = stored[n] \cup {TermsOf(r)}]
      /\ Noted(n, Final(r)) = [stored EXCEPT ![n] = stored[n] \cup {TermsOf(r)}]
  BY <1>2, RecordFacts DEF Noted
<1>4. dial' = dial
  BY DEF ConfirmSaved, ConfirmStops
<1>5. /\ Answer(i, n, Saved(r)) \/ AnswerAndClose(i, n, Saved(r)) => Sends(i, n, Saved(r))
      /\ CloseWire(i, n) => Drops
  BY <1>1, AnswerSends, CloseDrops
<1>6. ASSUME NEW o, op' = [op EXCEPT ![n] = o], NEW M \in {r, Final(r)}, NEW D \in {r, Final(r)},
             mem' = [mem EXCEPT ![n] = M], disk' = [disk EXCEPT ![n] = D], stored' = Noted(n, M)
      PROVE  /\ Own(n) /\ mem'[n] \in {r, Final(r)} /\ disk'[n] \in {r, Final(r)}
             /\ Keeps(n, r) /\ op'[n] = o
  BY <1>3, <1>4, <1>6, StoreType DEF Own, Keeps
<1>7. ASSUME NEW M \in {r, Final(r)}, SaveFails(n, M), op' = [op EXCEPT ![n] = Gone(op[n])]
      PROVE  /\ Own(n) /\ mem' = mem /\ op'[n] = Gone(op[n])
             /\ (disk' = disk /\ stored' = stored) \/ (Keeps(n, r) /\ disk'[n] = M)
  BY <1>3, <1>4, <1>7, StoreType DEF SaveFails, Own, Keeps
<1>8. /\ Detach(n, i, op[n]) = Gone(op[n])
      /\ Detach(n, i, [op[n] EXCEPT !.saved = TRUE]) = Operate(r, "gone", op[n].outgoing, TRUE)
  BY <1>1, SavedGone
<1> HIDE DEF r
<1>9. CASE ConfirmSaved(i, n)
  <2>1. /\ SaveOk(n, Final(r)) /\ op' = [op EXCEPT ![n] = NoOp]
        /\ CloseWire(i, n) \/ AnswerAndClose(i, n, Saved(r))
    BY <1>9 DEF ConfirmSaved, Final, Saved, r
  <2>2. Own(n) /\ mem'[n] \in {r, Final(r)} /\ disk'[n] \in {r, Final(r)} /\ Keeps(n, r)
        /\ op'[n] = NoOp
    BY <1>6, <2>1 DEF SaveOk
  <2> QED BY <1>1, <1>4, <1>5, <2>1, <2>2 DEF Confirmed, r
<1>10. CASE ConfirmStops(i, n)
  <2> DEFINE o == Operate(r, "gone", op[n].outgoing, TRUE)
  <2>1. CASE ~op[n].saved /\ SaveFails(n, r) /\ op' = [op EXCEPT ![n] = Gone(op[n])] /\ CloseWire(i, n)
    BY <1>1, <1>4, <1>5, <1>7, <2>1 DEF Confirmed, r
  <2>2. CASE /\ SaveOk(n, r) /\ op' = [op EXCEPT ![n] = o]
             /\ CloseWire(i, n) \/ AnswerAndClose(i, n, Saved(r))
    <3>1. Own(n) /\ mem'[n] \in {r, Final(r)} /\ disk'[n] \in {r, Final(r)} /\ Keeps(n, r)
          /\ op'[n] = o
      BY <1>6, <2>2 DEF SaveOk
    <3> QED BY <1>1, <1>4, <1>5, <2>2, <3>1 DEF Confirmed, r
  <2>3. CASE /\ op[n].saved /\ SaveFails(n, Final(r)) /\ op' = [op EXCEPT ![n] = Gone(op[n])]
             /\ CloseWire(i, n)
    BY <1>1, <1>4, <1>5, <1>7, <2>3 DEF Confirmed, r
  <2>4. CASE /\ mem' = [mem EXCEPT ![n] = r] /\ disk' = [disk EXCEPT ![n] = Final(r)]
             /\ stored' = Noted(n, r) /\ op' = [op EXCEPT ![n] = o]
             /\ AnswerAndClose(i, n, Saved(r))
    <3>1. Own(n) /\ mem'[n] \in {r, Final(r)} /\ disk'[n] \in {r, Final(r)} /\ Keeps(n, r)
          /\ op'[n] = o
      BY <1>6, <2>4
    <3> QED BY <1>1, <1>4, <1>5, <2>4, <3>1 DEF Confirmed, r
  <2> QED
    BY <1>8, <1>10, <2>1, <2>2, <2>3, <2>4 DEF ConfirmStops, Saved, Final, r
<1> QED BY <1>9, <1>10

LEMMA Shapes ==
  ASSUME TypeOK, HeldStored, DownIsIdle, OneFrame, [Next]_vars
  PROVE  \E n \in Nodes :
           \/ Yields(n) \/ Dials(n) \/ \E r \in Record : Starts(n, r)
           \/ \E i \in Nodes : Confirmed(i, n)
           \/ \E i \in Nodes, r \in Record :
                Counters(i, n, r) \/ Accepts(i, n, r) \/ AcceptFails(i, n, r)
<1>1. CASE UNCHANGED vars
  <2>1. UNCHANGED core
    BY <1>1 DEF vars, core
  <2> QED BY <2>1, QuietYields, NodeFacts
<1>2. ASSUME NEW i \in Nodes, NEW n \in Nodes, Handler(i, n)
      PROVE  \/ Yields(n) \/ Confirmed(i, n)
             \/ \E r \in Record : Counters(i, n, r) \/ Accepts(i, n, r) \/ AcceptFails(i, n, r)
  BY <1>2, SessionYields, CounterCounters, AcceptShape, ConfirmShape DEF Handler
<1>3. ASSUME NEW n \in Nodes, Manager(n)
      PROVE  Yields(n) \/ Dials(n) \/ \E r \in Record : Starts(n, r)
  BY <1>3, ManagerYields, TickStarts, DialDials DEF Manager
<1>4. ASSUME NEW n \in Nodes, Environment(n) PROVE Yields(n)
  BY <1>4, EnvironmentYields
<1> QED BY <1>1, <1>2, <1>3, <1>4 DEF Next

-----------------------------------------------------------------------------
(***************************************************************************)
(* The type invariant.                                                     *)
(***************************************************************************)
CoreType ==
  /\ mem \in [Nodes -> Record \cup {NoRecord}] /\ disk \in [Nodes -> Record \cup {NoRecord}]
  /\ stored \in [Nodes -> SUBSET Terms]
  /\ op \in [Nodes -> Operation \cup {NoOp}] /\ dial \in [Nodes -> ProposeMsg \cup {NoDial}]
  /\ chan \in [Nodes -> [Nodes -> Seq(Message)]]

\* The types after a step of n, from those of what n wrote.
LEMMA OwnType ==
  ASSUME TypeOK, NEW n \in Nodes, Own(n),
         mem'[n] \in Record \cup {NoRecord}, disk'[n] \in Record \cup {NoRecord},
         stored'[n] \in SUBSET Terms, op'[n] \in Operation \cup {NoOp},
         dial'[n] \in ProposeMsg \cup {NoDial},
         Wired, \A j, x \in Nodes : chan'[j][x] \in Seq(Message)
  PROVE  CoreType'
<1> DEFINE D == Record \cup {NoRecord}
           O == Operation \cup {NoOp}
           P == ProposeMsg \cup {NoDial}
<1>1. mem \in [Nodes -> D] /\ disk \in [Nodes -> D] /\ stored \in [Nodes -> SUBSET Terms]
      /\ op \in [Nodes -> O] /\ dial \in [Nodes -> P]
  BY StoreType
<1>2. mem'[n] \in D /\ disk'[n] \in D /\ op'[n] \in O /\ dial'[n] \in P
  OBVIOUS
<1> HIDE DEF D, O, P
<1>3. /\ mem' \in [Nodes -> D] /\ disk' \in [Nodes -> D] /\ stored' \in [Nodes -> SUBSET Terms]
      /\ op' \in [Nodes -> O] /\ dial' \in [Nodes -> P]
  BY <1>1, <1>2 DEF Own
<1>4. chan' \in [Nodes -> [Nodes -> Seq(Message)]]
  BY DEF Wired
<1> QED BY <1>3, <1>4 DEF CoreType, D, O, P

LEMMA WireType ==
  ASSUME TypeOK
  PROVE  /\ Drops => Wired /\ \A j, x \in Nodes : chan'[j][x] \in Seq(Message)
         /\ \A i, n, m : Sends(i, n, m) => Wired /\ \A j, x \in Nodes : chan'[j][x] \in Seq(Message)
<1>1. \A j, x \in Nodes : chan[j][x] \in Seq(Message) /\ <<>> \in Seq(Message)
  BY ChanType
<1>2. \A m \in Message : <<m>> \in Seq(Message)
  OBVIOUS
<1> QED BY <1>1, <1>2 DEF Drops, Sends

LEMMA PartType ==
  ASSUME NEW r \in Record, NEW i \in Nodes \cup {"none", "gone"}, NEW out \in BOOLEAN,
         NEW saved \in BOOLEAN
  PROVE  Operate(r, i, out, saved) \in Operation /\ Propose(r, out) \in ProposeMsg
BY DEF Operate, Operation, Propose, ProposeMsg, Record

LEMMA GoneType ==
  ASSUME TypeOK, NEW n \in Nodes, LiveOp(n), NEW i \in Nodes \cup {"gone"}
  PROVE  Gone(op[n]) \in Operation /\ [op[n] EXCEPT !.session = i] \in Operation
BY OperationParts DEF Gone, Operation

LEMMA KeepsType ==
  ASSUME TypeOK, NEW n \in Nodes, NEW r \in Record, Keeps(n, r)
  PROVE  stored'[n] \in SUBSET Terms
BY StoreType, RecordFacts DEF Keeps

LEMMA CoreStep ==
  ASSUME TypeOK, HeldStored, DownIsIdle, OneFrame, [Next]_vars
  PROVE  CoreType'
<1>0. \A n \in Nodes : /\ mem[n] \in Record \cup {NoRecord} /\ disk[n] \in Record \cup {NoRecord}
                       /\ stored[n] \in SUBSET Terms /\ op[n] \in Operation \cup {NoOp}
                       /\ dial[n] \in ProposeMsg \cup {NoDial}
  BY StoreType
<1>1. ASSUME NEW n \in Nodes, Yields(n) PROVE CoreType'
  <2>1. op'[n] \in Operation \cup {NoOp}
    BY <1>0, <1>1, GoneType DEF Yields
  <2> QED BY <1>0, <1>1, <2>1, OwnType, WireType DEF Yields
<1>2. ASSUME NEW n \in Nodes, Dials(n) PROVE CoreType'
  <2>1. op'[n] \in Operation \cup {NoOp}
    BY <1>0, <1>2, GoneType DEF Dials
  <2> QED BY <1>0, <1>2, <2>1, OwnType, WireType DEF Dials
<1>3. ASSUME NEW n \in Nodes, NEW r \in Record, Starts(n, r) PROVE CoreType'
  <2>1. op'[n] \in Operation /\ dial'[n] \in ProposeMsg
    BY <1>3, PartType DEF Starts
  <2>2. Wired /\ \A j, x \in Nodes : chan'[j][x] \in Seq(Message)
    BY <1>3, ChanType DEF Starts, Wired
  <2> QED BY <1>0, <1>3, <2>1, <2>2, OwnType DEF Starts
<1>4. ASSUME NEW i \in Nodes, NEW n \in Nodes, NEW r \in Record, Counters(i, n, r) PROVE CoreType'
  <2>1. op'[n] \in Operation
    BY <1>4, PartType DEF Counters
  <2> QED BY <1>0, <1>4, <2>1, OwnType, WireType DEF Counters
<1>5. ASSUME NEW i \in Nodes, NEW n \in Nodes, NEW r \in Record, Accepts(i, n, r) PROVE CoreType'
  <2>1. op'[n] \in Operation
    BY <1>5, PartType DEF Accepts
  <2>2. stored'[n] \in SUBSET Terms
    BY <1>5, KeepsType DEF Accepts
  <2> QED BY <1>0, <1>5, <2>1, <2>2, OwnType, WireType DEF Accepts, Offered
<1>6. ASSUME NEW i \in Nodes, NEW n \in Nodes, NEW r \in Record, AcceptFails(i, n, r)
      PROVE  CoreType'
  <2>1. op'[n] \in Operation \cup {NoOp}
    BY <1>0, <1>6, GoneType DEF AcceptFails
  <2>2. stored'[n] \in SUBSET Terms
    BY <1>0, <1>6, KeepsType DEF AcceptFails
  <2> QED BY <1>0, <1>6, <2>1, <2>2, OwnType, WireType DEF AcceptFails, Offered
<1>7. ASSUME NEW i \in Nodes, NEW n \in Nodes, Confirmed(i, n) PROVE CoreType'
  <2> DEFINE r == op[n].rec
  <2>1. LiveOp(n) /\ r \in Record /\ Final(r) \in Record /\ op[n].outgoing \in BOOLEAN
    BY <1>7, OperationParts, RecordFacts DEF Confirmed, Match
  <2>2. Operate(r, "gone", op[n].outgoing, TRUE) \in Operation
    BY <2>1, PartType
  <2>3. op'[n] \in Operation \cup {NoOp}
    BY <1>7, <2>1, <2>2, GoneType DEF Confirmed
  <2>4. stored'[n] \in SUBSET Terms
    BY <1>0, <1>7, <2>1, KeepsType DEF Confirmed
  <2>5. mem'[n] \in Record \cup {NoRecord} /\ disk'[n] \in Record \cup {NoRecord}
    BY <1>0, <1>7, <2>1 DEF Confirmed
  <2>6. dial'[n] \in ProposeMsg \cup {NoDial} /\ Own(n)
    BY <1>0, <1>7 DEF Confirmed
  <2>7. Wired /\ \A j, x \in Nodes : chan'[j][x] \in Seq(Message)
    BY <1>7, WireType DEF Confirmed
  <2> QED BY <2>3, <2>4, <2>5, <2>6, <2>7, OwnType
<1> QED BY <1>1, <1>2, <1>3, <1>4, <1>5, <1>6, <1>7, Shapes

\* The variables no shape mentions.
RestType ==
  /\ ends \in [Nodes -> SUBSET Nodes] /\ obs \in [Nodes -> Observation]
  /\ cool \in [Nodes -> BOOLEAN] /\ link \in [Nodes -> BOOLEAN]
  /\ addr \in [Nodes -> 1 .. MaxAddr]
  /\ query \in [Nodes -> Query \cup {NoQuery}]
  /\ ready \in [Nodes -> BOOLEAN] /\ alive \in [Nodes -> BOOLEAN]
  /\ faults \in 0 .. MaxFaults

LEMMA TypeParts == (TypeOK <=> CoreType /\ RestType) /\ (CoreType' /\ RestType' => TypeOK')
BY DEF TypeOK, CoreType, RestType, Message

LEMMA FaultType == ASSUME TypeOK, Fault PROVE faults' \in 0 .. MaxFaults
BY DurableAssumption DEF TypeOK, Fault

LEMMA FenceType ==
  ASSUME TypeOK, NEW n \in Nodes,
         FenceCheck(n) \/ (\E r : SaveChecks(n, r)) \/ UNCHANGED <<query, ready>>
  PROVE  query' \in [Nodes -> Query \cup {NoQuery}] /\ ready' \in [Nodes -> BOOLEAN]
<1>0. query \in [Nodes -> Query \cup {NoQuery}] /\ ready \in [Nodes -> BOOLEAN]
  BY DEF TypeOK
<1>1. CASE UNCHANGED <<query, ready>>
  BY <1>0, <1>1
<1>2. CASE FenceCheck(n)
  <2>1. ASSUME NEW b \in BOOLEAN, query[n] # NoQuery
        PROVE  [query[n] EXCEPT !.fenced = b] \in Query
    BY <1>0, <2>1 DEF Query
  <2>2. query[n] # NoQuery => [query[n] EXCEPT !.fenced = TRUE] \in Query
    BY <2>1
  <2>3. query' \in [Nodes -> Query \cup {NoQuery}]
    BY <1>0, <1>2, <2>2 DEF FenceCheck
  <2>4. ready' \in [Nodes -> BOOLEAN]
    BY <1>0, <1>2 DEF FenceCheck
  <2> QED BY <2>3, <2>4
<1> QED BY <1>1, <1>2 DEF SaveChecks

LEMMA EndsType ==
  ASSUME TypeOK, NEW i \in Nodes, NEW n \in Nodes,
         \/ CloseWire(i, n) \/ UNCHANGED ends
         \/ \E m : Answer(i, n, m) \/ AnswerAndClose(i, n, m)
  PROVE  ends' \in [Nodes -> SUBSET Nodes]
<1>1. ends' = ends \/ ends' = [ends EXCEPT ![i] = ends[i] \ {n}]
  BY DEF CloseWire, Answer, AnswerAndClose
<1>2. ends \in [Nodes -> SUBSET Nodes]
  BY DEF TypeOK
<1>3. ends[i] \ {n} \in SUBSET Nodes
  BY <1>2
<1>4. [ends EXCEPT ![i] = ends[i] \ {n}] \in [Nodes -> SUBSET Nodes]
  BY <1>2, <1>3
<1> QED BY <1>1, <1>2, <1>4

LEMMA HandlerRest ==
  ASSUME TypeOK, NEW i \in Nodes, NEW n \in Nodes, Handler(i, n)
  PROVE  RestType'
<1>0. RestType
  BY TypeParts
<1> DEFINE Wire == \/ CloseWire(i, n) \/ UNCHANGED ends
                   \/ \E m : Answer(i, n, m) \/ AnswerAndClose(i, n, m)
           Check == (\E r : SaveChecks(n, r)) \/ UNCHANGED <<query, ready>>
<1>1. CASE DeclinePropose(i, n) \/ CounterPropose(i, n)
  <2>1. Wire /\ Check /\ UNCHANGED <<obs, cool, link, addr, alive, faults>>
    BY <1>1 DEF DeclinePropose, CounterPropose
  <2> QED BY <1>0, <2>1, EndsType, FenceType DEF RestType
<1>2. CASE HandleLinkError(i, n) \/ SessionEnds(i, n)
  <2>1. Wire /\ Check /\ UNCHANGED <<obs, cool, link, addr, alive>> /\ (Fault \/ UNCHANGED faults)
    BY <1>2 DEF HandleLinkError, SessionEnds
  <2> QED BY <1>0, <2>1, EndsType, FenceType, FaultType DEF RestType
<1>3. CASE AcceptPropose(i, n)
  <2>1. Wire /\ Check /\ UNCHANGED <<obs, cool, link, addr, alive>> /\ (Fault \/ UNCHANGED faults)
    BY <1>3 DEF AcceptPropose
  <2> QED BY <1>0, <2>1, EndsType, FenceType, FaultType DEF RestType
<1>4. CASE ConfirmSaved(i, n)
  <2>1. Wire /\ Check /\ UNCHANGED <<obs, cool, link, addr, alive>> /\ (Fault \/ UNCHANGED faults)
    BY <1>4 DEF ConfirmSaved
  <2> QED BY <1>0, <2>1, EndsType, FenceType, FaultType DEF RestType
<1>5. CASE ConfirmStops(i, n)
  <2>1. Wire /\ Check /\ UNCHANGED <<obs, cool, link, addr, alive>> /\ (Fault \/ UNCHANGED faults)
    BY <1>5 DEF ConfirmStops
  <2> QED BY <1>0, <2>1, EndsType, FenceType, FaultType DEF RestType
<1> QED BY <1>1, <1>2, <1>3, <1>4, <1>5 DEF Handler

LEMMA ObservationType ==
  ASSUME TypeOK, NEW n \in Nodes
  PROVE  /\ NoObservation \in Observation
         /\ \A age \in {"fresh", "stable"} :
              [age |-> age, local |-> addr[n], remote |-> addr[Peer(n)]] \in Observation
<1>1. 0 \in Endpoint /\ \A a \in 1 .. MaxAddr : a \in Endpoint
  BY DurableAssumption DEF Endpoint
<1>2. addr[n] \in Endpoint /\ addr[Peer(n)] \in Endpoint
  BY <1>1, NodeFacts DEF TypeOK
<1>3. NoObservation \in Observation
  BY <1>1 DEF NoObservation, Observation
<1>4. ASSUME NEW age \in {"fresh", "stable"}
      PROVE  [age |-> age, local |-> addr[n], remote |-> addr[Peer(n)]] \in Observation
  BY <1>2 DEF Observation
<1> QED BY <1>3, <1>4

LEMMA DeleteRest ==
  ASSUME TypeOK, NEW n \in Nodes, DeleteOk(n)
  PROVE  /\ cool' \in [Nodes -> BOOLEAN] /\ obs' \in [Nodes -> Observation]
         /\ query' \in [Nodes -> Query \cup {NoQuery}] /\ ready' \in [Nodes -> BOOLEAN]
BY ObservationType, FenceType DEF DeleteOk, TypeOK

LEMMA ManagerRest ==
  ASSUME TypeOK, NEW n \in Nodes, Manager(n)
  PROVE  RestType'
<1>0. RestType /\ Peer(n) \in Nodes
  BY TypeParts, NodeFacts
<1>1. CASE TickFresh(n) \/ TickResume(n) \/ ExpireOperation(n)
  BY <1>0, <1>1 DEF TickFresh, TickResume, ExpireOperation, RestType, wire
<1>2. CASE Dial(n) \/ DialFails(n)
  BY <1>0, <1>2, FaultType DEF Dial, DialFails, RestType, wire
<1>3. CASE Observe(n)
  <2>1. UNCHANGED <<ends, link, addr, alive>>
    BY <1>3 DEF Observe, wire
  <2>2. PICK age \in {"fresh", "stable"} :
          LET o == [age |-> age, local |-> addr[n], remote |-> addr[Peer(n)]] IN
          \/ obs' = [obs EXCEPT ![n] = o] /\ UNCHANGED <<cool, query, ready>>
             /\ (Fault \/ UNCHANGED faults)
          \/ DeleteOk(n) /\ UNCHANGED faults
    BY <1>3 DEF Observe, DeleteFails
  <2>3. CASE DeleteOk(n) /\ UNCHANGED faults
    BY <1>0, <2>1, <2>3, DeleteRest DEF RestType
  <2>4. CASE /\ obs' = [obs EXCEPT ![n] = [age |-> age, local |-> addr[n], remote |-> addr[Peer(n)]]]
             /\ UNCHANGED <<cool, query, ready>> /\ (Fault \/ UNCHANGED faults)
    <3>1. obs' \in [Nodes -> Observation]
      BY <1>0, <2>4, ObservationType DEF RestType
    <3> QED BY <1>0, <2>1, <2>4, <3>1, FaultType DEF RestType
  <2> QED BY <2>2, <2>3, <2>4
<1>4. CASE ObservationLapses(n) \/ CooldownEnds(n) \/ ReadyLapses(n) \/ Resave(n)
  BY <1>0, <1>4, ObservationType
  DEF ObservationLapses, CooldownEnds, ReadyLapses, Resave, RestType, wire
<1>5. CASE StartCheck(n)
  <2>1. mem[n].id \in Ids
    BY <1>5, StoreType DEF StartCheck, Has, Record
  <2>2. [id |-> mem[n].id, status |-> "asked", fenced |-> FALSE] \in Query
    BY <2>1 DEF Query
  <2> QED BY <1>0, <1>5, <2>2 DEF StartCheck, RestType, wire
<1>6. CASE HandleCheck(n)
  <2>1. query[n] \in Query
    BY <1>0, <1>6 DEF HandleCheck, RestType
  <2>2. PICK st \in {"READY", "NOT_READY", "ABSENT"} : query' = [query EXCEPT ![n].status = st]
    BY <1>6 DEF HandleCheck
  <2>3. [query[n] EXCEPT !.status = st] \in Query
    BY <2>1 DEF Query
  <2>4. query' = [query EXCEPT ![n] = [query[n] EXCEPT !.status = st]]
    BY <2>2
  <2>5. query' \in [Nodes -> Query \cup {NoQuery}]
    BY <1>0, <2>3, <2>4 DEF RestType
  <2> QED BY <1>0, <1>6, <2>5 DEF HandleCheck, RestType, wire
<1>7. CASE AcceptStatus(n)
  <2>1. (IF ~Current(n) \/ query[n].status = "ABSENT" THEN ready[n] ELSE query[n].status = "READY")
          \in BOOLEAN
    BY <1>0 DEF RestType
  <2>2. ready' \in [Nodes -> BOOLEAN]
    BY <1>0, <1>7, <2>1 DEF AcceptStatus, RestType
  <2> QED BY <1>0, <1>7, <2>2 DEF AcceptStatus, RestType, wire
<1>8. CASE AcceptAbsent(n)
  BY <1>0, <1>8, ObservationType DEF AcceptAbsent, RestType, wire
<1>9. CASE CheckFails(n)
  BY <1>0, <1>9, FaultType DEF CheckFails, RestType, wire
<1>10. CASE DirectFailure(n) \/ DeleteDurable(n)
  BY <1>0, <1>10, FaultType, DeleteRest
  DEF DirectFailure, DeleteDurable, DeleteFails, RestType, wire
<1> QED
  BY <1>1, <1>2, <1>3, <1>4, <1>5, <1>6, <1>7, <1>8, <1>9, <1>10 DEF Manager

LEMMA EnvironmentRest ==
  ASSUME TypeOK, NEW n \in Nodes, Environment(n)
  PROVE  RestType'
<1>0. RestType
  BY TypeParts
<1>1. CASE LinkDown(n) \/ LinkUp(n)
  BY <1>0, <1>1, FaultType DEF LinkDown, LinkUp, RestType, wire
<1>2. CASE Roam(n)
  BY <1>0, <1>2, FaultType DEF Roam, RestType, wire
<1>3. CASE Crash(n)
  BY <1>0, <1>3, FaultType, ObservationType DEF Crash, RestType
<1>4. CASE Restart(n)
  BY <1>0, <1>4, FaultType DEF Restart, RestType, wire
<1> QED BY <1>1, <1>2, <1>3, <1>4 DEF Environment

LEMMA NextType ==
  ASSUME TypeOK, HeldStored, DownIsIdle, OneFrame, [Next]_vars
  PROVE  TypeOK'
<1>1. RestType'
  <2>1. CASE UNCHANGED vars
    BY <2>1, TypeParts DEF vars, RestType
  <2> QED BY <2>1, HandlerRest, ManagerRest, EnvironmentRest DEF Next
<1> QED BY <1>1, CoreStep, TypeParts

-----------------------------------------------------------------------------
(***************************************************************************)
(* Stores, operations and frames after a step.                             *)
(***************************************************************************)
LEMMA OwnPeer ==
  ASSUME TypeOK, NEW n \in Nodes, Own(n), NEW x \in Nodes, x # n
  PROVE  /\ mem'[x] = mem[x] /\ disk'[x] = disk[x] /\ stored'[x] = stored[x]
         /\ op'[x] = op[x] /\ dial'[x] = dial[x]
BY StoreType DEF Own

LEMMA FrameStep ==
  ASSUME NEW j \in Nodes, NEW x \in Nodes
  PROVE  /\ Drops => Frames(j, x)' \subseteq Frames(j, x)
         /\ \A i, n \in Nodes : \A m : Sends(i, n, m) =>
              /\ Frames(i, n)' = {}
              /\ Frames(j, x)' \subseteq Frames(j, x) \cup {m}
              /\ j # i \/ x # Peer(n) => Frames(j, x)' \subseteq Frames(j, x)
<1>1. chan'[j][x] = <<>> => Frames(j, x)' = {}
  BY DEF Frames
<1>2. chan'[j][x] = chan[j][x] => Frames(j, x)' = Frames(j, x)
  BY DEF Frames
<1>3. \A m : chan'[j][x] = <<m>> => Frames(j, x)' = {m}
  BY DEF Frames
<1>4. Drops => Frames(j, x)' \subseteq Frames(j, x)
  BY <1>1, <1>2 DEF Drops
<1>5. ASSUME NEW i \in Nodes, NEW n \in Nodes, NEW m, Sends(i, n, m)
      PROVE  /\ Frames(i, n)' = {}
             /\ Frames(j, x)' \subseteq Frames(j, x) \cup {m}
             /\ j # i \/ x # Peer(n) => Frames(j, x)' \subseteq Frames(j, x)
  <2>1. Frames(i, n)' = {}
    BY <1>5 DEF Sends, Frames
  <2>2. chan'[j][x] \in {<<>>, chan[j][x]} \/ (j = i /\ x = Peer(n) /\ chan'[j][x] = <<m>>)
    BY <1>5 DEF Sends
  <2> QED BY <1>1, <1>2, <1>3, <2>1, <2>2
<1> QED BY <1>4, <1>5

LEMMA OneFrameStep ==
  ASSUME TypeOK, OneFrame,
         Drops \/ \E i, n \in Nodes : \E m : Sends(i, n, m)
  PROVE  OneFrame'
<1>0. Len(<<>>) = 0 /\ \A m : Len(<<m>>) = 1
  OBVIOUS
<1>1. \A i, n \in Nodes : Len(chan[i][n]) <= 1
  BY DEF OneFrame
<1>2. /\ Low \in Nodes /\ High \in Nodes
      /\ \A n \in Nodes : (n = Low /\ Peer(n) = High) \/ (n = High /\ Peer(n) = Low)
  BY DEF Nodes, Peer, Low, High
<1>3. CASE Drops
  <2>1. \A i, n \in Nodes : Len(chan'[i][n]) <= 1
    BY <1>0, <1>1, <1>3 DEF Drops
  <2>2. \A i \in Nodes : chan'[i][Low] = <<>> \/ chan'[i][High] = <<>>
    BY <1>2, <1>3 DEF Drops, OneFrame
  <2> QED BY <2>1, <2>2 DEF OneFrame
<1>4. ASSUME NEW i \in Nodes, NEW n \in Nodes, NEW m, Sends(i, n, m) PROVE OneFrame'
  <2>1. ASSUME NEW j \in Nodes, NEW x \in Nodes PROVE Len(chan'[j][x]) <= 1
    <3>1. chan'[j][x] = <<>> \/ chan'[j][x] = chan[j][x] \/ chan'[j][x] = <<m>>
      BY <1>4 DEF Sends
    <3>2. Len(<<m>>) <= 1 /\ Len(<<>>) <= 1
      BY <1>0
    <3> QED BY <1>1, <3>1, <3>2
  <2>2. chan'[i][Low] = <<>> \/ chan'[i][High] = <<>>
    BY <1>2, <1>4 DEF Sends
  <2>3. ASSUME NEW j \in Nodes, j # i PROVE chan'[j][Low] = <<>> \/ chan'[j][High] = <<>>
    BY <1>2, <1>4, <2>3 DEF Sends, OneFrame
  <2> QED BY <2>1, <2>2, <2>3 DEF OneFrame
<1> QED BY <1>3, <1>4

LEMMA OperateParts ==
  ASSUME NEW r, NEW i, NEW out, NEW saved
  PROVE  LET o == Operate(r, i, out, saved)
         IN o.rec = r /\ o.session = i /\ o.outgoing = out /\ o.saved = saved
BY DEF Operate

LEMMA GoneParts ==
  ASSUME TypeOK, NEW n \in Nodes, LiveOp(n), NEW i
  PROVE  LET o == [op[n] EXCEPT !.session = i]
         IN o.rec = op[n].rec /\ o.session = i /\ o.saved = op[n].saved
BY OperationParts DEF Operation

\* OpSound of one node.
OpFits(o, r) ==
  o # NoOp => IF o.saved THEN Has(r) /\ TermsOf(r) = TermsOf(o.rec) ELSE ~o.rec.confirmed

LEMMA OpFitsStep ==
  ASSUME TypeOK, NEW n \in Nodes, OpFits(op[n], mem[n])
  PROVE  /\ OpFits(NoOp, mem'[n])
         /\ mem'[n] = mem[n] /\ op'[n] = op[n] => OpFits(op'[n], mem'[n])
         /\ \A i : mem'[n] = mem[n] /\ LiveOp(n) /\ op'[n] = [op[n] EXCEPT !.session = i]
                     => OpFits(op'[n], mem'[n])
         /\ \A r, i, out : ~r.confirmed => OpFits(Operate(r, i, out, FALSE), mem'[n])
         /\ \A r, i, out : Has(mem'[n]) /\ TermsOf(mem'[n]) = TermsOf(r)
                             => OpFits(Operate(r, i, out, TRUE), mem'[n])
<1>1. ASSUME NEW i, LiveOp(n), mem'[n] = mem[n], op'[n] = [op[n] EXCEPT !.session = i]
      PROVE  OpFits(op'[n], mem'[n])
  <2>1. op'[n].rec = op[n].rec /\ op'[n].saved = op[n].saved /\ op[n] # NoOp
    BY <1>1, GoneParts DEF LiveOp
  <2> QED BY <1>1, <2>1 DEF OpFits
<1>0. ASSUME NEW r, NEW i, NEW out, NEW b \in BOOLEAN,
             IF b THEN Has(mem'[n]) /\ TermsOf(mem'[n]) = TermsOf(r) ELSE ~r.confirmed
      PROVE  OpFits(Operate(r, i, out, b), mem'[n])
  <2> DEFINE o == Operate(r, i, out, b)
  <2>1. o.rec = r /\ o.saved = b
    BY OperateParts
  <2> HIDE DEF o
  <2>2. OpFits(o, mem'[n])
    BY <1>0, <2>1 DEF OpFits
  <2> QED BY <2>2 DEF o
<1>2. ASSUME NEW r, NEW i, NEW out, ~r.confirmed
      PROVE  OpFits(Operate(r, i, out, FALSE), mem'[n])
  BY <1>0, <1>2
<1>3. ASSUME NEW r, NEW i, NEW out, Has(mem'[n]), TermsOf(mem'[n]) = TermsOf(r)
      PROVE  OpFits(Operate(r, i, out, TRUE), mem'[n])
  BY <1>0, <1>3
<1>4. OpFits(NoOp, mem'[n])
  BY DEF OpFits
<1> QED BY <1>1, <1>2, <1>3, <1>4

LEMMA OpSoundParts ==
  /\ OpSound <=> \A n \in Nodes : OpFits(op[n], mem[n])
  /\ OpSound' <=> \A n \in Nodes : OpFits(op'[n], mem'[n])
BY DEF OpSound, OpFits, LiveOp

\* The histories only grow, and name everything that is held.
StoreSound(n) ==
  /\ \A x \in Nodes : stored[x] \subseteq stored'[x]
  /\ \A r \in {mem'[n], disk'[n]} : Has(r) => TermsOf(r) \in stored'[n]
  /\ OpFits(op'[n], mem'[n])
  /\ Drops \/ \E i \in Nodes : \E m : Sends(i, n, m)

LEMMA StoreStep ==
  ASSUME TypeOK, HeldStored, OpSound, OneFrame, NEW n \in Nodes, Own(n), StoreSound(n)
  PROVE  HeldStored' /\ OpSound' /\ OneFrame'
<1>1. ASSUME NEW x \in Nodes
      PROVE  /\ \A r \in {mem'[x], disk'[x]} : Has(r) => TermsOf(r) \in stored'[x]
             /\ OpFits(op'[x], mem'[x])
  <2>1. CASE x = n
    BY <2>1 DEF StoreSound
  <2>2. CASE x # n
    BY <2>2, OwnPeer, OpSoundParts DEF HeldStored
  <2> QED BY <2>1, <2>2
<1>2. HeldStored'
  BY <1>1 DEF HeldStored
<1>3. OpSound'
  BY <1>1, OpSoundParts
<1>4. OneFrame'
  BY OneFrameStep DEF StoreSound
<1> QED BY <1>2, <1>3, <1>4

LEMMA StoredGrows ==
  ASSUME TypeOK, NEW n \in Nodes, Own(n), stored' = stored \/ \E r : Keeps(n, r)
  PROVE  \A x \in Nodes : stored[x] \subseteq stored'[x]
<1>1. ASSUME NEW x \in Nodes PROVE stored[x] \subseteq stored'[x]
  <2>1. CASE x = n
    BY <2>1 DEF Keeps
  <2>2. CASE x # n
    BY <2>2, OwnPeer
  <2> QED BY <2>1, <2>2
<1> QED BY <1>1

LEMMA ShapesStore ==
  ASSUME TypeOK, HeldStored, OpSound, NEW n \in Nodes, NEW i \in Nodes, NEW r,
         \/ Yields(n) \/ Dials(n) \/ Starts(n, r) \/ Confirmed(i, n)
         \/ Counters(i, n, r) \/ Accepts(i, n, r) \/ AcceptFails(i, n, r)
  PROVE  Own(n) /\ StoreSound(n)
<1>0. OpFits(op[n], mem[n]) /\ \A s \in {mem[n], disk[n]} : Has(s) => TermsOf(s) \in stored[n]
  BY OpSoundParts DEF HeldStored
<1>1. CASE Yields(n)
  <2>1. \A s \in {mem'[n], disk'[n]} : Has(s) => TermsOf(s) \in stored'[n]
    BY <1>0, <1>1, RecordFacts DEF Yields
  <2>2. OpFits(op'[n], mem'[n])
    BY <1>0, <1>1, OpFitsStep DEF Yields, Gone
  <2> QED BY <1>1, <2>1, <2>2, StoredGrows DEF Yields, StoreSound
<1>2. CASE Dials(n)
  <2>1. OpFits(op'[n], mem'[n])
    BY <1>0, <1>2, OpFitsStep DEF Dials
  <2> QED BY <1>0, <1>2, <2>1, StoredGrows DEF Dials, StoreSound
<1>3. CASE Starts(n, r)
  <2>1. OpFits(op'[n], mem'[n])
    BY <1>0, <1>3, OpFitsStep DEF Starts
  <2>2. Drops
    BY <1>3, ChanType DEF Starts, Drops, Wired
  <2> QED BY <1>0, <1>3, <2>1, <2>2, StoredGrows DEF Starts, StoreSound
<1>4. CASE Counters(i, n, r)
  <2>1. OpFits(op'[n], mem'[n])
    BY <1>0, <1>4, OpFitsStep DEF Counters
  <2> QED BY <1>0, <1>4, <2>1, StoredGrows DEF Counters, StoreSound
<1>5. CASE Accepts(i, n, r)
  <2>0. Has(r)
    BY <1>5, RecordFacts DEF Accepts, Offered
  <2>1. OpFits(op'[n], mem'[n])
    BY <1>0, <1>5, <2>0, OpFitsStep DEF Accepts
  <2> QED BY <1>0, <1>5, <2>1, StoredGrows DEF Accepts, Offered, Keeps, StoreSound
<1>6. CASE AcceptFails(i, n, r)
  <2>1. OpFits(op'[n], mem'[n])
    BY <1>0, <1>6, OpFitsStep DEF AcceptFails, Gone
  <2> QED BY <1>0, <1>6, <2>1, StoredGrows DEF AcceptFails, Offered, Keeps, StoreSound
<1>7. CASE Confirmed(i, n)
  <2> DEFINE s == op[n].rec
  <2>1. s \in Record /\ Has(s) /\ Has(Final(s)) /\ TermsOf(Final(s)) = TermsOf(s) /\ LiveOp(n)
    BY <1>7, OperationParts, RecordFacts DEF Confirmed, Match
  <2>2. OpFits(op'[n], mem'[n])
    BY <1>0, <1>7, <2>1, OpFitsStep DEF Confirmed, Gone
  <2>3. \A x \in Nodes : stored[x] \subseteq stored'[x]
    BY <1>7, StoredGrows DEF Confirmed
  <2>4. \A t \in {mem'[n], disk'[n]} : Has(t) => TermsOf(t) \in stored'[n]
    BY <1>0, <1>7, <2>1 DEF Confirmed, Keeps
  <2> QED BY <1>7, <2>2, <2>3, <2>4 DEF Confirmed, StoreSound
<1> QED BY <1>1, <1>2, <1>3, <1>4, <1>5, <1>6, <1>7

\* Only a running daemon has an operation: it alone starts one, and Crash forgets it.
LEMMA IdleStep ==
  ASSUME TypeOK, DownIsIdle, [Next]_vars
  PROVE  DownIsIdle'
<1>0. op \in [Nodes -> Operation \cup {NoOp}] /\ alive \in [Nodes -> BOOLEAN]
  BY DEF TypeOK
<1>1. ASSUME NEW n \in Nodes, alive' = alive,
             \/ op' = op
             \/ \E o : op' = [op EXCEPT ![n] = o] /\ (alive[n] \/ o = NoOp)
      PROVE  DownIsIdle'
  BY <1>0, <1>1 DEF DownIsIdle
<1>2. ASSUME NEW i \in Nodes, NEW n \in Nodes, Handler(i, n) PROVE DownIsIdle'
  <2>1. alive[n] /\ alive' = alive
    BY <1>2 DEF Handler, DeclinePropose, CounterPropose, AcceptPropose, ConfirmSaved,
                ConfirmStops, HandleLinkError, SessionEnds, Reading
  <2>2. \E o : op' = [op EXCEPT ![n] = o]
    BY <1>2 DEF Handler, DeclinePropose, CounterPropose, AcceptPropose, ConfirmSaved,
                ConfirmStops, HandleLinkError, SessionEnds
  <2> QED BY <1>1, <2>1, <2>2
<1>3. ASSUME NEW n \in Nodes, Manager(n) PROVE DownIsIdle'
  <2>1. alive' = alive
    BY <1>3 DEF Manager, TickFresh, TickResume, Dial, DialFails, ExpireOperation, Observe,
                ObservationLapses, CooldownEnds, StartCheck, HandleCheck, AcceptStatus,
                AcceptAbsent, CheckFails, ReadyLapses, DirectFailure, DeleteDurable, Resave
  <2>2. CASE TickFresh(n) \/ TickResume(n)
    BY <1>1, <2>1, <2>2 DEF TickFresh, TickResume, TickReady, StartOperation
  <2>3. CASE Dial(n)
    <3>1. alive[n] /\ (op' = op \/ op' = [op EXCEPT ![n] = [op[n] EXCEPT !.session = n]])
      BY <2>3 DEF Dial
    <3> QED BY <1>1, <2>1, <3>1
  <2>4. CASE \/ ExpireOperation(n) \/ Observe(n) \/ AcceptAbsent(n) \/ DirectFailure(n)
             \/ DeleteDurable(n)
    <3>1. op' = op \/ op' = [op EXCEPT ![n] = NoOp]
      BY <2>4 DEF ExpireOperation, Observe, AcceptAbsent, DirectFailure, DeleteDurable,
                  DeleteOk, DeleteFails
    <3> QED BY <1>1, <2>1, <3>1
  <2>5. CASE \/ DialFails(n) \/ ObservationLapses(n) \/ CooldownEnds(n) \/ StartCheck(n)
             \/ HandleCheck(n) \/ AcceptStatus(n) \/ CheckFails(n) \/ ReadyLapses(n) \/ Resave(n)
    <3>1. op' = op
      BY <2>5 DEF DialFails, ObservationLapses, CooldownEnds, StartCheck, HandleCheck,
                  AcceptStatus, CheckFails, ReadyLapses, Resave
    <3> QED BY <1>1, <2>1, <3>1
  <2> QED BY <1>3, <2>2, <2>3, <2>4, <2>5 DEF Manager
<1>4. ASSUME NEW n \in Nodes, Environment(n) PROVE DownIsIdle'
  <2>1. CASE LinkDown(n) \/ LinkUp(n) \/ Roam(n)
    BY <1>1, <2>1 DEF LinkDown, LinkUp, Roam
  <2>2. CASE Crash(n)
    BY <1>0, <2>2 DEF Crash, DownIsIdle
  <2>3. CASE Restart(n)
    BY <1>0, <2>3 DEF Restart, DownIsIdle
  <2> QED BY <1>4, <2>1, <2>2, <2>3 DEF Environment
<1>5. CASE UNCHANGED vars
  BY <1>5 DEF vars, DownIsIdle
<1> QED BY <1>2, <1>3, <1>4, <1>5 DEF Next

-----------------------------------------------------------------------------
(***************************************************************************)
(* The terms that are named anywhere.                                      *)
(***************************************************************************)
NamedAt(n, t) ==
  \/ t \in stored[n]
  \/ LiveOp(n) /\ t = TermsOf(op[n].rec)
  \/ dial[n] # NoDial /\ t = TermsOf(dial[n])
  \/ \E i \in Nodes : \E m \in Frames(i, n) : m.type = "PROPOSE" /\ t = TermsOf(m)

Named(t) == \E n \in Nodes : NamedAt(n, t)

NamesUnique == \A a, b : Named(a) /\ Named(b) /\ a.id = b.id => a = b

LEMMA NamedTerms == FixedEndpointsImmutable <=> NamesUnique
<1>1. ASSUME NEW n \in Nodes, NEW t PROVE t \in TermsNamed(n) <=> NamedAt(n, t)
  <2>1. t \in {TermsOf(op[m].rec) : m \in {m \in {n} : LiveOp(m)}}
          <=> LiveOp(n) /\ t = TermsOf(op[n].rec)
    OBVIOUS
  <2>2. t \in {TermsOf(dial[m]) : m \in {m \in {n} : dial[m] # NoDial}}
          <=> dial[n] # NoDial /\ t = TermsOf(dial[n])
    OBVIOUS
  <2>3. ASSUME NEW i \in Nodes
        PROVE  t \in {TermsOf(chan[i][n][k]) : k \in {k \in 1 .. Len(chan[i][n]) : chan[i][n][k].type = "PROPOSE"}}
                 <=> \E m \in Frames(i, n) : m.type = "PROPOSE" /\ t = TermsOf(m)
    BY DEF Frames
  <2>4. t \in UNION {{TermsOf(chan[i][n][k]) : k \in {k \in 1 .. Len(chan[i][n]) : chan[i][n][k].type = "PROPOSE"}} : i \in Nodes}
          <=> \E i \in Nodes : \E m \in Frames(i, n) : m.type = "PROPOSE" /\ t = TermsOf(m)
    BY <2>3
  <2> QED BY <2>1, <2>2, <2>4 DEF TermsNamed, NamedAt
<1>2. \A t : t \in UNION {TermsNamed(n) : n \in Nodes} <=> Named(t)
  BY <1>1 DEF Named
<1> QED BY <1>2 DEF FixedEndpointsImmutable, NamesUnique

\* A name's identifier is in use.
LEMMA NamedInUse ==
  ASSUME TypeOK, NEW t, Named(t)
  PROVE  t.id \in InUse
<1>1. PICK n \in Nodes : NamedAt(n, t)
  BY DEF Named
<1>0. \A r : TermsOf(r).id = r.id
  BY DEF TermsOf
<1>2. CASE t \in stored[n]
  BY <1>2 DEF IdsAt, InUse
<1>3. CASE LiveOp(n) /\ t = TermsOf(op[n].rec)
  BY <1>0, <1>3 DEF IdsAt, InUse, LiveOp
<1>4. CASE dial[n] # NoDial /\ t = TermsOf(dial[n])
  BY <1>0, <1>4 DEF IdsAt, InUse
<1>5. ASSUME NEW i \in Nodes, NEW m \in Frames(i, n), m.type = "PROPOSE", t = TermsOf(m)
      PROVE  t.id \in InUse
  <2>1. PICK k \in 1 .. Len(chan[i][n]) : m = chan[i][n][k]
    BY DEF Frames
  <2>2. t.id \in {chan[i][n][l].id : l \in 1 .. Len(chan[i][n])}
    BY <1>0, <1>5, <2>1
  <2>3. t.id \in IdsAt(n)
    BY <2>2 DEF IdsAt
  <2> QED BY <2>3 DEF InUse
<1> QED BY <1>1, <1>2, <1>3, <1>4, <1>5 DEF NamedAt

\* A step brings at most one name, under an identifier that was not in use.
LEMMA NamesStep ==
  ASSUME TypeOK, FixedEndpointsImmutable, NEW u,
         \A t : Named(t)' => Named(t) \/ (t = u /\ u.id \notin InUse)
  PROVE  FixedEndpointsImmutable'
<1>1. \A a, b : Named(a) /\ Named(b) /\ a.id = b.id => a = b
  BY NamedTerms DEF NamesUnique
<1>2. ASSUME NEW a, NEW b, Named(a)', Named(b)', a.id = b.id PROVE a = b
  <2>1. (Named(a) \/ (a = u /\ u.id \notin InUse)) /\ (Named(b) \/ (b = u /\ u.id \notin InUse))
    BY <1>2
  <2>2. ASSUME NEW t, Named(t), u.id \notin InUse PROVE t.id # u.id
    BY <2>2, NamedInUse
  <2> QED BY <1>1, <1>2, <2>1, <2>2
<1>3. NamesUnique'
  BY <1>2 DEF NamesUnique
<1> QED BY <1>3, NamedTerms, PTL

\* The names after a step of n, from what n wrote and sent.
LEMMA NamedStep ==
  ASSUME TypeOK, NEW n \in Nodes, Own(n), NEW U,
         stored'[n] \subseteq stored[n] \cup U,
         op'[n] # NoOp => TermsOf(op'[n].rec) \in U \/ (LiveOp(n) /\ op'[n].rec = op[n].rec),
         dial'[n] # NoDial => TermsOf(dial'[n]) \in U \/ dial'[n] = dial[n],
         \/ Drops
         \/ \E i \in Nodes : \E m : Sends(i, n, m)
                /\ (m.type = "PROPOSE" => TermsOf(m) \in U \/ (dial[n] # NoDial /\ m = dial[n]))
  PROVE  \A t : Named(t)' => Named(t) \/ t \in U
<1>1. SUFFICES ASSUME NEW t, NEW x \in Nodes, NamedAt(x, t)' PROVE Named(t) \/ t \in U
  BY DEF Named
<1>2. \/ t \in stored'[x]
      \/ op'[x] # NoOp /\ t = TermsOf(op'[x].rec)
      \/ dial'[x] # NoDial /\ t = TermsOf(dial'[x])
      \/ \E i \in Nodes : \E m \in Frames(i, x)' : m.type = "PROPOSE" /\ t = TermsOf(m)
  BY <1>1 DEF NamedAt, LiveOp
<1>3. CASE t \in stored'[x]
  BY <1>3, OwnPeer DEF Named, NamedAt
<1>4. CASE op'[x] # NoOp /\ t = TermsOf(op'[x].rec)
  BY <1>4, OwnPeer DEF Named, NamedAt, LiveOp
<1>5. CASE dial'[x] # NoDial /\ t = TermsOf(dial'[x])
  BY <1>5, OwnPeer DEF Named, NamedAt
<1>6. ASSUME NEW j \in Nodes, NEW f \in Frames(j, x)', f.type = "PROPOSE", t = TermsOf(f)
      PROVE  Named(t) \/ t \in U
  <2>1. CASE f \in Frames(j, x)
    BY <1>6, <2>1 DEF Named, NamedAt
  <2>2. CASE f \notin Frames(j, x)
    <3>0. PICK i \in Nodes : \E m : Sends(i, n, m)
             /\ (m.type = "PROPOSE" => TermsOf(m) \in U \/ (dial[n] # NoDial /\ m = dial[n]))
      BY <2>2, FrameStep
    <3>1. PICK m : Sends(i, n, m)
             /\ (m.type = "PROPOSE" => TermsOf(m) \in U \/ (dial[n] # NoDial /\ m = dial[n]))
      BY <3>0
    <3>2. f = m
      BY <2>2, <3>1, FrameStep
    <3> QED BY <1>6, <3>1, <3>2 DEF Named, NamedAt
  <2> QED BY <2>1, <2>2
<1> QED BY <1>2, <1>3, <1>4, <1>5, <1>6

LEMMA MessageTerms ==
  ASSUME NEW r, NEW flag
  PROVE  /\ Propose(r, flag).type = "PROPOSE" /\ TermsOf(Propose(r, flag)) = TermsOf(r)
         /\ Saved(r).type = "SAVED" /\ Saved(r).id = r.id /\ TermsOf(r).id = r.id
         /\ [type |-> "DECLINE", id |-> r].type = "DECLINE"
BY DEF Propose, Saved, TermsOf

LEMMA ShapesNames ==
  ASSUME TypeOK, NEW n \in Nodes, NEW i \in Nodes, NEW r,
         \/ Yields(n) \/ Dials(n) \/ Starts(n, r) \/ Confirmed(i, n)
         \/ Counters(i, n, r) \/ Accepts(i, n, r) \/ AcceptFails(i, n, r)
  PROVE  \A t : Named(t)' => Named(t) \/ (t = TermsOf(r) /\ t.id \notin InUse)
<1> DEFINE u == TermsOf(r)
<1>0. \A o, s : o = Gone(op[n]) /\ LiveOp(n) => o.rec = op[n].rec
  BY GoneParts DEF Gone
<1>1. CASE Yields(n)
  <2>1. op'[n] # NoOp => LiveOp(n) /\ op'[n].rec = op[n].rec
    BY <1>0, <1>1 DEF Yields, LiveOp
  <2>2. Drops \/ \E j \in Nodes : \E m : Sends(j, n, m) /\ m.type # "PROPOSE"
    BY <1>1, MessageTerms DEF Yields
  <2>3. Own(n) /\ stored'[n] \subseteq stored[n] /\ (dial'[n] # NoDial => dial'[n] = dial[n])
    BY <1>1 DEF Yields
  <2> DEFINE U == {}
  <2> HIDE DEF U
  <2>4. \A t : Named(t)' => Named(t) \/ t \in U
    BY <2>1, <2>2, <2>3, NamedStep
  <2> QED BY <2>4 DEF U
<1>2. CASE Dials(n)
  <2>1. op'[n] # NoOp => LiveOp(n) /\ op'[n].rec = op[n].rec
    <3>1. LiveOp(n) => [op[n] EXCEPT !.session = n].rec = op[n].rec
      BY GoneParts
    <3> QED BY <1>2, <3>1 DEF Dials, LiveOp
  <2>2. Own(n) /\ stored'[n] \subseteq stored[n] /\ dial'[n] = NoDial
        /\ dial[n] # NoDial /\ Sends(n, n, dial[n])
    BY <1>2 DEF Dials
  <2> DEFINE U == {}
  <2> HIDE DEF U
  <2>3. \A t : Named(t)' => Named(t) \/ t \in U
    BY <2>1, <2>2, NamedStep
  <2> QED BY <2>3 DEF U
<1>3. CASE Starts(n, r)
  <2>1. TermsOf(op'[n].rec) \in {u}
    <3>1. op'[n] = Operate(r, "none", TRUE, FALSE)
      BY <1>3 DEF Starts
    <3>2. op'[n].rec = r
      BY <3>1 DEF Operate
    <3> QED BY <3>2
  <2>2. TermsOf(dial'[n]) \in {u}
    BY <1>3, MessageTerms DEF Starts
  <2>3. Own(n) /\ stored'[n] \subseteq stored[n] \cup {u} /\ Drops
    BY <1>3, ChanType DEF Starts, Drops, Wired
  <2>4. \A t : Named(t)' => Named(t) \/ t \in {u}
    BY <2>1, <2>2, <2>3, NamedStep
  <2>5. Named(u) \/ u.id \notin InUse
    BY <1>3, MessageTerms DEF Starts, Known, Unused, Named, NamedAt
  <2> QED BY <2>4, <2>5
<1>4. CASE Counters(i, n, r)
  <2>1. TermsOf(op'[n].rec) \in {u}
    <3>1. op'[n] = Operate(r, i, FALSE, FALSE)
      BY <1>4 DEF Counters
    <3>2. op'[n].rec = r
      BY <3>1 DEF Operate
    <3> QED BY <3>2
  <2>2. PICK flag \in BOOLEAN : Sends(i, n, Propose(r, flag))
    BY <1>4 DEF Counters
  <2>3. TermsOf(Propose(r, flag)) \in {u}
    BY MessageTerms
  <2>4. Own(n) /\ stored'[n] \subseteq stored[n] \cup {u} /\ dial'[n] = dial[n] /\ u.id \notin InUse
    BY <1>4, MessageTerms DEF Counters, Unused
  <2>5. \A t : Named(t)' => Named(t) \/ t \in {u}
    BY <2>1, <2>2, <2>3, <2>4, NamedStep
  <2> QED BY <2>4, <2>5
<1>5. CASE Accepts(i, n, r) \/ AcceptFails(i, n, r)
  <2>1. op'[n] # NoOp => TermsOf(op'[n].rec) \in {u} \/ (LiveOp(n) /\ op'[n].rec = op[n].rec)
    <3>1. CASE AcceptFails(i, n, r)
      BY <1>0, <3>1 DEF AcceptFails, LiveOp
    <3>2. CASE Accepts(i, n, r)
      <4>1. op'[n] = Operate(r, i, FALSE, TRUE) \/ op'[n] = Operate(r, "gone", FALSE, TRUE)
        BY <3>2 DEF Accepts
      <4>2. op'[n].rec = r
        BY <4>1 DEF Operate
      <4> QED BY <4>2
    <3> QED BY <1>5, <3>1, <3>2
  <2>2. Drops \/ \E m : Sends(i, n, m) /\ m.type # "PROPOSE"
    BY <1>5, MessageTerms DEF Accepts, AcceptFails
  <2>3. Own(n) /\ stored'[n] \subseteq stored[n] \cup {u} /\ dial'[n] = dial[n] /\ Named(u)
    BY <1>5 DEF Accepts, AcceptFails, Offered, Keeps, Named, NamedAt
  <2>4. \A t : Named(t)' => Named(t) \/ t \in {u}
    BY <2>1, <2>2, <2>3, NamedStep
  <2> QED BY <2>3, <2>4
<1>6. CASE Confirmed(i, n)
  <2> DEFINE v == TermsOf(op[n].rec)
  <2>1. op'[n] # NoOp => TermsOf(op'[n].rec) \in {v}
    <3>1. LiveOp(n) /\ op[n].outgoing \in BOOLEAN
      BY <1>6, OperationParts DEF Confirmed, Match
    <3>2. Operate(op[n].rec, "gone", op[n].outgoing, TRUE).rec = op[n].rec
      BY <3>1 DEF Operate
    <3> QED BY <1>0, <1>6, <3>1, <3>2 DEF Confirmed
  <2>2. Drops \/ \E m : Sends(i, n, m) /\ m.type # "PROPOSE"
    BY <1>6, MessageTerms DEF Confirmed
  <2>3. Own(n) /\ stored'[n] \subseteq stored[n] \cup {v} /\ dial'[n] = dial[n] /\ Named(v)
    BY <1>6 DEF Confirmed, Match, Keeps, Named, NamedAt
  <2>4. \A t : Named(t)' => Named(t) \/ t \in {v}
    BY <2>1, <2>2, <2>3, NamedStep
  <2> QED BY <2>3, <2>4
<1> QED BY <1>1, <1>2, <1>3, <1>4, <1>5, <1>6

-----------------------------------------------------------------------------
(***************************************************************************)
(* Beliefs and confirmations after a step.                                 *)
(***************************************************************************)

\* A node comes to hold an agreement as confirmed only by accepting a confirmation.
LEMMA BeliefStep ==
  ASSUME TypeOK, NEW n \in Nodes, NEW i \in Nodes, NEW r,
         \/ Yields(n) \/ Dials(n) \/ Starts(n, r) \/ Confirmed(i, n)
         \/ Counters(i, n, r) \/ Accepts(i, n, r) \/ AcceptFails(i, n, r)
  PROVE  /\ \A t : Believes(n, t)' =>
              Believes(n, t) \/ \E j \in Nodes : Match(j, n) /\ t = TermsOf(op[n].rec)
         /\ \A t : Believes(Peer(n), t)' => Believes(Peer(n), t)
<1>0. \A t : Believes(n, t)' <=> \E s \in {mem'[n], disk'[n]} : Has(s) /\ s.confirmed /\ TermsOf(s) = t
  BY DEF Believes
<1>1. CASE Yields(n)
  <2>1. {mem'[n], disk'[n]} \subseteq {mem[n], disk[n], NoRecord}
    BY <1>1 DEF Yields
  <2>2. \A t : Believes(n, t)' => Believes(n, t)
    BY <1>0, <2>1, RecordFacts DEF Believes
  <2>3. Own(n)
    BY <1>1 DEF Yields
  <2> QED BY <2>2, <2>3, OwnPeer, NodeFacts DEF Believes
<1>2. CASE Dials(n) \/ Starts(n, r) \/ Counters(i, n, r)
  <2>1. UNCHANGED <<mem, disk>>
    BY <1>2 DEF Dials, Starts, Counters
  <2> QED BY <2>1 DEF Believes
<1>3. CASE Accepts(i, n, r) \/ AcceptFails(i, n, r)
  <2>1. Own(n) /\ {mem'[n], disk'[n]} \subseteq {mem[n], disk[n], r}
    BY <1>3 DEF Accepts, AcceptFails, Offered
  <2>2. r.confirmed => Believes(n, TermsOf(r))
    BY <1>3 DEF Accepts, AcceptFails, Offered
  <2>3. \A t : Believes(n, t)' => Believes(n, t)
    BY <1>0, <2>1, <2>2 DEF Believes
  <2> QED BY <2>1, <2>3, OwnPeer, NodeFacts DEF Believes
<1>4. CASE Confirmed(i, n)
  <2> DEFINE s == op[n].rec
  <2>1. Own(n) /\ Match(i, n) /\ {mem'[n], disk'[n]} \subseteq {mem[n], disk[n], s, Final(s)}
    BY <1>4 DEF Confirmed
  <2>2. TermsOf(Final(s)) = TermsOf(s)
    BY <2>1, OperationParts, RecordFacts DEF Match
  <2>3. \A t : Believes(n, t)' => Believes(n, t) \/ t = TermsOf(s)
    BY <1>0, <2>1, <2>2 DEF Believes
  <2> QED BY <2>1, <2>3, OwnPeer, NodeFacts DEF Believes
<1> QED BY <1>1, <1>2, <1>3, <1>4

LEMMA MatchMeans ==
  \A j, n : Match(j, n)' <=> /\ op'[n] # NoOp /\ op'[n].session = j
                             /\ Saved(op'[n].rec) \in Frames(j, n)'
BY DEF Match, LiveOp, Saved

\* Operations that wait for no confirmation.
LEMMA NoMatch ==
  ASSUME NEW n \in Nodes,
         \/ op'[n] = NoOp \/ op'[n].session \in {"none", "gone"}
         \/ \E i \in Nodes : op'[n].session = i /\ Frames(i, n)' = {}
  PROVE  \A j \in Nodes : ~Match(j, n)'
<1>1. "none" \notin Nodes /\ "gone" \notin Nodes
  BY DEF Nodes, Low, High
<1> QED BY <1>1, MatchMeans

\* A step of n leaves its own confirmation in flight where it was or takes it away.
LEMMA OwnMatch ==
  ASSUME TypeOK, NEW n \in Nodes, NEW i \in Nodes, NEW r,
         \/ Yields(n) \/ Dials(n) \/ Starts(n, r) \/ Confirmed(i, n)
         \/ Counters(i, n, r) \/ Accepts(i, n, r) \/ AcceptFails(i, n, r)
  PROVE  \A j \in Nodes : Match(j, n)' => Match(j, n) /\ op'[n] = op[n]
<1>1. Drops \/ \E k \in Nodes : \E m : Sends(k, n, m)
  BY ChanType DEF Yields, Dials, Starts, Confirmed, Counters, Accepts, AcceptFails, Drops, Wired
<1>2. \A j \in Nodes : Frames(j, n)' \subseteq Frames(j, n)
  BY <1>1, FrameStep, NodeFacts
<1>3. op'[n] = op[n] => \A j \in Nodes : Match(j, n)' => Match(j, n) /\ op'[n] = op[n]
  BY <1>2, MatchMeans DEF Match, LiveOp, Saved
<1>4. LiveOp(n) /\ op'[n] = Gone(op[n]) => op'[n].session = "gone"
  BY GoneParts DEF Gone
<1>5. CASE Yields(n) \/ AcceptFails(i, n, r)
  BY <1>3, <1>4, <1>5, NoMatch DEF Yields, AcceptFails
<1>6. CASE Dials(n)
  <2>1. Frames(n, n)' = {}
    BY <1>6, FrameStep DEF Dials
  <2>2. LiveOp(n) => [op[n] EXCEPT !.session = n].session = n
    BY GoneParts
  <2> QED BY <1>3, <1>6, <2>1, <2>2, NoMatch DEF Dials
<1>7. CASE Starts(n, r)
  <2>1. op'[n] = Operate(r, "none", TRUE, FALSE)
    BY <1>7 DEF Starts
  <2>2. op'[n].session = "none"
    BY <2>1 DEF Operate
  <2> QED BY <2>2, NoMatch
<1>8. CASE Counters(i, n, r)
  <2>1. op'[n] = Operate(r, i, FALSE, FALSE) /\ Frames(i, n)' = {}
    BY <1>8, FrameStep DEF Counters
  <2>2. op'[n].session = i
    BY <2>1 DEF Operate
  <2> QED BY <2>1, <2>2, NoMatch
<1>9. CASE Accepts(i, n, r)
  <2>1. CASE op'[n] = Operate(r, i, FALSE, TRUE) /\ Sends(i, n, Saved(r))
    <3>1. op'[n].session = i
      BY <2>1 DEF Operate
    <3>2. Frames(i, n)' = {}
      BY <2>1, FrameStep
    <3> QED BY <3>1, <3>2, NoMatch
  <2>2. CASE op'[n] = Operate(r, "gone", FALSE, TRUE)
    <3>1. op'[n].session = "gone"
      BY <2>2 DEF Operate
    <3> QED BY <3>1, NoMatch
  <2> QED BY <1>9, <2>1, <2>2 DEF Accepts
<1>10. CASE Confirmed(i, n)
  <2>1. LiveOp(n) /\ op[n].outgoing \in BOOLEAN
    BY <1>10, OperationParts DEF Confirmed, Match
  <2>2. Operate(op[n].rec, "gone", op[n].outgoing, TRUE).session = "gone"
    BY <2>1 DEF Operate
  <2> QED BY <1>4, <1>10, <2>1, <2>2, NoMatch DEF Confirmed
<1> QED BY <1>5, <1>6, <1>7, <1>8, <1>9, <1>10

\* After n sent DURABLE_SAVED for s it waits for no confirmation that is in flight,
\* and holds nothing but s.
Tells(n, s) ==
  /\ Named(TermsOf(s))
  /\ \A j \in Nodes : ~Match(j, n)'
  /\ \A t : Believes(n, t)' => t = TermsOf(s)

LEMMA TellsStep ==
  ASSUME TypeOK, NEW n \in Nodes, NEW i \in Nodes, NEW r,
         \/ Yields(n) \/ Dials(n) \/ Starts(n, r) \/ Confirmed(i, n)
         \/ Counters(i, n, r) \/ Accepts(i, n, r) \/ AcceptFails(i, n, r)
  PROVE  \A j, x \in Nodes : \A f \in Frames(j, x)' :
           f \in Frames(j, x) \/ f.type # "SAVED"
             \/ \E s \in Record : /\ x = Peer(n) /\ f = Saved(s) /\ Tells(n, s)
                                  /\ TermsOf(s) \in stored'[n]
<1>0. ASSUME NEW j \in Nodes, NEW x \in Nodes, NEW f \in Frames(j, x)', f \notin Frames(j, x),
             NEW m, NEW k \in Nodes, Sends(k, n, m)
      PROVE  f = m /\ x = Peer(n)
  BY <1>0, FrameStep
<1>1. CASE Drops
  BY <1>1, FrameStep
<1>2. ASSUME NEW k \in Nodes, NEW m, Sends(k, n, m), m.type # "SAVED"
      PROVE  \A j, x \in Nodes : \A f \in Frames(j, x)' : f \in Frames(j, x) \/ f.type # "SAVED"
  BY <1>0, <1>2
<1>3. CASE Yields(n) \/ AcceptFails(i, n, r)
  BY <1>1, <1>2, <1>3, MessageTerms DEF Yields, AcceptFails
<1>4. CASE Starts(n, r)
  BY <1>1, <1>4, ChanType DEF Starts, Drops, Wired
<1>5. CASE Dials(n)
  <2>1. dial[n].type = "PROPOSE" /\ Sends(n, n, dial[n])
    BY <1>5, StoreType DEF Dials, ProposeMsg
  <2> QED BY <1>2, <2>1
<1>6. CASE Counters(i, n, r)
  BY <1>2, <1>6, MessageTerms DEF Counters
<1>7. ASSUME NEW s \in Record, Sends(i, n, Saved(s)), Tells(n, s), TermsOf(s) \in stored'[n]
      PROVE  \A j, x \in Nodes : \A f \in Frames(j, x)' :
               f \in Frames(j, x) \/ (x = Peer(n) /\ f = Saved(s))
  BY <1>0, <1>7
<1>8. CASE Accepts(i, n, r)
  <2>1. CASE Drops
    BY <1>1, <2>1
  <2>2. CASE op'[n] = Operate(r, i, FALSE, TRUE) /\ Sends(i, n, Saved(r))
    <3>1. op'[n].session = i
      BY <2>2 DEF Operate
    <3>2. \A j \in Nodes : ~Match(j, n)'
      <4>1. Frames(i, n)' = {}
        BY <2>2, FrameStep
      <4> QED BY <3>1, <4>1, NoMatch
    <3>3. Named(TermsOf(r)) /\ TermsOf(r) \in stored'[n] /\ r \in Record
      BY <1>8 DEF Accepts, Offered, Keeps, Named, NamedAt
    <3>4. \A t : Believes(n, t)' => t = TermsOf(r)
      BY <1>8 DEF Accepts, Believes
    <3> QED BY <1>7, <2>2, <3>2, <3>3, <3>4 DEF Tells
  <2> QED BY <1>8, <2>1, <2>2 DEF Accepts
<1>9. CASE Confirmed(i, n)
  <2> DEFINE s == op[n].rec
  <2>1. CASE Drops
    BY <1>1, <2>1
  <2>2. CASE ~Drops
    <3>1. /\ mem'[n] \in {s, Final(s)} /\ disk'[n] \in {s, Final(s)} /\ Keeps(n, s)
          /\ op'[n] = NoOp \/ op'[n] = Operate(s, "gone", op[n].outgoing, TRUE)
          /\ Sends(i, n, Saved(s)) /\ LiveOp(n)
      BY <1>9, <2>2 DEF Confirmed, Match
    <3>2. s \in Record /\ TermsOf(Final(s)) = TermsOf(s) /\ op[n].outgoing \in BOOLEAN
      BY <3>1, OperationParts, RecordFacts
    <3>3. op'[n] = NoOp \/ op'[n].session = "gone"
      BY <3>1, <3>2 DEF Operate
    <3>4. \A j \in Nodes : ~Match(j, n)'
      BY <3>3, NoMatch
    <3>5. Named(TermsOf(s)) /\ TermsOf(s) \in stored'[n]
      BY <3>1 DEF Keeps, Named, NamedAt
    <3>6. \A t : Believes(n, t)' => t = TermsOf(s)
      BY <3>1, <3>2 DEF Believes
    <3> QED BY <1>7, <3>1, <3>2, <3>4, <3>5, <3>6 DEF Tells
  <2> QED BY <2>1, <2>2
<1> QED BY <1>3, <1>4, <1>5, <1>6, <1>8, <1>9

SavedSound ==
  \A i, n \in Nodes : \A f \in Frames(i, n) :
    f.type = "SAVED" => \E t \in stored[Peer(n)] : t.id = f.id

LEMMA SavedFrames == SavedIsStored <=> SavedSound
BY DEF SavedIsStored, SavedSound, Frames

\* A confirmation that n would accept is about terms its peer has stored.
LEMMA MatchStored ==
  ASSUME TypeOK, FixedEndpointsImmutable, SavedIsStored, NEW i \in Nodes, NEW n \in Nodes, Match(i, n)
  PROVE  TermsOf(op[n].rec) \in stored[Peer(n)]
<1>1. LiveOp(n) /\ Saved(op[n].rec) \in Frames(i, n)
  BY DEF Match, Saved
<1>2. Saved(op[n].rec).type = "SAVED" /\ Saved(op[n].rec).id = op[n].rec.id
      /\ TermsOf(op[n].rec).id = op[n].rec.id
  BY MessageTerms
<1>3. PICK t \in stored[Peer(n)] : t.id = op[n].rec.id
  BY <1>1, <1>2, SavedFrames DEF SavedSound
<1>4. Named(t) /\ Named(TermsOf(op[n].rec))
  BY <1>1, NodeFacts DEF Named, NamedAt
<1>5. t = TermsOf(op[n].rec)
  BY <1>2, <1>3, <1>4, NamedTerms DEF NamesUnique
<1> QED BY <1>3, <1>5

BelievedStored == \A n \in Nodes : \A t : Believes(n, t) => t \in stored[Peer(n)]

LEMMA Believed == ConfirmedMeansPeerStored <=> BelievedStored
BY DEF ConfirmedMeansPeerStored, BelievedStored, Believes

\* The invariants after a step of n, whatever its shape.
LEMMA ShapesAgree ==
  ASSUME TypeOK, DurableInv, NEW n \in Nodes, NEW i \in Nodes, NEW r,
         \/ Yields(n) \/ Dials(n) \/ Starts(n, r) \/ Confirmed(i, n)
         \/ Counters(i, n, r) \/ Accepts(i, n, r) \/ AcceptFails(i, n, r)
  PROVE  /\ HeldStored' /\ OpSound' /\ OneFrame' /\ FixedEndpointsImmutable' /\ PeerStored'
         /\ OneMatch' /\ MatchSound' /\ BeliefsAgree'
<1> DEFINE p == Peer(n)
<1>0. /\ HeldStored /\ OpSound /\ OneFrame /\ FixedEndpointsImmutable /\ PeerStored
      /\ ConfirmedMeansPeerStored /\ SavedIsStored /\ OneMatch /\ MatchSound /\ BeliefsAgree
  BY DEF DurableInv, PeerStored
<1>1. Own(n) /\ StoreSound(n)
  BY <1>0, ShapesStore
<1>2. HeldStored' /\ OpSound' /\ OneFrame'
  BY <1>0, <1>1, StoreStep
<1>3. FixedEndpointsImmutable'
  <2>1. \A t : Named(t)' => Named(t) \/ (t = TermsOf(r) /\ t.id \notin InUse)
    BY ShapesNames
  <2> QED BY <1>0, <2>1, NamesStep
<1>4. \A x \in Nodes : stored[x] \subseteq stored'[x]
  BY <1>1 DEF StoreSound
<1>5. p \in Nodes /\ p # n /\ Peer(p) = n /\ (\A x \in Nodes : x = n \/ x = p) /\ op'[p] = op[p]
  BY <1>1, NodeFacts, OwnPeer
<1>6. /\ \A t : Believes(n, t)' =>
              Believes(n, t) \/ \E j \in Nodes : Match(j, n) /\ t = TermsOf(op[n].rec)
      /\ \A t : Believes(p, t)' => Believes(p, t)
  BY BeliefStep
<1>7. \A j, x \in Nodes : \A f \in Frames(j, x)' :
           f \in Frames(j, x) \/ f.type # "SAVED"
             \/ \E s \in Record : /\ x = Peer(n) /\ f = Saved(s) /\ Tells(n, s)
                                  /\ TermsOf(s) \in stored'[n]
  BY TellsStep
<1>8. \A j \in Nodes : Match(j, n)' => Match(j, n) /\ op'[n] = op[n]
  BY OwnMatch
<1> HIDE DEF p
<1>9. SavedSound'
  <2> SUFFICES ASSUME NEW j \in Nodes, NEW x \in Nodes, NEW f \in Frames(j, x)', f.type = "SAVED"
               PROVE  \E t \in stored'[Peer(x)] : t.id = f.id
    BY DEF SavedSound
  <2>1. CASE f \in Frames(j, x)
    <3>1. \E t \in stored[Peer(x)] : t.id = f.id
      BY <1>0, <2>1, SavedFrames DEF SavedSound
    <3> QED BY <1>4, <3>1, NodeFacts
  <2>2. ASSUME NEW s \in Record, x = Peer(n), f = Saved(s), TermsOf(s) \in stored'[n]
        PROVE  \E t \in stored'[Peer(x)] : t.id = f.id
    <3>1. Peer(x) = n /\ TermsOf(s).id = f.id
      BY <2>2, MessageTerms, NodeFacts
    <3> QED BY <2>2, <3>1
  <2> QED BY <1>7, <2>1, <2>2
<1>10. BelievedStored'
  <2> SUFFICES ASSUME NEW x \in Nodes, NEW t, Believes(x, t)' PROVE t \in stored'[Peer(x)]
    BY DEF BelievedStored
  <2>1. Believes(x, t) => t \in stored[Peer(x)]
    BY <1>0, Believed DEF BelievedStored
  <2>2. \A j \in Nodes : Match(j, n) => TermsOf(op[n].rec) \in stored[p]
    BY <1>0, MatchStored DEF p
  <2> QED BY <1>4, <1>5, <1>6, <2>1, <2>2, NodeFacts DEF p
<1>11. PeerStored'
  <2>1. SavedIsStored'
    BY <1>9, SavedFrames, PTL
  <2>2. ConfirmedMeansPeerStored'
    BY <1>10, Believed, PTL
  <2> QED BY <2>1, <2>2 DEF PeerStored
<1>12. ASSUME NEW j \in Nodes, Match(j, p)'
       PROVE  Match(j, p) \/ \E s \in Record : Tells(n, s) /\ s.id = op[p].rec.id
  <2>1. op[p] # NoOp /\ op[p].session = j /\ Saved(op[p].rec) \in Frames(j, p)'
    BY <1>5, <1>12, MatchMeans
  <2>2. Saved(op[p].rec).type = "SAVED" /\ Saved(op[p].rec).id = op[p].rec.id
        /\ \A s : Saved(s).id = s.id
    BY MessageTerms
  <2>3. CASE Saved(op[p].rec) \in Frames(j, p)
    BY <2>1, <2>3 DEF Match, LiveOp, Saved
  <2>4. ASSUME NEW s \in Record, Saved(op[p].rec) = Saved(s), Tells(n, s)
        PROVE  \E u \in Record : Tells(n, u) /\ u.id = op[p].rec.id
    BY <2>2, <2>4
  <2> QED BY <1>5, <1>7, <2>1, <2>2, <2>3, <2>4
<1>13. ASSUME NEW j \in Nodes, Match(j, p)', NEW k \in Nodes, Match(k, n)' PROVE FALSE
  <2>1. Match(k, n)
    BY <1>8, <1>13
  <2>2. ~\E s \in Record : Tells(n, s) /\ s.id = op[p].rec.id
    BY <1>13 DEF Tells
  <2>3. Match(j, p)
    BY <1>12, <1>13, <2>2
  <2> QED BY <1>0, <2>1, <2>3 DEF OneMatch, p, Peer, Nodes
<1>14. OneMatch'
  <2>1. (n = Low /\ p = High) \/ (n = High /\ p = Low)
    BY DEF p, Peer, Nodes
  <2> QED BY <1>13, <2>1 DEF OneMatch
<1>15. ASSUME NEW j \in Nodes, Match(j, p)', NEW t, Believes(n, t)' PROVE t = TermsOf(op[p].rec)
  <2>1. ASSUME NEW s \in Record, Tells(n, s), s.id = op[p].rec.id PROVE t = TermsOf(op[p].rec)
    <3>1. t = TermsOf(s) /\ Named(TermsOf(s))
      BY <1>15, <2>1 DEF Tells
    <3>2. op[p] # NoOp
      BY <1>5, <1>15, MatchMeans
    <3>3. Named(TermsOf(op[p].rec))
      BY <1>5, <3>2 DEF Named, NamedAt, LiveOp
    <3>4. TermsOf(s).id = TermsOf(op[p].rec).id
      BY <2>1, MessageTerms
    <3> QED BY <1>0, <3>1, <3>3, <3>4, NamedTerms DEF NamesUnique
  <2>2. CASE Match(j, p)
    <3>1. \A k \in Nodes : ~Match(k, n)
      BY <1>0, <2>2 DEF OneMatch, p, Peer, Nodes
    <3>2. Believes(n, t)
      BY <1>6, <1>15, <3>1
    <3>3. t \in Terms
      BY <3>2, StoreType, RecordFacts DEF Believes, Has
    <3> QED BY <1>0, <1>5, <2>2, <3>2, <3>3 DEF MatchSound
  <2> QED BY <1>12, <1>15, <2>1, <2>2
<1>16. MatchSound'
  <2> SUFFICES ASSUME NEW j \in Nodes, NEW x \in Nodes, Match(j, x)',
                      NEW t \in Terms, Believes(Peer(x), t)'
               PROVE  t = TermsOf(op'[x].rec)
    BY DEF MatchSound
  <2>1. CASE x = p
    BY <1>5, <1>15, <2>1
  <2>2. CASE x = n
    <3>1. Match(j, n) /\ op'[n] = op[n] /\ Believes(p, t)
      BY <1>6, <1>8, <2>2 DEF p
    <3> QED BY <1>0, <2>2, <3>1 DEF MatchSound, p
  <2> QED BY <1>5, <2>1, <2>2
<1>17. ASSUME NEW t \in Terms, NEW u \in Terms, Believes(n, t)', Believes(p, u)' PROVE t = u
  <2>1. Believes(p, u)
    BY <1>6, <1>17
  <2>2. CASE Believes(n, t)
    BY <1>0, <2>1, <2>2 DEF BeliefsAgree, p, Peer, Nodes
  <2>3. ASSUME NEW j \in Nodes, Match(j, n), t = TermsOf(op[n].rec) PROVE t = u
    BY <1>0, <2>1, <2>3 DEF MatchSound, p
  <2> QED BY <1>6, <1>17, <2>2, <2>3
<1>18. BeliefsAgree'
  <2>1. (n = Low /\ p = High) \/ (n = High /\ p = Low)
    BY DEF p, Peer, Nodes
  <2> QED BY <1>17, <2>1 DEF BeliefsAgree
<1> QED BY <1>2, <1>3, <1>11, <1>14, <1>16, <1>18

-----------------------------------------------------------------------------
(***************************************************************************)
(* The theorems.                                                           *)
(***************************************************************************)
LEMMA InitSound == ASSUME Init PROVE TypeOK /\ DurableInv
<1>0. 0 \in Endpoint /\ 1 \in 1 .. MaxAddr /\ 0 \in 0 .. MaxFaults
  BY DurableAssumption DEF Endpoint
<1>1. CoreType
  BY DEF Init, CoreType
<1>2. NoObservation \in Observation
  BY <1>0 DEF NoObservation, Observation
<1>3. RestType
  BY <1>0, <1>2 DEF Init, RestType
<1>4. TypeOK
  BY <1>1, <1>3, TypeParts
<1>5. \A n \in Nodes : /\ mem[n] = NoRecord /\ disk[n] = NoRecord /\ op[n] = NoOp
                       /\ dial[n] = NoDial /\ stored[n] = {} /\ alive[n] = TRUE
  BY DEF Init
<1>6. \A i, n \in Nodes : chan[i][n] = <<>>
  BY DEF Init
<1>7. \A i, n \in Nodes : Frames(i, n) = {}
  BY <1>6, FramesOf
<1>8. HeldStored /\ OpSound /\ DownIsIdle
  BY <1>5, RecordFacts DEF HeldStored, OpSound, DownIsIdle, LiveOp
<1>9. OneFrame
  BY <1>6, NodeFacts DEF OneFrame
<1>10. \A t : ~Named(t)
  BY <1>5, <1>7 DEF Named, NamedAt, LiveOp
<1>11. FixedEndpointsImmutable
  BY <1>10, NamedTerms DEF NamesUnique
<1>12. \A n \in Nodes : \A t : ~Believes(n, t)
  BY <1>5, RecordFacts DEF Believes
<1>13. PeerStored
  BY <1>7, <1>12, SavedFrames, Believed DEF SavedSound, BelievedStored, PeerStored
<1>14. \A i, n \in Nodes : ~Match(i, n)
  BY <1>7 DEF Match
<1>15. OneMatch /\ MatchSound /\ BeliefsAgree
  BY <1>12, <1>14, NodeFacts DEF OneMatch, MatchSound, BeliefsAgree
<1> QED BY <1>4, <1>8, <1>9, <1>11, <1>13, <1>15 DEF DurableInv

\* The exchange of DURABLE_PROPOSE, SAVED and DECLINE, the store and every way a record
\* ends keep the inductive invariant: one frame per session, at most one confirmation
\* about to be accepted, and a peer that confirmed nothing else.
THEOREM DurableInvariant == Spec => [](TypeOK /\ DurableInv)
<1>1. Init => TypeOK /\ DurableInv
  BY InitSound
<1>2. TypeOK /\ DurableInv /\ [Next]_vars => (TypeOK /\ DurableInv)'
  <2> SUFFICES ASSUME TypeOK, DurableInv, [Next]_vars PROVE (TypeOK /\ DurableInv)'
    OBVIOUS
  <2>0. HeldStored /\ DownIsIdle /\ OneFrame
    BY DEF DurableInv
  <2>1. TypeOK' /\ DownIsIdle'
    BY <2>0, NextType, IdleStep
  <2>2. /\ HeldStored' /\ OpSound' /\ OneFrame' /\ FixedEndpointsImmutable' /\ PeerStored'
        /\ OneMatch' /\ MatchSound' /\ BeliefsAgree'
    <3>1. PICK n \in Nodes :
            \/ Yields(n) \/ Dials(n) \/ \E r \in Record : Starts(n, r)
            \/ \E i \in Nodes : Confirmed(i, n)
            \/ \E i \in Nodes, r \in Record :
                 Counters(i, n, r) \/ Accepts(i, n, r) \/ AcceptFails(i, n, r)
      BY <2>0, Shapes
    <3>2. CASE Yields(n) \/ Dials(n) \/ \E r \in Record : Starts(n, r)
      BY <3>2, ShapesAgree
    <3>3. CASE \E i \in Nodes : Confirmed(i, n)
      BY <3>3, ShapesAgree
    <3>4. CASE \E i \in Nodes, r \in Record :
                 Counters(i, n, r) \/ Accepts(i, n, r) \/ AcceptFails(i, n, r)
      BY <3>4, ShapesAgree
    <3> QED BY <3>1, <3>2, <3>3, <3>4
  <2> QED BY <2>1, <2>2 DEF DurableInv
<1> QED BY <1>1, <1>2, PTL DEF Spec

\* Records, operations, frames and checks keep their types whatever is lost, stopped or
\* delayed (durableManager, handleLink, openDurable).
THEOREM TypeCorrect == Spec => []TypeOK
BY DurableInvariant, PTL

\* What a node says or believes of its peer's store is true: a record is confirmed
\* (handleLink on DURABLE_SAVED), and a DURABLE_SAVED sent, only after the peer stored
\* these terms, across failed saves, crashes, replacements and lost sessions.
THEOREM PeerStoredHolds == Spec => []PeerStored
<1>1. TypeOK /\ DurableInv => PeerStored
  BY DEF DurableInv
<1> QED BY <1>1, DurableInvariant, PTL

\* An agreement identifier never names two sets of endpoints, and two nodes that both
\* hold a confirmed record hold the same agreement, collisions and restarts included.
THEOREM TermsAgreedHolds == Spec => []TermsAgreed
<1>1. TypeOK /\ DurableInv => TermsAgreed
  <2> SUFFICES ASSUME TypeOK, DurableInv PROVE TermsAgreed
    OBVIOUS
  <2>1. ASSUME \A n \in Nodes : Has(mem[n]) /\ mem[n].confirmed
        PROVE  TermsOf(mem[Low]) = TermsOf(mem[High])
    <3>1. Believes(Low, TermsOf(mem[Low])) /\ Believes(High, TermsOf(mem[High]))
      BY <2>1, NodeFacts DEF Believes
    <3>2. TermsOf(mem[Low]) \in Terms /\ TermsOf(mem[High]) \in Terms
      BY <2>1, NodeFacts, StoreType, RecordFacts DEF Has
    <3> QED BY <3>1, <3>2 DEF DurableInv, BeliefsAgree
  <2> QED BY <2>1 DEF DurableInv, TermsAgreed, ConfirmedAgree
<1> QED BY <1>1, DurableInvariant, PTL

=============================================================================

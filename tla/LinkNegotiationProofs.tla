----------------------- MODULE LinkNegotiationProofs -----------------------
(***************************************************************************)
(* Type correctness of LinkNegotiation, the agreement of the two           *)
(* endpoints, the implementation of LinkAgreement, the order of the offers *)
(* and their convergence, for every set of proposals, every bound on       *)
(* attempts and every setting.                                             *)
(***************************************************************************)
EXTENDS LinkNegotiation, TLAPS

\* The frames that pass the turn from one endpoint to the other.
Turn(m) == m.type \in {"LINK_PROPOSE", "LINK_ACCEPT"}

\* At most one such frame exists, in flight or about to be written.
OneTurn ==
  /\ \A e \in Ends : \A k, l \in 1 .. Len(inbox[e]) :
       Turn(inbox[e][k]) /\ Turn(inbox[e][l]) => k = l
  /\ \A e \in Ends : \A k \in 1 .. Len(inbox[e]) : Turn(inbox[e][k]) =>
       /\ \A f \in Ends : ~Turn(outbound[f])
       /\ \A l \in 1 .. Len(inbox[Other(e)]) : ~Turn(inbox[Other(e)][l])
  /\ ~(Turn(outbound[Initiator]) /\ Turn(outbound[Responder]))

\* A proposal is the outstanding one of its sender, who waits for the answer.
Offered(e, m) ==
  m.type = "LINK_PROPOSE" =>
    phase[e] = "waitResponse" /\ outstanding[e] = m.p /\ phase[Other(e)] # "agreed"

ProposalsOutstanding ==
  \A e \in Ends :
    /\ Offered(e, outbound[e])
    /\ \A k \in 1 .. Len(inbox[Other(e)]) : Offered(e, inbox[Other(e)][k])

\* An acceptance is written after the commit, to an endpoint that waits.
AcceptsAwaited ==
  \A e \in Ends :
    /\ outbound[e].type = "LINK_ACCEPT" => phase[e] = "agreed" /\ phase[Other(e)] = "waitResponse"
    /\ \A k \in 1 .. Len(inbox[e]) : inbox[e][k].type = "LINK_ACCEPT" =>
         installed[Other(e)] # None /\ phase[e] = "waitResponse"

\* What an endpoint installed or is about to install is what the other one
\* offered, or is itself installing.
Holds(e, v) == v # None /\ (pending[e] = v \/ installed[e] = v)

ValuesMatch ==
  \A e \in Ends, v \in Proposals : Holds(e, v) =>
    /\ phase[e] = "agreed"
    /\ \/ phase[Other(e)] = "waitResponse" /\ outstanding[Other(e)] = v
       \/ phase[Other(e)] = "agreed" /\ \A w \in Proposals : Holds(Other(e), w) => w = v

\* The initiator opens the negotiation.
InitiatorFirst ==
  /\ phase[Initiator] # "waitProposal"
  /\ phase[Initiator] \in {"open", "nodeState", "operational"} =>
       /\ phase[Responder] \notin {"waitResponse", "agreed"}
       /\ \A e \in Ends : ~Turn(outbound[e]) /\ \A k \in 1 .. Len(inbox[e]) : ~Turn(inbox[e][k])

TurnInv ==
  /\ OneTurn /\ ProposalsOutstanding /\ AcceptsAwaited /\ ValuesMatch /\ InitiatorFirst
  /\ \A e \in Ends : phase[e] = "waitResponse" => outstanding[e] \in Proposals

-----------------------------------------------------------------------------
LEMMA EndsFacts ==
  /\ Initiator \in Ends /\ Responder \in Ends /\ Initiator # Responder
  /\ \A e \in Ends : Other(e) \in Ends /\ Other(e) # e /\ Other(Other(e)) = e
  /\ \A e, f \in Ends : f = e \/ f = Other(e)
BY DEF Ends, Other, Initiator, Responder

LEMMA FrameFacts ==
  /\ \A t \in {"OPEN", "NODE_STATE", "LINK_ACCEPT", "DURABLE_PROPOSE", "none"} :
       Frame(t) \in Message /\ Frame(t).type = t
  /\ \A p \in Proposals : Propose(p) \in Message /\ Propose(p).type = "LINK_PROPOSE" /\ Propose(p).p = p
  /\ NoFrame \in Message /\ ~Turn(NoFrame)
  /\ \A m \in Message : m.type = "LINK_PROPOSE" => m.p \in Proposals
BY DEF Frame, Propose, NoFrame, Message, Turn

\* Tail and Append of the queues, element by element.
LEMMA QueueFacts ==
  ASSUME NEW s \in Seq(Message), NEW m \in Message
  PROVE  /\ s # <<>> => /\ Tail(s) \in Seq(Message) /\ Len(Tail(s)) = Len(s) - 1
                        /\ Head(s) \in Message /\ Len(s) >= 1 /\ Head(s) = s[1]
                        /\ \A k \in 1 .. Len(Tail(s)) : Tail(s)[k] = s[k + 1]
         /\ Append(s, m) \in Seq(Message) /\ Len(Append(s, m)) = Len(s) + 1
         /\ \A k \in 1 .. Len(s) : Append(s, m)[k] = s[k]
         /\ Append(s, m)[Len(s) + 1] = m
  OBVIOUS

LEMMA OfferType ==
  ASSUME TypeOK, NEW e \in Ends, NEW used \in SUBSET Proposals, NEW approved \in SUBSET Proposals,
         Offer(e, used, approved)
  PROVE  \E p \in Proposals :
           /\ attempt' \in [Ends -> 0 .. MaxCounterproposals]
           /\ seen' \in [Ends -> SUBSET Proposals]
           /\ outstanding' = [outstanding EXCEPT ![e] = p]
           /\ outbound' = [outbound EXCEPT ![e] = Propose(p)]
           /\ phase' = [phase EXCEPT ![e] = "waitResponse"]
           /\ outstanding' \in [Ends -> Proposals \cup {None}]
           /\ outbound' \in [Ends -> Message] /\ phase' \in [Ends -> Phase]
           /\ offers' \in Seq(Ends \X Proposals)
           /\ UNCHANGED <<pending, result>>
<1>1. PICK i \in Candidates(e, used, approved) : 
        /\ attempt' = [attempt EXCEPT ![e] = i + 1]
        /\ seen' = [seen EXCEPT ![e] = used \cup {env.derive[e][i]}]
        /\ outstanding' = [outstanding EXCEPT ![e] = env.derive[e][i]]
        /\ outbound' = [outbound EXCEPT ![e] = Propose(env.derive[e][i])]
        /\ phase' = [phase EXCEPT ![e] = "waitResponse"]
        /\ offers' = Append(offers, <<e, env.derive[e][i]>>)
        /\ UNCHANGED <<pending, result>>
  BY DEF Offer
<1>2. i \in 0 .. MaxCounterproposals - 1 /\ env.derive[e][i] \in Proposals
  BY NegotiationAssumption DEF Candidates, TypeOK, SettingType
<1>3. i + 1 \in 0 .. MaxCounterproposals
  BY <1>2, NegotiationAssumption
<1>4. /\ attempt' \in [Ends -> 0 .. MaxCounterproposals]
      /\ seen' \in [Ends -> SUBSET Proposals]
      /\ outstanding' \in [Ends -> Proposals \cup {None}]
  BY <1>1, <1>2, <1>3 DEF TypeOK
<1>5. outbound' \in [Ends -> Message] /\ phase' \in [Ends -> Phase]
  BY <1>1, <1>2, FrameFacts DEF TypeOK, Phase
<1>6. offers' \in Seq(Ends \X Proposals)
  BY <1>1, <1>2 DEF TypeOK
<1> QED
  BY <1>1, <1>2, <1>4, <1>5, <1>6

LEMMA OutOfProposalsType ==
  ASSUME TypeOK, NEW e \in Ends, NEW used \in SUBSET Proposals, NEW approved \in SUBSET Proposals,
         OutOfProposals(e, used, approved)
  PROVE  /\ attempt' \in [Ends -> 0 .. MaxCounterproposals]
         /\ seen' \in [Ends -> SUBSET Proposals]
         /\ result' \in [Ends -> {"run", "ok", "error"}]
         /\ UNCHANGED <<phase, outstanding, pending, outbound, offers>>
BY NegotiationAssumption DEF OutOfProposals, Finish, TypeOK

\* Reading a frame keeps the types of what it touches.
LEMMA ReadType ==
  ASSUME TypeOK, NEW e \in Ends, NEW m, Read(e, m)
  PROVE  /\ inbox' \in [Ends -> Seq(Message)] /\ m \in Message
         /\ UNCHANGED <<env, installed, cut>>
BY QueueFacts DEF Read, TypeOK

LEMMA VerdictsType ==
  ASSUME TypeOK, NEW e \in Ends, NEW approved \in Verdicts(e)
  PROVE  approved \in SUBSET Proposals
BY NegotiationAssumption DEF Verdicts, TypeOK, SettingType

LEMMA InitTypeOK == Init => TypeOK
<1> SUFFICES ASSUME Init PROVE TypeOK
  OBVIOUS
<1>1. Frame("OPEN") \in Message
  BY FrameFacts
<1>2. /\ inbox \in [Ends -> Seq(Message)] /\ offers \in Seq(Ends \X Proposals)
      /\ outbound \in [Ends -> Message] /\ phase \in [Ends -> Phase]
  BY <1>1 DEF Init, Phase
<1>3. 0 \in 0 .. MaxCounterproposals /\ {} \in SUBSET Proposals /\ "run" \in {"run", "ok", "error"}
  BY NegotiationAssumption
<1>4. /\ attempt \in [Ends -> 0 .. MaxCounterproposals] /\ seen \in [Ends -> SUBSET Proposals]
      /\ result \in [Ends -> {"run", "ok", "error"}]
  BY <1>3 DEF Init
<1>5. /\ outstanding \in [Ends -> Proposals \cup {None}] /\ pending \in [Ends -> Proposals \cup {None}]
      /\ installed \in [Ends -> Proposals \cup {None}]
  BY DEF Init
<1>6. env \in Settings /\ cut \in BOOLEAN
  BY DEF Init
<1> QED BY <1>2, <1>4, <1>5, <1>6 DEF TypeOK

LEMMA NextTypeOK == TypeOK /\ [Next]_vars => TypeOK'
<1> SUFFICES ASSUME TypeOK, [Next]_vars PROVE TypeOK'
  OBVIOUS
<1> USE NegotiationAssumption
<1>1. ASSUME NEW e \in Ends, Handle(e) PROVE TypeOK'
  <2>1. CASE HandleOpen(e)
    <3>1. Frame("NODE_STATE") \in Message
      BY FrameFacts
    <3>2. outbound' \in [Ends -> Message]
      BY <2>1, <3>1 DEF HandleOpen, TypeOK
    <3>3. phase' \in [Ends -> Phase]
      <4>1. "nodeState" \in Phase
        BY DEF Phase
      <4>2. phase' = phase \/ phase' = [phase EXCEPT ![e] = "nodeState"]
        BY <2>1 DEF HandleOpen
      <4> QED BY <4>1, <4>2 DEF TypeOK
    <3>4. result' \in [Ends -> {"run", "ok", "error"}]
      BY <2>1 DEF HandleOpen, Finish, TypeOK
    <3> QED BY <2>1, <3>2, <3>3, <3>4, ReadType DEF HandleOpen, TypeOK
  <2>2. CASE HandleRoutedState(e)
    BY <2>2, ReadType DEF HandleRoutedState, Finish, TypeOK, Phase
  <2>3. CASE HandleDurableState(e)
    BY <2>3, ReadType, FrameFacts DEF HandleDurableState, TypeOK, Phase
  <2>4. CASE HandleLinkState(e)
    <3>1. inbox' \in [Ends -> Seq(Message)] /\ UNCHANGED <<env, installed, cut>>
      BY <2>4, ReadType DEF HandleLinkState
    <3>2. CASE \E approved \in Verdicts(e) : Offer(e, seen[e], approved)
      <4>1. PICK approved \in Verdicts(e) : Offer(e, seen[e], approved)
        BY <3>2
      <4>2. seen[e] \in SUBSET Proposals /\ approved \in SUBSET Proposals
        BY VerdictsType DEF TypeOK
      <4> QED BY <3>1, <4>1, <4>2, OfferType DEF TypeOK
    <3>3. CASE \E approved \in Verdicts(e) : OutOfProposals(e, seen[e], approved)
      <4>1. PICK approved \in Verdicts(e) : OutOfProposals(e, seen[e], approved)
        BY <3>3
      <4>2. seen[e] \in SUBSET Proposals /\ approved \in SUBSET Proposals
        BY VerdictsType DEF TypeOK
      <4> QED BY <3>1, <4>1, <4>2, OutOfProposalsType DEF TypeOK
    <3>4. CASE /\ phase' = [phase EXCEPT ![e] = "waitProposal"]
               /\ UNCHANGED <<attempt, seen, outstanding, pending, outbound, result, offers>>
      BY <3>1, <3>4 DEF TypeOK, Phase
    <3> QED BY <2>4, <3>2, <3>3, <3>4 DEF HandleLinkState
  <2>5. CASE HandleDurablePropose(e)
    BY <2>5, ReadType DEF HandleDurablePropose, TypeOK, Phase
  <2>6. CASE HandleProposal(e)
    <3>1. PICK p \in env.pool[e] :
            /\ Read(e, Propose(p))
            /\ \/ /\ Finish(e, "error")
                  /\ UNCHANGED <<phase, attempt, seen, outstanding, pending, outbound, offers>>
               \/ \E approved \in Verdicts(e) :
                    \/ /\ p \in approved
                       /\ seen' = [seen EXCEPT ![e] = @ \cup {p}]
                       /\ pending' = [pending EXCEPT ![e] = p]
                       /\ phase' = [phase EXCEPT ![e] = "agreed"]
                       /\ outbound' = [outbound EXCEPT ![e] = Frame("LINK_ACCEPT")]
                       /\ UNCHANGED <<attempt, outstanding, result, offers>>
                    \/ Offer(e, seen[e] \cup {p}, approved)
                    \/ OutOfProposals(e, seen[e] \cup {p}, approved)
      BY <2>6 DEF HandleProposal
    <3>2. inbox' \in [Ends -> Seq(Message)] /\ UNCHANGED <<env, installed, cut>>
      BY <3>1, ReadType
    <3>3. p \in Proposals /\ seen[e] \cup {p} \in SUBSET Proposals
      BY DEF TypeOK, SettingType
    <3>4. CASE /\ Finish(e, "error")
               /\ UNCHANGED <<phase, attempt, seen, outstanding, pending, outbound, offers>>
      BY <3>2, <3>4 DEF Finish, TypeOK
    <3>5. ASSUME NEW approved \in Verdicts(e),
                 \/ /\ seen' = [seen EXCEPT ![e] = @ \cup {p}]
                    /\ pending' = [pending EXCEPT ![e] = p]
                    /\ phase' = [phase EXCEPT ![e] = "agreed"]
                    /\ outbound' = [outbound EXCEPT ![e] = Frame("LINK_ACCEPT")]
                    /\ UNCHANGED <<attempt, outstanding, result, offers>>
                 \/ Offer(e, seen[e] \cup {p}, approved)
                 \/ OutOfProposals(e, seen[e] \cup {p}, approved)
          PROVE TypeOK'
      <4>1. approved \in SUBSET Proposals
        BY VerdictsType
      <4>2. CASE Offer(e, seen[e] \cup {p}, approved)
        BY <3>2, <3>3, <4>1, <4>2, OfferType DEF TypeOK
      <4>3. CASE OutOfProposals(e, seen[e] \cup {p}, approved)
        BY <3>2, <3>3, <4>1, <4>3, OutOfProposalsType DEF TypeOK
      <4>4. CASE /\ seen' = [seen EXCEPT ![e] = @ \cup {p}]
                 /\ pending' = [pending EXCEPT ![e] = p]
                 /\ phase' = [phase EXCEPT ![e] = "agreed"]
                 /\ outbound' = [outbound EXCEPT ![e] = Frame("LINK_ACCEPT")]
                 /\ UNCHANGED <<attempt, outstanding, result, offers>>
        BY <3>2, <3>3, <4>4, FrameFacts DEF TypeOK, Phase
      <4> QED BY <3>5, <4>2, <4>3, <4>4
    <3> QED BY <3>1, <3>4, <3>5
  <2>7. CASE HandleAccept(e)
    BY <2>7, ReadType DEF HandleAccept, TypeOK, Phase
  <2>8. CASE HandleDiscard(e)
    BY <2>8, ReadType DEF HandleDiscard, TypeOK
  <2> QED BY <1>1, <2>1, <2>2, <2>3, <2>4, <2>5, <2>6, <2>7, <2>8 DEF Handle
<1>2. ASSUME NEW e \in Ends, Commit(e) PROVE TypeOK'
  BY <1>2 DEF Commit, Finish, TypeOK
<1>3. ASSUME NEW e \in Ends, SendOutbound(e) \/ SendFails(e) PROVE TypeOK'
  <2>1. Append(inbox[Other(e)], outbound[e]) \in Seq(Message)
    BY EndsFacts, QueueFacts DEF TypeOK
  <2>2. outbound' \in [Ends -> Message]
    BY <1>3, FrameFacts DEF SendOutbound, SendFails, TypeOK
  <2>3. inbox' \in [Ends -> Seq(Message)]
    <3>1. inbox' = inbox \/ inbox' = [inbox EXCEPT ![Other(e)] = Append(inbox[Other(e)], outbound[e])]
      BY <1>3 DEF SendOutbound, SendFails
    <3> QED BY <2>1, <3>1 DEF TypeOK
  <2>4. result' \in [Ends -> {"run", "ok", "error"}]
    BY <1>3 DEF SendOutbound, SendFails, Finish, TypeOK
  <2>5. UNCHANGED <<env, phase, attempt, seen, outstanding, pending, installed, cut, offers>>
    BY <1>3 DEF SendOutbound, SendFails
  <2> QED BY <2>2, <2>3, <2>4, <2>5 DEF TypeOK
<1>4. ASSUME NEW e \in Ends,
             ReturnEstablished(e) \/ EndOperational(e) \/ ReadError(e) \/ Timeout(e)
      PROVE TypeOK'
  BY <1>4 DEF ReturnEstablished, EndOperational, ReadError, Timeout, Finish, TypeOK
<1>5. CASE Reset
  BY <1>5 DEF Reset, TypeOK
<1>6. CASE Ended \/ UNCHANGED vars
  BY <1>6 DEF Ended, vars, TypeOK
<1> QED
  BY <1>1, <1>2, <1>3, <1>4, <1>5, <1>6 DEF Next, Progress

\* Engine.Run keeps every variable in its type: attempts never pass
\* maxCounterproposals, and queues hold only frames of the protocol.
THEOREM TypeCorrect == Spec => []TypeOK
BY InitTypeOK, NextTypeOK, PTL DEF Spec

-----------------------------------------------------------------------------
\* The queues only lost frames: each frame left was there, and still at most
\* one of a queue passes the turn.
Shrinks ==
  \A f \in Ends :
    /\ \A k \in 1 .. Len(inbox'[f]) : \E j \in 1 .. Len(inbox[f]) : inbox'[f][k] = inbox[f][j]
    /\ \A k, l \in 1 .. Len(inbox'[f]) : Turn(inbox'[f][k]) /\ Turn(inbox'[f][l]) => k = l

LEMMA ReadShrinks ==
  ASSUME TypeOK, OneTurn, NEW e \in Ends, NEW m, Read(e, m)
  PROVE  /\ Shrinks
         /\ 1 \in 1 .. Len(inbox[e]) /\ m = inbox[e][1]
         /\ Turn(m) => \A f \in Ends : /\ ~Turn(outbound[f])
                                       /\ \A k \in 1 .. Len(inbox'[f]) : ~Turn(inbox'[f][k])
<1> DEFINE s == inbox[e]
<1>1. s \in Seq(Message) /\ s # <<>> /\ m = Head(s)
  BY DEF Read, TypeOK
<1>2. /\ Len(Tail(s)) = Len(s) - 1 /\ Len(s) \in Nat /\ Len(s) >= 1 /\ m = s[1]
      /\ \A k \in 1 .. Len(Tail(s)) : Tail(s)[k] = s[k + 1] /\ k + 1 \in 1 .. Len(s)
  BY <1>1, QueueFacts
<1>3. inbox'[e] = Tail(s) /\ \A f \in Ends : f # e => inbox'[f] = inbox[f]
  BY DEF Read, TypeOK
<1>4. Shrinks
  <2>1. ASSUME NEW f \in Ends
        PROVE  /\ \A k \in 1 .. Len(inbox'[f]) : \E j \in 1 .. Len(inbox[f]) : inbox'[f][k] = inbox[f][j]
               /\ \A k, l \in 1 .. Len(inbox'[f]) : Turn(inbox'[f][k]) /\ Turn(inbox'[f][l]) => k = l
    <3>1. CASE f # e
      BY <3>1, <1>3 DEF OneTurn
    <3>2. CASE f = e
      <4> HIDE DEF s
      <4>1. \A k \in 1 .. Len(inbox'[f]) : inbox'[f][k] = s[k + 1] /\ k + 1 \in 1 .. Len(s)
        BY <3>2, <1>2, <1>3
      <4>2. \A j, l \in 1 .. Len(s) : Turn(s[j]) /\ Turn(s[l]) => j = l
        BY DEF OneTurn, s
      <4>3. ASSUME NEW k \in 1 .. Len(inbox'[f]), NEW l \in 1 .. Len(inbox'[f]),
                   Turn(inbox'[f][k]), Turn(inbox'[f][l])
            PROVE  k = l
        <5>1. k + 1 = l + 1
          BY <4>1, <4>2, <4>3
        <5>2. k \in Nat /\ l \in Nat
          OBVIOUS
        <5> QED BY <5>1, <5>2
      <4>4. s = inbox[f]
        BY <3>2 DEF s
      <4> QED BY <4>1, <4>3, <4>4
    <3> QED BY <3>1, <3>2
  <2> QED BY <2>1 DEF Shrinks
<1>5. ASSUME Turn(m), NEW f \in Ends
      PROVE  ~Turn(outbound[f]) /\ \A k \in 1 .. Len(inbox'[f]) : ~Turn(inbox'[f][k])
  <2>1. 1 \in 1 .. Len(inbox[e]) /\ Turn(inbox[e][1])
    BY <1>2, <1>5
  <2>2. ~Turn(outbound[f])
    BY <2>1 DEF OneTurn
  <2>3. CASE f # e
    BY <2>1, <2>3, <1>3, EndsFacts DEF OneTurn
  <2>4. CASE f = e
    <3>1. ASSUME NEW k \in 1 .. Len(inbox'[f]), Turn(inbox'[f][k]) PROVE FALSE
      <4>1. k + 1 \in 1 .. Len(s) /\ Turn(s[k + 1]) /\ k \in Nat /\ k >= 1
        BY <3>1, <2>4, <1>2, <1>3
      <4>2. k + 1 = 1
        BY <4>1, <2>1 DEF OneTurn
      <4> QED BY <4>1, <4>2
    <3> QED BY <3>1, <2>2
  <2> QED BY <2>2, <2>3, <2>4
<1> QED
  BY <1>2, <1>4, <1>5

\* Losing frames, and writing none that passes the turn, keeps at most one.
LEMMA ShrinkOneTurn ==
  ASSUME OneTurn, Shrinks, \A f \in Ends : Turn(outbound'[f]) => Turn(outbound[f])
  PROVE  /\ OneTurn'
         /\ \A f \in Ends : (\A k \in 1 .. Len(inbox[f]) : ~Turn(inbox[f][k]))
                              => \A k \in 1 .. Len(inbox'[f]) : ~Turn(inbox'[f][k])
<1>1. ASSUME NEW f \in Ends, \A k \in 1 .. Len(inbox[f]) : ~Turn(inbox[f][k]),
             NEW k \in 1 .. Len(inbox'[f])
      PROVE  ~Turn(inbox'[f][k])
  <2>1. PICK j \in 1 .. Len(inbox[f]) : inbox'[f][k] = inbox[f][j]
    BY DEF Shrinks
  <2> QED BY <2>1, <1>1
<1>2. ASSUME NEW e \in Ends, NEW k \in 1 .. Len(inbox'[e]), Turn(inbox'[e][k])
      PROVE  /\ \A f \in Ends : ~Turn(outbound'[f])
             /\ \A l \in 1 .. Len(inbox'[Other(e)]) : ~Turn(inbox'[Other(e)][l])
  <2>1. PICK j \in 1 .. Len(inbox[e]) : Turn(inbox[e][j])
    BY <1>2 DEF Shrinks
  <2>2. /\ \A f \in Ends : ~Turn(outbound[f])
        /\ \A l \in 1 .. Len(inbox[Other(e)]) : ~Turn(inbox[Other(e)][l])
    BY <2>1 DEF OneTurn
  <2> QED BY <1>1, <2>2, EndsFacts
<1>3. ~(Turn(outbound'[Initiator]) /\ Turn(outbound'[Responder]))
  BY EndsFacts DEF OneTurn
<1> QED
  BY <1>1, <1>2, <1>3 DEF OneTurn, Shrinks

\* Losing frames disturbs nothing.
LEMMA ShrinkPreserves ==
  ASSUME TypeOK, TurnInv, Shrinks, UNCHANGED <<phase, outstanding, pending, installed, outbound>>
  PROVE  TurnInv'
<1>1. OneTurn'
  BY ShrinkOneTurn DEF TurnInv
<1>2. ProposalsOutstanding'
  <2>1. ASSUME NEW e \in Ends, NEW k \in 1 .. Len(inbox'[Other(e)])
        PROVE  Offered(e, inbox[Other(e)][k])'
    <3>1. PICK j \in 1 .. Len(inbox[Other(e)]) : inbox'[Other(e)][k] = inbox[Other(e)][j]
      BY <2>1, EndsFacts DEF Shrinks
    <3>2. Offered(e, inbox[Other(e)][j])
      BY DEF TurnInv, ProposalsOutstanding
    <3> QED BY <3>1, <3>2 DEF Offered
  <2>2. ASSUME NEW e \in Ends PROVE Offered(e, outbound[e])'
    BY DEF TurnInv, ProposalsOutstanding, Offered
  <2> QED BY <2>1, <2>2 DEF ProposalsOutstanding
<1>3. AcceptsAwaited'
  BY EndsFacts DEF TurnInv, AcceptsAwaited, Shrinks
<1>4. ValuesMatch'
  BY DEF TurnInv, ValuesMatch, Holds
<1>5. InitiatorFirst'
  BY DEF TurnInv, InitiatorFirst, Shrinks
<1> QED
  BY <1>1, <1>2, <1>3, <1>4, <1>5 DEF TurnInv

\* No frame that passes the turn is left.
NoTurnLeft == \A f \in Ends : ~Turn(outbound[f]) /\ \A k \in 1 .. Len(inbox'[f]) : ~Turn(inbox'[f][k])

\* Steps of an endpoint that has not offered or accepted anything yet.
LEMMA OpeningPreserves ==
  ASSUME TypeOK, TurnInv, Shrinks, NEW e \in Ends, NEW m \in Message, ~Turn(m),
         NEW q \in {"nodeState", "waitProposal", "operational"},
         phase[e] \notin {"waitResponse", "agreed"},
         q = "waitProposal" => e = Responder,
         phase' = [phase EXCEPT ![e] = q], outbound' = [outbound EXCEPT ![e] = m],
         UNCHANGED <<outstanding, pending, installed>>
  PROVE  TurnInv'
<1>1. /\ phase'[e] = q /\ phase'[Other(e)] = phase[Other(e)]
      /\ outbound'[e] = m /\ outbound'[Other(e)] = outbound[Other(e)]
  BY EndsFacts DEF TypeOK
<1>2. \A f \in Ends : Turn(outbound'[f]) => Turn(outbound[f])
  BY <1>1, EndsFacts
<1>3. OneTurn'
  BY <1>2, ShrinkOneTurn DEF TurnInv
<1>4. ASSUME NEW f \in Ends, NEW x, x.type = "LINK_PROPOSE", Offered(f, x)
      PROVE  phase'[f] = "waitResponse" /\ outstanding'[f] = x.p /\ phase'[Other(f)] # "agreed"
  <2>1. phase[f] = "waitResponse" /\ f = Other(e)
    BY <1>4, EndsFacts DEF Offered
  <2> QED BY <1>1, <1>4, <2>1, EndsFacts DEF Offered
<1>5. ProposalsOutstanding'
  <2>1. ASSUME NEW f \in Ends, NEW k \in 1 .. Len(inbox'[Other(f)])
        PROVE  Offered(f, inbox[Other(f)][k])'
    <3>1. PICK j \in 1 .. Len(inbox[Other(f)]) : inbox'[Other(f)][k] = inbox[Other(f)][j]
      BY <2>1, EndsFacts DEF Shrinks
    <3>2. Offered(f, inbox[Other(f)][j])
      BY DEF TurnInv, ProposalsOutstanding
    <3> QED BY <3>1, <3>2, <1>4 DEF Offered
  <2>2. ASSUME NEW f \in Ends PROVE Offered(f, outbound[f])'
    <3>1. CASE f = e
      BY <3>1, <1>1 DEF Offered, Turn
    <3>2. CASE f # e
      <4>1. outbound'[f] = outbound[f] /\ Offered(f, outbound[f])
        BY <3>2, <1>1, EndsFacts DEF TurnInv, ProposalsOutstanding
      <4> QED BY <4>1, <1>4 DEF Offered
    <3> QED BY <3>1, <3>2
  <2> QED BY <2>1, <2>2 DEF ProposalsOutstanding
<1>6. AcceptsAwaited'
  <2>1. ASSUME NEW f \in Ends, outbound'[f].type = "LINK_ACCEPT"
        PROVE  phase'[f] = "agreed" /\ phase'[Other(f)] = "waitResponse"
    BY <2>1, <1>1, EndsFacts DEF TurnInv, AcceptsAwaited, Turn
  <2>2. ASSUME NEW f \in Ends, NEW k \in 1 .. Len(inbox'[f]), inbox'[f][k].type = "LINK_ACCEPT"
        PROVE  installed'[Other(f)] # None /\ phase'[f] = "waitResponse"
    <3>1. PICK j \in 1 .. Len(inbox[f]) : inbox'[f][k] = inbox[f][j]
      BY <2>2 DEF Shrinks
    <3>2. installed[Other(f)] # None /\ phase[f] = "waitResponse"
      BY <2>2, <3>1 DEF TurnInv, AcceptsAwaited
    <3> QED BY <3>2, <1>1, EndsFacts
  <2> QED BY <2>1, <2>2 DEF AcceptsAwaited
<1>7. ValuesMatch'
  <2>1. \A f \in Ends, v \in Proposals : ~Holds(f, v)
    BY EndsFacts DEF TurnInv, ValuesMatch
  <2> QED BY <2>1 DEF ValuesMatch, Holds
<1>8. InitiatorFirst'
  <2>1. CASE phase'[Initiator] \in {"open", "nodeState", "operational"}
    <3>1. phase[Initiator] \in {"open", "nodeState", "operational"}
      <4>1. CASE e = Initiator
        BY <4>1 DEF TurnInv, InitiatorFirst, TypeOK, Phase
      <4>2. CASE e # Initiator
        BY <4>2, <2>1, <1>1, EndsFacts
      <4> QED BY <4>1, <4>2
    <3>2. /\ phase[Responder] \notin {"waitResponse", "agreed"}
          /\ \A f \in Ends : ~Turn(outbound[f]) /\ \A k \in 1 .. Len(inbox[f]) : ~Turn(inbox[f][k])
      BY <3>1 DEF TurnInv, InitiatorFirst
    <3>3. phase'[Responder] \notin {"waitResponse", "agreed"}
      BY <3>2, <1>1, EndsFacts
    <3>4. \A f \in Ends : ~Turn(outbound'[f]) /\ \A k \in 1 .. Len(inbox'[f]) : ~Turn(inbox'[f][k])
      BY <3>2, <1>2, ShrinkOneTurn DEF TurnInv
    <3> QED BY <3>3, <3>4, <2>1 DEF InitiatorFirst
  <2>2. CASE phase'[Initiator] \notin {"open", "nodeState", "operational"}
    BY <2>2, <1>1, EndsFacts DEF TurnInv, InitiatorFirst
  <2> QED BY <2>1, <2>2
<1>9. \A f \in Ends : phase'[f] = "waitResponse" => outstanding'[f] \in Proposals
  BY <1>1, EndsFacts DEF TurnInv
<1> QED
  BY <1>3, <1>5, <1>6, <1>7, <1>8, <1>9 DEF TurnInv

\* An endpoint whose turn it is offers a proposal.
LEMMA OfferPreserves ==
  ASSUME TypeOK, TurnInv, NoTurnLeft, NEW e \in Ends, NEW p \in Proposals,
         pending[e] = None, installed[e] = None, phase[Other(e)] # "agreed",
         e = Responder => phase[Initiator] = "waitResponse",
         outstanding' = [outstanding EXCEPT ![e] = p],
         outbound' = [outbound EXCEPT ![e] = Propose(p)],
         phase' = [phase EXCEPT ![e] = "waitResponse"],
         UNCHANGED <<pending, installed>>
  PROVE  TurnInv'
<1>1. /\ phase'[e] = "waitResponse" /\ phase'[Other(e)] = phase[Other(e)]
      /\ outbound'[e] = Propose(p) /\ outbound'[Other(e)] = outbound[Other(e)]
      /\ outstanding'[e] = p /\ outstanding'[Other(e)] = outstanding[Other(e)]
  BY EndsFacts DEF TypeOK
<1>2. \A f \in Ends : \A k \in 1 .. Len(inbox'[f]) : ~Turn(inbox'[f][k])
  BY DEF NoTurnLeft
<1>3. ~Turn(outbound'[Other(e)])
  BY <1>1, EndsFacts DEF NoTurnLeft
<1>4. OneTurn'
  BY <1>2, <1>3, EndsFacts DEF OneTurn
<1>5. ProposalsOutstanding'
  <2>1. Offered(e, outbound[e])'
    BY <1>1, FrameFacts DEF Offered
  <2>2. Offered(Other(e), outbound[Other(e)])'
    BY <1>3 DEF Offered, Turn
  <2>3. ASSUME NEW f \in Ends, NEW k \in 1 .. Len(inbox'[Other(f)])
        PROVE  Offered(f, inbox[Other(f)][k])'
    BY <1>2, EndsFacts DEF Offered, Turn
  <2>4. ASSUME NEW f \in Ends PROVE Offered(f, outbound[f])'
    BY <2>1, <2>2, EndsFacts
  <2> QED BY <2>3, <2>4 DEF ProposalsOutstanding
<1>6. AcceptsAwaited'
  <2>1. \A f \in Ends : outbound'[f].type # "LINK_ACCEPT"
    BY <1>1, <1>3, FrameFacts, EndsFacts DEF Turn
  <2> QED BY <2>1, <1>2 DEF AcceptsAwaited, Turn
<1>7. ValuesMatch'
  <2>1. \A v \in Proposals : ~Holds(e, v)
    BY NegotiationAssumption DEF Holds
  <2>2. \A v \in Proposals : ~Holds(Other(e), v)
    BY EndsFacts DEF TurnInv, ValuesMatch
  <2> QED BY <2>1, <2>2, EndsFacts DEF ValuesMatch, Holds
<1>8. InitiatorFirst'
  BY <1>1, EndsFacts DEF InitiatorFirst
<1>9. \A f \in Ends : phase'[f] = "waitResponse" => outstanding'[f] \in Proposals
  BY <1>1, EndsFacts DEF TurnInv
<1> QED
  BY <1>4, <1>5, <1>6, <1>7, <1>8, <1>9 DEF TurnInv

\* handleProposal accepts: what it will install is outstanding at the peer.
LEMMA AcceptPreserves ==
  ASSUME TypeOK, TurnInv, NoTurnLeft, NEW e \in Ends, NEW p \in Proposals,
         pending[e] = None, installed[e] = None,
         phase[Other(e)] = "waitResponse", outstanding[Other(e)] = p,
         phase[e] \in {"waitProposal", "waitResponse"},
         pending' = [pending EXCEPT ![e] = p],
         phase' = [phase EXCEPT ![e] = "agreed"],
         outbound' = [outbound EXCEPT ![e] = Frame("LINK_ACCEPT")],
         UNCHANGED <<outstanding, installed>>
  PROVE  TurnInv'
<1>1. /\ phase'[e] = "agreed" /\ phase'[Other(e)] = "waitResponse"
      /\ outbound'[e] = Frame("LINK_ACCEPT") /\ outbound'[Other(e)] = outbound[Other(e)]
      /\ pending'[e] = p /\ pending'[Other(e)] = pending[Other(e)]
  BY EndsFacts DEF TypeOK
<1>2. \A f \in Ends : \A k \in 1 .. Len(inbox'[f]) : ~Turn(inbox'[f][k])
  BY DEF NoTurnLeft
<1>3. ~Turn(outbound'[Other(e)]) /\ outbound'[e].type = "LINK_ACCEPT"
  BY <1>1, EndsFacts, FrameFacts DEF NoTurnLeft
<1>4. OneTurn'
  BY <1>2, <1>3, EndsFacts DEF OneTurn
<1>5. ProposalsOutstanding'
  <2>1. ASSUME NEW f \in Ends PROVE outbound'[f].type # "LINK_PROPOSE"
    BY <1>3, EndsFacts DEF Turn
  <2>2. ASSUME NEW f \in Ends, NEW k \in 1 .. Len(inbox'[Other(f)])
        PROVE  inbox'[Other(f)][k].type # "LINK_PROPOSE"
    BY <1>2, EndsFacts DEF Turn
  <2> QED BY <2>1, <2>2 DEF ProposalsOutstanding, Offered
<1>6. AcceptsAwaited'
  BY <1>1, <1>2, <1>3, EndsFacts DEF AcceptsAwaited, Turn
<1>7. ValuesMatch'
  <2>1. \A v \in Proposals : ~Holds(Other(e), v)
    BY EndsFacts DEF TurnInv, ValuesMatch
  <2>2. \A v \in Proposals : Holds(e, v)' => v = p
    BY <1>1 DEF Holds
  <2>3. \A v \in Proposals : ~Holds(Other(e), v)'
    BY <1>1, <2>1 DEF Holds
  <2> QED BY <1>1, <2>2, <2>3, EndsFacts DEF ValuesMatch
<1>8. InitiatorFirst'
  BY <1>1, EndsFacts DEF InitiatorFirst
<1>9. \A f \in Ends : phase'[f] = "waitResponse" => outstanding'[f] \in Proposals
  BY <1>1, EndsFacts DEF TurnInv
<1> QED
  BY <1>4, <1>5, <1>6, <1>7, <1>8, <1>9 DEF TurnInv

\* LINK_ACCEPT is read: the outstanding proposal is what the peer installed.
LEMMA AcceptedPreserves ==
  ASSUME TypeOK, TurnInv, NEW e \in Ends, HandleAccept(e)
  PROVE  TurnInv'
<1>1. Read(e, Frame("LINK_ACCEPT")) /\ phase[e] = "waitResponse"
  BY DEF HandleAccept
<1>2. /\ 1 \in 1 .. Len(inbox[e]) /\ inbox[e][1].type = "LINK_ACCEPT"
      /\ \A f \in Ends : ~Turn(outbound[f]) /\ \A k \in 1 .. Len(inbox'[f]) : ~Turn(inbox'[f][k])
  BY <1>1, ReadShrinks, FrameFacts DEF TurnInv, Turn
<1>3. installed[Other(e)] # None /\ installed[Other(e)] \in Proposals
  BY <1>2, EndsFacts DEF TurnInv, AcceptsAwaited, TypeOK
<1>4. Holds(Other(e), installed[Other(e)])
  BY <1>3 DEF Holds
<1>5. phase[Other(e)] = "agreed" /\ outstanding[e] = installed[Other(e)]
  BY <1>1, <1>3, <1>4, EndsFacts DEF TurnInv, ValuesMatch
<1>6. \A v \in Proposals : Holds(Other(e), v) => v = outstanding[e]
  BY <1>1, EndsFacts DEF TurnInv, ValuesMatch
<1>7. /\ phase'[e] = "agreed" /\ phase'[Other(e)] = "agreed"
      /\ pending'[e] = outstanding[e] /\ pending'[Other(e)] = pending[Other(e)]
      /\ installed' = installed /\ installed[e] = None
      /\ outbound' = outbound /\ outstanding' = outstanding
  BY <1>1, <1>5, EndsFacts DEF HandleAccept, Read, Idle, TypeOK
<1>8. OneTurn' /\ ProposalsOutstanding' /\ AcceptsAwaited'
  BY <1>2, <1>7, EndsFacts DEF OneTurn, ProposalsOutstanding, Offered, AcceptsAwaited, Turn
<1>9. ValuesMatch'
  <2>1. \A v \in Proposals : Holds(e, v)' => v = outstanding[e]
    BY <1>7 DEF Holds
  <2>2. \A v \in Proposals : Holds(Other(e), v)' => v = outstanding[e]
    BY <1>6, <1>7 DEF Holds
  <2> QED BY <1>7, <2>1, <2>2, EndsFacts DEF ValuesMatch
<1>10. InitiatorFirst' /\ \A f \in Ends : phase'[f] = "waitResponse" => outstanding'[f] \in Proposals
  BY <1>7, EndsFacts DEF InitiatorFirst
<1> QED
  BY <1>8, <1>9, <1>10 DEF TurnInv

\* Installing, or failing to, what was pending.
LEMMA CommitPreserves ==
  ASSUME TypeOK, TurnInv, NEW e \in Ends, Commit(e)
  PROVE  TurnInv'
<1>1. /\ inbox' = inbox /\ outbound' = outbound /\ phase' = phase /\ outstanding' = outstanding
      /\ \A f \in Ends : f # e => pending'[f] = pending[f] /\ installed'[f] = installed[f]
      /\ pending'[e] = None
      /\ installed'[e] = pending[e] \/ installed'[e] = installed[e]
      /\ pending[e] # None
  BY DEF Commit, TypeOK
<1>2. \A f \in Ends, v \in Proposals : Holds(f, v)' => Holds(f, v)
  BY <1>1, NegotiationAssumption DEF Holds
<1>3. ValuesMatch'
  BY <1>1, <1>2, EndsFacts DEF TurnInv, ValuesMatch
<1>4. AcceptsAwaited'
  <2>1. \A f \in Ends : installed[f] # None => installed'[f] # None
    BY <1>1
  <2> QED BY <1>1, <2>1, EndsFacts DEF TurnInv, AcceptsAwaited
<1>5. OneTurn' /\ ProposalsOutstanding' /\ InitiatorFirst'
  BY <1>1 DEF TurnInv, OneTurn, ProposalsOutstanding, Offered, InitiatorFirst
<1> QED
  BY <1>1, <1>3, <1>4, <1>5 DEF TurnInv

\* Writing the outbound frame moves it to the end of the peer's queue.
LEMMA SendPreserves ==
  ASSUME TypeOK, TurnInv, NEW e \in Ends,
         pending[e] = None, outbound[e] # NoFrame,
         outbound[e].type = "LINK_ACCEPT" => installed[e] # None,
         inbox' = [inbox EXCEPT ![Other(e)] = Append(@, outbound[e])],
         outbound' = [outbound EXCEPT ![e] = NoFrame],
         UNCHANGED <<phase, outstanding, pending, installed>>
  PROVE  TurnInv'
<1> DEFINE o == Other(e)
           s == inbox[Other(e)]
           m == outbound[e]
<1>1. o \in Ends /\ o # e /\ Other(o) = e /\ s \in Seq(Message) /\ m \in Message
  BY EndsFacts DEF TypeOK
<1>2. /\ inbox'[o] = Append(s, m) /\ inbox'[e] = inbox[e]
      /\ outbound'[e] = NoFrame /\ outbound'[o] = outbound[o]
  BY <1>1 DEF TypeOK
<1>3. /\ Len(inbox'[o]) = Len(s) + 1 /\ Len(s) \in Nat
      /\ \A k \in 1 .. Len(s) : inbox'[o][k] = s[k]
      /\ inbox'[o][Len(s) + 1] = m
  BY <1>1, <1>2, QueueFacts
<1>4. \A k \in 1 .. Len(inbox'[o]) : (k \in 1 .. Len(s) /\ inbox'[o][k] = s[k])
                                     \/ (k = Len(s) + 1 /\ inbox'[o][k] = m)
  BY <1>3
<1>5. ~Turn(NoFrame) /\ NoFrame.type # "LINK_PROPOSE" /\ NoFrame.type # "LINK_ACCEPT"
  BY FrameFacts DEF Turn
<1>6. Turn(m) => /\ ~Turn(outbound[o])
                 /\ \A k \in 1 .. Len(s) : ~Turn(s[k])
                 /\ \A k \in 1 .. Len(inbox[e]) : ~Turn(inbox[e][k])
  BY <1>1, EndsFacts DEF TurnInv, OneTurn
<1>7. OneTurn'
  <2>1. \A k, l \in 1 .. Len(inbox'[o]) : Turn(inbox'[o][k]) /\ Turn(inbox'[o][l]) => k = l
    <3>1. \A k, l \in 1 .. Len(s) : Turn(s[k]) /\ Turn(s[l]) => k = l
      BY <1>1 DEF TurnInv, OneTurn
    <3> HIDE DEF o, s, m
    <3> QED BY <1>4, <1>6, <3>1
  <2>2. \A k, l \in 1 .. Len(inbox'[e]) : Turn(inbox'[e][k]) /\ Turn(inbox'[e][l]) => k = l
    BY <1>2 DEF TurnInv, OneTurn
  <2>3. ASSUME NEW k \in 1 .. Len(inbox'[o]), Turn(inbox'[o][k])
        PROVE  /\ ~Turn(outbound'[e]) /\ ~Turn(outbound'[o])
               /\ \A l \in 1 .. Len(inbox'[e]) : ~Turn(inbox'[e][l])
    <3>1. CASE k \in 1 .. Len(s) /\ inbox'[o][k] = s[k]
      <4>1. k \in 1 .. Len(inbox[o]) /\ Turn(inbox[o][k])
        BY <2>3, <3>1
      <4>2. ~Turn(outbound[o]) /\ \A l \in 1 .. Len(inbox[e]) : ~Turn(inbox[e][l])
        BY <4>1, <1>1 DEF TurnInv, OneTurn
      <4> QED BY <4>2, <1>2, <1>5
    <3>2. CASE inbox'[o][k] = m
      BY <2>3, <3>2, <1>2, <1>5, <1>6
    <3> QED BY <1>4, <3>1, <3>2
  <2>4. ASSUME NEW k \in 1 .. Len(inbox'[e]), Turn(inbox'[e][k])
        PROVE  /\ ~Turn(outbound'[e]) /\ ~Turn(outbound'[o])
               /\ \A l \in 1 .. Len(inbox'[o]) : ~Turn(inbox'[o][l])
    <3>1. k \in 1 .. Len(inbox[e]) /\ Turn(inbox[e][k])
      BY <2>4, <1>2
    <3>2. ~Turn(outbound[o]) /\ ~Turn(m) /\ \A l \in 1 .. Len(s) : ~Turn(s[l])
      BY <3>1, <1>1 DEF TurnInv, OneTurn
    <3> HIDE DEF o, s, m
    <3> QED BY <3>2, <1>2, <1>4, <1>5
  <2>5. ~(Turn(outbound'[e]) /\ Turn(outbound'[o]))
    BY <1>2, <1>5
  <2>6. \A f \in Ends : f = e \/ f = o
    BY EndsFacts
  <2>7. /\ \A f \in Ends : \A k, l \in 1 .. Len(inbox'[f]) :
             Turn(inbox'[f][k]) /\ Turn(inbox'[f][l]) => k = l
        /\ \A f \in Ends : \A k \in 1 .. Len(inbox'[f]) : Turn(inbox'[f][k]) =>
             /\ \A g \in Ends : ~Turn(outbound'[g])
             /\ \A l \in 1 .. Len(inbox'[Other(f)]) : ~Turn(inbox'[Other(f)][l])
    BY <1>1, <2>1, <2>2, <2>3, <2>4, <2>6
  <2>8. ~(Turn(outbound'[Initiator]) /\ Turn(outbound'[Responder]))
    BY <2>5, <2>6, EndsFacts
  <2> QED BY <2>7, <2>8 DEF OneTurn
<1>8. ProposalsOutstanding'
  <2>1. Offered(e, m) /\ \A k \in 1 .. Len(s) : Offered(e, s[k])
    BY DEF TurnInv, ProposalsOutstanding
  <2>2. ASSUME NEW k \in 1 .. Len(inbox'[o]) PROVE Offered(e, inbox[o][k])'
    <3>1. CASE k \in 1 .. Len(s) /\ inbox'[o][k] = s[k]
      <4>1. Offered(e, s[k])
        BY <2>1, <3>1
      <4> QED BY <3>1, <4>1 DEF Offered
    <3>2. CASE inbox'[o][k] = m
      BY <2>1, <3>2 DEF Offered
    <3> QED BY <1>4, <3>1, <3>2
  <2>3. ASSUME NEW k \in 1 .. Len(inbox'[e]) PROVE Offered(o, inbox[e][k])'
    <3>1. Offered(o, inbox[e][k])
      BY <1>1, <1>2 DEF TurnInv, ProposalsOutstanding
    <3> QED BY <3>1, <1>2 DEF Offered
  <2>4. Offered(e, outbound[e])'
    BY <1>2, <1>5 DEF Offered
  <2>5. Offered(o, outbound[o])'
    <3>1. Offered(o, outbound[o])
      BY <1>1 DEF TurnInv, ProposalsOutstanding
    <3> QED BY <3>1, <1>2 DEF Offered
  <2> QED BY <1>1, <2>2, <2>3, <2>4, <2>5, EndsFacts DEF ProposalsOutstanding
<1>9. AcceptsAwaited'
  <2>1. ASSUME NEW k \in 1 .. Len(inbox'[o]), inbox'[o][k].type = "LINK_ACCEPT"
        PROVE  installed[e] # None /\ phase[o] = "waitResponse"
    <3>1. CASE k \in 1 .. Len(s) /\ inbox'[o][k] = s[k]
      BY <2>1, <3>1, <1>1 DEF TurnInv, AcceptsAwaited
    <3>2. CASE inbox'[o][k] = m
      BY <2>1, <3>2, <1>1 DEF TurnInv, AcceptsAwaited
    <3> QED BY <1>4, <3>1, <3>2
  <2>2. ASSUME NEW k \in 1 .. Len(inbox'[e]), inbox'[e][k].type = "LINK_ACCEPT"
        PROVE  installed[o] # None /\ phase[e] = "waitResponse"
    BY <2>2, <1>2 DEF TurnInv, AcceptsAwaited
  <2>3. outbound'[e].type # "LINK_ACCEPT"
    BY <1>2, <1>5
  <2>4. outbound'[o].type = "LINK_ACCEPT" => phase[o] = "agreed" /\ phase[e] = "waitResponse"
    BY <1>1, <1>2 DEF TurnInv, AcceptsAwaited
  <2> QED BY <1>1, <2>1, <2>2, <2>3, <2>4, EndsFacts DEF AcceptsAwaited
<1>10. ValuesMatch'
  BY DEF TurnInv, ValuesMatch, Holds
<1>11. InitiatorFirst'
  <2>1. ASSUME phase[Initiator] \in {"open", "nodeState", "operational"}
        PROVE  \A f \in Ends : ~Turn(outbound'[f]) /\ \A k \in 1 .. Len(inbox'[f]) : ~Turn(inbox'[f][k])
    <3>1. /\ ~Turn(m) /\ ~Turn(outbound[o])
          /\ \A k \in 1 .. Len(s) : ~Turn(s[k])
          /\ \A k \in 1 .. Len(inbox[e]) : ~Turn(inbox[e][k])
      BY <2>1, <1>1 DEF TurnInv, InitiatorFirst
    <3>2. \A k \in 1 .. Len(inbox'[o]) : ~Turn(inbox'[o][k])
      BY <3>1, <1>4
    <3> QED BY <3>1, <3>2, <1>2, <1>5, EndsFacts
  <2> QED BY <2>1 DEF TurnInv, InitiatorFirst
<1> QED
  BY <1>7, <1>8, <1>9, <1>10, <1>11 DEF TurnInv

-----------------------------------------------------------------------------
\* A running endpoint about to write LINK_ACCEPT has installed, or will first,
\* and an endpoint commits only once.
AcceptBacked ==
  \A e \in Ends :
    /\ outbound[e].type = "LINK_ACCEPT" /\ result[e] = "run" =>
         pending[e] # None \/ installed[e] # None
    /\ pending[e] # None => installed[e] = None

LEMMA AcceptBackedStep ==
  ASSUME TypeOK, AcceptBacked, [Next]_vars
  PROVE  AcceptBacked'
<1> USE DEF AcceptBacked
<1>1. ASSUME NEW e \in Ends, Handle(e) PROVE AcceptBacked'
  <2>1. installed' = installed /\ Idle(e) /\ \A f \in Ends : result'[f] = "run" => result[f] = "run"
    BY <1>1 DEF Handle, HandleOpen, HandleRoutedState, HandleDurableState, HandleLinkState,
         HandleDurablePropose, HandleProposal, HandleAccept, HandleDiscard, Read, Finish, Idle,
         Offer, OutOfProposals, TypeOK
  <2>2. \A f \in Ends : f # e => outbound'[f] = outbound[f] /\ pending'[f] = pending[f]
    BY <1>1 DEF Handle, HandleOpen, HandleRoutedState, HandleDurableState, HandleLinkState,
         HandleDurablePropose, HandleProposal, HandleAccept, HandleDiscard,
         Offer, OutOfProposals, TypeOK
  <2>3. outbound'[e].type = "LINK_ACCEPT" => pending'[e] # None
    <3>1. outbound[e].type # "LINK_ACCEPT"
      BY <2>1, FrameFacts DEF Idle, Turn
    <3>2. CASE HandleOpen(e) \/ HandleDurableState(e)
      BY <3>1, <3>2, FrameFacts DEF HandleOpen, HandleDurableState, TypeOK
    <3>3. CASE HandleRoutedState(e) \/ HandleDurablePropose(e) \/ HandleAccept(e) \/ HandleDiscard(e)
      BY <3>1, <3>3 DEF HandleRoutedState, HandleDurablePropose, HandleAccept, HandleDiscard
    <3>4. ASSUME NEW used, NEW approved, Offer(e, used, approved)
          PROVE  outbound'[e].type = "LINK_PROPOSE"
      BY <3>4, FrameFacts DEF Offer, TypeOK, Propose
    <3>5. ASSUME NEW used, NEW approved, OutOfProposals(e, used, approved)
          PROVE  outbound' = outbound
      BY <3>5 DEF OutOfProposals
    <3>6. CASE HandleLinkState(e)
      BY <3>1, <3>4, <3>5, <3>6 DEF HandleLinkState
    <3>7. CASE HandleProposal(e)
      <4>1. \/ outbound' = outbound \/ outbound'[e].type = "LINK_PROPOSE"
            \/ \E p \in env.pool[e] : pending'[e] = p
        BY <3>4, <3>5, <3>7 DEF HandleProposal, TypeOK
      <4>2. \A p \in env.pool[e] : p # None
        BY NegotiationAssumption DEF TypeOK, SettingType
      <4> QED BY <3>1, <4>1, <4>2
    <3> QED BY <1>1, <3>2, <3>3, <3>6, <3>7 DEF Handle
  <2> QED BY <2>1, <2>2, <2>3 DEF Idle
<1>2. ASSUME NEW e \in Ends, Commit(e) PROVE AcceptBacked'
  BY <1>2 DEF Commit, Finish, TypeOK
<1>3. ASSUME NEW e \in Ends, SendOutbound(e) \/ SendFails(e) PROVE AcceptBacked'
  <2>1. NoFrame.type # "LINK_ACCEPT"
    BY FrameFacts DEF Turn
  <2> QED BY <1>3, <2>1 DEF SendOutbound, SendFails, Finish, TypeOK
<1>4. ASSUME NEW e \in Ends,
             ReturnEstablished(e) \/ EndOperational(e) \/ ReadError(e) \/ Timeout(e)
      PROVE AcceptBacked'
  BY <1>4 DEF ReturnEstablished, EndOperational, ReadError, Timeout, Finish, TypeOK
<1>5. CASE Reset \/ Ended \/ UNCHANGED vars
  BY <1>5 DEF Reset, Ended, vars
<1> QED
  BY <1>1, <1>2, <1>3, <1>4, <1>5 DEF Next, Progress

LEMMA TurnInvStep ==
  ASSUME TypeOK, AcceptBacked, TurnInv, [Next]_vars
  PROVE  TurnInv'
<1> USE DEF Idle
<1>0. OneTurn
  BY DEF TurnInv
<1>1. ASSUME NEW e \in Ends, Handle(e) PROVE TurnInv'
  <2>1. CASE HandleOpen(e)
    <3>1. Shrinks /\ UNCHANGED <<outstanding, pending, installed>>
      BY <2>1, <1>0, ReadShrinks DEF HandleOpen, Read
    <3>2. CASE phase' = phase /\ outbound' = outbound
      BY <3>1, <3>2, ShrinkPreserves
    <3>3. CASE /\ phase' = [phase EXCEPT ![e] = "nodeState"]
               /\ outbound' = [outbound EXCEPT ![e] = Frame("NODE_STATE")]
      <4>1. phase[e] = "open" /\ Frame("NODE_STATE") \in Message /\ ~Turn(Frame("NODE_STATE"))
        BY <2>1, FrameFacts DEF HandleOpen, Turn
      <4> QED BY <3>1, <3>3, <4>1, OpeningPreserves
    <3> QED BY <2>1, <3>2, <3>3 DEF HandleOpen
  <2>2. ASSUME HandleRoutedState(e) \/ HandleDurablePropose(e) PROVE TurnInv'
    <3>1. Shrinks /\ UNCHANGED <<outstanding, pending, installed, outbound>>
      BY <2>2, <1>0, ReadShrinks DEF HandleRoutedState, HandleDurablePropose, Read
    <3>2. CASE phase' = phase
      BY <3>1, <3>2, ShrinkPreserves
    <3>3. CASE phase' = [phase EXCEPT ![e] = "operational"]
      <4>1. phase[e] \notin {"waitResponse", "agreed"} /\ outbound[e] = NoFrame
        BY <2>2 DEF HandleRoutedState, HandleDurablePropose, Read
      <4>2. outbound' = [outbound EXCEPT ![e] = NoFrame] /\ NoFrame \in Message /\ ~Turn(NoFrame)
        BY <3>1, <4>1, FrameFacts DEF TypeOK
      <4> QED BY <3>1, <3>3, <4>1, <4>2, OpeningPreserves
    <3> QED BY <2>2, <3>2, <3>3 DEF HandleRoutedState, HandleDurablePropose
  <2>3. CASE HandleDurableState(e)
    <3>1. Shrinks /\ UNCHANGED <<outstanding, pending, installed>>
      BY <2>3, <1>0, ReadShrinks DEF HandleDurableState, Read
    <3>2. /\ phase[e] = "nodeState" /\ phase' = [phase EXCEPT ![e] = "operational"]
          /\ outbound' = [outbound EXCEPT ![e] = Frame("DURABLE_PROPOSE")]
          /\ Frame("DURABLE_PROPOSE") \in Message /\ ~Turn(Frame("DURABLE_PROPOSE"))
      BY <2>3, FrameFacts DEF HandleDurableState, Turn
    <3> QED BY <3>1, <3>2, OpeningPreserves
  <2>4. CASE HandleLinkState(e)
    <3>1. Shrinks /\ installed' = installed /\ phase[e] = "nodeState"
          /\ outbound[e] = NoFrame /\ pending[e] = None /\ installed[e] = None
      BY <2>4, <1>0, ReadShrinks DEF HandleLinkState, Read
    <3>2. CASE e = Initiator /\ \E approved \in Verdicts(e) : Offer(e, seen[e], approved)
      <4>1. PICK approved \in Verdicts(e) : Offer(e, seen[e], approved)
        BY <3>2
      <4>2. seen[e] \in SUBSET Proposals /\ approved \in SUBSET Proposals
        BY VerdictsType DEF TypeOK
      <4>3. PICK p \in Proposals : /\ outstanding' = [outstanding EXCEPT ![e] = p]
                                   /\ outbound' = [outbound EXCEPT ![e] = Propose(p)]
                                   /\ phase' = [phase EXCEPT ![e] = "waitResponse"]
                                   /\ UNCHANGED <<pending, result>>
        BY <4>1, <4>2, OfferType
      <4>4. /\ phase[Responder] \notin {"waitResponse", "agreed"}
            /\ \A f \in Ends : ~Turn(outbound[f]) /\ \A k \in 1 .. Len(inbox[f]) : ~Turn(inbox[f][k])
        BY <3>1, <3>2 DEF TurnInv, InitiatorFirst
      <4>5. NoTurnLeft
        <5>1. ASSUME NEW f \in Ends, NEW k \in 1 .. Len(inbox'[f]) PROVE ~Turn(inbox'[f][k])
          BY <3>1, <4>4 DEF Shrinks
        <5> QED BY <4>4, <5>1 DEF NoTurnLeft
      <4>6. phase[Other(e)] # "agreed" /\ e # Responder
        BY <3>2, <4>4 DEF Other, Initiator, Responder
      <4> QED BY <3>1, <4>3, <4>5, <4>6, OfferPreserves
    <3>3. CASE \E approved \in Verdicts(e) : OutOfProposals(e, seen[e], approved)
      BY <3>1, <3>3, ShrinkPreserves DEF OutOfProposals
    <3>4. CASE /\ e = Responder
               /\ phase' = [phase EXCEPT ![e] = "waitProposal"]
               /\ UNCHANGED <<attempt, seen, outstanding, pending, outbound, result, offers>>
      <4>1. outbound' = [outbound EXCEPT ![e] = NoFrame] /\ NoFrame \in Message /\ ~Turn(NoFrame)
        BY <3>1, <3>4, FrameFacts DEF TypeOK
      <4> QED BY <3>1, <3>4, <4>1, OpeningPreserves
    <3> QED BY <2>4, <3>2, <3>3, <3>4 DEF HandleLinkState
  <2>5. CASE HandleProposal(e)
    <3>1. PICK p \in env.pool[e] :
            /\ Read(e, Propose(p))
            /\ \/ /\ Finish(e, "error")
                  /\ UNCHANGED <<phase, attempt, seen, outstanding, pending, outbound, offers>>
               \/ \E approved \in Verdicts(e) :
                    \/ /\ p \in approved
                       /\ pending' = [pending EXCEPT ![e] = p]
                       /\ phase' = [phase EXCEPT ![e] = "agreed"]
                       /\ outbound' = [outbound EXCEPT ![e] = Frame("LINK_ACCEPT")]
                       /\ UNCHANGED <<attempt, outstanding, result, offers>>
                    \/ Offer(e, seen[e] \cup {p}, approved)
                    \/ OutOfProposals(e, seen[e] \cup {p}, approved)
      BY <2>5 DEF HandleProposal
    <3>2. p \in Proposals /\ seen[e] \cup {p} \in SUBSET Proposals
      BY NegotiationAssumption DEF TypeOK, SettingType
    <3>3. /\ installed' = installed /\ pending[e] = None /\ installed[e] = None
          /\ phase[e] \in {"waitProposal", "waitResponse"}
      BY <2>5, <3>1 DEF Read, HandleProposal
    <3>4. Turn(Propose(p)) /\ Propose(p).type = "LINK_PROPOSE" /\ Propose(p).p = p
      BY <3>2, FrameFacts DEF Turn
    <3>5. Shrinks /\ NoTurnLeft /\ 1 \in 1 .. Len(inbox[e]) /\ inbox[e][1] = Propose(p)
      BY <3>1, <3>4, <1>0, ReadShrinks DEF NoTurnLeft
    <3>6. phase[Other(e)] = "waitResponse" /\ outstanding[Other(e)] = p
      <4>1. Other(e) \in Ends /\ Other(Other(e)) = e
        BY EndsFacts
      <4>2. Offered(Other(e), inbox[e][1])
        BY <3>5, <4>1 DEF TurnInv, ProposalsOutstanding
      <4> QED BY <3>4, <3>5, <4>2 DEF Offered
    <3>7. CASE UNCHANGED <<phase, attempt, seen, outstanding, pending, outbound, offers>>
      BY <3>3, <3>5, <3>7, ShrinkPreserves
    <3>8. CASE /\ pending' = [pending EXCEPT ![e] = p]
               /\ phase' = [phase EXCEPT ![e] = "agreed"]
               /\ outbound' = [outbound EXCEPT ![e] = Frame("LINK_ACCEPT")]
               /\ outstanding' = outstanding
      BY <3>2, <3>3, <3>5, <3>6, <3>8, AcceptPreserves
    <3>9. ASSUME NEW approved \in Verdicts(e), Offer(e, seen[e] \cup {p}, approved)
          PROVE  TurnInv'
      <4>1. approved \in SUBSET Proposals
        BY VerdictsType
      <4>2. PICK q \in Proposals : /\ outstanding' = [outstanding EXCEPT ![e] = q]
                                   /\ outbound' = [outbound EXCEPT ![e] = Propose(q)]
                                   /\ phase' = [phase EXCEPT ![e] = "waitResponse"]
                                   /\ UNCHANGED <<pending, result>>
        BY <3>2, <3>9, <4>1, OfferType
      <4>3. phase[Other(e)] # "agreed" /\ (e = Responder => phase[Initiator] = "waitResponse")
        BY <3>6 DEF Other, Initiator, Responder
      <4> QED BY <3>3, <3>5, <4>2, <4>3, OfferPreserves
    <3>10. ASSUME NEW approved \in Verdicts(e), OutOfProposals(e, seen[e] \cup {p}, approved)
           PROVE  TurnInv'
      BY <3>3, <3>5, <3>10, ShrinkPreserves DEF OutOfProposals
    <3> QED BY <3>1, <3>7, <3>8, <3>9, <3>10
  <2>6. CASE HandleAccept(e)
    BY <2>6, AcceptedPreserves
  <2>7. CASE HandleDiscard(e)
    <3>1. Shrinks
      BY <2>7, <1>0, ReadShrinks DEF HandleDiscard
    <3> QED BY <2>7, <3>1, ShrinkPreserves DEF HandleDiscard, Read
  <2> QED BY <1>1, <2>1, <2>2, <2>3, <2>4, <2>5, <2>6, <2>7 DEF Handle
<1>2. ASSUME NEW e \in Ends, Commit(e) PROVE TurnInv'
  BY <1>2, CommitPreserves
<1>3. ASSUME NEW e \in Ends, SendOutbound(e) PROVE TurnInv'
  <2>1. outbound[e].type = "LINK_ACCEPT" => installed[e] # None
    BY <1>3 DEF SendOutbound, AcceptBacked
  <2> QED BY <1>3, <2>1, SendPreserves DEF SendOutbound
<1>4. ASSUME NEW e \in Ends, SendFails(e) PROVE TurnInv'
  <2>1. outbound[e].type = "LINK_ACCEPT" => installed[e] # None
    BY <1>4 DEF SendFails, AcceptBacked
  <2>2. CASE inbox' = [inbox EXCEPT ![Other(e)] = Append(@, outbound[e])]
    BY <1>4, <2>1, <2>2, SendPreserves DEF SendFails
  <2>3. CASE inbox' = inbox
    <3>1. /\ phase' = phase /\ outstanding' = outstanding /\ pending' = pending
          /\ installed' = installed /\ outbound' = [outbound EXCEPT ![e] = NoFrame]
      BY <1>4 DEF SendFails
    <3>2. /\ outbound'[e] = NoFrame /\ ~Turn(NoFrame)
          /\ NoFrame.type # "LINK_PROPOSE" /\ NoFrame.type # "LINK_ACCEPT"
          /\ \A f \in Ends : f # e => outbound'[f] = outbound[f]
      BY <3>1, FrameFacts DEF TypeOK, Turn
    <3>3. Shrinks /\ \A f \in Ends : Turn(outbound'[f]) => Turn(outbound[f])
      BY <2>3, <3>2, <1>0 DEF Shrinks, OneTurn
    <3>4. OneTurn'
      BY <3>3, <1>0, ShrinkOneTurn
    <3>5. ProposalsOutstanding'
      <4>1. ASSUME NEW f \in Ends PROVE Offered(f, outbound[f])'
        BY <3>1, <3>2 DEF TurnInv, ProposalsOutstanding, Offered
      <4>2. ASSUME NEW f \in Ends, NEW k \in 1 .. Len(inbox[Other(f)])
            PROVE  Offered(f, inbox[Other(f)][k])'
        BY <2>3, <3>1 DEF TurnInv, ProposalsOutstanding, Offered
      <4> QED BY <2>3, <4>1, <4>2 DEF ProposalsOutstanding
    <3>6. AcceptsAwaited'
      BY <2>3, <3>1, <3>2 DEF TurnInv, AcceptsAwaited
    <3>7. ValuesMatch'
      BY <3>1 DEF TurnInv, ValuesMatch, Holds
    <3>8. InitiatorFirst'
      BY <2>3, <3>1, <3>3 DEF TurnInv, InitiatorFirst
    <3> QED BY <3>1, <3>4, <3>5, <3>6, <3>7, <3>8 DEF TurnInv
  <2> QED BY <1>4, <2>2, <2>3 DEF SendFails
<1>5. ASSUME NEW e \in Ends,
             ReturnEstablished(e) \/ EndOperational(e) \/ ReadError(e) \/ Timeout(e)
      PROVE TurnInv'
  <2>1. UNCHANGED <<phase, outstanding, pending, installed, outbound, inbox>>
    BY <1>5 DEF ReturnEstablished, EndOperational, ReadError, Timeout
  <2>2. Shrinks
    BY <2>1, <1>0 DEF Shrinks, OneTurn
  <2> QED BY <2>1, <2>2, ShrinkPreserves
<1>6. CASE Reset
  <2>1. Shrinks
    BY <1>6 DEF Reset, Shrinks
  <2> QED BY <1>6, <2>1, ShrinkPreserves DEF Reset
<1>7. CASE Ended \/ UNCHANGED vars
  <2>1. UNCHANGED <<phase, outstanding, pending, installed, outbound, inbox>>
    BY <1>7 DEF Ended, vars
  <2>2. Shrinks
    BY <2>1, <1>0 DEF Shrinks, OneTurn
  <2> QED BY <2>1, <2>2, ShrinkPreserves
<1> QED
  BY <1>1, <1>2, <1>3, <1>4, <1>5, <1>6, <1>7 DEF Next, Progress

-----------------------------------------------------------------------------
LEMMA InitInv == Init => TypeOK /\ TurnInv /\ AcceptBacked
<1> SUFFICES ASSUME Init PROVE TypeOK /\ TurnInv /\ AcceptBacked
  OBVIOUS
<1>0. TypeOK
  BY InitTypeOK
<1>1. \A e \in Ends : /\ Len(inbox[e]) = 0 /\ outbound[e].type = "OPEN" /\ phase[e] = "open"
                      /\ pending[e] = None /\ installed[e] = None
  BY FrameFacts DEF Init
<1>2. OneTurn /\ ProposalsOutstanding /\ AcceptsAwaited
  BY <1>1, EndsFacts DEF OneTurn, ProposalsOutstanding, AcceptsAwaited, Offered, Turn
<1>3. ValuesMatch
  BY <1>1 DEF ValuesMatch, Holds
<1>4. InitiatorFirst /\ AcceptBacked
  BY <1>1, EndsFacts DEF InitiatorFirst, AcceptBacked, Turn
<1> QED BY <1>0, <1>1, <1>2, <1>3, <1>4 DEF TurnInv

\* The inductive invariant of a session: turns alternate, so at most one frame
\* decides, and it decides about the proposal its receiver has outstanding.
THEOREM TurnsAlternate == Spec => [](TypeOK /\ TurnInv /\ AcceptBacked)
<1>1. TypeOK /\ TurnInv /\ AcceptBacked /\ [Next]_vars => (TypeOK /\ TurnInv /\ AcceptBacked)'
  BY NextTypeOK, AcceptBackedStep, TurnInvStep
<1> QED BY <1>1, InitInv, PTL DEF Spec

LEMMA InvAgreement ==
  ASSUME TypeOK, TurnInv
  PROVE  Agreement
<1> SUFFICES ASSUME NEW e \in Ends, NEW f \in Ends, installed[e] # None, installed[f] # None
             PROVE  installed[e] = installed[f]
  BY DEF Agreement
<1>1. installed[e] \in Proposals /\ installed[f] \in Proposals
  BY DEF TypeOK
<1>2. Holds(e, installed[e]) /\ Holds(f, installed[f])
  BY DEF Holds
<1>3. CASE f = Other(e)
  BY <1>1, <1>2, <1>3, EndsFacts DEF TurnInv, ValuesMatch
<1> QED BY <1>3, EndsFacts

\* Engine.Run on the two sides never installs two different Links in one
\* session, for any proposals, settings, attempts and faults.
THEOREM AgreementHolds == Spec => []Agreement
<1>1. TypeOK /\ TurnInv /\ AcceptBacked => Agreement
  BY InvAgreement
<1> QED BY <1>1, TurnsAlternate, PTL

LEMMA InvAcceptAfterInstall ==
  ASSUME TypeOK, TurnInv
  PROVE  AcceptAfterInstall
<1> SUFFICES ASSUME NEW e \in Ends, NEW i \in 1 .. Len(inbox[e]), inbox[e][i] = Frame("LINK_ACCEPT")
             PROVE  /\ installed[Other(e)] # None
                    /\ phase[e] = "waitResponse" /\ outstanding[e] = installed[Other(e)]
  BY DEF AcceptAfterInstall
<1>1. installed[Other(e)] # None /\ phase[e] = "waitResponse"
  BY FrameFacts DEF TurnInv, AcceptsAwaited
<1>2. Other(e) \in Ends /\ Other(Other(e)) = e /\ installed[Other(e)] \in Proposals
  BY <1>1, EndsFacts DEF TypeOK
<1>3. Holds(Other(e), installed[Other(e)])
  BY <1>1 DEF Holds
<1>4. outstanding[e] = installed[Other(e)]
  BY <1>1, <1>2, <1>3 DEF TurnInv, ValuesMatch
<1> QED BY <1>1, <1>4

\* A LINK_ACCEPT is only ever in flight after its sender's commit, and its
\* receiver still holds that proposal as outstanding.
THEOREM AcceptAfterInstallHolds == Spec => []AcceptAfterInstall
<1>1. TypeOK /\ TurnInv /\ AcceptBacked => AcceptAfterInstall
  BY InvAcceptAfterInstall
<1> QED BY <1>1, TurnsAlternate, PTL

\* A commit installs the first Link of the session, or the peer's.
LEMMA CommitAgrees ==
  ASSUME TypeOK, TurnInv, AcceptBacked, NEW e \in Ends, Commit(e)
  PROVE  Agreed!Next \/ installed' = installed
<1>1. CASE installed' = [installed EXCEPT ![e] = pending[e]]
  <2>1. pending[e] \in Proposals /\ pending[e] # None /\ Other(e) \in Ends /\ Agreed!Parties = Ends
    BY EndsFacts DEF Commit, TypeOK, Agreed!Parties, Ends, Initiator, Responder
  <2>2. Holds(e, pending[e])
    BY <2>1 DEF Holds
  <2>3. CASE installed[e] = None /\ installed[Other(e)] = None
    <3>1. Agreed!InstallFirst(e, pending[e])
      BY <1>1, <2>1, <2>3, EndsFacts DEF Agreed!InstallFirst
    <3> QED BY <2>1, <3>1 DEF Agreed!Next
  <2>4. CASE installed[e] = None /\ installed[Other(e)] # None
    <3>1. installed[Other(e)] \in Proposals /\ Holds(Other(e), installed[Other(e)])
      BY <2>1, <2>4 DEF TypeOK, Holds
    <3>2. installed[Other(e)] = pending[e]
      BY <2>1, <2>2, <3>1, EndsFacts DEF TurnInv, ValuesMatch
    <3>3. Agreed!InstallSame(e, Other(e))
      BY <1>1, <2>4, <3>2 DEF Agreed!InstallSame
    <3> QED BY <2>1, <3>3 DEF Agreed!Next
  <2>5. installed[e] = None
    BY <2>1 DEF AcceptBacked
  <2> QED BY <2>3, <2>4, <2>5
<1> QED BY <1>1 DEF Commit

LEMMA StepAgrees ==
  ASSUME TypeOK, TurnInv, AcceptBacked, [Next]_vars
  PROVE  [Agreed!Next]_installed
<1>1. ASSUME NEW e \in Ends, Handle(e) PROVE installed' = installed
  BY <1>1 DEF Handle, HandleOpen, HandleRoutedState, HandleDurableState, HandleLinkState,
       HandleDurablePropose, HandleProposal, HandleAccept, HandleDiscard, Read
<1>2. ASSUME NEW e \in Ends, Commit(e) PROVE Agreed!Next \/ installed' = installed
  BY <1>2, CommitAgrees
<1>3. ASSUME NEW e \in Ends,
             \/ SendOutbound(e) \/ SendFails(e) \/ ReturnEstablished(e)
             \/ EndOperational(e) \/ ReadError(e) \/ Timeout(e)
      PROVE installed' = installed
  BY <1>3 DEF SendOutbound, SendFails, ReturnEstablished, EndOperational, ReadError, Timeout
<1>4. CASE Reset \/ Ended \/ UNCHANGED vars
  BY <1>4 DEF Reset, Ended, vars
<1> QED BY <1>1, <1>2, <1>3, <1>4 DEF Next, Progress

\* Engine.Run implements LinkAgreement: every step of a session is a step of
\* the abstract agreement or leaves what is installed alone.
THEOREM ImplementsAgreementHolds == Spec => ImplementsAgreement
<1>1. Init => Agreed!Init
  BY DEF Init, Agreed!Init, Agreed!Parties, Ends, Initiator, Responder
<1>2. TypeOK /\ TurnInv /\ AcceptBacked /\ [Next]_vars => [Agreed!Next]_installed
  BY StepAgrees
<1> QED BY <1>1, <1>2, TurnsAlternate, PTL DEF Spec, ImplementsAgreement, Agreed!Spec
-----------------------------------------------------------------------------
\* A proposal not yet read is the session's newest offer, and new to its reader.
NewestOffer(e, m) ==
  m.type = "LINK_PROPOSE" =>
    /\ offers # <<>> /\ offers[Len(offers)] = <<e, m.p>>
    /\ m.p \notin seen[Other(e)]

\* Both ends have seen every offer, but for the newest one of the other end,
\* and nothing else.
OffersRecorded ==
  \A e \in Ends :
    /\ \A i \in 1 .. Len(offers) :
         offers[i][2] \in seen[e] \/ (i = Len(offers) /\ offers[i][1] = Other(e))
    /\ \A p \in seen[e] : \E i \in 1 .. Len(offers) : offers[i][2] = p

OfferInv ==
  /\ OffersAlternateWithoutRepeat /\ OffersRecorded
  /\ phase[Initiator] \in {"open", "nodeState"} => offers = <<>>
  /\ \A e \in Ends :
       /\ NewestOffer(e, outbound[e])
       /\ \A k \in 1 .. Len(inbox[Other(e)]) : NewestOffer(e, inbox[Other(e)][k])

\* A frame in a queue was there before, or has just been written.
Delivers ==
  \A f \in Ends : \A k \in 1 .. Len(inbox'[f]) :
    \/ inbox'[f][k] = outbound[Other(f)]
    \/ \E j \in 1 .. Len(inbox[f]) : inbox'[f][k] = inbox[f][j]

\* Steps that make no offer and note none.
LEMMA OffersKept ==
  ASSUME TypeOK, OfferInv, Delivers, UNCHANGED <<offers, seen>>,
         phase'[Initiator] \in {"open", "nodeState"} => phase[Initiator] \in {"open", "nodeState"},
         \A f \in Ends : outbound'[f] = outbound[f] \/ outbound'[f].type # "LINK_PROPOSE"
  PROVE  OfferInv'
<1>1. OffersAlternateWithoutRepeat' /\ OffersRecorded'
  BY DEF OfferInv, OffersAlternateWithoutRepeat, OffersRecorded
<1>2. ASSUME NEW e \in Ends PROVE NewestOffer(e, outbound[e])'
  BY DEF OfferInv, NewestOffer
<1>3. ASSUME NEW e \in Ends, NEW k \in 1 .. Len(inbox'[Other(e)])
      PROVE  NewestOffer(e, inbox[Other(e)][k])'
  <2>1. Other(e) \in Ends /\ Other(Other(e)) = e
    BY EndsFacts
  <2>2. NewestOffer(e, inbox'[Other(e)][k])
    <3>1. CASE inbox'[Other(e)][k] = outbound[e]
      BY <3>1 DEF OfferInv
    <3>2. CASE \E j \in 1 .. Len(inbox[Other(e)]) : inbox'[Other(e)][k] = inbox[Other(e)][j]
      BY <3>2 DEF OfferInv
    <3> QED BY <2>1, <3>1, <3>2 DEF Delivers
  <2> QED BY <2>2 DEF NewestOffer
<1> QED BY <1>1, <1>2, <1>3 DEF OfferInv

\* No proposal is in flight or about to be written after the step.
NoProposalLeft ==
  \A f \in Ends : /\ outbound'[f].type # "LINK_PROPOSE"
                  /\ \A k \in 1 .. Len(inbox'[f]) : inbox'[f][k].type # "LINK_PROPOSE"

\* An endpoint notes the newest offer and makes none of its own.
LEMMA OfferNoted ==
  ASSUME TypeOK, OfferInv, NoProposalLeft, offers' = offers, NEW e \in Ends, NEW p \in Proposals,
         offers # <<>>, offers[Len(offers)] = <<Other(e), p>>,
         seen' = [seen EXCEPT ![e] = seen[e] \cup {p}],
         phase'[Initiator] \in {"open", "nodeState"} => phase[Initiator] \in {"open", "nodeState"}
  PROVE  OfferInv'
<1>1. OffersAlternateWithoutRepeat'
  BY DEF OfferInv, OffersAlternateWithoutRepeat
<1>2. Len(offers) \in 1 .. Len(offers) /\ offers[Len(offers)][2] = p
  BY DEF TypeOK
<1>3. seen'[e] = seen[e] \cup {p} /\ \A f \in Ends : f # e => seen'[f] = seen[f]
  BY DEF TypeOK
<1>4. OffersRecorded'
  <2>1. ASSUME NEW f \in Ends, NEW i \in 1 .. Len(offers)
        PROVE  offers[i][2] \in seen'[f] \/ (i = Len(offers) /\ offers[i][1] = Other(f))
    BY <1>3 DEF OfferInv, OffersRecorded
  <2>2. ASSUME NEW f \in Ends, NEW q \in seen'[f]
        PROVE  \E i \in 1 .. Len(offers) : offers[i][2] = q
    BY <1>2, <1>3 DEF OfferInv, OffersRecorded
  <2> QED BY <2>1, <2>2 DEF OffersRecorded
<1>5. ASSUME NEW f \in Ends
      PROVE  /\ NewestOffer(f, outbound[f])'
             /\ \A k \in 1 .. Len(inbox'[Other(f)]) : NewestOffer(f, inbox[Other(f)][k])'
  BY EndsFacts DEF NoProposalLeft, NewestOffer
<1> QED BY <1>1, <1>4, <1>5 DEF OfferInv

LEMMA AppendFacts ==
  ASSUME NEW S, NEW s \in Seq(S), NEW x \in S
  PROVE  /\ Len(s) \in Nat /\ Len(Append(s, x)) = Len(s) + 1 /\ Append(s, x) # <<>>
         /\ Append(s, x)[Len(s) + 1] = x
         /\ \A i \in 1 .. Len(s) : Append(s, x)[i] = s[i]
  OBVIOUS

\* An endpoint whose turn it is offers a proposal neither end has seen.
LEMMA OfferMade ==
  ASSUME TypeOK, OfferInv, NoTurnLeft, NEW e \in Ends, NEW used \in SUBSET Proposals,
         NEW approved \in SUBSET Proposals, Offer(e, used, approved),
         seen[e] \subseteq used,
         \A i \in 1 .. Len(offers) : offers[i][2] \in used,
         \A p \in used : \E i \in 1 .. Len(offers) : offers[i][2] = p,
         \/ offers = <<>> /\ e = Initiator
         \/ offers # <<>> /\ offers[Len(offers)][1] = Other(e),
         e = Responder => phase[Initiator] = "waitResponse"
  PROVE  OfferInv'
<1> DEFINE n == Len(offers)
<1>1. PICK q \in Proposals : /\ q \notin used
                             /\ seen' = [seen EXCEPT ![e] = used \cup {q}]
                             /\ outbound' = [outbound EXCEPT ![e] = Propose(q)]
                             /\ phase' = [phase EXCEPT ![e] = "waitResponse"]
                             /\ offers' = Append(offers, <<e, q>>)
  <2>1. PICK i \in Candidates(e, used, approved) :
          /\ seen' = [seen EXCEPT ![e] = used \cup {env.derive[e][i]}]
          /\ outbound' = [outbound EXCEPT ![e] = Propose(env.derive[e][i])]
          /\ phase' = [phase EXCEPT ![e] = "waitResponse"]
          /\ offers' = Append(offers, <<e, env.derive[e][i]>>)
    BY DEF Offer
  <2>2. env.derive[e][i] \in Proposals /\ env.derive[e][i] \notin used
    BY NegotiationAssumption DEF Candidates, TypeOK, SettingType
  <2> QED BY <2>1, <2>2
<1>2. /\ offers \in Seq(Ends \X Proposals) /\ <<e, q>> \in Ends \X Proposals /\ n \in Nat
      /\ Len(offers') = n + 1 /\ offers' # <<>> /\ offers'[n + 1] = <<e, q>>
      /\ \A i \in 1 .. n : offers'[i] = offers[i]
  <2>1. offers \in Seq(Ends \X Proposals) /\ <<e, q>> \in Ends \X Proposals
    BY DEF TypeOK
  <2> QED BY <1>1, <2>1, AppendFacts
<1>3. /\ seen'[e] = used \cup {q} /\ \A f \in Ends : f # e => seen'[f] = seen[f]
      /\ Other(e) \in Ends /\ Other(e) # e /\ Other(Other(e)) = e
  BY <1>1, EndsFacts DEF TypeOK
<1> HIDE DEF n
<1>4. \A i \in 1 .. n + 1 : i \in 1 .. n \/ i = n + 1
  BY <1>2
<1>5. OffersAlternateWithoutRepeat'
  <2>1. e = (IF (n + 1) % 2 = 1 THEN Initiator ELSE Responder)
    <3>1. CASE offers = <<>> /\ e = Initiator
      BY <3>1 DEF n
    <3>2. CASE offers # <<>> /\ offers[n][1] = Other(e)
      <4>1. n \in 1 .. n
        BY <1>2, <3>2 DEF n
      <4>2. Other(e) = (IF n % 2 = 1 THEN Initiator ELSE Responder)
        BY <3>2, <4>1 DEF OfferInv, OffersAlternateWithoutRepeat, n
      <4>3. (n + 1) % 2 = 1 <=> n % 2 # 1
        BY <1>2
      <4> QED BY <4>2, <4>3 DEF Other, Ends, Initiator, Responder
    <3> QED BY <3>1, <3>2 DEF n
  <2>2. ASSUME NEW i \in 1 .. n + 1 
        PROVE  offers'[i][1] = (IF i % 2 = 1 THEN Initiator ELSE Responder)
    <3>1. CASE i \in 1 .. n
      BY <1>2, <3>1 DEF OfferInv, OffersAlternateWithoutRepeat, n
    <3>2. CASE i = n + 1
      BY <1>2, <2>1, <3>2
    <3> QED BY <1>4, <3>1, <3>2
  <2>3. ASSUME NEW i \in 1 .. n + 1, NEW j \in 1 .. n + 1, i # j
        PROVE  offers'[i][2] # offers'[j][2]
    <3>1. CASE i \in 1 .. n /\ j \in 1 .. n
      BY <1>2, <2>3, <3>1 DEF OfferInv, OffersAlternateWithoutRepeat, n
    <3>2. CASE i = n + 1 /\ j \in 1 .. n
      BY <1>1, <1>2, <3>2 DEF n
    <3>3. CASE j = n + 1 /\ i \in 1 .. n
      BY <1>1, <1>2, <3>3 DEF n
    <3> QED BY <1>4, <2>3, <3>1, <3>2, <3>3
  <2> QED BY <1>2, <2>2, <2>3 DEF OffersAlternateWithoutRepeat
<1>6. q \notin seen[Other(e)]
  <2>1. ASSUME q \in seen[Other(e)] PROVE FALSE
    <3>1. PICK i \in 1 .. Len(offers) : offers[i][2] = q
      BY <1>3, <2>1 DEF OfferInv, OffersRecorded
    <3> QED BY <1>1, <3>1
  <2> QED BY <2>1
<1>7. OffersRecorded'
  <2>1. ASSUME NEW f \in Ends, NEW i \in 1 .. n + 1
        PROVE  offers'[i][2] \in seen'[f] \/ (i = n + 1 /\ offers'[i][1] = Other(f))
    <3>1. CASE f = e
      <4>1. CASE i = n + 1
        BY <1>2, <1>3, <3>1, <4>1
      <4>2. CASE i \in 1 .. n
        BY <1>2, <1>3, <3>1, <4>2 DEF n
      <4> QED BY <1>4, <4>1, <4>2
    <3>2. CASE f = Other(e) /\ i = n + 1
      BY <1>2, <1>3, <3>2
    <3>3. CASE f = Other(e) /\ i \in 1 .. n
      <4>1. offers[i][1] # Other(f) \/ i # n
        <5>1. offers # <<>>
          BY <1>2, <3>3 DEF n
        <5> QED BY <1>3, <3>3, <5>1 DEF n
      <4>2. offers[i][2] \in seen[f]
        BY <3>3, <4>1 DEF OfferInv, OffersRecorded, n
      <4> QED BY <1>2, <1>3, <3>3, <4>2
    <3> QED BY <1>4, <3>1, <3>2, <3>3, EndsFacts
  <2>2. ASSUME NEW f \in Ends, NEW p \in seen'[f]
        PROVE  \E i \in 1 .. n + 1 : offers'[i][2] = p
    <3>1. CASE p = q
      <4>1. n + 1 \in 1 .. n + 1 /\ offers'[n + 1][2] = q
        BY <1>2
      <4> QED BY <3>1, <4>1
    <3>2. CASE p # q
      <4>1. p \in used \/ p \in seen[f]
        BY <1>3, <3>2
      <4>2. PICK i \in 1 .. n : offers[i][2] = p
        BY <4>1 DEF OfferInv, OffersRecorded, n
      <4>3. i \in 1 .. n + 1 /\ offers'[i][2] = p
        BY <1>2, <4>2
      <4> QED BY <4>3
    <3> QED BY <3>1, <3>2
  <2> QED BY <1>2, <2>1, <2>2 DEF OffersRecorded
<1>8. phase'[Initiator] \notin {"open", "nodeState"}
  BY <1>1 DEF TypeOK, Ends, Initiator, Responder
<1>9. ASSUME NEW f \in Ends PROVE NewestOffer(f, outbound[f])'
  <2>1. CASE f = e
    <3>1. outbound'[f] = Propose(q) /\ Propose(q).p = q /\ q \notin seen'[Other(f)]
      BY <1>1, <1>3, <1>6, <2>1, FrameFacts DEF TypeOK
    <3> QED BY <1>2, <2>1, <3>1 DEF NewestOffer
  <2>2. CASE f # e
    <3>1. outbound'[f].type # "LINK_PROPOSE"
      BY <1>1, <2>2 DEF NoTurnLeft, Turn, TypeOK
    <3> QED BY <3>1 DEF NewestOffer
  <2> QED BY <2>1, <2>2
<1>10. ASSUME NEW f \in Ends, NEW k \in 1 .. Len(inbox'[Other(f)])
       PROVE  NewestOffer(f, inbox[Other(f)][k])'
  BY EndsFacts DEF NoTurnLeft, Turn, NewestOffer
<1> QED BY <1>5, <1>7, <1>8, <1>9, <1>10 DEF OfferInv

\* Reading a proposal: it is the newest offer, new to its reader, and no other
\* frame that passes the turn is left.
LEMMA ProposalRead ==
  ASSUME TypeOK, TurnInv, OfferInv, NEW e \in Ends, NEW p \in Proposals, Read(e, Propose(p))
  PROVE  /\ Shrinks /\ NoTurnLeft /\ p \notin seen[e]
         /\ offers # <<>> /\ offers[Len(offers)] = <<Other(e), p>>
         /\ phase[Other(e)] = "waitResponse" /\ outstanding[Other(e)] = p
<1>1. Turn(Propose(p)) /\ Propose(p).type = "LINK_PROPOSE" /\ Propose(p).p = p
  BY FrameFacts DEF Turn
<1>2. Shrinks /\ NoTurnLeft /\ 1 \in 1 .. Len(inbox[e]) /\ inbox[e][1] = Propose(p)
  BY <1>1, ReadShrinks DEF NoTurnLeft, TurnInv
<1>3. Other(e) \in Ends /\ Other(Other(e)) = e
  BY EndsFacts
<1>4. NewestOffer(Other(e), inbox[e][1])
  BY <1>2, <1>3 DEF OfferInv
<1>5. Offered(Other(e), inbox[e][1])
  BY <1>2, <1>3 DEF TurnInv, ProposalsOutstanding
<1> QED BY <1>1, <1>2, <1>3, <1>4, <1>5 DEF NewestOffer, Offered

\* A frame read or lost adds none.
LEMMA ShrinksDelivers == Shrinks => Delivers
BY DEF Shrinks, Delivers

\* What the newest offer adds to seen is an offer, and with it every offer is seen.
LEMMA NotedOffers ==
  ASSUME TypeOK, OfferInv, NEW e \in Ends, NEW p \in Proposals,
         offers # <<>>, offers[Len(offers)] = <<Other(e), p>>
  PROVE  /\ \A i \in 1 .. Len(offers) : offers[i][2] \in seen[e] \cup {p}
         /\ \A q \in seen[e] \cup {p} : \E i \in 1 .. Len(offers) : offers[i][2] = q
<1>1. Len(offers) \in 1 .. Len(offers) /\ offers[Len(offers)][2] = p
  BY DEF TypeOK
<1> QED BY <1>1 DEF OfferInv, OffersRecorded

LEMMA OfferInvHandles ==
  ASSUME TypeOK, TurnInv, OfferInv, NEW e \in Ends, Handle(e)
  PROVE  OfferInv'
<1>0. OneTurn
  BY DEF TurnInv
<1>1. CASE \/ HandleOpen(e) \/ HandleRoutedState(e) \/ HandleDurableState(e)
           \/ HandleDurablePropose(e) \/ HandleAccept(e) \/ HandleDiscard(e)
  <2>1. Delivers
    BY <1>0, <1>1, ReadShrinks, ShrinksDelivers DEF HandleOpen, HandleRoutedState, HandleDurableState,
       HandleDurablePropose, HandleAccept, HandleDiscard
  <2>2. UNCHANGED <<offers, seen>>
    BY <1>1 DEF HandleOpen, HandleRoutedState, HandleDurableState,
       HandleDurablePropose, HandleAccept, HandleDiscard
  <2>3. phase'[Initiator] \in {"open", "nodeState"} => phase[Initiator] \in {"open", "nodeState"}
    BY <1>1, EndsFacts DEF HandleOpen, HandleRoutedState, HandleDurableState,
       HandleDurablePropose, HandleAccept, HandleDiscard, TypeOK
  <2>4. ASSUME NEW f \in Ends PROVE outbound'[f] = outbound[f] \/ outbound'[f].type # "LINK_PROPOSE"
    BY <1>1, FrameFacts DEF HandleOpen, HandleRoutedState, HandleDurableState,
       HandleDurablePropose, HandleAccept, HandleDiscard, TypeOK
  <2> QED BY <2>1, <2>2, <2>3, <2>4, OffersKept
<1>2. CASE HandleLinkState(e)
  <2>1. Shrinks /\ phase[e] = "nodeState"
    BY <1>0, <1>2, ReadShrinks DEF HandleLinkState
  <2>2. CASE e = Initiator /\ \E approved \in Verdicts(e) : Offer(e, seen[e], approved)
    <3>1. PICK approved \in Verdicts(e) : Offer(e, seen[e], approved)
      BY <2>2
    <3>2. seen[e] \in SUBSET Proposals /\ approved \in SUBSET Proposals
      BY VerdictsType DEF TypeOK
    <3>3. offers = <<>> /\ Len(offers) = 0 /\ e # Responder
      BY <2>1, <2>2, EndsFacts DEF OfferInv
    <3>4. \A f \in Ends : ~Turn(outbound[f]) /\ \A k \in 1 .. Len(inbox[f]) : ~Turn(inbox[f][k])
      BY <2>1, <2>2 DEF TurnInv, InitiatorFirst
    <3>5. NoTurnLeft
      <4>1. ASSUME NEW f \in Ends, NEW k \in 1 .. Len(inbox'[f]) PROVE ~Turn(inbox'[f][k])
        BY <2>1, <3>4 DEF Shrinks
      <4> QED BY <3>4, <4>1 DEF NoTurnLeft
    <3>6. /\ \A i \in 1 .. Len(offers) : offers[i][2] \in seen[e]
          /\ \A p \in seen[e] : \E i \in 1 .. Len(offers) : offers[i][2] = p
      BY <3>3 DEF OfferInv, OffersRecorded
    <3> QED BY <2>2, <3>1, <3>2, <3>3, <3>5, <3>6, OfferMade
  <2>3. CASE \E approved \in Verdicts(e) : OutOfProposals(e, seen[e], approved)
    <3>1. UNCHANGED <<offers, seen, phase, outbound>>
      BY <2>3 DEF OutOfProposals, TypeOK
    <3> QED BY <2>1, <3>1, ShrinksDelivers, OffersKept
  <2>4. CASE /\ e = Responder
             /\ phase' = [phase EXCEPT ![e] = "waitProposal"]
             /\ UNCHANGED <<seen, outbound, offers>>
    <3>1. phase'[Initiator] = phase[Initiator]
      BY <2>4, EndsFacts DEF TypeOK
    <3> QED BY <2>1, <2>4, <3>1, ShrinksDelivers, OffersKept
  <2> QED BY <1>2, <2>2, <2>3, <2>4 DEF HandleLinkState
<1>3. CASE HandleProposal(e)
  <2>1. PICK p \in env.pool[e] :
          /\ Read(e, Propose(p))
          /\ \/ p \in seen[e]
             \/ \E approved \in Verdicts(e) :
                  \/ /\ seen' = [seen EXCEPT ![e] = @ \cup {p}]
                     /\ phase' = [phase EXCEPT ![e] = "agreed"]
                     /\ outbound' = [outbound EXCEPT ![e] = Frame("LINK_ACCEPT")]
                     /\ UNCHANGED offers
                  \/ Offer(e, seen[e] \cup {p}, approved)
                  \/ OutOfProposals(e, seen[e] \cup {p}, approved)
    BY <1>3 DEF HandleProposal
  <2>2. p \in Proposals /\ seen[e] \cup {p} \in SUBSET Proposals
    BY NegotiationAssumption DEF TypeOK, SettingType
  <2>3. /\ Shrinks /\ NoTurnLeft /\ p \notin seen[e]
        /\ offers # <<>> /\ offers[Len(offers)] = <<Other(e), p>>
        /\ phase[Other(e)] = "waitResponse"
    BY <2>1, <2>2, ProposalRead
  <2>4. PICK approved \in Verdicts(e) :
          \/ /\ seen' = [seen EXCEPT ![e] = @ \cup {p}]
             /\ phase' = [phase EXCEPT ![e] = "agreed"]
             /\ outbound' = [outbound EXCEPT ![e] = Frame("LINK_ACCEPT")]
             /\ UNCHANGED offers
          \/ Offer(e, seen[e] \cup {p}, approved)
          \/ OutOfProposals(e, seen[e] \cup {p}, approved)
    BY <2>1, <2>3
  <2>5. CASE Offer(e, seen[e] \cup {p}, approved)
    <3>1. approved \in SUBSET Proposals
      BY VerdictsType
    <3>2. e = Responder => phase[Initiator] = "waitResponse"
      BY <2>3 DEF Other, Initiator, Responder
    <3>3. offers[Len(offers)][1] = Other(e)
      BY <2>3
    <3> QED BY <2>2, <2>3, <2>5, <3>1, <3>2, <3>3, NotedOffers, OfferMade
  <2>6. CASE \/ OutOfProposals(e, seen[e] \cup {p}, approved)
             \/ /\ seen' = [seen EXCEPT ![e] = @ \cup {p}]
                /\ phase' = [phase EXCEPT ![e] = "agreed"]
                /\ outbound' = [outbound EXCEPT ![e] = Frame("LINK_ACCEPT")]
                /\ UNCHANGED offers
    <3>1. seen' = [seen EXCEPT ![e] = seen[e] \cup {p}] /\ offers' = offers
      BY <2>6 DEF OutOfProposals, TypeOK
    <3>2. phase'[Initiator] \in {"open", "nodeState"} => phase[Initiator] \in {"open", "nodeState"}
      BY <2>6, EndsFacts DEF OutOfProposals, TypeOK
    <3>3. NoProposalLeft
      <4>1. ASSUME NEW f \in Ends PROVE outbound'[f].type # "LINK_PROPOSE"
        <5>1. outbound'[f] = outbound[f] \/ outbound'[f] = Frame("LINK_ACCEPT")
          BY <2>6 DEF OutOfProposals, TypeOK
        <5>2. outbound[f].type # "LINK_PROPOSE" /\ Frame("LINK_ACCEPT").type # "LINK_PROPOSE"
          BY <2>3, FrameFacts DEF NoTurnLeft, Turn
        <5> QED BY <5>1, <5>2
      <4> QED BY <2>3, <4>1 DEF NoProposalLeft, NoTurnLeft, Turn
    <3> QED BY <2>2, <2>3, <3>1, <3>2, <3>3, OfferNoted
  <2> QED BY <2>4, <2>5, <2>6
<1> QED BY <1>1, <1>2, <1>3 DEF Handle

LEMMA OfferInvStep ==
  ASSUME TypeOK, TurnInv, OfferInv, [Next]_vars
  PROVE  OfferInv'
<1>1. ASSUME NEW e \in Ends, Handle(e) PROVE OfferInv'
  BY <1>1, OfferInvHandles
<1>2. ASSUME NEW e \in Ends, SendOutbound(e) \/ SendFails(e) PROVE OfferInv'
  <2>1. UNCHANGED <<phase, seen, offers>> /\ outbound' = [outbound EXCEPT ![e] = NoFrame]
    BY <1>2 DEF SendOutbound, SendFails
  <2>2. inbox' = inbox \/ inbox' = [inbox EXCEPT ![Other(e)] = Append(inbox[Other(e)], outbound[e])]
    BY <1>2 DEF SendOutbound, SendFails
  <2>3. Other(e) \in Ends /\ Other(Other(e)) = e
    BY EndsFacts
  <2>4. Delivers
    <3>1. ASSUME NEW f \in Ends, NEW k \in 1 .. Len(inbox'[f]), inbox'[f] # inbox[f]
          PROVE  inbox'[f][k] = outbound[Other(f)] \/ \E j \in 1 .. Len(inbox[f]) : inbox'[f][k] = inbox[f][j]
      <4>1. f = Other(e) /\ inbox'[f] = Append(inbox[f], outbound[e])
        <5>1. CASE inbox' = inbox
          BY <3>1, <5>1
        <5>2. CASE inbox' = [inbox EXCEPT ![Other(e)] = Append(inbox[Other(e)], outbound[e])]
          BY <2>3, <3>1, <5>2 DEF TypeOK
        <5> QED BY <2>2, <5>1, <5>2
      <4>2. inbox[f] \in Seq(Message) /\ outbound[e] \in Message
        BY DEF TypeOK
      <4>3. k \in 1 .. Len(inbox[f]) \/ k = Len(inbox[f]) + 1
        <5>1. Len(inbox'[f]) = Len(inbox[f]) + 1 /\ Len(inbox[f]) \in Nat
          BY <4>1, <4>2, QueueFacts
        <5> QED BY <5>1
      <4> QED BY <2>3, <4>1, <4>2, <4>3, QueueFacts
    <3> QED BY <3>1 DEF Delivers
  <2>5. ASSUME NEW f \in Ends PROVE outbound'[f] = outbound[f] \/ outbound'[f].type # "LINK_PROPOSE"
    BY <2>1, FrameFacts DEF TypeOK, Turn
  <2> QED BY <2>1, <2>4, <2>5, OffersKept
<1>3. ASSUME NEW e \in Ends,
             \/ Commit(e) \/ ReturnEstablished(e) \/ EndOperational(e) \/ ReadError(e) \/ Timeout(e)
      PROVE  OfferInv'
  <2>1. UNCHANGED <<phase, seen, offers, outbound, inbox>>
    BY <1>3 DEF Commit, ReturnEstablished, EndOperational, ReadError, Timeout
  <2> QED BY <2>1, OffersKept DEF Delivers
<1>4. CASE Reset
  BY <1>4, OffersKept DEF Reset, Delivers
<1>5. CASE Ended \/ UNCHANGED vars
  BY <1>5, OffersKept DEF Ended, vars, Delivers
<1> QED BY <1>1, <1>2, <1>3, <1>4, <1>5 DEF Next, Progress

LEMMA InitOfferInv == Init => OfferInv
<1> SUFFICES ASSUME Init PROVE OfferInv
  OBVIOUS
<1>1. \A e \in Ends : Len(inbox[e]) = 0 /\ outbound[e].type = "OPEN" /\ seen[e] = {}
  BY FrameFacts DEF Init
<1>2. offers = <<>> /\ Len(offers) = 0
  BY DEF Init
<1> QED BY <1>1, <1>2, EndsFacts DEF OfferInv, OffersAlternateWithoutRepeat, OffersRecorded, NewestOffer

\* The inductive invariant of a negotiation: the two ends share one list of
\* offers, and a proposal read is always the newest and new to its reader, so
\* between two such ends handleProposal never meets a repeated proposal.
THEOREM OffersInvariant == Spec => [](TypeOK /\ TurnInv /\ AcceptBacked /\ OfferInv)
<1>1. Init => TypeOK /\ TurnInv /\ AcceptBacked /\ OfferInv
  BY InitInv, InitOfferInv
<1>2. TypeOK /\ TurnInv /\ AcceptBacked /\ OfferInv /\ [Next]_vars
        => (TypeOK /\ TurnInv /\ AcceptBacked /\ OfferInv)'
  BY NextTypeOK, AcceptBackedStep, TurnInvStep, OfferInvStep
<1> QED BY <1>1, <1>2, PTL DEF Spec

\* nextProposal and handleProposal never let a complete proposal be offered
\* twice in a session, by either end and whatever Config.Accept answers, and
\* the ends offer in turn, the initiator first.
THEOREM OffersAlternateHolds == Spec => []OffersAlternateWithoutRepeat
<1>1. TypeOK /\ TurnInv /\ AcceptBacked /\ OfferInv => OffersAlternateWithoutRepeat
  BY DEF OfferInv
<1> QED BY <1>1, OffersInvariant, PTL

-----------------------------------------------------------------------------
\* The settings ConvergesOnFirstJoint is about.
Calm ==
  /\ ~Faults /\ ~Drift /\ env.kind = "link" /\ env.distinct
  /\ \A e \in Ends : env.loopback[e] /\ env.pool[e] = Proposals
  /\ env.derive[Initiator] = env.derive[Responder]

JointlyFree(p) == \A e \in Ends : p \in env.avail[e]
FirstJoint(p) == \E i \in Joint : env.derive[Initiator][i] = p /\ \A j \in Joint : i <= j

\* An offer is free for its maker.  Only the newest may be free for both, and
\* then it is the first such attempt.
OffersOrdered ==
  \A i \in 1 .. Len(offers) :
    /\ offers[i][2] \in env.avail[offers[i][1]]
    /\ JointlyFree(offers[i][2]) => i = Len(offers) /\ FirstJoint(offers[i][2])

\* nextProposal passes over an attempt only if it is taken or was seen.
AttemptsSpent ==
  \A e \in Ends, i \in 0 .. MaxCounterproposals - 1 :
    i < attempt[e] /\ env.derive[e][i] \in env.avail[e] => env.derive[e][i] \in seen[e]

HeldFirst ==
  \A e \in Ends : /\ pending[e] # None => FirstJoint(pending[e])
                  /\ installed[e] # None => FirstJoint(installed[e])

\* The frames e has yet to read, the one its peer is about to write included.
Stream(e) == IF outbound[Other(e)] = NoFrame THEN inbox[e] ELSE Append(inbox[e], outbound[Other(e)])

At(p, q, s, t) ==
  /\ phase[Initiator] = p /\ phase[Responder] = q
  /\ Stream(Initiator) = s /\ Stream(Responder) = t

OpenFrame == Frame("OPEN")
StateFrame == Frame("NODE_STATE")
AcceptFrame == Frame("LINK_ACCEPT")
OfferFrame(e) == Propose(outstanding[e])

\* The points of an undisturbed session: where each end waits and what it has
\* yet to read.  Until both have agreed, some frame is under way.
Course ==
  \/ At("open", "open", <<OpenFrame>>, <<OpenFrame>>)
  \/ At("nodeState", "open", <<>>, <<OpenFrame, StateFrame>>)
  \/ At("open", "nodeState", <<OpenFrame, StateFrame>>, <<>>)
  \/ At("nodeState", "nodeState", <<StateFrame>>, <<StateFrame>>)
  \/ At("nodeState", "waitProposal", <<StateFrame>>, <<>>)
  \/ At("waitResponse", "nodeState", <<>>, <<StateFrame, OfferFrame(Initiator)>>)
  \/ At("waitResponse", "waitProposal", <<>>, <<OfferFrame(Initiator)>>)
  \/ At("waitResponse", "waitResponse", <<>>, <<OfferFrame(Initiator)>>)
  \/ At("waitResponse", "waitResponse", <<OfferFrame(Responder)>>, <<>>)
  \/ At("agreed", "waitResponse", <<>>, <<AcceptFrame>>)
  \/ At("waitResponse", "agreed", <<AcceptFrame>>, <<>>)
  \/ At("agreed", "agreed", <<>>, <<>>)

Undisturbed ==
  \A e \in Ends :
    /\ result[e] # "error"
    /\ result[e] = "ok" => installed[e] # None /\ outbound[e] = NoFrame
    /\ phase[e] = "agreed" => pending[e] # None \/ installed[e] # None

CalmInv ==
  /\ ~cut /\ OffersOrdered /\ AttemptsSpent /\ HeldFirst
  /\ Joint = {} \/ (Course /\ Undisturbed)

LEMMA SmallSeqs ==
  ASSUME NEW a, NEW b
  PROVE  /\ Head(<<a>>) = a /\ Tail(<<a>>) = <<>> /\ <<a>> # <<>>
         /\ Head(<<a, b>>) = a /\ Tail(<<a, b>>) = <<b>> /\ <<a, b>> # <<>>
         /\ Append(<<>>, a) = <<a>> /\ Append(<<a>>, b) = <<a, b>>
<1>1. Head(<<a>>) = a
  OBVIOUS
<1>2. Tail(<<a>>) = <<>>
  OBVIOUS
<1>3. <<a>> # <<>> /\ <<a, b>> # <<>>
  OBVIOUS
<1>4. Head(<<a, b>>) = a
  OBVIOUS
<1>5. Tail(<<a, b>>) = <<b>>
  OBVIOUS
<1>6. Append(<<>>, a) = <<a>>
  OBVIOUS
<1>7. Append(<<a>>, b) = <<a, b>>
  <2>1. <<a>> \in Seq({a, b}) /\ Len(<<a>>) = 1 /\ <<a>>[1] = a
    OBVIOUS
  <2>2. /\ Append(<<a>>, b) \in Seq({a, b}) /\ Len(Append(<<a>>, b)) = 2
        /\ Append(<<a>>, b)[1] = a /\ Append(<<a>>, b)[2] = b
    BY <2>1
  <2>3. <<a, b>> \in Seq({a, b}) /\ Len(<<a, b>>) = 2 /\ <<a, b>>[1] = a /\ <<a, b>>[2] = b
    OBVIOUS
  <2>4. ASSUME NEW s \in Seq({a, b}), NEW t \in Seq({a, b}), Len(s) = 2, Len(t) = 2,
               s[1] = t[1], s[2] = t[2]
        PROVE  s = t
    <3>1. \A i \in 1 .. Len(s) : s[i] = t[i]
      BY <2>4
    <3> QED BY <2>4, <3>1
  <2> QED BY <2>2, <2>3, <2>4
<1> QED BY <1>1, <1>2, <1>3, <1>4, <1>5, <1>6, <1>7

LEMMA TailAppend ==
  ASSUME NEW s \in Seq(Message), NEW m \in Message, s # <<>>
  PROVE  Append(s, m) # <<>> /\ Head(Append(s, m)) = Head(s) /\ Tail(Append(s, m)) = Append(Tail(s), m)
  OBVIOUS

\* Reading takes the first frame of the reader's stream; the frame the reader
\* is then about to write is the last one of its peer's.
LEMMA StreamRead ==
  ASSUME TypeOK, NEW e \in Ends, NEW m, Read(e, m), NEW x \in Message,
         outbound' = [outbound EXCEPT ![e] = x]
  PROVE  /\ Stream(e) # <<>> /\ m = Head(Stream(e)) /\ Stream(e)' = Tail(Stream(e))
         /\ x = NoFrame => Stream(Other(e))' = Stream(Other(e))
         /\ x # NoFrame => Stream(Other(e))' = Append(Stream(Other(e)), x)
<1>1. /\ Other(e) \in Ends /\ Other(e) # e /\ Other(Other(e)) = e
      /\ outbound'[Other(e)] = outbound[Other(e)] /\ outbound'[e] = x /\ outbound[e] = NoFrame
      /\ inbox'[Other(e)] = inbox[Other(e)] /\ inbox'[e] = Tail(inbox[e])
      /\ inbox[e] # <<>> /\ m = Head(inbox[e]) /\ inbox[e] \in Seq(Message)
      /\ outbound[Other(e)] \in Message
  BY EndsFacts DEF Read, Idle, TypeOK
<1>2. Stream(e) # <<>> /\ m = Head(Stream(e)) /\ Stream(e)' = Tail(Stream(e))
  <2>1. CASE outbound[Other(e)] = NoFrame
    <3>1. Stream(e) = inbox[e] /\ Stream(e)' = Tail(inbox[e])
      BY <1>1, <2>1, Zenon DEF Stream
    <3> QED BY <1>1, <3>1, Zenon
  <2>2. CASE outbound[Other(e)] # NoFrame
    <3> DEFINE y == outbound[Other(e)]
    <3>1. Stream(e) = Append(inbox[e], y) /\ Stream(e)' = Append(Tail(inbox[e]), y)
      BY <1>1, <2>2, Zenon DEF Stream
    <3>2. /\ Append(inbox[e], y) # <<>> /\ Head(Append(inbox[e], y)) = Head(inbox[e])
          /\ Tail(Append(inbox[e], y)) = Append(Tail(inbox[e]), y)
      BY <1>1, TailAppend
    <3> QED BY <1>1, <3>1, <3>2, Zenon
  <2> QED BY <2>1, <2>2
<1> QED BY <1>1, <1>2 DEF Stream

-----------------------------------------------------------------------------
LEMMA CalmTypes ==
  ASSUME TypeOK, Calm, NEW e \in Ends
  PROVE  /\ Verdicts(e) = {env.avail[e]} /\ env.avail[e] \in SUBSET Proposals
         /\ env.derive[e] \in [0 .. MaxCounterproposals - 1 -> Proposals]
         /\ env.derive[e] = env.derive[Initiator]
         /\ attempt[e] \in 0 .. MaxCounterproposals /\ MaxCounterproposals \in Nat
<1>1. env \in SettingType /\ attempt[e] \in 0 .. MaxCounterproposals /\ MaxCounterproposals \in Nat
  BY NegotiationAssumption DEF TypeOK
<1>2. env.avail[e] \in SUBSET Proposals /\ env.derive[e] \in [0 .. MaxCounterproposals - 1 -> Proposals]
  BY <1>1 DEF SettingType
<1>3. env.derive[e] = env.derive[Initiator]
  BY DEF Calm, Ends
<1> QED BY <1>1, <1>2, <1>3 DEF Calm, Verdicts

LEMMA JointFacts ==
  ASSUME TypeOK, Calm, NEW i \in 0 .. MaxCounterproposals - 1
  PROVE  i \in Joint <=> JointlyFree(env.derive[Initiator][i])
BY DEF Joint, JointlyFree, Ends

\* The attempts nextProposal has passed over, or passes over now, hold nothing
\* that both ends could use.
LEMMA PassedOver ==
  ASSUME TypeOK, Calm, AttemptsSpent, NEW e \in Ends, NEW used \in SUBSET Proposals,
         seen[e] \subseteq used, \A p \in used : ~JointlyFree(p),
         NEW j \in 0 .. MaxCounterproposals - 1, j \notin Candidates(e, used, env.avail[e])
  PROVE  /\ j \notin Joint
         /\ env.derive[e][j] \in env.avail[e] => env.derive[e][j] \in used
<1>1. /\ attempt[e] \in 0 .. MaxCounterproposals /\ MaxCounterproposals \in Nat
      /\ env.derive[e] = env.derive[Initiator]
  BY CalmTypes
<1>2. ASSUME env.derive[e][j] \in env.avail[e] PROVE env.derive[e][j] \in used
  <2>1. CASE j < attempt[e]
    BY <1>2, <2>1 DEF AttemptsSpent
  <2>2. CASE j \in attempt[e] .. MaxCounterproposals - 1
    BY <1>2, <2>2 DEF Candidates
  <2> QED BY <1>1, <2>1, <2>2
<1>3. ASSUME j \in Joint PROVE FALSE
  <2>1. JointlyFree(env.derive[e][j])
    BY <1>1, <1>3, JointFacts
  <2>2. env.derive[e][j] \in env.avail[e]
    BY <2>1 DEF JointlyFree
  <2> QED BY <1>2, <2>1, <2>2
<1> QED BY <1>2, <1>3

\* nextProposal offers the first jointly free attempt before any later one.
LEMMA OfferOrdered ==
  ASSUME TypeOK, Calm, OffersOrdered, AttemptsSpent, env' = env, NEW e \in Ends,
         NEW used \in SUBSET Proposals, seen[e] \subseteq used, \A p \in used : ~JointlyFree(p),
         \A i \in 1 .. Len(offers) : offers[i][2] \in used,
         Offer(e, used, env.avail[e])
  PROVE  OffersOrdered' /\ AttemptsSpent'
<1> DEFINE n == Len(offers)
<1>1. PICK m \in Candidates(e, used, env.avail[e]) :
        /\ \A j \in Candidates(e, used, env.avail[e]) : m <= j
        /\ attempt' = [attempt EXCEPT ![e] = m + 1]
        /\ seen' = [seen EXCEPT ![e] = used \cup {env.derive[e][m]}]
        /\ offers' = Append(offers, <<e, env.derive[e][m]>>)
  BY DEF Offer
<1>2. /\ attempt[e] \in 0 .. MaxCounterproposals /\ MaxCounterproposals \in Nat
      /\ env.derive[e] = env.derive[Initiator]
      /\ env.derive[e] \in [0 .. MaxCounterproposals - 1 -> Proposals]
  BY CalmTypes
<1>3. /\ m \in 0 .. MaxCounterproposals - 1 /\ env.derive[e][m] \in Proposals
      /\ env.derive[e][m] \in env.avail[e]
  BY <1>2 DEF Candidates
<1>4. ASSUME NEW j \in 0 .. MaxCounterproposals - 1, j < m
      PROVE  /\ j \notin Joint
             /\ env.derive[e][j] \in env.avail[e] => env.derive[e][j] \in used
  <2>1. j \notin Candidates(e, used, env.avail[e])
    BY <1>1, <1>3, <1>4
  <2> QED BY <2>1, PassedOver
<1>5. JointlyFree(env.derive[e][m]) => FirstJoint(env.derive[e][m])
  <2>1. ASSUME JointlyFree(env.derive[e][m]) PROVE FirstJoint(env.derive[e][m])
    <3>1. m \in Joint
      BY <1>2, <1>3, <2>1, JointFacts
    <3>2. ASSUME NEW j \in Joint PROVE m <= j
      <4>1. j \in 0 .. MaxCounterproposals - 1
        BY DEF Joint
      <4> QED BY <1>3, <1>4, <4>1
    <3> QED BY <1>2, <3>1, <3>2 DEF FirstJoint
  <2> QED BY <2>1
<1>6. /\ n \in Nat /\ Len(offers') = n + 1 /\ offers'[n + 1] = <<e, env.derive[e][m]>>
      /\ \A i \in 1 .. n : offers'[i] = offers[i]
  <2>1. offers \in Seq(Ends \X Proposals) /\ <<e, env.derive[e][m]>> \in Ends \X Proposals
    BY <1>3 DEF TypeOK
  <2> QED BY <1>1, <2>1, AppendFacts
<1>7. Joint' = Joint /\ \A p : (JointlyFree(p)' <=> JointlyFree(p)) /\ (FirstJoint(p)' <=> FirstJoint(p))
  BY DEF Joint, JointlyFree, FirstJoint
<1>8. OffersOrdered'
  <2>1. ASSUME NEW i \in 1 .. n + 1
        PROVE  /\ offers'[i][2] \in env.avail[offers'[i][1]]
               /\ JointlyFree(offers'[i][2]) => i = n + 1 /\ FirstJoint(offers'[i][2])
    <3>1. CASE i = n + 1
      BY <1>3, <1>5, <1>6, <3>1
    <3>2. CASE i \in 1 .. n
      <4>1. offers[i][2] \in env.avail[offers[i][1]] /\ ~JointlyFree(offers[i][2])
        BY <3>2 DEF OffersOrdered
      <4> QED BY <1>6, <3>2, <4>1
    <3> QED BY <1>6, <3>1, <3>2
  <2> QED BY <1>6, <1>7, <2>1 DEF OffersOrdered
<1>9. AttemptsSpent'
  <2>1. ASSUME NEW f \in Ends, NEW i \in 0 .. MaxCounterproposals - 1,
               i < attempt'[f], env.derive[f][i] \in env.avail[f]
        PROVE  env.derive[f][i] \in seen'[f]
    <3>1. CASE f = e
      <4>1. i < m + 1 /\ seen'[e] = used \cup {env.derive[e][m]}
        BY <1>1, <2>1, <3>1 DEF TypeOK
      <4>2. i < m \/ i = m
        BY <1>3, <4>1
      <4> QED BY <1>4, <2>1, <3>1, <4>1, <4>2
    <3>2. CASE f # e
      <4>1. attempt'[f] = attempt[f] /\ seen'[f] = seen[f]
        BY <1>1, <3>2 DEF TypeOK
      <4> QED BY <2>1, <4>1 DEF AttemptsSpent
    <3> QED BY <3>1, <3>2
  <2> QED BY <2>1 DEF AttemptsSpent
<1> QED BY <1>8, <1>9

\* nextProposal gives up only when no attempt is free for both.
LEMMA OutOfProposalsOrdered ==
  ASSUME TypeOK, Calm, OffersOrdered, AttemptsSpent, env' = env, NEW e \in Ends,
         NEW used \in SUBSET Proposals, seen[e] \subseteq used, \A p \in used : ~JointlyFree(p),
         OutOfProposals(e, used, env.avail[e])
  PROVE  OffersOrdered' /\ AttemptsSpent' /\ Joint = {}
<1>1. /\ Candidates(e, used, env.avail[e]) = {}
      /\ attempt' = [attempt EXCEPT ![e] = MaxCounterproposals]
      /\ seen' = [seen EXCEPT ![e] = used] /\ offers' = offers
  BY DEF OutOfProposals
<1>2. \A j \in 0 .. MaxCounterproposals - 1 :
        j \notin Joint /\ (env.derive[e][j] \in env.avail[e] => env.derive[e][j] \in used)
  BY <1>1, PassedOver
<1>3. Joint = {}
  BY <1>2 DEF Joint
<1>4. OffersOrdered'
  BY <1>1 DEF OffersOrdered, JointlyFree, FirstJoint, Joint
<1>5. AttemptsSpent'
  <2>1. ASSUME NEW f \in Ends, NEW i \in 0 .. MaxCounterproposals - 1,
               i < attempt'[f], env.derive[f][i] \in env.avail[f]
        PROVE  env.derive[f][i] \in seen'[f]
    BY <1>1, <1>2, <2>1 DEF AttemptsSpent, TypeOK
  <2> QED BY <2>1 DEF AttemptsSpent
<1> QED BY <1>3, <1>4, <1>5

-----------------------------------------------------------------------------
LEMMA CourseFrames ==
  /\ OpenFrame \in Message /\ OpenFrame.type = "OPEN" /\ OpenFrame # NoFrame
  /\ StateFrame \in Message /\ StateFrame.type = "NODE_STATE" /\ StateFrame # NoFrame
  /\ AcceptFrame \in Message /\ AcceptFrame.type = "LINK_ACCEPT" /\ AcceptFrame # NoFrame
  /\ \A p \in Proposals : /\ Propose(p) \in Message /\ Propose(p).type = "LINK_PROPOSE"
                          /\ Propose(p) # NoFrame
<1>1. NoFrame.type = "none"
  BY FrameFacts DEF NoFrame
<1> QED BY <1>1, FrameFacts DEF OpenFrame, StateFrame, AcceptFrame

LEMMA OtherFacts == Other(Initiator) = Responder /\ Other(Responder) = Initiator
BY DEF Other, Initiator, Responder


\* A step of one end moves the session from one point to the next: e reads the
\* head of its stream, and what it writes joins its peer's.
Steps(e, p, x) ==
  /\ Stream(e) # <<>> /\ Stream(e)' = Tail(Stream(e))
  /\ x = NoFrame => Stream(Other(e))' = Stream(Other(e))
  /\ x # NoFrame => Stream(Other(e))' = Append(Stream(Other(e)), x)
  /\ phase'[e] = p /\ phase'[Other(e)] = phase[Other(e)]

LEMMA ReadSteps ==
  ASSUME TypeOK, NEW e \in Ends, NEW m, Read(e, m), NEW p, NEW x \in Message,
         phase' = [phase EXCEPT ![e] = p], outbound' = [outbound EXCEPT ![e] = x]
  PROVE  Steps(e, p, x) /\ m = Head(Stream(e))
BY StreamRead, EndsFacts DEF Steps, TypeOK

LEMMA OpenCourse ==
  ASSUME Course, NEW e \in Ends, phase[e] = "open", Steps(e, "nodeState", StateFrame)
  PROVE  Course'
<1>0. StateFrame # NoFrame
  BY CourseFrames
<1>1. CASE e = Initiator
  <2>1. CASE At("open", "open", <<OpenFrame>>, <<OpenFrame>>)
    <3>1. At("nodeState", "open", <<>>, <<OpenFrame, StateFrame>>)'
      <4>1. Tail(<<OpenFrame>>) = <<>> /\ Append(<<OpenFrame>>, StateFrame) = <<OpenFrame, StateFrame>>
        BY SmallSeqs
      <4> QED BY <1>0, <1>1, <2>1, <4>1, OtherFacts, Zenon DEF At, Steps
    <3> QED BY <3>1 DEF Course
  <2>2. CASE At("open", "nodeState", <<OpenFrame, StateFrame>>, <<>>)
    <3>1. At("nodeState", "nodeState", <<StateFrame>>, <<StateFrame>>)'
      <4>1. Tail(<<OpenFrame, StateFrame>>) = <<StateFrame>> /\ Append(<<>>, StateFrame) = <<StateFrame>>
        BY SmallSeqs
      <4> QED BY <1>0, <1>1, <2>2, <4>1, OtherFacts, Zenon DEF At, Steps
    <3> QED BY <3>1 DEF Course
  <2> QED BY <1>1, <2>1, <2>2 DEF Course, At
<1>2. CASE e = Responder
  <2>1. CASE At("open", "open", <<OpenFrame>>, <<OpenFrame>>)
    <3>1. At("open", "nodeState", <<OpenFrame, StateFrame>>, <<>>)'
      <4>1. Tail(<<OpenFrame>>) = <<>> /\ Append(<<OpenFrame>>, StateFrame) = <<OpenFrame, StateFrame>>
        BY SmallSeqs
      <4> QED BY <1>0, <1>2, <2>1, <4>1, OtherFacts, Zenon DEF At, Steps
    <3> QED BY <3>1 DEF Course
  <2>2. CASE At("nodeState", "open", <<>>, <<OpenFrame, StateFrame>>)
    <3>1. At("nodeState", "nodeState", <<StateFrame>>, <<StateFrame>>)'
      <4>1. Tail(<<OpenFrame, StateFrame>>) = <<StateFrame>> /\ Append(<<>>, StateFrame) = <<StateFrame>>
        BY SmallSeqs
      <4> QED BY <1>0, <1>2, <2>2, <4>1, OtherFacts, Zenon DEF At, Steps
    <3> QED BY <3>1 DEF Course
  <2> QED BY <1>2, <2>1, <2>2 DEF Course, At
<1> QED BY <1>1, <1>2 DEF Ends

\* The initiator reads NODE_STATE and makes the first offer.
LEMMA FirstOfferCourse ==
  ASSUME Course, phase[Initiator] = "nodeState", NEW p \in Proposals,
         Steps(Initiator, "waitResponse", Propose(p)), outstanding'[Initiator] = p
  PROVE  Course'
<1>0. Propose(p) # NoFrame /\ OfferFrame(Initiator)' = Propose(p) /\ StateFrame' = StateFrame
  BY CourseFrames DEF OfferFrame, StateFrame
<1>1. CASE At("nodeState", "open", <<>>, <<OpenFrame, StateFrame>>)
  BY <1>1 DEF At, Steps
<1>2. CASE At("nodeState", "nodeState", <<StateFrame>>, <<StateFrame>>)
  <2>1. At("waitResponse", "nodeState", <<>>, <<StateFrame, OfferFrame(Initiator)>>)'
    <3>1. Tail(<<StateFrame>>) = <<>> /\ Append(<<StateFrame>>, Propose(p)) = <<StateFrame, Propose(p)>>
      BY SmallSeqs
    <3> QED BY <1>0, <1>2, <3>1, OtherFacts, Zenon DEF At, Steps
  <2> QED BY <2>1 DEF Course
<1>3. CASE At("nodeState", "waitProposal", <<StateFrame>>, <<>>)
  <2>1. At("waitResponse", "waitProposal", <<>>, <<OfferFrame(Initiator)>>)'
    <3>1. Tail(<<StateFrame>>) = <<>> /\ Append(<<>>, Propose(p)) = <<Propose(p)>>
      BY SmallSeqs
    <3> QED BY <1>0, <1>3, <3>1, OtherFacts, Zenon DEF At, Steps
  <2> QED BY <2>1 DEF Course
<1> QED BY <1>1, <1>2, <1>3 DEF Course, At

\* The responder reads NODE_STATE and waits.
LEMMA WaitCourse ==
  ASSUME Course, phase[Responder] = "nodeState",
         Steps(Responder, "waitProposal", NoFrame), outstanding' = outstanding
  PROVE  Course'
<1>0. OfferFrame(Initiator)' = OfferFrame(Initiator)
  BY DEF OfferFrame
<1>1. CASE At("open", "nodeState", <<OpenFrame, StateFrame>>, <<>>)
  BY <1>1 DEF At, Steps
<1>2. CASE At("nodeState", "nodeState", <<StateFrame>>, <<StateFrame>>)
  <2>1. At("nodeState", "waitProposal", <<StateFrame>>, <<>>)'
    <3>1. Tail(<<StateFrame>>) = <<>>
      BY SmallSeqs
    <3> QED BY <1>2, <3>1, OtherFacts, Zenon DEF At, Steps
  <2> QED BY <2>1 DEF Course
<1>3. CASE At("waitResponse", "nodeState", <<>>, <<StateFrame, OfferFrame(Initiator)>>)
  <2>1. At("waitResponse", "waitProposal", <<>>, <<OfferFrame(Initiator)>>)'
    <3>1. Tail(<<StateFrame, OfferFrame(Initiator)>>) = <<OfferFrame(Initiator)>>
      BY SmallSeqs
    <3> QED BY <1>0, <1>3, <3>1, OtherFacts, Zenon DEF At, Steps
  <2> QED BY <2>1 DEF Course
<1> QED BY <1>1, <1>2, <1>3 DEF Course, At

\* A proposal is read where its sender's offer is all that is under way.
LEMMA ProposalPoint ==
  ASSUME Course, NEW e \in Ends, phase[e] \in {"waitProposal", "waitResponse"}, Stream(e) # <<>>,
         Head(Stream(e)).type = "LINK_PROPOSE"
  PROVE  \/ e = Responder /\ At("waitResponse", phase[e], <<>>, <<OfferFrame(Initiator)>>)
         \/ e = Initiator /\ At("waitResponse", "waitResponse", <<OfferFrame(Responder)>>, <<>>)
<1>1. CASE e = Initiator
  <2>1. ~At("waitResponse", "agreed", <<AcceptFrame>>, <<>>)
    BY <1>1, SmallSeqs, CourseFrames DEF At
  <2> QED BY <1>1, <2>1 DEF Course, At
<1>2. CASE e = Responder
  <2>1. ~At("agreed", "waitResponse", <<>>, <<AcceptFrame>>)
    BY <1>2, SmallSeqs, CourseFrames DEF At
  <2> QED BY <1>2, <2>1 DEF Course, At
<1> QED BY <1>1, <1>2 DEF Ends

\* It is accepted.
LEMMA AcceptCourse ==
  ASSUME Course, NEW e \in Ends, phase[e] \in {"waitProposal", "waitResponse"},
         Steps(e, "agreed", AcceptFrame), Head(Stream(e)).type = "LINK_PROPOSE"
  PROVE  Course'
<1>0. AcceptFrame # NoFrame /\ Stream(e) # <<>>
  BY CourseFrames DEF Steps
<1>1. CASE e = Responder /\ At("waitResponse", phase[e], <<>>, <<OfferFrame(Initiator)>>)
  <2>1. At("waitResponse", "agreed", <<AcceptFrame>>, <<>>)'
    <3>1. Tail(<<OfferFrame(Initiator)>>) = <<>> /\ Append(<<>>, AcceptFrame) = <<AcceptFrame>>
      BY SmallSeqs
    <3> QED BY <1>0, <1>1, <3>1, OtherFacts, Zenon DEF At, Steps
  <2> QED BY <2>1 DEF Course
<1>2. CASE e = Initiator /\ At("waitResponse", "waitResponse", <<OfferFrame(Responder)>>, <<>>)
  <2>1. At("agreed", "waitResponse", <<>>, <<AcceptFrame>>)'
    <3>1. Tail(<<OfferFrame(Responder)>>) = <<>> /\ Append(<<>>, AcceptFrame) = <<AcceptFrame>>
      BY SmallSeqs
    <3> QED BY <1>0, <1>2, <3>1, OtherFacts, Zenon DEF At, Steps
  <2> QED BY <2>1 DEF Course
<1> QED BY <1>0, <1>1, <1>2, ProposalPoint

\* It is answered by a counterproposal.
LEMMA CounterCourse ==
  ASSUME Course, NEW e \in Ends, phase[e] \in {"waitProposal", "waitResponse"}, NEW p \in Proposals,
         Steps(e, "waitResponse", Propose(p)), outstanding'[e] = p,
         Head(Stream(e)).type = "LINK_PROPOSE"
  PROVE  Course'
<1>0. Propose(p) # NoFrame /\ OfferFrame(e)' = Propose(p) /\ Stream(e) # <<>>
  BY CourseFrames DEF OfferFrame, Steps
<1>1. CASE e = Responder /\ At("waitResponse", phase[e], <<>>, <<OfferFrame(Initiator)>>)
  <2>1. At("waitResponse", "waitResponse", <<OfferFrame(Responder)>>, <<>>)'
    <3>1. Tail(<<OfferFrame(Initiator)>>) = <<>> /\ Append(<<>>, Propose(p)) = <<Propose(p)>>
      BY SmallSeqs
    <3> QED BY <1>0, <1>1, <3>1, OtherFacts, Zenon DEF At, Steps
  <2> QED BY <2>1 DEF Course
<1>2. CASE e = Initiator /\ At("waitResponse", "waitResponse", <<OfferFrame(Responder)>>, <<>>)
  <2>1. At("waitResponse", "waitResponse", <<>>, <<OfferFrame(Initiator)>>)'
    <3>1. Tail(<<OfferFrame(Responder)>>) = <<>> /\ Append(<<>>, Propose(p)) = <<Propose(p)>>
      BY SmallSeqs
    <3> QED BY <1>0, <1>2, <3>1, OtherFacts, Zenon DEF At, Steps
  <2> QED BY <2>1 DEF Course
<1> QED BY <1>0, <1>1, <1>2, ProposalPoint

\* The acceptance is read.
LEMMA AcceptedCourse ==
  ASSUME Course, NEW e \in Ends, phase[e] = "waitResponse", Steps(e, "agreed", NoFrame),
         Head(Stream(e)).type = "LINK_ACCEPT", outstanding \in [Ends -> Proposals \cup {None}],
         \A f \in Ends : phase[f] = "waitResponse" => outstanding[f] \in Proposals
  PROVE  Course'
<1>0. \A f \in Ends : phase[f] = "waitResponse" => OfferFrame(f).type = "LINK_PROPOSE"
  BY CourseFrames DEF OfferFrame
<1>1. CASE e = Initiator
  <2>1. CASE At("waitResponse", "agreed", <<AcceptFrame>>, <<>>)
    <3>1. At("agreed", "agreed", <<>>, <<>>)'
      <4>1. Tail(<<AcceptFrame>>) = <<>>
        BY SmallSeqs
      <4> QED BY <1>1, <2>1, <4>1, OtherFacts, Zenon DEF At, Steps
    <3> QED BY <3>1 DEF Course
  <2>2. ~At("waitResponse", "waitResponse", <<OfferFrame(Responder)>>, <<>>)
    BY <1>0, <1>1, SmallSeqs, EndsFacts DEF At
  <2>3. ~(phase[Initiator] = "waitResponse" /\ Stream(Initiator) = <<>>)
    BY <1>1 DEF Steps
  <2> QED BY <1>1, <2>1, <2>2, <2>3 DEF Course, At
<1>2. CASE e = Responder
  <2>1. CASE At("agreed", "waitResponse", <<>>, <<AcceptFrame>>)
    <3>1. At("agreed", "agreed", <<>>, <<>>)'
      <4>1. Tail(<<AcceptFrame>>) = <<>>
        BY SmallSeqs
      <4> QED BY <1>2, <2>1, <4>1, OtherFacts, Zenon DEF At, Steps
    <3> QED BY <3>1 DEF Course
  <2>2. ~At("waitResponse", "waitResponse", <<>>, <<OfferFrame(Initiator)>>)
    BY <1>0, <1>2, SmallSeqs, EndsFacts DEF At
  <2>3. ~(phase[Responder] = "waitResponse" /\ Stream(Responder) = <<>>)
    BY <1>2 DEF Steps
  <2> QED BY <1>2, <2>1, <2>2, <2>3 DEF Course, At
<1> QED BY <1>1, <1>2 DEF Ends

\* In an undisturbed session a frame is read in the phase that expects it.
LEMMA HeadOnCourse ==
  ASSUME Course, NEW e \in Ends, Stream(e) # <<>>,
         \A f \in Ends : phase[f] = "waitResponse" => outstanding[f] \in Proposals
  PROVE  /\ phase[e] \in {"open", "nodeState", "waitProposal", "waitResponse"}
         /\ phase[e] = "open" => Head(Stream(e)).type = "OPEN"
         /\ phase[e] = "nodeState" => Head(Stream(e)).type = "NODE_STATE"
         /\ phase[e] = "waitProposal" => Head(Stream(e)).type = "LINK_PROPOSE"
         /\ phase[e] = "waitResponse" => Head(Stream(e)).type \in {"LINK_PROPOSE", "LINK_ACCEPT"}
<1>0. \A f \in Ends : phase[f] = "waitResponse" => OfferFrame(f).type = "LINK_PROPOSE"
  BY CourseFrames DEF OfferFrame
<1>1. \A a, b : Head(<<a>>) = a /\ Head(<<a, b>>) = a
  BY SmallSeqs
<1>2. CASE e = Initiator
  <2>1. \/ phase[e] = "open" /\ Stream(e) \in {<<OpenFrame>>, <<OpenFrame, StateFrame>>}
        \/ phase[e] = "nodeState" /\ Stream(e) = <<StateFrame>>
        \/ phase[e] = "waitResponse" /\ Stream(e) = <<AcceptFrame>>
        \/ /\ phase[e] = "waitResponse" /\ phase[Responder] = "waitResponse"
           /\ Stream(e) = <<OfferFrame(Responder)>>
    BY <1>2 DEF Course, At
  <2> QED BY <1>0, <1>1, <2>1, CourseFrames, EndsFacts
<1>3. CASE e = Responder
  <2>1. \/ phase[e] = "open" /\ Stream(e) \in {<<OpenFrame>>, <<OpenFrame, StateFrame>>}
        \/ phase[e] = "nodeState" /\ Stream(e) = <<StateFrame>>
        \/ phase[e] = "nodeState" /\ Stream(e) = <<StateFrame, OfferFrame(Initiator)>>
        \/ phase[e] = "waitResponse" /\ Stream(e) = <<AcceptFrame>>
        \/ /\ phase[e] \in {"waitProposal", "waitResponse"} /\ phase[Initiator] = "waitResponse"
           /\ Stream(e) = <<OfferFrame(Initiator)>>
    BY <1>3 DEF Course, At
  <2> QED BY <1>0, <1>1, <2>1, CourseFrames, EndsFacts
<1> QED BY <1>2, <1>3 DEF Ends

\* A session whose streams are both empty is agreed, and none is operational.
LEMMA CourseEnds ==
  ASSUME Course
  PROVE  /\ \A e \in Ends : phase[e] # "operational"
         /\ \A e \in Ends : Stream(e) = <<>> /\ Stream(Other(e)) = <<>> => phase[e] = "agreed"
         /\ \A e \in Ends : Stream(e) = <<>> /\ phase[Other(e)] = "agreed" => phase[e] = "agreed"
<1>1. \A a, b : <<a>> # <<>> /\ <<a, b>> # <<>>
  BY SmallSeqs
<1>2. /\ phase[Initiator] # "operational" /\ phase[Responder] # "operational"
      /\ Stream(Initiator) = <<>> /\ Stream(Responder) = <<>> =>
           phase[Initiator] = "agreed" /\ phase[Responder] = "agreed"
      /\ Stream(Initiator) = <<>> /\ phase[Responder] = "agreed" => phase[Initiator] = "agreed"
      /\ Stream(Responder) = <<>> /\ phase[Initiator] = "agreed" => phase[Responder] = "agreed"
  BY <1>1 DEF Course, At
<1> QED BY <1>2, OtherFacts DEF Ends

LEMMA JointKept ==
  ASSUME env' = env
  PROVE  /\ Joint' = Joint /\ Calm' = Calm
         /\ \A p : (JointlyFree(p)' <=> JointlyFree(p)) /\ (FirstJoint(p)' <=> FirstJoint(p))
BY DEF Joint, JointlyFree, FirstJoint, Calm, Faults, Drift

LEMMA OrderKept ==
  ASSUME OffersOrdered, AttemptsSpent, UNCHANGED <<env, attempt, seen, offers>>
  PROVE  OffersOrdered' /\ AttemptsSpent'
BY JointKept DEF OffersOrdered, AttemptsSpent

LEMMA HeldKept ==
  ASSUME HeldFirst, UNCHANGED <<env, pending, installed>>
  PROVE  HeldFirst'
BY JointKept DEF HeldFirst

-----------------------------------------------------------------------------
\* An end that has read a frame keeps the session undisturbed if it returns no
\* error and what it agrees to is pending.
LEMMA UndisturbedRead ==
  ASSUME TypeOK, Undisturbed, NEW e \in Ends, NEW m, Read(e, m), result' = result, NEW x, NEW p, NEW v,
         phase' = [phase EXCEPT ![e] = p], outbound' = [outbound EXCEPT ![e] = x],
         pending' = [pending EXCEPT ![e] = v], p = "agreed" => v # None
  PROVE  Undisturbed'
<1>1. result[e] = "run" /\ installed' = installed
  BY DEF Read, Idle
<1>2. ASSUME NEW f \in Ends
      PROVE  /\ result'[f] # "error"
             /\ result'[f] = "ok" => installed'[f] # None /\ outbound'[f] = NoFrame
             /\ phase'[f] = "agreed" => pending'[f] # None \/ installed'[f] # None
  BY <1>1 DEF Undisturbed, TypeOK
<1> QED BY <1>2 DEF Undisturbed

LEMMA StreamHead ==
  ASSUME TypeOK, NEW e \in Ends, NEW m, Read(e, m)
  PROVE  Stream(e) # <<>> /\ Head(Stream(e)) = m
<1>1. inbox[e] # <<>> /\ inbox[e] \in Seq(Message) /\ m = Head(inbox[e]) /\ outbound[Other(e)] \in Message
  BY EndsFacts DEF Read, TypeOK
<1> QED BY <1>1, TailAppend DEF Stream

LEMMA IdleOutbound ==
  ASSUME TypeOK, NEW e \in Ends, NEW m, Read(e, m)
  PROVE  outbound = [outbound EXCEPT ![e] = NoFrame] /\ NoFrame \in Message
         /\ pending = [pending EXCEPT ![e] = None] /\ pending[e] = None /\ installed[e] = None
         /\ UNCHANGED <<env, installed, cut>>
BY FrameFacts DEF Read, Idle, TypeOK

\* handleOpen and the frames that belong to no Link negotiation.
LEMMA CalmOpening ==
  ASSUME TypeOK, TurnInv, Calm, CalmInv, NEW e \in Ends,
         \/ HandleOpen(e) \/ HandleRoutedState(e) \/ HandleDurableState(e)
         \/ HandleDurablePropose(e) \/ HandleDiscard(e)
  PROVE  CalmInv'
<1>1. PICK m : Read(e, m)
  BY DEF HandleOpen, HandleRoutedState, HandleDurableState, HandleDurablePropose, HandleDiscard
<1>2. UNCHANGED <<env, installed, cut>>
  BY <1>1, IdleOutbound
<1>3. UNCHANGED <<attempt, seen, pending, offers, outstanding>>
  BY DEF HandleOpen, HandleRoutedState, HandleDurableState, HandleDurablePropose, HandleDiscard
<1>4. OffersOrdered' /\ AttemptsSpent' /\ HeldFirst' /\ Joint' = Joint
  BY <1>2, <1>3, OrderKept, HeldKept, JointKept DEF CalmInv
<1>5. ASSUME Course, Undisturbed PROVE Course' /\ Undisturbed'
  <2>1. Stream(e) # <<>> /\ m = Head(Stream(e))
    BY <1>1, StreamHead
  <2>2. CASE HandleOpen(e)
    <3>1. /\ Read(e, OpenFrame) /\ phase[e] = "open" /\ result' = result
          /\ phase' = [phase EXCEPT ![e] = "nodeState"]
          /\ outbound' = [outbound EXCEPT ![e] = StateFrame]
      BY <2>2 DEF HandleOpen, Calm, OpenFrame, StateFrame
    <3>2. Course'
      BY <1>5, <3>1, ReadSteps, OpenCourse, CourseFrames
    <3>3. Undisturbed'
      BY <1>1, <1>3, <1>5, <3>1, IdleOutbound, UndisturbedRead
    <3> QED BY <3>2, <3>3
  <2>3. CASE HandleRoutedState(e) \/ HandleDurableState(e)
    BY <2>3 DEF HandleRoutedState, HandleDurableState, Calm
  <2>4. CASE HandleDurablePropose(e)
    <3>1. /\ Read(e, Frame("DURABLE_PROPOSE")) /\ phase[e] = "waitProposal"
          /\ Frame("DURABLE_PROPOSE").type = "DURABLE_PROPOSE"
      BY <2>4, FrameFacts DEF HandleDurablePropose
    <3>2. Stream(e) # <<>> /\ Head(Stream(e)) = Frame("DURABLE_PROPOSE")
      BY <3>1, StreamHead
    <3> QED BY <1>5, <3>1, <3>2, HeadOnCourse DEF TurnInv
  <2>5. CASE HandleDiscard(e)
    <3>1. Read(e, Head(inbox[e])) /\ Discarded(e, Head(inbox[e]))
      BY <2>5 DEF HandleDiscard
    <3>2. Stream(e) # <<>> /\ Head(Stream(e)) = Head(inbox[e]) /\ Head(inbox[e]) \in Message
      BY <3>1, StreamHead, ReadType
    <3>3. env.loopback[Other(e)] /\ env.pool[e] = Proposals
      BY EndsFacts DEF Calm
    <3>4. Head(inbox[e]).type = "LINK_PROPOSE" => Head(inbox[e]).p \in Proposals
      BY <3>2, FrameFacts
    <3> QED BY <1>5, <3>1, <3>2, <3>3, <3>4, HeadOnCourse DEF Discarded, TurnInv
  <2> QED BY <2>2, <2>3, <2>4, <2>5
<1> QED BY <1>2, <1>4, <1>5 DEF CalmInv

\* The offer e makes: what Offer leaves for the stream and for the agreement.
LEMMA OfferSteps ==
  ASSUME TypeOK, NEW e \in Ends, NEW m, Read(e, m), NEW used \in SUBSET Proposals,
         NEW approved \in SUBSET Proposals, Offer(e, used, approved)
  PROVE  \E q \in Proposals :
           /\ Steps(e, "waitResponse", Propose(q)) /\ m = Head(Stream(e)) /\ outstanding'[e] = q
           /\ UNCHANGED <<pending, result, installed>>
           /\ Undisturbed => Undisturbed'
<1>1. PICK q \in Proposals : /\ outstanding' = [outstanding EXCEPT ![e] = q]
                             /\ outbound' = [outbound EXCEPT ![e] = Propose(q)]
                             /\ phase' = [phase EXCEPT ![e] = "waitResponse"]
                             /\ UNCHANGED <<pending, result>>
  BY OfferType
<1>2. Steps(e, "waitResponse", Propose(q)) /\ m = Head(Stream(e))
  BY <1>1, ReadSteps, FrameFacts
<1>3. pending' = [pending EXCEPT ![e] = None] /\ installed' = installed /\ outstanding'[e] = q
  BY <1>1, IdleOutbound DEF TypeOK
<1>4. Undisturbed => Undisturbed'
  BY <1>1, <1>3, UndisturbedRead
<1> QED BY <1>1, <1>2, <1>3, <1>4

LEMMA CalmLinkState ==
  ASSUME TypeOK, TurnInv, OfferInv, Calm, CalmInv, NEW e \in Ends, HandleLinkState(e)
  PROVE  CalmInv'
<1>1. Read(e, StateFrame) /\ phase[e] = "nodeState" /\ UNCHANGED <<env, installed, cut>>
  BY DEF HandleLinkState, Read, StateFrame
<1>2. /\ Verdicts(e) = {env.avail[e]} /\ env.avail[e] \in SUBSET Proposals
      /\ seen[e] \in SUBSET Proposals /\ Joint' = Joint
  BY <1>1, CalmTypes, JointKept DEF TypeOK
<1>3. ASSUME e = Initiator PROVE seen[e] = {} /\ Len(offers) = 0
  <2>1. offers = <<>>
    BY <1>1, <1>3 DEF OfferInv
  <2> QED BY <2>1 DEF OfferInv, OffersRecorded
<1>4. CASE e = Initiator /\ Offer(e, seen[e], env.avail[e])
  <2>1. OffersOrdered' /\ AttemptsSpent'
    <3>1. /\ \A p \in seen[e] : ~JointlyFree(p)
          /\ \A i \in 1 .. Len(offers) : offers[i][2] \in seen[e]
      BY <1>3, <1>4
    <3> QED BY <1>1, <1>2, <1>4, <3>1, OfferOrdered DEF CalmInv
  <2>2. PICK q \in Proposals :
          /\ Steps(e, "waitResponse", Propose(q)) /\ outstanding'[e] = q
          /\ UNCHANGED <<pending, result, installed>> /\ (Undisturbed => Undisturbed')
    BY <1>1, <1>2, <1>4, OfferSteps
  <2>3. Course => Course'
    BY <1>1, <1>4, <2>2, FirstOfferCourse
  <2> QED BY <1>1, <1>2, <2>1, <2>2, <2>3, HeldKept DEF CalmInv
<1>5. CASE e = Initiator /\ OutOfProposals(e, seen[e], env.avail[e])
  <2>1. OffersOrdered' /\ AttemptsSpent' /\ Joint = {}
    BY <1>1, <1>2, <1>3, <1>5, OutOfProposalsOrdered DEF CalmInv
  <2>2. pending' = pending
    BY <1>5 DEF OutOfProposals
  <2> QED BY <1>1, <1>2, <2>1, <2>2, HeldKept DEF CalmInv
<1>6. CASE /\ e = Responder /\ phase' = [phase EXCEPT ![e] = "waitProposal"]
           /\ UNCHANGED <<attempt, seen, outstanding, pending, outbound, result, offers>>
  <2>1. OffersOrdered' /\ AttemptsSpent' /\ HeldFirst'
    BY <1>1, <1>6, OrderKept, HeldKept DEF CalmInv
  <2>2. Course => Course'
    BY <1>1, <1>6, ReadSteps, IdleOutbound, WaitCourse
  <2>3. Undisturbed => Undisturbed'
    BY <1>1, <1>6, IdleOutbound, UndisturbedRead
  <2> QED BY <1>1, <1>2, <2>1, <2>2, <2>3 DEF CalmInv
<1> QED BY <1>2, <1>4, <1>5, <1>6 DEF HandleLinkState

\* What an end has seen once it refuses a proposal is of no use to both.
LEMMA RefusedNotJoint ==
  ASSUME TypeOK, OfferInv, OffersOrdered, NEW e \in Ends, NEW p \in Proposals, p \notin seen[e],
         offers # <<>>, offers[Len(offers)] = <<Other(e), p>>, p \notin env.avail[e]
  PROVE  \A q \in seen[e] \cup {p} : ~JointlyFree(q)
<1>1. ~JointlyFree(p)
  BY DEF JointlyFree
<1>2. ASSUME NEW q \in seen[e] PROVE ~JointlyFree(q)
  <2>1. PICK i \in 1 .. Len(offers) : offers[i][2] = q
    BY DEF OfferInv, OffersRecorded
  <2>2. i # Len(offers)
    BY <2>1
  <2> QED BY <2>1, <2>2 DEF OffersOrdered
<1> QED BY <1>1, <1>2

LEMMA CalmProposal ==
  ASSUME TypeOK, TurnInv, OfferInv, Calm, CalmInv, NEW e \in Ends, HandleProposal(e)
  PROVE  CalmInv'
<1>1. PICK p \in Proposals :
        /\ Read(e, Propose(p))
        /\ \/ p \in seen[e]
           \/ /\ p \in env.avail[e]
              /\ seen' = [seen EXCEPT ![e] = @ \cup {p}]
              /\ pending' = [pending EXCEPT ![e] = p]
              /\ phase' = [phase EXCEPT ![e] = "agreed"]
              /\ outbound' = [outbound EXCEPT ![e] = AcceptFrame]
              /\ UNCHANGED <<attempt, outstanding, result, offers>>
           \/ /\ p \notin env.avail[e]
              /\ \/ Offer(e, seen[e] \cup {p}, env.avail[e])
                 \/ OutOfProposals(e, seen[e] \cup {p}, env.avail[e])
  <2>1. env.pool[e] = Proposals /\ Verdicts(e) = {env.avail[e]}
    BY CalmTypes DEF Calm
  <2> QED BY <2>1 DEF HandleProposal, AcceptFrame
<1>2. /\ p \notin seen[e] /\ offers # <<>> /\ offers[Len(offers)] = <<Other(e), p>>
      /\ phase[Other(e)] = "waitResponse"
  BY <1>1, ProposalRead
<1>3. /\ phase[e] \in {"waitProposal", "waitResponse"} /\ UNCHANGED <<env, installed, cut>>
      /\ pending[e] = None /\ installed[e] = None
  BY <1>1, IdleOutbound DEF HandleProposal
<1>4. /\ env.avail[e] \in SUBSET Proposals /\ seen[e] \cup {p} \in SUBSET Proposals /\ Joint' = Joint
      /\ Head(Stream(e)).type = "LINK_PROPOSE" /\ p # None
  BY <1>1, <1>3, CalmTypes, JointKept, StreamHead, FrameFacts, NegotiationAssumption DEF TypeOK
<1>5. Len(offers) \in 1 .. Len(offers) /\ offers[Len(offers)][2] = p
  BY <1>2 DEF TypeOK
<1>6. CASE /\ p \in env.avail[e]
           /\ seen' = [seen EXCEPT ![e] = @ \cup {p}]
           /\ pending' = [pending EXCEPT ![e] = p]
           /\ phase' = [phase EXCEPT ![e] = "agreed"]
           /\ outbound' = [outbound EXCEPT ![e] = AcceptFrame]
           /\ UNCHANGED <<attempt, outstanding, result, offers>>
  <2>1. FirstJoint(p)
    <3>1. p \in env.avail[Other(e)]
      BY <1>2, <1>5 DEF CalmInv, OffersOrdered
    <3>2. JointlyFree(p)
      BY <1>6, <3>1, EndsFacts DEF JointlyFree
    <3> QED BY <1>5, <3>2 DEF CalmInv, OffersOrdered
  <2>2. HeldFirst'
    <3>1. ASSUME NEW f \in Ends
          PROVE  /\ pending'[f] # None => FirstJoint(pending'[f])
                 /\ installed'[f] # None => FirstJoint(installed'[f])
      BY <1>3, <1>6, <2>1 DEF CalmInv, HeldFirst, TypeOK
    <3> QED BY <1>3, <3>1, JointKept DEF HeldFirst
  <2>3. OffersOrdered'
    BY <1>3, <1>6, JointKept DEF CalmInv, OffersOrdered
  <2>4. AttemptsSpent'
    <3>1. \A f \in Ends : seen[f] \subseteq seen'[f]
      BY <1>6 DEF TypeOK
    <3> QED BY <1>3, <1>6, <3>1 DEF CalmInv, AttemptsSpent
  <2>5. Course => Course'
    BY <1>1, <1>3, <1>4, <1>6, ReadSteps, CourseFrames, AcceptCourse
  <2>6. Undisturbed => Undisturbed'
    BY <1>1, <1>4, <1>6, UndisturbedRead
  <2> QED BY <1>3, <1>4, <2>2, <2>3, <2>4, <2>5, <2>6 DEF CalmInv
<1>7. CASE p \notin env.avail[e] /\ Offer(e, seen[e] \cup {p}, env.avail[e])
  <2>1. \A q \in seen[e] \cup {p} : ~JointlyFree(q)
    BY <1>2, <1>7, RefusedNotJoint DEF CalmInv
  <2>2. \A i \in 1 .. Len(offers) : offers[i][2] \in seen[e] \cup {p}
    BY <1>2, NotedOffers
  <2>3. OffersOrdered' /\ AttemptsSpent'
    BY <1>3, <1>4, <1>7, <2>1, <2>2, OfferOrdered DEF CalmInv
  <2>4. PICK q \in Proposals :
          /\ Steps(e, "waitResponse", Propose(q)) /\ outstanding'[e] = q
          /\ UNCHANGED <<pending, result, installed>> /\ (Undisturbed => Undisturbed')
    BY <1>1, <1>4, <1>7, OfferSteps
  <2>5. Course => Course'
    BY <1>3, <1>4, <2>4, CounterCourse
  <2> QED BY <1>3, <1>4, <2>3, <2>4, <2>5, HeldKept DEF CalmInv
<1>8. CASE p \notin env.avail[e] /\ OutOfProposals(e, seen[e] \cup {p}, env.avail[e])
  <2>1. \A q \in seen[e] \cup {p} : ~JointlyFree(q)
    BY <1>2, <1>8, RefusedNotJoint DEF CalmInv
  <2>2. OffersOrdered' /\ AttemptsSpent' /\ Joint = {}
    BY <1>3, <1>4, <1>8, <2>1, OutOfProposalsOrdered DEF CalmInv
  <2>3. pending' = pending
    BY <1>8 DEF OutOfProposals
  <2> QED BY <1>3, <1>4, <2>2, <2>3, HeldKept DEF CalmInv
<1> QED BY <1>1, <1>2, <1>6, <1>7, <1>8

LEMMA CalmAccepted ==
  ASSUME TypeOK, TurnInv, Calm, CalmInv, NEW e \in Ends, HandleAccept(e)
  PROVE  CalmInv'
<1>1. /\ Read(e, AcceptFrame) /\ phase[e] = "waitResponse"
      /\ pending' = [pending EXCEPT ![e] = outstanding[e]]
      /\ phase' = [phase EXCEPT ![e] = "agreed"]
      /\ UNCHANGED <<attempt, seen, outstanding, outbound, result, offers, env, installed, cut>>
  BY DEF HandleAccept, Read, AcceptFrame
<1>2. Other(e) \in Ends /\ outstanding[e] = installed[Other(e)] /\ installed[Other(e)] # None
  <2>1. 1 \in 1 .. Len(inbox[e]) /\ inbox[e][1] = Frame("LINK_ACCEPT")
    BY <1>1, ReadShrinks DEF TurnInv, AcceptFrame
  <2> QED BY <2>1, InvAcceptAfterInstall, EndsFacts DEF AcceptAfterInstall
<1>3. HeldFirst'
  <2>1. ASSUME NEW f \in Ends
        PROVE  /\ pending'[f] # None => FirstJoint(pending'[f])
               /\ installed'[f] # None => FirstJoint(installed'[f])
    BY <1>1, <1>2 DEF CalmInv, HeldFirst, TypeOK
  <2> QED BY <1>1, <2>1, JointKept DEF HeldFirst
<1>4. OffersOrdered' /\ AttemptsSpent' /\ Joint' = Joint
  BY <1>1, OrderKept, JointKept DEF CalmInv
<1>5. Course => Course'
  <2>1. Steps(e, "agreed", NoFrame) /\ Head(Stream(e)).type = "LINK_ACCEPT"
    <3>1. outbound' = [outbound EXCEPT ![e] = NoFrame] /\ NoFrame \in Message
      BY <1>1, IdleOutbound
    <3>2. Steps(e, "agreed", NoFrame) /\ AcceptFrame = Head(Stream(e))
      BY <1>1, <3>1, ReadSteps
    <3> QED BY <3>2, CourseFrames
  <2> QED BY <1>1, <2>1, AcceptedCourse DEF TurnInv, TypeOK
<1>6. Undisturbed => Undisturbed'
  BY <1>1, <1>2, IdleOutbound, UndisturbedRead
<1> QED BY <1>1, <1>3, <1>4, <1>5, <1>6 DEF CalmInv

\* An idle end with nothing to read has its stream empty once its peer has
\* nothing to write.
LEMMA CalmStops ==
  ASSUME TypeOK, TurnInv, Calm, CalmInv, NEW e \in Ends,
         \/ ReturnEstablished(e) \/ EndOperational(e) \/ ReadError(e) \/ Timeout(e)
  PROVE  CalmInv'
<1>1. UNCHANGED <<env, phase, attempt, seen, outstanding, pending, outbound, installed, inbox, cut, offers>>
  BY DEF ReturnEstablished, EndOperational, ReadError, Timeout
<1>2. OffersOrdered' /\ AttemptsSpent' /\ HeldFirst' /\ Joint' = Joint
  BY <1>1, OrderKept, HeldKept, JointKept DEF CalmInv
<1>3. ASSUME Course, Undisturbed PROVE Course' /\ Undisturbed'
  <2>1. Course'
    BY <1>1, <1>3 DEF Course, At, Stream, OfferFrame
  <2>2. Other(e) \in Ends /\ Other(e) # e /\ Other(Other(e)) = e /\ \A f \in Ends : f = e \/ f = Other(e)
    BY EndsFacts
  <2>3. CASE ReturnEstablished(e)
    BY <1>1, <1>3, <2>1, <2>3 DEF ReturnEstablished, Finish, Undisturbed, TypeOK
  <2>4. CASE EndOperational(e)
    BY <1>3, <2>4, CourseEnds DEF EndOperational
  <2>5. ASSUME Idle(e), inbox[e] = <<>>, phase[Other(e)] = "agreed", outbound[Other(e)] = NoFrame
        PROVE  FALSE
    <3>1. Stream(e) = <<>>
      BY <2>5 DEF Stream
    <3>2. phase[e] = "agreed"
      BY <1>3, <2>5, <3>1, CourseEnds
    <3> QED BY <1>3, <2>5, <3>2 DEF Undisturbed, Idle
  <2>6. CASE ReadError(e)
    <3>1. Idle(e) /\ inbox[e] = <<>> /\ result[Other(e)] # "run"
      BY <2>6 DEF ReadError, CalmInv
    <3>2. installed[Other(e)] # None /\ outbound[Other(e)] = NoFrame
      BY <1>3, <2>2, <3>1 DEF Undisturbed, TypeOK
    <3>3. phase[Other(e)] = "agreed"
      <4>1. installed[Other(e)] \in Proposals /\ Holds(Other(e), installed[Other(e)])
        BY <2>2, <3>2 DEF Holds, TypeOK
      <4> QED BY <2>2, <4>1 DEF TurnInv, ValuesMatch
    <3> QED BY <2>5, <3>1, <3>2, <3>3
  <2>7. CASE Timeout(e)
    <3>1. Idle(e) /\ Quiet /\ result[e] = "run"
      BY <2>7 DEF Timeout, Calm, Idle
    <3>2. Idle(Other(e)) /\ inbox[e] = <<>> /\ inbox[Other(e)] = <<>>
      BY <2>2, <3>1 DEF Quiet
    <3>3. Stream(e) = <<>> /\ Stream(Other(e)) = <<>>
      BY <2>2, <3>1, <3>2 DEF Stream, Idle
    <3>4. phase[e] = "agreed"
      BY <1>3, <3>3, CourseEnds
    <3> QED BY <1>3, <3>1, <3>4 DEF Undisturbed, Idle
  <2> QED BY <2>3, <2>4, <2>6, <2>7
<1> QED BY <1>1, <1>2, <1>3 DEF CalmInv

LEMMA CalmCommit ==
  ASSUME TypeOK, Calm, CalmInv, NEW e \in Ends, Commit(e)
  PROVE  CalmInv'
<1>1. /\ UNCHANGED <<env, phase, attempt, seen, outstanding, outbound, inbox, cut, offers, result>>
      /\ pending' = [pending EXCEPT ![e] = None] /\ installed' = [installed EXCEPT ![e] = pending[e]]
      /\ pending[e] # None /\ result[e] = "run"
  BY DEF Commit, Calm
<1>2. OffersOrdered' /\ AttemptsSpent' /\ Joint' = Joint
  BY <1>1, OrderKept, JointKept DEF CalmInv
<1>3. HeldFirst'
  <2>1. ASSUME NEW f \in Ends
        PROVE  /\ pending'[f] # None => FirstJoint(pending'[f])
               /\ installed'[f] # None => FirstJoint(installed'[f])
    BY <1>1 DEF CalmInv, HeldFirst, TypeOK
  <2> QED BY <1>1, <2>1, JointKept DEF HeldFirst
<1>4. Course => Course'
  BY <1>1 DEF Course, At, Stream, OfferFrame
<1>5. Undisturbed => Undisturbed'
  BY <1>1 DEF Undisturbed, TypeOK
<1> QED BY <1>1, <1>2, <1>3, <1>4, <1>5 DEF CalmInv

\* Writing a frame moves it along its stream.
LEMMA CalmSend ==
  ASSUME TypeOK, Calm, CalmInv, NEW e \in Ends, SendOutbound(e) \/ SendFails(e)
  PROVE  CalmInv'
<1>1. /\ UNCHANGED <<env, phase, attempt, seen, outstanding, pending, installed, cut, result, offers>>
      /\ inbox' = [inbox EXCEPT ![Other(e)] = Append(inbox[Other(e)], outbound[e])]
      /\ outbound' = [outbound EXCEPT ![e] = NoFrame]
      /\ outbound[e] # NoFrame /\ result[e] = "run"
  BY DEF SendOutbound, SendFails, Calm, CalmInv
<1>2. OffersOrdered' /\ AttemptsSpent' /\ HeldFirst' /\ Joint' = Joint
  BY <1>1, OrderKept, HeldKept, JointKept DEF CalmInv
<1>3. /\ Other(e) \in Ends /\ Other(e) # e /\ Other(Other(e)) = e
      /\ inbox'[Other(e)] = Append(inbox[Other(e)], outbound[e]) /\ inbox'[e] = inbox[e]
      /\ outbound'[e] = NoFrame /\ outbound'[Other(e)] = outbound[Other(e)]
  BY <1>1, EndsFacts DEF TypeOK
<1>4. Stream(e)' = Stream(e) /\ Stream(Other(e))' = Stream(Other(e))
  BY <1>1, <1>3 DEF Stream
<1>5. Stream(Initiator)' = Stream(Initiator) /\ Stream(Responder)' = Stream(Responder)
  BY <1>4, OtherFacts DEF Ends
<1>6. Course => Course'
  BY <1>1, <1>5 DEF Course, At, OfferFrame
<1>7. Undisturbed => Undisturbed'
  BY <1>1 DEF Undisturbed, TypeOK
<1> QED BY <1>1, <1>2, <1>6, <1>7 DEF CalmInv

LEMMA CalmStep ==
  ASSUME TypeOK, TurnInv, OfferInv, Calm, CalmInv, [Next]_vars
  PROVE  CalmInv'
<1>1. ASSUME NEW e \in Ends, Handle(e) PROVE CalmInv'
  BY <1>1, CalmOpening, CalmLinkState, CalmProposal, CalmAccepted DEF Handle
<1>2. ASSUME NEW e \in Ends,
             \/ Commit(e) \/ SendOutbound(e) \/ SendFails(e)
             \/ ReturnEstablished(e) \/ EndOperational(e) \/ ReadError(e) \/ Timeout(e)
      PROVE  CalmInv'
  BY <1>2, CalmCommit, CalmSend, CalmStops
<1>3. CASE Reset
  BY <1>3 DEF Reset, Calm
<1>4. CASE Ended \/ UNCHANGED vars
  <2>1. UNCHANGED vars
    BY <1>4 DEF Ended
  <2>2. OffersOrdered' /\ AttemptsSpent' /\ HeldFirst' /\ Joint' = Joint
    BY <2>1, OrderKept, HeldKept, JointKept DEF CalmInv, vars
  <2>3. (Course => Course') /\ (Undisturbed => Undisturbed')
    BY <2>1 DEF Course, At, Stream, OfferFrame, Undisturbed, vars
  <2> QED BY <2>1, <2>2, <2>3 DEF CalmInv, vars
<1> QED BY <1>1, <1>2, <1>3, <1>4 DEF Next, Progress

LEMMA EnvKept == [Next]_vars => env' = env
<1> SUFFICES ASSUME [Next]_vars PROVE env' = env
  OBVIOUS
<1>1. ASSUME NEW e \in Ends, Handle(e) PROVE env' = env
  BY <1>1 DEF Handle, HandleOpen, HandleRoutedState, HandleDurableState, HandleLinkState,
       HandleDurablePropose, HandleProposal, HandleAccept, HandleDiscard, Read
<1>2. ASSUME NEW e \in Ends,
             \/ Commit(e) \/ SendOutbound(e) \/ SendFails(e)
             \/ ReturnEstablished(e) \/ EndOperational(e) \/ ReadError(e) \/ Timeout(e)
      PROVE  env' = env
  BY <1>2 DEF Commit, SendOutbound, SendFails, ReturnEstablished, EndOperational, ReadError, Timeout
<1>3. CASE Reset \/ Ended \/ UNCHANGED vars
  BY <1>3 DEF Reset, Ended, vars
<1> QED BY <1>1, <1>2, <1>3 DEF Next, Progress

LEMMA InitCalm == Init => CalmInv
<1> SUFFICES ASSUME Init PROVE CalmInv
  OBVIOUS
<1>1. Len(offers) = 0 /\ ~cut /\ \A e \in Ends : attempt[e] = 0
  BY DEF Init
<1>2. \A e \in Ends : /\ pending[e] = None /\ installed[e] = None /\ phase[e] = "open"
                      /\ result[e] = "run" /\ inbox[e] = <<>> /\ outbound[e] = OpenFrame
  BY DEF Init, OpenFrame
<1>3. OffersOrdered /\ HeldFirst /\ Undisturbed
  BY <1>1, <1>2 DEF OffersOrdered, HeldFirst, Undisturbed
<1>4. AttemptsSpent
  BY <1>1, NegotiationAssumption DEF AttemptsSpent
<1>5. \A e \in Ends : Stream(e) = <<OpenFrame>>
  <2>1. Append(<<>>, OpenFrame) = <<OpenFrame>> /\ OpenFrame # NoFrame
    BY SmallSeqs, CourseFrames
  <2> QED BY <1>2, <2>1, EndsFacts, Zenon DEF Stream
<1>6. Course
  BY <1>2, <1>5, EndsFacts DEF Course, At
<1> QED BY <1>1, <1>3, <1>4, <1>6 DEF CalmInv

LEMMA CalmConverges ==
  ASSUME TypeOK, Calm => CalmInv
  PROVE  ConvergesOnFirstJoint
<1> SUFFICES ASSUME Calm, \A e \in Ends : result[e] # "run"
             PROVE  IF Joint = {} THEN \A e \in Ends : installed[e] = None
                    ELSE \E i \in Joint : /\ \A j \in Joint : i <= j
                                          /\ \A e \in Ends : installed[e] = env.derive[Initiator][i]
  BY DEF ConvergesOnFirstJoint, Calm
<1>1. CASE Joint = {}
  BY <1>1 DEF CalmInv, HeldFirst, FirstJoint
<1>2. CASE Joint # {}
  <2>1. ASSUME NEW e \in Ends PROVE FirstJoint(installed[e])
    BY <1>2 DEF CalmInv, Undisturbed, HeldFirst, TypeOK
  <2>2. PICK i \in Joint : env.derive[Initiator][i] = installed[Initiator] /\ \A j \in Joint : i <= j
    BY <2>1, EndsFacts DEF FirstJoint
  <2>3. PICK k \in Joint : env.derive[Initiator][k] = installed[Responder] /\ \A j \in Joint : k <= j
    BY <2>1, EndsFacts DEF FirstJoint
  <2>4. i = k
    BY <2>2, <2>3, NegotiationAssumption DEF Joint
  <2> QED BY <1>2, <2>2, <2>3, <2>4 DEF Ends
<1> QED BY <1>1, <1>2

\* Between two ends that derive alike, answer steadily and meet no fault,
\* nextProposal and handleProposal settle on the first attempt free for both:
\* the session installs it on both sides, and ends without a Link only when no
\* attempt is free for both, however the two loops interleave.
THEOREM ConvergesHolds == Spec => []ConvergesOnFirstJoint
<1>1. TypeOK /\ TurnInv /\ AcceptBacked /\ OfferInv /\ (Calm => CalmInv) /\ [Next]_vars
        => (Calm => CalmInv)'
  <2> SUFFICES ASSUME TypeOK, TurnInv, OfferInv, Calm => CalmInv, [Next]_vars, Calm'
               PROVE  CalmInv'
    OBVIOUS
  <2>1. Calm
    BY EnvKept DEF Calm, Faults, Drift
  <2> QED BY <2>1, CalmStep
<1>2. Init => (Calm => CalmInv)
  BY InitCalm
<1>3. TypeOK /\ (Calm => CalmInv) => ConvergesOnFirstJoint
  BY CalmConverges
<1> QED BY <1>1, <1>2, <1>3, OffersInvariant, PTL DEF Spec
=============================================================================

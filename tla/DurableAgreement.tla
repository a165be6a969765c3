-------------------------- MODULE DurableAgreement --------------------------
(***************************************************************************)
(* Promotion of a healthy automatic Link to a durable agreement between    *)
(* two nodes (internal/runtime/durable*.go): the DURABLE_PROPOSE, SAVED,   *)
(* DECLINE exchange on Link-bound TCP sessions, the persistent store, the  *)
(* DURABLE_CHECK query over routed sessions, and every way a record ends.  *)
(*                                                                         *)
(* durableManager.mu makes each handler atomic on its node.  A handler     *)
(* that stores, sends and stores again may stop after each of these (a     *)
(* failed write, a lost Link, a failed send); a crash between two of them  *)
(* is that early stop followed by Crash.  Time is abstracted: a session is *)
(* bounded by 10s and an operation by 30s, so an operation expires only    *)
(* after its session has ended; a stability interval (Stable, 30 minutes   *)
(* by default) outlasts both.                                              *)
(***************************************************************************)
EXTENDS Naturals, Sequences

CONSTANTS
  Qualifiers,  \* nodes whose NAT preserves the listening port
  Full,        \* nodes whose Durable.SoftLimit is used up by other peers
  Others,      \* nodes with a confirmed agreement with another peer
  Passive,     \* nodes that accept but never propose (dynamic mode passive)
  MaxId,       \* bound: agreement identifiers in use at one time
  MaxAddr,     \* bound: external endpoints a node may have
  MaxFaults    \* bound: faults and environment changes in a behaviour

Low == "low"     \* the node with the smaller UUID
High == "high"
Nodes == {Low, High}
Peer(n) == IF n = Low THEN High ELSE Low

ASSUME DurableAssumption ==
  /\ Qualifiers \subseteq Nodes /\ Full \subseteq Nodes
  /\ Others \subseteq Nodes /\ Passive \subseteq Nodes
  /\ MaxId \in Nat /\ MaxAddr \in Nat \ {0} /\ MaxFaults \in Nat

VARIABLES
  mem,      \* mem[n]: d.records of n for its peer
  disk,     \* disk[n]: durable.json of n for its peer
  op,       \* op[n]: d.operations of n for its peer
  dial,     \* dial[n]: first message of the worker tick started, not yet sent
  ends,     \* ends[i]: the nodes whose end of the session dialled by i is open
  chan,     \* chan[i][n]: frames in flight to n on the session dialled by i
  obs,      \* obs[n]: d.observations of n for the Link
  cool,     \* cool[n]: d.cooldown of n has not passed
  link,     \* link[n]: n's automatic Link is active (materializedState.active)
  addr,     \* addr[n]: n's external endpoint
  query,    \* query[n]: the DURABLE_CHECK of n in flight
  ready,    \* ready[n]: durableCheckState.readyUntil has not passed
  alive,    \* alive[n]: the daemon of n runs
  faults,   \* history: faults used up
  stored    \* history: the agreements n ever had in its store

store == <<mem, disk, stored>>
wire == <<ends, chan>>
vars == <<mem, disk, op, dial, ends, chan, obs, cool, link, addr, query, ready,
          alive, faults, stored>>

Ids == 1 .. MaxId
Endpoint == 0 .. MaxAddr   \* 0: no fixed endpoint
Fixed == [Nodes -> Endpoint]
Record == [id: Ids, fixed: Fixed, confirmed: BOOLEAN]
NoRecord == [id |-> 0]
Terms == [id: Ids, fixed: Fixed]
TermsOf(r) == [id |-> r.id, fixed |-> r.fixed]

\* session: the dialler of the session, "none" before Operational, "gone"
\* once that session has ended (a pointer no later session equals).
Operation == [rec: Record, session: Nodes \cup {"none", "gone"},
              outgoing: BOOLEAN, saved: BOOLEAN]
NoOp == [session |-> "no operation"]

ProposeMsg == [type: {"PROPOSE"}, id: Ids, fixed: Fixed, noDurable: BOOLEAN]
ReplyMsg == [type: {"SAVED", "DECLINE"}, id: Ids]
NoDial == [type |-> "none"]
NoQuery == [status |-> "none"]
Query == [id: Ids, status: {"asked", "READY", "NOT_READY", "ABSENT"}, fenced: BOOLEAN]
Observation == [age: {"none", "fresh", "stable"}, local: Endpoint, remote: Endpoint]
NoObservation == [age |-> "none", local |-> 0, remote |-> 0]

TypeOK ==
  /\ mem \in [Nodes -> Record \cup {NoRecord}]
  /\ disk \in [Nodes -> Record \cup {NoRecord}]
  /\ op \in [Nodes -> Operation \cup {NoOp}]
  /\ dial \in [Nodes -> ProposeMsg \cup {NoDial}]
  /\ ends \in [Nodes -> SUBSET Nodes]
  /\ chan \in [Nodes -> [Nodes -> Seq(ProposeMsg \cup ReplyMsg)]]
  /\ obs \in [Nodes -> Observation]
  /\ cool \in [Nodes -> BOOLEAN] /\ link \in [Nodes -> BOOLEAN]
  /\ addr \in [Nodes -> 1 .. MaxAddr]
  /\ query \in [Nodes -> Query \cup {NoQuery}]
  /\ ready \in [Nodes -> BOOLEAN] /\ alive \in [Nodes -> BOOLEAN]
  /\ faults \in 0 .. MaxFaults
  /\ stored \in [Nodes -> SUBSET Terms]

\* A healthy automatic Link between two running daemons, nothing agreed yet.
Init ==
  /\ mem = [n \in Nodes |-> NoRecord] /\ disk = [n \in Nodes |-> NoRecord]
  /\ op = [n \in Nodes |-> NoOp] /\ dial = [n \in Nodes |-> NoDial]
  /\ ends = [n \in Nodes |-> {}]
  /\ chan = [i \in Nodes |-> [n \in Nodes |-> <<>>]]
  /\ obs = [n \in Nodes |-> NoObservation]
  /\ cool = [n \in Nodes |-> FALSE] /\ link = [n \in Nodes |-> TRUE]
  /\ addr = [n \in Nodes |-> 1]
  /\ query = [n \in Nodes |-> NoQuery] /\ ready = [n \in Nodes |-> FALSE]
  /\ alive = [n \in Nodes |-> TRUE]
  /\ faults = 0
  /\ stored = [n \in Nodes |-> {}]

-----------------------------------------------------------------------------
(* newAgreementID draws a random identifier.  One that nothing refers to any *)
(* more cannot be told from one never drawn, so the least such is drawn.     *)
IdsAt(n) ==
  {t.id : t \in stored[n]}
  \cup {op[m].rec.id : m \in {m \in {n} : op[m] # NoOp}}
  \cup {dial[m].id : m \in {m \in {n} : dial[m] # NoDial}}
  \cup {query[m].id : m \in {m \in {n} : query[m] # NoQuery}}
  \cup UNION {{chan[i][n][k].id : k \in 1 .. Len(chan[i][n])} : i \in Nodes}

InUse == UNION {IdsAt(n) : n \in Nodes}

Fresh(id) == id \in Ids \ InUse /\ \A j \in Ids \ InUse : id <= j

-----------------------------------------------------------------------------
(* The store.  saveDurable replaces the file by rename and then synchronises *)
(* the directory: a failure leaves the old file or, after the rename, the new *)
(* one; the caller keeps its old memory either way.                          *)
Has(r) == r # NoRecord
Noted(n, r) == IF Has(r) THEN [stored EXCEPT ![n] = @ \cup {TermsOf(r)}] ELSE stored

Fault == faults < MaxFaults /\ faults' = faults + 1

SaveOk(n, r) ==
  /\ disk' = [disk EXCEPT ![n] = r] /\ mem' = [mem EXCEPT ![n] = r]
  /\ stored' = Noted(n, r)

SaveFails(n, r) ==
  /\ \/ UNCHANGED <<disk, stored>>
     \/ disk' = [disk EXCEPT ![n] = r] /\ stored' = Noted(n, r)
  /\ UNCHANGED mem

\* saveLocked drops the check state of a replaced agreement; the reply of a
\* check in flight is then fenced off.
FenceCheck(n) ==
  /\ query' = [query EXCEPT ![n] = IF @ = NoQuery THEN @ ELSE [@ EXCEPT !.fenced = TRUE]]
  /\ ready' = [ready EXCEPT ![n] = FALSE]

SaveChecks(n, r) ==
  IF Has(mem[n]) /\ mem[n].id # r.id THEN FenceCheck(n) ELSE UNCHANGED <<query, ready>>

\* deleteLocked: save, then cooldown, and forget operation, check and
\* observation.
DeleteOk(n) ==
  /\ SaveOk(n, NoRecord)
  /\ cool' = [cool EXCEPT ![n] = TRUE]
  /\ op' = [op EXCEPT ![n] = NoOp]
  /\ obs' = [obs EXCEPT ![n] = NoObservation]
  /\ FenceCheck(n)

DeleteFails(n) == SaveFails(n, NoRecord) /\ UNCHANGED <<cool, op, query, ready>>

-----------------------------------------------------------------------------
(* Sessions.                                                               *)
Open(i, n) == n \in ends[i]

\* ops with this session pointer no longer match any session
Detach(n, i, o) == IF o # NoOp /\ o.session = i THEN [o EXCEPT !.session = "gone"] ELSE o

\* Engine.Run returns at n: its end closes, what was sent stays readable.
CloseWire(i, n) ==
  /\ ends' = [ends EXCEPT ![i] = @ \ {n}]
  /\ chan' = [chan EXCEPT ![i] =
                IF ends[i] \subseteq {n} THEN [m \in Nodes |-> <<>>]
                ELSE [@ EXCEPT ![n] = <<>>]]

Pop(i, n) == Tail(chan[i][n])

\* Frame read by n, answer sent on the same session; a closed peer drops it.
Answer(i, n, m) ==
  /\ chan' = [chan EXCEPT ![i] =
                [x \in Nodes |-> IF x = n THEN Pop(i, n)
                                 ELSE IF Open(i, Peer(n)) THEN Append(@[x], m) ELSE @[x]]]
  /\ UNCHANGED ends

\* As Answer, and n's end closes (errDurableComplete after the last send).
AnswerAndClose(i, n, m) ==
  /\ ends' = [ends EXCEPT ![i] = @ \ {n}]
  /\ chan' = [chan EXCEPT ![i] =
                [x \in Nodes |-> IF x = n \/ ~Open(i, Peer(n)) THEN <<>> ELSE Append(@[x], m)]]

Reading(i, n, t) ==
  /\ alive[n] /\ Open(i, n) /\ chan[i][n] # <<>> /\ Head(chan[i][n]).type = t

\* durableManager.tick
LiveOp(n) == op[n] # NoOp
Eligible(n) == obs[n].age = "stable" /\ n \in Qualifiers

\* flags of the first message: NO_DURABLE when nothing is confirmed
NoDurable(n) == n \notin Others /\ ~(Has(mem[n]) /\ mem[n].confirmed)

StartOperation(n, r) ==
  /\ op' = [op EXCEPT ![n] = [rec |-> r, session |-> "none", outgoing |-> TRUE, saved |-> FALSE]]
  /\ dial' = [dial EXCEPT ![n] = [type |-> "PROPOSE", id |-> r.id, fixed |-> r.fixed,
                                  noDurable |-> NoDurable(n)]]

TickReady(n) ==
  /\ alive[n] /\ link[n] /\ ~LiveOp(n) /\ obs[n].age # "none"
  /\ dial[n] = NoDial /\ ~Open(n, n)

\* tick: a fresh agreement naming n's own endpoint.
TickFresh(n) ==
  /\ TickReady(n) /\ ~Has(mem[n])
  /\ n \notin Passive /\ Eligible(n) /\ n \notin Full
  /\ \E id \in Ids :
       /\ Fresh(id)
       /\ StartOperation(n, [id |-> id, confirmed |-> FALSE,
                             fixed |-> [m \in Nodes |-> IF m = n THEN obs[n].local ELSE 0]])
  /\ UNCHANGED <<store, wire, obs, cool, link, addr, query, ready, alive, faults>>

\* tick: an unconfirmed record is negotiated again under its identifier.
TickResume(n) ==
  /\ TickReady(n) /\ Has(mem[n]) /\ ~mem[n].confirmed
  /\ StartOperation(n, mem[n])
  /\ UNCHANGED <<store, wire, obs, cool, link, addr, query, ready, alive, faults>>

\* tick's worker: the session opens and PROPOSE is written; Operational then
\* adopts the session, or fails when the operation was superseded.
Dial(n) ==
  /\ alive[n] /\ dial[n] # NoDial /\ alive[Peer(n)] /\ ends[n] = {}
  /\ dial' = [dial EXCEPT ![n] = NoDial]
  /\ chan' = [chan EXCEPT ![n] = [m \in Nodes |-> IF m = n THEN <<>> ELSE <<dial[n]>>]]
  /\ \/ /\ LiveOp(n) /\ op[n].outgoing /\ op[n].session = "none"
        /\ ends' = [ends EXCEPT ![n] = Nodes]
        /\ op' = [op EXCEPT ![n].session = n]
     \/ /\ ~(LiveOp(n) /\ op[n].outgoing /\ op[n].session = "none")
        /\ ends' = [ends EXCEPT ![n] = {Peer(n)}]
        /\ UNCHANGED op
  /\ UNCHANGED <<store, obs, cool, link, addr, query, ready, alive, faults>>

\* The worker cannot connect.
DialFails(n) ==
  /\ alive[n] /\ dial[n] # NoDial /\ (Fault \/ (~alive[Peer(n)] /\ UNCHANGED faults))
  /\ dial' = [dial EXCEPT ![n] = NoDial]
  /\ UNCHANGED <<store, wire, op, obs, cool, link, addr, query, ready, alive>>

\* op.until passes.
ExpireOperation(n) ==
  /\ LiveOp(n) /\ op[n].session \in {"none", "gone"} /\ dial[n] = NoDial /\ ~Open(n, n)
  /\ op' = [op EXCEPT ![n] = NoOp]
  /\ UNCHANGED <<store, wire, dial, obs, cool, link, addr, query, ready, alive, faults>>

-----------------------------------------------------------------------------
(* handleLink.                                                             *)

\* Mutant: no tie-break, each node defends its own proposal.
CollidesAlways(i, n, m) ==
  LiveOp(n) /\ op[n].session # i /\ op[n].rec.id # m.id

\* DURABLE_PROPOSE while another operation of n is under way.
Collides(i, n, m) ==
  /\ LiveOp(n) /\ op[n].session # i /\ op[n].rec.id # m.id
  /\ ~op[n].outgoing \/ n = Low

\* The proposal's endpoints against n's own observation of the Link.
EndpointsHold(n, m) ==
  /\ m.fixed[n] # 0 =>
       /\ (Has(mem[n]) /\ mem[n].fixed[n] = m.fixed[n]) \/ Eligible(n)
       /\ m.fixed[n] = obs[n].local /\ n \in Qualifiers
  /\ m.fixed[Peer(n)] # 0 => m.fixed[Peer(n)] = obs[n].remote

Resumes(n, m) == Has(mem[n]) /\ mem[n].id = m.id

\* Mutant: a stored agreement is never replaced by a fresh proposal.
DeclinesReplacement(i, n, m) ==
  \/ cool[n]
  \/ Collides(i, n, m)
  \/ ~Has(mem[n]) /\ n \in Full /\ ~m.noDurable
  \/ obs[n].age = "none"
  \/ ~EndpointsHold(n, m)
  \/ Has(mem[n]) /\ TermsOf(mem[n]) # TermsOf(m)

Declines(i, n, m) ==
  \/ cool[n]
  \/ Collides(i, n, m)
  \/ ~Has(mem[n]) /\ n \in Full /\ ~m.noDurable
  \/ obs[n].age = "none"
  \/ ~EndpointsHold(n, m)
  \/ Resumes(n, m) /\ mem[n].fixed # m.fixed

DeclinePropose(i, n) ==
  /\ Reading(i, n, "PROPOSE") /\ link[n]
  /\ Declines(i, n, Head(chan[i][n]))
  /\ AnswerAndClose(i, n, [type |-> "DECLINE", id |-> Head(chan[i][n]).id])
  /\ op' = [op EXCEPT ![n] = Detach(n, i, @)]
  /\ UNCHANGED <<store, dial, obs, cool, link, addr, query, ready, alive, faults>>

\* n adds its own qualified endpoint under a fresh identifier.
AddsEndpoint(n, m) == ~Resumes(n, m) /\ Eligible(n) /\ m.fixed[n] = 0

\* Mutant: the counterproposal keeps the identifier of the proposal.
CounterProposeSameId(i, n) ==
  /\ Reading(i, n, "PROPOSE") /\ link[n]
  /\ LET m == Head(chan[i][n])
         fixed == [m.fixed EXCEPT ![n] = obs[n].local]
     IN /\ ~Declines(i, n, m) /\ AddsEndpoint(n, m)
        /\ op' = [op EXCEPT ![n] =
                    [rec |-> [id |-> m.id, fixed |-> fixed, confirmed |-> FALSE],
                     session |-> i, outgoing |-> FALSE, saved |-> FALSE]]
        /\ Answer(i, n, [type |-> "PROPOSE", id |-> m.id, fixed |-> fixed, noDurable |-> FALSE])
  /\ UNCHANGED <<store, dial, obs, cool, link, addr, query, ready, alive, faults>>

CounterPropose(i, n) ==
  /\ Reading(i, n, "PROPOSE") /\ link[n]
  /\ LET m == Head(chan[i][n])
         fixed == [m.fixed EXCEPT ![n] = obs[n].local]
     IN /\ ~Declines(i, n, m) /\ AddsEndpoint(n, m)
        /\ \E id \in Ids :
             /\ Fresh(id)
             /\ op' = [op EXCEPT ![n] =
                         [rec |-> [id |-> id, fixed |-> fixed, confirmed |-> FALSE],
                          session |-> i, outgoing |-> FALSE, saved |-> FALSE]]
             /\ Answer(i, n, [type |-> "PROPOSE", id |-> id, fixed |-> fixed, noDurable |-> FALSE])
  /\ UNCHANGED <<store, dial, obs, cool, link, addr, query, ready, alive, faults>>

\* Mutants: a replacement inherits the confirmation of the record it replaces;
\* SAVED is answered although the save failed.
AcceptInheriting(i, n) ==
  /\ Reading(i, n, "PROPOSE") /\ link[n]
  /\ LET m == Head(chan[i][n])
         r == [id |-> m.id, fixed |-> m.fixed, confirmed |-> Has(mem[n]) /\ mem[n].confirmed]
     IN /\ ~Declines(i, n, m) /\ ~AddsEndpoint(n, m)
        /\ SaveOk(n, r) /\ SaveChecks(n, r)
        /\ op' = [op EXCEPT ![n] = [rec |-> r, session |-> i, outgoing |-> FALSE, saved |-> TRUE]]
        /\ Answer(i, n, [type |-> "SAVED", id |-> m.id])
  /\ UNCHANGED <<dial, obs, cool, link, addr, alive, faults>>

AcceptUnsaved(i, n) ==
  /\ Reading(i, n, "PROPOSE") /\ link[n]
  /\ LET m == Head(chan[i][n])
         r == [id |-> m.id, fixed |-> m.fixed, confirmed |-> Resumes(n, m) /\ mem[n].confirmed]
     IN /\ ~Declines(i, n, m) /\ ~AddsEndpoint(n, m)
        /\ \/ SaveOk(n, r) /\ UNCHANGED faults
           \/ Fault /\ SaveFails(n, r)
        /\ op' = [op EXCEPT ![n] = [rec |-> r, session |-> i, outgoing |-> FALSE, saved |-> TRUE]]
        /\ Answer(i, n, [type |-> "SAVED", id |-> m.id])
  /\ UNCHANGED <<dial, obs, cool, link, addr, query, ready, alive>>

\* n stores the proposal and answers SAVED; it may stop before the store
\* (save error) or before the answer (Link lost, send failed).
AcceptPropose(i, n) ==
  /\ Reading(i, n, "PROPOSE") /\ link[n]
  /\ LET m == Head(chan[i][n])
         r == [id |-> m.id, fixed |-> m.fixed, confirmed |-> Resumes(n, m) /\ mem[n].confirmed]
         adopted == [rec |-> r, session |-> i, outgoing |-> FALSE, saved |-> TRUE]
     IN /\ ~Declines(i, n, m) /\ ~AddsEndpoint(n, m)
        /\ \/ /\ SaveOk(n, r) /\ SaveChecks(n, r)
              /\ op' = [op EXCEPT ![n] = adopted]
              /\ Answer(i, n, [type |-> "SAVED", id |-> m.id])
              /\ UNCHANGED faults
           \/ /\ Fault
              /\ SaveOk(n, r) /\ SaveChecks(n, r)
              /\ op' = [op EXCEPT ![n] = Detach(n, i, adopted)]
              /\ CloseWire(i, n)
           \/ /\ Fault
              /\ SaveFails(n, r)
              /\ op' = [op EXCEPT ![n] = Detach(n, i, @)]
              /\ CloseWire(i, n)
              /\ UNCHANGED <<query, ready>>
  /\ UNCHANGED <<dial, obs, cool, link, addr, alive>>

\* Mutant: a confirmation is not matched against the current operation.
ConfirmsAny(i, n, m) == LiveOp(n)

Confirms(i, n, m) == LiveOp(n) /\ op[n].rec.id = m.id /\ op[n].session = i

\* DURABLE_SAVED completes: the counterproposer stores and answers first; then
\* the record is stored as confirmed and the operation ends.
ConfirmSaved(i, n) ==
  /\ Reading(i, n, "SAVED") /\ link[n]
  /\ Confirms(i, n, Head(chan[i][n]))
  /\ LET r == [op[n].rec EXCEPT !.confirmed = TRUE]
     IN SaveOk(n, r) /\ SaveChecks(n, r)
  /\ op' = [op EXCEPT ![n] = NoOp]
  /\ IF op[n].saved THEN CloseWire(i, n)
     ELSE AnswerAndClose(i, n, [type |-> "SAVED", id |-> op[n].rec.id])
  /\ UNCHANGED <<dial, obs, cool, link, addr, alive, faults>>

\* The same handler stopping early: nothing stored, the first store done
\* without or with the answer sent, or the second store failing.
ConfirmStops(i, n) ==
  /\ Reading(i, n, "SAVED") /\ link[n]
  /\ Confirms(i, n, Head(chan[i][n]))
  /\ Fault
  /\ LET r == op[n].rec
         final == [r EXCEPT !.confirmed = TRUE]
         stop == [op EXCEPT ![n] = Detach(n, i, @)]
         stopSaved == [op EXCEPT ![n] = Detach(n, i, [@ EXCEPT !.saved = TRUE])]
         saved == [type |-> "SAVED", id |-> r.id]
     IN \/ /\ ~op[n].saved
           /\ SaveFails(n, r) /\ op' = stop /\ CloseWire(i, n)
           /\ UNCHANGED <<query, ready>>
        \/ /\ ~op[n].saved
           /\ SaveOk(n, r) /\ SaveChecks(n, r) /\ op' = stopSaved
           /\ CloseWire(i, n) \/ AnswerAndClose(i, n, saved)
        \/ /\ op[n].saved
           /\ SaveFails(n, final) /\ op' = stop /\ CloseWire(i, n)
           /\ UNCHANGED <<query, ready>>
        \/ /\ ~op[n].saved
           /\ mem' = [mem EXCEPT ![n] = r]
           /\ disk' = [disk EXCEPT ![n] = final]
           /\ stored' = Noted(n, r)
           /\ SaveChecks(n, r) /\ op' = stopSaved /\ AnswerAndClose(i, n, saved)
  /\ UNCHANGED <<dial, obs, cool, link, addr, alive>>

\* "stale durable confirmation", a DURABLE_DECLINE, or any message on a Link
\* that is no longer healthy: the session ends, nothing else changes.
EndsSession(i, n, m) ==
  \/ ~link[n]
  \/ m.type = "SAVED" /\ ~Confirms(i, n, m)
  \/ m.type = "DECLINE"

HandleLinkError(i, n) ==
  /\ alive[n] /\ Open(i, n) /\ chan[i][n] # <<>>
  /\ EndsSession(i, n, Head(chan[i][n]))
  /\ CloseWire(i, n)
  /\ op' = [op EXCEPT ![n] = Detach(n, i, @)]
  /\ UNCHANGED <<store, dial, obs, cool, link, addr, query, ready, alive, faults>>

\* End of stream at n, or (a fault) its 10s bound or a lost connection.
SessionEnds(i, n) ==
  /\ alive[n] /\ Open(i, n)
  /\ \/ chan[i][n] = <<>> /\ ~Open(i, Peer(n)) /\ UNCHANGED faults
     \/ Fault
  /\ CloseWire(i, n)
  /\ op' = [op EXCEPT ![n] = Detach(n, i, @)]
  /\ UNCHANGED <<store, dial, obs, cool, link, addr, query, ready, alive>>

-----------------------------------------------------------------------------
(* Observations, and the records they invalidate.                          *)
Mismatch(n, r, local, remote) ==
  \/ r.fixed[n] # 0 /\ (r.fixed[n] # local \/ n \notin Qualifiers)
  \/ r.fixed[Peer(n)] # 0 /\ r.fixed[Peer(n)] # remote

\* observe on a PONG of the active Link.  A kept local endpoint may have
\* lasted the stability interval, which a cooldown (as long, and older) does
\* not outlast.
Observe(n) ==
  /\ alive[n] /\ link[n]
  /\ LET local == addr[n]
         remote == addr[Peer(n)]
         kept == obs[n].age # "none" /\ obs[n].local = local
     IN \E age \in {"fresh", "stable"} :
          /\ age = "stable" => kept /\ ~cool[n]
          /\ obs[n].age = "stable" /\ kept => age = "stable"
          /\ \/ /\ ~(Has(mem[n]) /\ Mismatch(n, mem[n], local, remote))
                /\ obs' = [obs EXCEPT ![n] = [age |-> age, local |-> local, remote |-> remote]]
                /\ UNCHANGED <<store, cool, op, query, ready, faults>>
             \/ /\ Has(mem[n]) /\ Mismatch(n, mem[n], local, remote)
                /\ DeleteOk(n) /\ UNCHANGED faults
             \/ /\ Has(mem[n]) /\ Mismatch(n, mem[n], local, remote)
                /\ Fault /\ DeleteFails(n)
                /\ obs' = [obs EXCEPT ![n] = [age |-> age, local |-> local, remote |-> remote]]
  /\ UNCHANGED <<wire, dial, link, addr, alive>>

\* linkFailureTimeout without a PONG: the observation no longer counts.
ObservationLapses(n) ==
  /\ obs[n].age # "none" /\ ~link[n]
  /\ obs' = [obs EXCEPT ![n] = NoObservation]
  /\ UNCHANGED <<store, wire, dial, op, cool, link, addr, query, ready, alive, faults>>

CooldownEnds(n) ==
  /\ cool[n]
  /\ cool' = [cool EXCEPT ![n] = FALSE]
  /\ UNCHANGED <<store, wire, dial, op, obs, link, addr, query, ready, alive, faults>>

-----------------------------------------------------------------------------
(* DURABLE_CHECK over routed sessions, while the Link is down.             *)
\* A fenced check is forgotten with its state, so it does not hold up the next.
StartCheck(n) ==
  /\ alive[n] /\ Has(mem[n]) /\ ~link[n]
  /\ query[n] # NoQuery => query[n].fenced
  /\ query' = [query EXCEPT ![n] = [id |-> mem[n].id, status |-> "asked", fenced |-> FALSE]]
  /\ UNCHANGED <<store, wire, dial, op, obs, cool, link, addr, ready, alive, faults>>

\* handleCheck at the peer of n; READY depends on its receive resources.
HandleCheck(n) ==
  /\ alive[Peer(n)] /\ query[n] # NoQuery /\ query[n].status = "asked"
  /\ \E status \in IF Has(mem[Peer(n)]) /\ mem[Peer(n)].id = query[n].id
                   THEN {"READY", "NOT_READY"} ELSE {"ABSENT"} :
       query' = [query EXCEPT ![n].status = status]
  /\ UNCHANGED <<store, wire, dial, op, obs, cool, link, addr, ready, alive, faults>>

\* acceptStatus: fenced by agreement, check state and query.
Current(n) == ~query[n].fenced /\ Has(mem[n]) /\ mem[n].id = query[n].id

AbsentDeletes(n) ==
  Current(n) /\ query[n].status = "ABSENT" /\ (mem[n].confirmed \/ ~link[n])

AcceptStatus(n) ==
  /\ alive[n] /\ query[n] # NoQuery /\ query[n].status \in {"READY", "NOT_READY", "ABSENT"}
  /\ ~AbsentDeletes(n)
  /\ query' = [query EXCEPT ![n] = NoQuery]
  /\ ready' = [ready EXCEPT ![n] =
                 IF ~Current(n) \/ query[n].status = "ABSENT" THEN @
                 ELSE query[n].status = "READY"]
  /\ UNCHANGED <<store, wire, dial, op, obs, cool, link, addr, alive, faults>>

AcceptAbsent(n) ==
  /\ alive[n] /\ query[n] # NoQuery /\ AbsentDeletes(n)
  /\ SaveOk(n, NoRecord)
  /\ cool' = [cool EXCEPT ![n] = TRUE]
  /\ op' = [op EXCEPT ![n] = NoOp]
  /\ obs' = [obs EXCEPT ![n] = NoObservation]
  /\ query' = [query EXCEPT ![n] = NoQuery]
  /\ ready' = [ready EXCEPT ![n] = FALSE]
  /\ UNCHANGED <<wire, dial, link, addr, alive, faults>>

\* The check ends without an answer; the deletion it asked for fails.
CheckFails(n) ==
  /\ alive[n] /\ query[n] # NoQuery /\ Fault
  /\ query' = [query EXCEPT ![n] = NoQuery]
  /\ \/ UNCHANGED store
     \/ AbsentDeletes(n) /\ SaveFails(n, NoRecord)
  /\ UNCHANGED <<wire, dial, op, obs, cool, link, addr, ready, alive>>

ReadyLapses(n) ==
  /\ ready[n]
  /\ ready' = [ready EXCEPT ![n] = FALSE]
  /\ UNCHANGED <<store, wire, dial, op, obs, cool, link, addr, query, alive, faults>>

\* durableFailureTimeout of direct failure while both peers are ready.
DirectFailure(n) ==
  /\ alive[n] /\ Has(mem[n]) /\ ~link[n] /\ ready[n]
  /\ \/ DeleteOk(n) /\ UNCHANGED faults
     \/ Fault /\ DeleteFails(n) /\ UNCHANGED obs
  /\ UNCHANGED <<wire, dial, link, addr, alive>>

\* Runner.DeleteDurable, on an operator's request.
DeleteDurable(n) ==
  /\ alive[n] /\ Has(mem[n]) /\ Fault
  /\ \/ DeleteOk(n)
     \/ DeleteFails(n) /\ UNCHANGED obs
  /\ UNCHANGED <<wire, dial, link, addr, alive>>

\* refreshPeerMetadata, handleCheck and confirmRestore store the same agreement
\* again with a new peer name, loopback or port.
Resave(n) ==
  /\ alive[n] /\ Has(mem[n]) /\ SaveOk(n, mem[n])
  /\ UNCHANGED <<wire, dial, op, obs, cool, link, addr, query, ready, alive, faults>>

-----------------------------------------------------------------------------
(* The environment: Links, roaming, crashes.                               *)
LinkDown(n) ==
  /\ alive[n] /\ link[n] /\ Fault
  /\ link' = [link EXCEPT ![n] = FALSE]
  /\ UNCHANGED <<store, wire, dial, op, obs, cool, addr, query, ready, alive>>

LinkUp(n) ==
  /\ alive[n] /\ alive[Peer(n)] /\ ~link[n]
  /\ link' = [link EXCEPT ![n] = TRUE]
  /\ UNCHANGED <<store, wire, dial, op, obs, cool, addr, query, ready, alive, faults>>

Roam(n) ==
  /\ Fault /\ \E a \in 1 .. MaxAddr \ {addr[n]} : addr' = [addr EXCEPT ![n] = a]
  /\ UNCHANGED <<store, wire, dial, op, obs, cool, link, query, ready, alive>>

\* The daemon stops: memory and its ends of the sessions are gone.
Crash(n) ==
  /\ alive[n] /\ Fault
  /\ alive' = [alive EXCEPT ![n] = FALSE]
  /\ mem' = [mem EXCEPT ![n] = NoRecord]
  /\ op' = [op EXCEPT ![n] = NoOp] /\ dial' = [dial EXCEPT ![n] = NoDial]
  /\ ends' = [i \in Nodes |-> ends[i] \ {n}]
  /\ chan' = [i \in Nodes |-> IF ends[i] \subseteq {n} THEN [m \in Nodes |-> <<>>]
                              ELSE [chan[i] EXCEPT ![n] = <<>>]]
  /\ obs' = [obs EXCEPT ![n] = NoObservation]
  /\ cool' = [cool EXCEPT ![n] = FALSE] /\ link' = [link EXCEPT ![n] = FALSE]
  /\ query' = [query EXCEPT ![n] = NoQuery] /\ ready' = [ready EXCEPT ![n] = FALSE]
  /\ UNCHANGED <<disk, addr, stored>>

\* openDurable: the record is loaded, or dropped (with a save) when the new
\* configuration forbids automatic Links or its fixed endpoints.
Restart(n) ==
  /\ ~alive[n]
  /\ alive' = [alive EXCEPT ![n] = TRUE]
  /\ \/ mem' = [mem EXCEPT ![n] = disk[n]] /\ UNCHANGED <<disk, faults>>
     \/ /\ Has(disk[n]) /\ Fault
        /\ disk' = [disk EXCEPT ![n] = NoRecord] /\ UNCHANGED mem
  /\ UNCHANGED <<stored, wire, dial, op, obs, cool, link, addr, query, ready>>

-----------------------------------------------------------------------------
Handler(i, n) ==
  \/ DeclinePropose(i, n) \/ CounterPropose(i, n) \/ AcceptPropose(i, n)
  \/ ConfirmSaved(i, n) \/ ConfirmStops(i, n) \/ HandleLinkError(i, n) \/ SessionEnds(i, n)

Manager(n) ==
  \/ TickFresh(n) \/ TickResume(n) \/ Dial(n) \/ DialFails(n) \/ ExpireOperation(n)
  \/ Observe(n) \/ ObservationLapses(n) \/ CooldownEnds(n)
  \/ StartCheck(n) \/ HandleCheck(n) \/ AcceptStatus(n) \/ AcceptAbsent(n) \/ CheckFails(n)
  \/ ReadyLapses(n) \/ DirectFailure(n) \/ DeleteDurable(n) \/ Resave(n)

Environment(n) == LinkDown(n) \/ LinkUp(n) \/ Roam(n) \/ Crash(n) \/ Restart(n)

Next == \/ \E i, n \in Nodes : Handler(i, n)
        \/ \E n \in Nodes : Manager(n) \/ Environment(n)

Spec == Init /\ [][Next]_vars

\* The daemon ticks every second, its workers and timers run, the supervisor
\* keeps pinging a healthy Link, delivered frames are read, a stopped daemon
\* is restarted and a lost Link comes back.
Fairness ==
  /\ \A n \in Nodes :
       /\ WF_vars(TickFresh(n)) /\ WF_vars(TickResume(n))
       /\ WF_vars(Dial(n)) /\ WF_vars(DialFails(n))
       /\ WF_vars(ExpireOperation(n)) /\ WF_vars(Observe(n)) /\ WF_vars(CooldownEnds(n))
       /\ WF_vars(HandleCheck(n)) /\ WF_vars(AcceptStatus(n)) /\ WF_vars(AcceptAbsent(n))
       /\ WF_vars(LinkUp(n)) /\ WF_vars(Restart(n))
  /\ \A i, n \in Nodes : WF_vars(Handler(i, n))

LiveSpec == Spec /\ Fairness

-----------------------------------------------------------------------------
\* Local confirmed success (handleLink, DURABLE_SAVED) means the peer has had
\* exactly these terms in its store, in memory and in the file, across
\* collisions, replacements, failed saves, crashes and restarts.
ConfirmedMeansPeerStored ==
  \A n \in Nodes : \A r \in {mem[n], disk[n]} :
    Has(r) /\ r.confirmed => TermsOf(r) \in stored[Peer(n)]

\* The fixed endpoints of an agreement identifier never change: everything
\* that names an identifier (store, operation, proposal in flight) names the
\* same endpoints (handleLink draws a fresh one for a counterproposal).
TermsNamed(n) ==
  stored[n]
  \cup {TermsOf(op[m].rec) : m \in {m \in {n} : LiveOp(m)}}
  \cup {TermsOf(dial[m]) : m \in {m \in {n} : dial[m] # NoDial}}
  \cup UNION {{TermsOf(chan[i][n][k]) : k \in {k \in 1 .. Len(chan[i][n]) : chan[i][n][k].type = "PROPOSE"}} :
                i \in Nodes}

FixedEndpointsImmutable ==
  \A a, b \in UNION {TermsNamed(n) : n \in Nodes} : a.id = b.id => a = b

\* Two confirmed records in memory are the same agreement.
ConfirmedAgree ==
  (\A n \in Nodes : Has(mem[n]) /\ mem[n].confirmed) => TermsOf(mem[Low]) = TermsOf(mem[High])

\* A DURABLE_SAVED in flight was sent by a node that has stored that
\* agreement on stable storage before.
SavedIsStored ==
  \A i, n \in Nodes : \A k \in 1 .. Len(chan[i][n]) :
    chan[i][n][k].type = "SAVED" =>
      \E t \in stored[Peer(n)] : t.id = chan[i][n][k].id

\* What a node says or believes of its peer's store is true, across failed saves,
\* crashes and lost sessions: neither a confirmation nor a DURABLE_SAVED outruns the disk.
PeerStored == ConfirmedMeansPeerStored /\ SavedIsStored

\* An agreement is its terms: one identifier never has two sets of endpoints, and two
\* nodes that both confirmed hold the same agreement.
TermsAgreed == FixedEndpointsImmutable /\ ConfirmedAgree

\* On a healthy Link with a qualified node and no faults, promotion ends in one
\* agreement both nodes have confirmed, whoever proposes and however the two
\* proposals, counterproposals and declines interleave.
PromotionConverges ==
  [](faults = 0) => <>[](\A n \in Nodes : Has(mem[n]) /\ mem[n].confirmed /\ mem[n] = mem[Peer(n)])

\* Whatever faults strike the exchange, the stores, the Link or a daemon, two
\* qualified nodes end up holding one and the same agreement (tick, handleLink,
\* restoreAndCheck, openDurable); a retained one-sided record is replaced.
AgreementRecovers ==
  <>[]((\A n \in Nodes : Has(mem[n])) /\ TermsOf(mem[Low]) = TermsOf(mem[High]))

=============================================================================

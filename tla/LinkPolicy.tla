----------------------------- MODULE LinkPolicy -----------------------------
(***************************************************************************)
(* The policy exchange of Dynamic-Links (internal/runtime/                 *)
(* dynamic_policy.go, policy_revision.go), between a publisher that may    *)
(* accept Links or not and a seeker that wants one.  Every node is both;   *)
(* the two directions share nothing but the identity binding: the          *)
(* publisher's own queries and dials reach the seeker as Ask and Call.     *)
(*                                                                         *)
(* The publisher reserves a revision on disk each time its runtime starts, *)
(* then names its decision by it: in UDP updates, and in the DECLINE of a  *)
(* routed TCP session.  The seeker caches the newest decision for each     *)
(* loopback, queries a publisher that denies and dials any other.          *)
(*                                                                         *)
(* Budgets and retention are time: they delay a send and never forbid it,  *)
(* so a send or an eviction may happen at any moment and, by fairness,     *)
(* happens in the end.                                                     *)
(***************************************************************************)
EXTENDS Naturals

CONSTANTS
  Addrs,        \* loopbacks the publisher may be configured with
  None,         \* no policy, no reply
  MaxRevision,  \* the largest revision, ^uint64(0)
  MaxStops,     \* ends of a publisher runtime: reloads, crashes, power losses
  MaxFaults     \* failed storage steps and sessions, lost and duplicated datagrams, ...,
                \* and queries and dials of the publisher's own

ASSUME PolicyAssumption ==
  /\ MaxRevision \in Nat \ {0} /\ MaxStops \in Nat /\ MaxFaults \in Nat
  /\ None \notin [rev: Nat, accept: BOOLEAN]

VARIABLES
  run,        \* where the publisher's start is; "up": started
  addr,       \* Desired.LoopbackV6 of the publisher
  accept,     \* allowsInbound
  rev,        \* policyRevision, 0 without one
  file,       \* the revision file as processes see it, 0 without one
  disk,       \* the revision file a power loss cannot undo
  known,      \* the publisher has the seeker's identity among its targets
  pend,       \* pendingUpdate of that target
  tgt,        \* tgt[a]: the seeker's target for loopback a
  sess,       \* sess[a]: the seeker's dial of loopback a
  calls,      \* loopbacks with a session the publisher dialled, not yet operational
  linked,     \* the seeker has a direct Link to the publisher
  routes,     \* loopbacks the seeker has a route to
  net,        \* datagrams in flight
  published,  \* history: decisions sent
  stops, faults

diskVars == <<file, disk>>
pubVars == <<run, addr, accept, rev, known, pend>>
seekVars == <<tgt, sess, calls, linked>>
vars == <<diskVars, pubVars, seekVars, routes, net, published, stops, faults>>

Policy == [rev: 1 .. MaxRevision, accept: BOOLEAN]
Target == [uid: BOOLEAN, bound: BOOLEAN, policy: Policy \cup {None}, query: BOOLEAN]
NoTarget == [uid |-> FALSE, bound |-> FALSE, policy |-> None, query |-> FALSE]

\* A dial: not yet connected, connected to the runtime with that revision, its identity
\* bound, proposed.
Dial == [st: {"none", "dialing", "open", "bound", "proposed"}, rev: 0 .. MaxRevision,
         reply: Policy \cup {None}]
NoDial == [st |-> "none", rev |-> 0, reply |-> None]

Update == [type: {"update"}, addr: Addrs, policy: Policy]
Query == [type: {"query"}, addr: Addrs]
Ask == [type: {"ask"}, addr: Addrs]
Datagram == Update \cup Query \cup Ask

Current == [rev |-> rev, accept |-> accept]
Denied(a) == tgt[a].policy # None /\ ~tgt[a].policy.accept

TypeOK ==
  /\ run \in {"down", "read", "staged", "renamed", "up"}
  /\ addr \in Addrs /\ accept \in BOOLEAN /\ rev \in 0 .. MaxRevision
  /\ file \in 0 .. MaxRevision /\ disk \in 0 .. MaxRevision
  /\ known \in BOOLEAN /\ pend \in BOOLEAN
  /\ tgt \in [Addrs -> Target] /\ sess \in [Addrs -> Dial]
  /\ calls \subseteq Addrs /\ linked \in BOOLEAN
  /\ routes \subseteq Addrs /\ net \subseteq Datagram
  /\ published \subseteq Policy
  /\ stops \in 0 .. MaxStops /\ faults \in 0 .. MaxFaults

Init ==
  /\ run = "down" /\ addr \in Addrs /\ accept \in BOOLEAN /\ rev = 0
  /\ file = 0 /\ disk = 0
  /\ known = FALSE /\ pend = FALSE
  /\ tgt = [a \in Addrs |-> NoTarget] /\ sess = [a \in Addrs |-> NoDial]
  /\ calls = {} /\ linked = FALSE
  /\ routes = {} /\ net = {} /\ published = {}
  /\ stops = 0 /\ faults = 0

Fault == faults < MaxFaults /\ faults' = faults + 1

-----------------------------------------------------------------------------
(* The publisher's start: reservePolicyRevision under its file lock, and   *)
(* then the policy socket.                                                 *)

\* A runtime starts on a configuration: targets of a previous one are kept with an
\* unchanged loopback.  A counter at its limit is refused.
Start(c, ok) ==
  /\ run = "down" /\ file < MaxRevision
  /\ run' = "read"
  /\ addr' = c /\ accept' = ok
  /\ known' = (known /\ c = addr)
  /\ UNCHANGED <<diskVars, rev, pend, seekVars, routes, net, published, stops, faults>>

\* The next revision is written to a temporary file and synced.
Stage ==
  /\ run = "read"
  /\ run' = "staged"
  /\ UNCHANGED <<diskVars, addr, accept, rev, known, pend, seekVars, routes, net,
                 published, stops, faults>>

\* Mutant: the revision is used before the directory is synced.
RenameReturns ==
  /\ run = "staged"
  /\ file' = file + 1 /\ rev' = file + 1
  /\ run' = "up" /\ pend' = known
  /\ UNCHANGED <<disk, addr, accept, known, seekVars, routes, net, published, stops, faults>>

Rename ==
  /\ run = "staged"
  /\ file' = file + 1
  /\ run' = "renamed"
  /\ UNCHANGED <<disk, addr, accept, rev, known, pend, seekVars, routes, net, published,
                 stops, faults>>

\* The directory is synced; the engine listens, and owes known targets an update.
SyncDirectory ==
  /\ run = "renamed"
  /\ disk' = file /\ rev' = file
  /\ run' = "up" /\ pend' = known
  /\ UNCHANGED <<file, addr, accept, known, seekVars, routes, net, published, stops, faults>>

\* A step fails, and with it the start.  velvetd starts the previous configuration on
\* the same targets, or ends.
StartFails ==
  /\ run \in {"read", "staged", "renamed"} /\ Fault
  /\ run' = "down"
  /\ disk' \in disk .. file
  /\ known' \in {known, FALSE}
  /\ UNCHANGED <<file, addr, accept, rev, pend, seekVars, routes, net, published, stops>>

Stopped == stops < MaxStops /\ stops' = stops + 1 /\ run' = "down" /\ rev' = 0 /\ pend' = FALSE

\* A reload stops the runtime; InheritDynamic keeps its targets.
Reload ==
  /\ run = "up" /\ Stopped
  /\ UNCHANGED <<diskVars, addr, accept, known, seekVars, routes, net, published, faults>>

\* velvetd ends, or the machine loses power and what was not synced.
Crash ==
  /\ run # "down" /\ Stopped
  /\ known' = FALSE
  /\ \/ UNCHANGED diskVars
     \/ file' \in disk .. file /\ disk' = file'
  /\ UNCHANGED <<addr, accept, seekVars, routes, net, published, faults>>

-----------------------------------------------------------------------------
(* The publisher at work.                                                  *)

Send(m) == net' = net \cup {m}

\* flushPolicy of a pending update.
FlushUpdate ==
  /\ run = "up" /\ known /\ pend /\ addr \in routes
  /\ Send([type |-> "update", addr |-> addr, policy |-> Current])
  /\ published' = published \cup {Current}
  /\ pend' = FALSE
  /\ UNCHANGED <<diskVars, run, addr, accept, rev, known, seekVars, routes, stops, faults>>

\* Delivery of m, once or with a copy left in flight.
Deliver(m) ==
  /\ m \in net
  /\ \/ net' = net \ {m} /\ UNCHANGED faults
     \/ Fault /\ UNCHANGED net

\* Mutant: an unknown seeker is not answered.
ReceiveQueryKnown(m) ==
  /\ m.type = "query" /\ Deliver(m)
  /\ IF run = "up" /\ m.addr = addr /\ accept /\ known
     THEN pend' = TRUE /\ UNCHANGED known
     ELSE UNCHANGED <<known, pend>>
  /\ UNCHANGED <<diskVars, run, addr, accept, rev, seekVars, routes, published, stops>>

\* receivePolicy of a query: silence when denied, and a fresh target if need be.
ReceiveQuery(m) ==
  /\ m.type = "query" /\ Deliver(m)
  /\ IF run = "up" /\ m.addr = addr /\ accept
     THEN known' = TRUE /\ pend' = TRUE
     ELSE UNCHANGED <<known, pend>>
  /\ UNCHANGED <<diskVars, run, addr, accept, rev, seekVars, routes, published, stops>>

\* scanLoopbacks evicts a target that had no route for the retention time.
EvictSeeker ==
  /\ run = "up" /\ known /\ addr \notin routes
  /\ known' = FALSE /\ pend' = FALSE
  /\ UNCHANGED <<diskVars, run, addr, accept, rev, seekVars, routes, net, published, stops,
                 faults>>

\* The publisher seeks a Link too: it queries the seeker, or dials it.
SendAsk ==
  /\ run = "up" /\ addr \in routes /\ Fault
  /\ Send([type |-> "ask", addr |-> addr])
  /\ UNCHANGED <<diskVars, pubVars, seekVars, routes, published, stops>>
Call ==
  /\ run = "up" /\ addr \in routes /\ Fault
  /\ calls' = calls \cup {addr}
  /\ UNCHANGED <<diskVars, pubVars, tgt, sess, linked, routes, net, published, stops>>

-----------------------------------------------------------------------------
(* The seeker.                                                             *)

\* Mutant: the last policy to arrive wins.
MergeLast(t, p) == [t EXCEPT !.policy = p, !.query = FALSE]

\* mergePolicyLocked.
Merge(t, p) ==
  IF t.policy # None /\ p.rev <= t.policy.rev THEN t
  ELSE [t EXCEPT !.policy = p, !.query = FALSE]

\* Another loopback has the publisher's identity.
BoundElsewhere(a) == \E b \in Addrs \ {a} : tgt[b].uid

\* receivePolicy of an update: only for a binding learned over TCP, and no other
\* loopback may have the publisher's identity.
ReceiveUpdate(m) ==
  /\ m.type = "update" /\ Deliver(m)
  /\ tgt' = IF tgt[m.addr].bound /\ ~BoundElsewhere(m.addr)
            THEN [tgt EXCEPT ![m.addr] = Merge(@, m.policy)]
            ELSE tgt
  /\ UNCHANGED <<diskVars, pubVars, sess, calls, linked, routes, published, stops>>

\* receivePolicy of the publisher's query: the identity alone, in a fresh target if need be.
ReceiveAsk(m) ==
  /\ m.type = "ask" /\ Deliver(m)
  /\ tgt' = IF BoundElsewhere(m.addr) THEN tgt ELSE [tgt EXCEPT ![m.addr].uid = TRUE]
  /\ UNCHANGED <<diskVars, pubVars, sess, calls, linked, routes, published, stops>>

\* scanLoopbacks: targets whose retention has passed are evicted, queries are marked.
Scan(old) ==
  /\ tgt' = [a \in Addrs |->
       IF a \in old THEN NoTarget
       ELSE [tgt[a] EXCEPT !.query = /\ a \in routes /\ Denied(a)
                                     /\ sess[a] = NoDial /\ ~linked]]
  /\ UNCHANGED <<diskVars, pubVars, sess, calls, linked, routes, net, published, stops, faults>>

\* Mutant: a target that is being dialled is evicted too.
UnroutedAny == Addrs \ routes

\* What scanLoopbacks may evict: no route, and no dial that still needs the target.
Unrouted == {a \in Addrs \ routes : sess[a] = NoDial}

\* flushPolicy of a query.
FlushQuery(a) ==
  /\ tgt[a].query /\ tgt[a].bound /\ Denied(a)
  /\ Send([type |-> "query", addr |-> a])
  /\ tgt' = [tgt EXCEPT ![a].query = FALSE]
  /\ UNCHANGED <<diskVars, pubVars, sess, calls, linked, routes, published, stops, faults>>

\* reserveDial, for a target that does not deny.
ReserveDial(a) ==
  /\ a \in routes /\ ~Denied(a) /\ sess[a] = NoDial /\ ~linked
  /\ sess' = [sess EXCEPT ![a].st = "dialing"]
  /\ UNCHANGED <<diskVars, pubVars, tgt, calls, linked, routes, net, published, stops, faults>>

\* The session is operational at the publisher, which binds the seeker.
Connect(a) ==
  /\ sess[a].st = "dialing" /\ run = "up" /\ a = addr
  /\ sess' = [sess EXCEPT ![a].st = "open", ![a].rev = rev]
  /\ known' = TRUE
  /\ UNCHANGED <<diskVars, run, addr, accept, rev, pend, tgt, calls, linked, routes, net,
                 published, stops, faults>>

\* bindPolicyPeer refuses an identity another loopback has.
Bound(a) ==
  IF BoundElsewhere(a) THEN tgt ELSE [tgt EXCEPT ![a].uid = TRUE, ![a].bound = TRUE]

\* The session is operational at the seeker, which binds the publisher.
Bind(a) ==
  /\ sess[a].st = "open"
  /\ tgt' = Bound(a)
  /\ sess' = IF BoundElsewhere(a) THEN [sess EXCEPT ![a] = NoDial]
             ELSE [sess EXCEPT ![a].st = "bound"]
  /\ UNCHANGED <<diskVars, pubVars, calls, linked, routes, net, published, stops, faults>>

\* So is a session that the publisher dialled, perhaps from a loopback it has left.
CallBind(a) ==
  /\ a \in calls
  /\ tgt' = Bound(a)
  /\ calls' = calls \ {a}
  /\ UNCHANGED <<diskVars, pubVars, sess, linked, routes, net, published, stops, faults>>

\* prepareOutbound, under the lock again: it writes the identity whoever has it by now,
\* and proposes unless a policy that denies arrived meanwhile.
PrepareOutbound(a) ==
  /\ sess[a].st = "bound"
  /\ tgt' = [tgt EXCEPT ![a].uid = TRUE, ![a].bound = TRUE]
  /\ sess' = IF Denied(a) \/ linked THEN [sess EXCEPT ![a] = NoDial]
             ELSE [sess EXCEPT ![a].st = "proposed"]
  /\ UNCHANGED <<diskVars, pubVars, calls, linked, routes, net, published, stops, faults>>

\* The runtime the session is with still runs.
Served(a) == run = "up" /\ sess[a].rev = rev

\* handleProposal of a publisher that denies: a DECLINE with its policy.
Decline(a) ==
  /\ sess[a].st = "proposed" /\ sess[a].reply = None /\ Served(a) /\ ~accept
  /\ sess' = [sess EXCEPT ![a].reply = Current]
  /\ published' = published \cup {Current}
  /\ UNCHANGED <<diskVars, pubVars, tgt, calls, linked, routes, net, stops, faults>>

\* handleDecline, also of a DECLINE sent before the publisher's runtime ended.
HandleDecline(a) ==
  /\ sess[a].reply # None
  /\ tgt' = [tgt EXCEPT ![a] = Merge(@, sess[a].reply)]
  /\ sess' = [sess EXCEPT ![a] = NoDial]
  /\ UNCHANGED <<diskVars, pubVars, calls, linked, routes, net, published, stops, faults>>

\* handleProposal of a publisher that accepts; the attempt yields a Link.
Link(a) ==
  /\ sess[a].st = "proposed" /\ Served(a) /\ accept
  /\ linked' = TRUE
  /\ sess' = [sess EXCEPT ![a] = NoDial]
  /\ UNCHANGED <<diskVars, pubVars, tgt, calls, routes, net, published, stops, faults>>

\* A dial or session with a runtime that is gone fails; any may fail, and an ordinary
\* DECLINE, which carries no policy, ends one too.
DialFails(a) ==
  /\ sess[a].st # "none"
  /\ IF sess[a].st = "dialing" THEN run # "up" \/ a # addr
                               ELSE ~Served(a) /\ sess[a].reply = None
  /\ sess' = [sess EXCEPT ![a] = NoDial]
  /\ UNCHANGED <<diskVars, pubVars, tgt, calls, linked, routes, net, published, stops, faults>>
DialBreaks(a) ==
  /\ sess[a].st # "none" /\ Fault
  /\ sess' = [sess EXCEPT ![a] = NoDial]
  /\ UNCHANGED <<diskVars, pubVars, tgt, calls, linked, routes, net, published, stops>>

\* The seeker reloads (InheritDynamic) or starts anew.
Restart(keep) ==
  /\ Fault
  /\ tgt' = [a \in Addrs |-> IF keep THEN [tgt[a] EXCEPT !.query = FALSE] ELSE NoTarget]
  /\ sess' = [a \in Addrs |-> NoDial] /\ calls' = {}
  /\ UNCHANGED <<diskVars, pubVars, linked, routes, net, published, stops>>

LinkLost ==
  /\ linked /\ Fault
  /\ linked' = FALSE
  /\ UNCHANGED <<diskVars, pubVars, tgt, sess, calls, routes, net, published, stops>>

-----------------------------------------------------------------------------
(* The network.                                                            *)

Lose(m) ==
  /\ m \in net /\ Fault
  /\ net' = net \ {m}
  /\ UNCHANGED <<diskVars, pubVars, seekVars, routes, published, stops>>

RouteUp ==
  /\ addr \notin routes
  /\ routes' = routes \cup {addr}
  /\ UNCHANGED <<diskVars, pubVars, seekVars, net, published, stops, faults>>

\* The route to a loopback the publisher has left goes; another one may, for a while.
RouteGone ==
  /\ routes \ {addr} # {}
  /\ routes' = routes \cap {addr}
  /\ UNCHANGED <<diskVars, pubVars, seekVars, net, published, stops, faults>>
RouteFlap ==
  /\ addr \in routes /\ Fault
  /\ routes' = routes \ {addr}
  /\ UNCHANGED <<diskVars, pubVars, seekVars, net, published, stops>>

-----------------------------------------------------------------------------
Publisher ==
  \/ \E c \in Addrs, ok \in BOOLEAN : Start(c, ok)
  \/ Stage \/ Rename \/ SyncDirectory \/ FlushUpdate

Seeker(a) ==
  FlushQuery(a) \/ ReserveDial(a) \/ Connect(a) \/ Bind(a) \/ PrepareOutbound(a) \/ Decline(a) \/ HandleDecline(a)
  \/ Link(a) \/ DialFails(a)

Next ==
  \/ Publisher \/ StartFails \/ Reload \/ Crash \/ EvictSeeker \/ SendAsk \/ Call
  \/ \E a \in Addrs : Seeker(a) \/ CallBind(a) \/ DialBreaks(a)
  \/ \E old \in SUBSET Unrouted : Scan(old)
  \/ \E m \in net : ReceiveQuery(m) \/ ReceiveUpdate(m) \/ ReceiveAsk(m) \/ Lose(m)
  \/ \E keep \in BOOLEAN : Restart(keep)
  \/ LinkLost \/ RouteUp \/ RouteGone \/ RouteFlap

\* velvetd is restarted and its start takes its course; scans tick, dials and sessions
\* end, budgets and retention run out; datagrams that are not lost arrive; routes settle.
Spec ==
  /\ Init /\ [][Next]_vars
  /\ WF_vars(Publisher)
  /\ \A a \in Addrs : WF_vars(Seeker(a)) /\ WF_vars(CallBind(a))
  /\ WF_vars(Scan(Unrouted))
  /\ WF_vars(\E m \in net : ReceiveQuery(m)) /\ WF_vars(\E m \in net : ReceiveUpdate(m))
  /\ WF_vars(\E m \in net : ReceiveAsk(m))
  /\ WF_vars(RouteUp) /\ WF_vars(RouteGone)

-----------------------------------------------------------------------------
\* Every decision ever sent is below what a power loss can take the counter back to, so
\* that no later runtime is given its revision: reservePolicyRevision writes and syncs
\* before it publishes.
PublishedIsDurable == \A p \in published : p.rev <= disk

\* The publisher's identity is at one loopback at the seeker, also while the publisher
\* moves to another one.  A dial, an inbound session and a query give it under a check,
\* but prepareOutbound writes it again, unchecked, after bindPolicyPeer has let go of the
\* lock: no eviction may take the target in between.
OneLoopback == \A a, b \in Addrs : tgt[a].uid /\ tgt[b].uid => a = b

\* Whatever is lost, repeated or reordered over the two paths and whoever crashes, each
\* revision is one decision, decisions are published in order, and the seeker's cache
\* only moves to newer ones.
Register == INSTANCE PolicyRegister WITH
  Places <- Addrs, Decision <- Policy, None <- None, decided <- published,
  seen <- [a \in Addrs |-> tgt[a].policy]
ImplementsRegister == Register!Spec

\* The seeker and the publisher come to terms: in the end they have a Link (a Proposal
\* was accepted and no Link lost since), or the publisher denies and the seeker has that
\* on record.  No stale denial survives a lost update, and no stale allowance a refused
\* proposal.
Exhausted == run = "down" /\ file = MaxRevision
PolicyConverges == <>[](linked \/ Exhausted \/ (~accept /\ Denied(addr)))

=============================================================================

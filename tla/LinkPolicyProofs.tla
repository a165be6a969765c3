-------------------------- MODULE LinkPolicyProofs --------------------------
(***************************************************************************)
(* Proofs about LinkPolicy, for any number of loopbacks, any largest       *)
(* revision and any number of stops and faults.                            *)
(*                                                                         *)
(* The inductive invariant is TypeOK, Reserved (where the start of a       *)
(* runtime stands between the file and what a power loss leaves of it),    *)
(* PublishedIsDurable, Carried (whatever is in flight or cached was        *)
(* published), OneLoopback, and DialKeepsTarget, by which the second,      *)
(* unchecked write of an identity repeats the first.                       *)
(***************************************************************************)
EXTENDS LinkPolicy, TLAPS

\* The revision of a runtime is on disk before it is used and is above every earlier one.
Reserved ==
  /\ disk <= file
  /\ run \in {"read", "staged"} => file < MaxRevision
  /\ run = "renamed" => disk < file
  /\ run = "up" => rev # 0 /\ rev <= disk /\ \A p \in published : p.rev < rev \/ p = Current

\* What is on its way or cached was published.
Carried ==
  /\ \A m \in net : m.type = "update" => m.policy \in published
  /\ \A a \in Addrs : sess[a].reply # None => sess[a].reply \in published
  /\ \A a \in Addrs : tgt[a].policy # None => tgt[a].policy \in published

\* The target of a dial has the identity that bindPolicyPeer gave it until
\* prepareOutbound writes it again.
DialKeepsTarget == \A a \in Addrs : sess[a].st = "bound" => tgt[a].uid

IndInv ==
  TypeOK /\ Reserved /\ PublishedIsDurable /\ Carried /\ OneLoopback /\ DialKeepsTarget

\* No policy is None.
LEMMA NoneIsNoPolicy == None \notin Policy
BY PolicyAssumption DEF Policy

\* Merge returns a target with the policy it had, or with a newer one.
LEMMA MergeType ==
  ASSUME NEW t \in Target, NEW p \in Policy
  PROVE  /\ Merge(t, p) \in Target
         /\ Merge(t, p).uid = t.uid
         /\ \/ Merge(t, p).policy = t.policy
            \/ Merge(t, p).policy = p /\ (t.policy # None => t.policy.rev < p.rev)
<1>1. t = [uid |-> t.uid, bound |-> t.bound, policy |-> t.policy, query |-> t.query]
  BY DEF Target
<1>2. p.rev \in Nat /\ (t.policy # None => t.policy.rev \in Nat)
  BY PolicyAssumption DEF Policy, Target
<1>3. CASE t.policy # None /\ p.rev <= t.policy.rev
  BY <1>3 DEF Merge
<1>4. CASE ~(t.policy # None /\ p.rev <= t.policy.rev)
  <2>1. Merge(t, p) = [uid |-> t.uid, bound |-> t.bound, policy |-> p, query |-> FALSE]
    BY <1>1, <1>4 DEF Merge
  <2>2. t.uid \in BOOLEAN /\ t.bound \in BOOLEAN /\ FALSE \in BOOLEAN
    BY DEF Target
  <2>3. [uid |-> t.uid, bound |-> t.bound, policy |-> p, query |-> FALSE] \in Target
    BY <2>2 DEF Target
  <2>4. t.policy # None => t.policy.rev < p.rev
    BY <1>2, <1>4
  <2> QED BY <2>1, <2>3, <2>4
<1> QED BY <1>3, <1>4

\* A target that has been given the identity, and perhaps the binding.
Given(a) == [tgt EXCEPT ![a].uid = TRUE, ![a].bound = TRUE]

LEMMA GivenType ==
  ASSUME TypeOK, NEW a \in Addrs
  PROVE  /\ Given(a) \in [Addrs -> Target] /\ [tgt EXCEPT ![a].uid = TRUE] \in [Addrs -> Target]
         /\ \A b \in Addrs : /\ Given(a)[b].policy = tgt[b].policy
                             /\ [tgt EXCEPT ![a].uid = TRUE][b].policy = tgt[b].policy
         /\ \A b \in Addrs \ {a} : /\ Given(a)[b] = tgt[b]
                                   /\ [tgt EXCEPT ![a].uid = TRUE][b] = tgt[b]
         /\ Given(a)[a].uid /\ [tgt EXCEPT ![a].uid = TRUE][a].uid
<1>1. tgt[a] \in Target /\ tgt \in [Addrs -> Target]
  BY DEF TypeOK
<1>2. [tgt[a] EXCEPT !.uid = TRUE, !.bound = TRUE] \in Target
      /\ [tgt[a] EXCEPT !.uid = TRUE] \in Target
  BY <1>1 DEF Target
<1>3. /\ Given(a) = [tgt EXCEPT ![a] = [tgt[a] EXCEPT !.uid = TRUE, !.bound = TRUE]]
      /\ [tgt EXCEPT ![a].uid = TRUE] = [tgt EXCEPT ![a] = [tgt[a] EXCEPT !.uid = TRUE]]
  BY <1>1 DEF Given
<1>4. /\ [tgt[a] EXCEPT !.uid = TRUE, !.bound = TRUE].policy = tgt[a].policy
      /\ [tgt[a] EXCEPT !.uid = TRUE].policy = tgt[a].policy
      /\ [tgt[a] EXCEPT !.uid = TRUE, !.bound = TRUE].uid
      /\ [tgt[a] EXCEPT !.uid = TRUE].uid
  BY <1>1 DEF Target
<1> QED BY <1>1, <1>2, <1>3, <1>4

\* The initial states satisfy the invariant.
LEMMA InitIndInv == Init => IndInv
<1> SUFFICES ASSUME Init PROVE IndInv
  OBVIOUS
<1> USE PolicyAssumption
<1>1. NoTarget \in Target /\ NoDial \in Dial
  BY DEF NoTarget, NoDial, Target, Dial
<1>2. known \in BOOLEAN /\ pend \in BOOLEAN /\ linked \in BOOLEAN
  BY Zenon DEF Init
<1>3. TypeOK
  BY <1>1, <1>2 DEF Init, TypeOK
<1>4. Reserved /\ PublishedIsDurable
  BY DEF Init, Reserved, PublishedIsDurable
<1>5. Carried
  BY DEF Init, Carried, NoTarget, NoDial
<1>6. OneLoopback
  BY DEF Init, OneLoopback, NoTarget
<1>7. DialKeepsTarget
  BY DEF Init, DialKeepsTarget, NoDial
<1> QED BY <1>3, <1>4, <1>5, <1>6, <1>7 DEF IndInv

\* Every step keeps the types.
LEMMA TypeStep == TypeOK /\ Reserved /\ [Next]_vars => TypeOK'
<1> SUFFICES ASSUME TypeOK, Reserved, [Next]_vars PROVE TypeOK'
  OBVIOUS
<1> USE PolicyAssumption
<1>1. ASSUME NEW c \in Addrs, NEW ok \in BOOLEAN, Start(c, ok) PROVE TypeOK'
  BY <1>1 DEF TypeOK, Start, diskVars, seekVars
<1>2. CASE Stage
  BY <1>2 DEF TypeOK, Stage, diskVars, seekVars
<1>3. CASE Rename
  BY <1>3 DEF TypeOK, Reserved, Rename, seekVars
<1>4. CASE SyncDirectory
  BY <1>4 DEF TypeOK, SyncDirectory, seekVars
<1>5. CASE FlushUpdate
  <2>1. Current \in Policy
    BY <1>5 DEF TypeOK, Reserved, FlushUpdate, Current, Policy
  <2>2. known' \in BOOLEAN /\ pend' \in BOOLEAN
    BY <1>5, Zenon DEF TypeOK, FlushUpdate
  <2> QED BY <1>5, <2>1, <2>2 DEF TypeOK, FlushUpdate, Send, Datagram, Update, diskVars, seekVars
<1>6. CASE StartFails
  <2>1. known' \in BOOLEAN /\ pend' \in BOOLEAN
    BY <1>6, Zenon DEF TypeOK, StartFails
  <2> QED BY <1>6, <2>1 DEF TypeOK, Reserved, StartFails, Fault, seekVars
<1>7. CASE Reload
  <2>1. known' \in BOOLEAN /\ pend' \in BOOLEAN
    BY <1>7, Zenon DEF TypeOK, Reload, Stopped
  <2> QED BY <1>7, <2>1 DEF TypeOK, Reload, Stopped, diskVars, seekVars
<1>8. CASE Crash
  <2>1. known' \in BOOLEAN /\ pend' \in BOOLEAN
    BY <1>8, Zenon DEF TypeOK, Crash, Stopped
  <2> QED BY <1>8, <2>1 DEF TypeOK, Reserved, Crash, Stopped, diskVars, seekVars
<1>9. CASE EvictSeeker
  <2>1. known' \in BOOLEAN /\ pend' \in BOOLEAN
    BY <1>9, Zenon DEF TypeOK, EvictSeeker
  <2> QED BY <1>9, <2>1 DEF TypeOK, EvictSeeker, diskVars, seekVars
<1>10. ASSUME NEW a \in Addrs, FlushQuery(a) PROVE TypeOK'
  <2>1. tgt' \in [Addrs -> Target]
    BY <1>10 DEF TypeOK, FlushQuery, Target
  <2>2. net' \subseteq Datagram
    BY <1>10 DEF TypeOK, FlushQuery, Send, Datagram, Query
  <2> QED BY <1>10, <2>1, <2>2 DEF TypeOK, FlushQuery, diskVars, pubVars
<1>11. ASSUME NEW a \in Addrs, ReserveDial(a) PROVE TypeOK'
  BY <1>11 DEF TypeOK, ReserveDial, Dial, diskVars, pubVars
<1>12. ASSUME NEW a \in Addrs, Connect(a) PROVE TypeOK'
  <2>1. known' \in BOOLEAN /\ pend' \in BOOLEAN
    BY <1>12, Zenon DEF TypeOK, Connect
  <2>2. sess' \in [Addrs -> Dial]
    <3>1. rev \in 0 .. MaxRevision
      BY DEF TypeOK
    <3>2. [sess[a] EXCEPT !.st = "open", !.rev = rev] \in Dial
      BY <3>1 DEF TypeOK, Dial
    <3>3. sess' = [sess EXCEPT ![a] = [sess[a] EXCEPT !.st = "open", !.rev = rev]]
      BY <1>12 DEF Connect, TypeOK
    <3> QED BY <3>2, <3>3 DEF TypeOK
  <2> QED BY <1>12, <2>1, <2>2 DEF TypeOK, Connect, diskVars
<1>13. ASSUME NEW a \in Addrs, Bind(a) \/ PrepareOutbound(a) PROVE TypeOK'
  <2>1. tgt' \in [Addrs -> Target]
    <3>1. tgt' = tgt \/ tgt' = Given(a)
      BY <1>13 DEF Bind, PrepareOutbound, Bound, Given
    <3>2. tgt \in [Addrs -> Target]
      BY DEF TypeOK
    <3>3. Given(a) \in [Addrs -> Target]
      BY GivenType
    <3> QED BY <3>1, <3>2, <3>3
  <2>2. sess' \in [Addrs -> Dial]
    <3>1. NoDial \in Dial /\ [sess[a] EXCEPT !.st = "proposed"] \in Dial
          /\ [sess[a] EXCEPT !.st = "bound"] \in Dial
      BY DEF TypeOK, Dial, NoDial
    <3> QED BY <1>13, <3>1 DEF TypeOK, Bind, PrepareOutbound
  <2> QED BY <1>13, <2>1, <2>2 DEF TypeOK, Bind, PrepareOutbound, diskVars, pubVars
<1>14. ASSUME NEW a \in Addrs, Decline(a) PROVE TypeOK'
  <2>1. Current \in Policy
    BY <1>14 DEF TypeOK, Reserved, Decline, Served, Current, Policy
  <2> QED BY <1>14, <2>1 DEF TypeOK, Decline, Dial, diskVars, pubVars
<1>15. ASSUME NEW a \in Addrs, HandleDecline(a) PROVE TypeOK'
  <2>1. sess[a].reply \in Policy
    BY <1>15 DEF TypeOK, HandleDecline, Dial
  <2>2. Merge(tgt[a], sess[a].reply) \in Target
    BY <2>1, MergeType DEF TypeOK
  <2> QED BY <1>15, <2>2 DEF TypeOK, HandleDecline, Dial, NoDial, diskVars, pubVars
<1>16. ASSUME NEW a \in Addrs, Link(a) PROVE TypeOK'
  BY <1>16 DEF TypeOK, Link, Dial, NoDial, diskVars, pubVars
<1>17. ASSUME NEW a \in Addrs, DialFails(a) PROVE TypeOK'
  BY <1>17 DEF TypeOK, DialFails, Dial, NoDial, diskVars, pubVars
<1>18. ASSUME NEW a \in Addrs, DialBreaks(a) PROVE TypeOK'
  BY <1>18 DEF TypeOK, DialBreaks, Fault, Dial, NoDial, diskVars, pubVars
<1>19. ASSUME NEW old \in SUBSET Unrouted, Scan(old) PROVE TypeOK'
  <2>1. ASSUME NEW a \in Addrs, NEW q \in BOOLEAN PROVE [tgt[a] EXCEPT !.query = q] \in Target
    BY DEF TypeOK, Target
  <2>2. tgt' \in [Addrs -> Target]
    BY <1>19, <2>1 DEF TypeOK, Scan, NoTarget, Target
  <2> QED BY <1>19, <2>2 DEF TypeOK, Scan, diskVars, pubVars
<1>20. ASSUME NEW m \in net, ReceiveQuery(m) PROVE TypeOK'
  <2>1. known' \in BOOLEAN /\ pend' \in BOOLEAN
    BY <1>20, Zenon DEF TypeOK, ReceiveQuery
  <2> QED BY <1>20, <2>1 DEF TypeOK, ReceiveQuery, Deliver, Fault, diskVars, seekVars
<1>21. ASSUME NEW m \in net, ReceiveUpdate(m) PROVE TypeOK'
  <2>1. m.addr \in Addrs /\ m.policy \in Policy
    BY <1>21 DEF TypeOK, ReceiveUpdate, Datagram, Update, Query, Ask
  <2>2. Merge(tgt[m.addr], m.policy) \in Target
    BY <2>1, MergeType DEF TypeOK
  <2>3. tgt' \in [Addrs -> Target]
    BY <1>21, <2>1, <2>2 DEF TypeOK, ReceiveUpdate
  <2> QED BY <1>21, <2>3 DEF TypeOK, ReceiveUpdate, Deliver, Fault, diskVars, pubVars
<1>22. ASSUME NEW m \in net, Lose(m) PROVE TypeOK'
  BY <1>22 DEF TypeOK, Lose, Fault, diskVars, pubVars, seekVars
<1>23. ASSUME NEW keep \in BOOLEAN, Restart(keep) PROVE TypeOK'
  <2>1. ASSUME NEW a \in Addrs PROVE [tgt[a] EXCEPT !.query = FALSE] \in Target
    BY DEF TypeOK, Target
  <2>2. tgt' \in [Addrs -> Target]
    BY <1>23, <2>1 DEF TypeOK, Restart, NoTarget, Target
  <2> QED BY <1>23, <2>2 DEF TypeOK, Restart, Fault, Dial, NoDial, diskVars, pubVars
<1>24. CASE LinkLost
  <2>1. linked' \in BOOLEAN
    BY <1>24, Zenon DEF LinkLost
  <2> QED BY <1>24, <2>1 DEF TypeOK, LinkLost, Fault, diskVars, pubVars
<1>25. CASE RouteUp \/ RouteGone \/ RouteFlap
  BY <1>25 DEF TypeOK, RouteUp, RouteGone, RouteFlap, Fault, diskVars, pubVars, seekVars
<1>26. CASE UNCHANGED vars
  BY <1>26 DEF TypeOK, vars, diskVars, pubVars, seekVars
<1>27. ASSUME NEW a \in Addrs, CallBind(a) PROVE TypeOK'
  <2>1. tgt' \in [Addrs -> Target]
    <3>1. tgt' = tgt \/ tgt' = Given(a)
      BY <1>27 DEF CallBind, Bound, Given
    <3>2. tgt \in [Addrs -> Target]
      BY DEF TypeOK
    <3>3. Given(a) \in [Addrs -> Target]
      BY GivenType
    <3> QED BY <3>1, <3>2, <3>3
  <2> QED BY <1>27, <2>1 DEF TypeOK, CallBind, diskVars, pubVars
<1>28. ASSUME NEW m \in net, ReceiveAsk(m) PROVE TypeOK'
  <2>1. m.addr \in Addrs
    BY <1>28 DEF TypeOK, Datagram, Update, Query, Ask
  <2>2. tgt' \in [Addrs -> Target]
    BY <1>28, <2>1, GivenType DEF TypeOK, ReceiveAsk
  <2> QED BY <1>28, <2>2 DEF TypeOK, ReceiveAsk, Deliver, Fault, diskVars, pubVars
<1>29. CASE SendAsk \/ Call
  BY <1>29 DEF TypeOK, SendAsk, Call, Send, Datagram, Ask, Fault, diskVars, pubVars, seekVars
<1> QED
  BY <1>1, <1>2, <1>3, <1>4, <1>5, <1>6, <1>7, <1>8, <1>9, <1>10, <1>11, <1>12, <1>13, <1>14,
     <1>15, <1>16, <1>17, <1>18, <1>19, <1>20, <1>21, <1>22, <1>23, <1>24, <1>25, <1>26,
     <1>27, <1>28, <1>29
     DEF Next, Publisher, Seeker

\* Steps that leave the storage, the runtime and the published decisions alone.
Quiet == UNCHANGED <<file, disk, run, accept, rev, published>>

\* Every step but those of a start, a stop or a publication is quiet.
LEMMA QuietSteps ==
  ASSUME [Next]_vars
  PROVE  \/ Quiet \/ Stage \/ Rename \/ SyncDirectory \/ FlushUpdate
         \/ StartFails \/ Reload \/ Crash
         \/ \E c \in Addrs, ok \in BOOLEAN : Start(c, ok)
         \/ \E a \in Addrs : Decline(a)
<1> USE DEF Quiet, diskVars, pubVars
<1>1. EvictSeeker \/ SendAsk \/ Call \/ LinkLost \/ RouteUp \/ RouteGone \/ RouteFlap \/ UNCHANGED vars => Quiet
  BY DEF EvictSeeker, SendAsk, Call, LinkLost, RouteUp, RouteGone, RouteFlap, vars
<1>2. ASSUME NEW a \in Addrs, Seeker(a) \/ CallBind(a) \/ DialBreaks(a), ~Decline(a) PROVE Quiet
  BY <1>2 DEF Seeker, FlushQuery, ReserveDial, Connect, Bind, PrepareOutbound, CallBind, HandleDecline, Link, DialFails,
     DialBreaks
<1>3. ASSUME NEW m \in net, ReceiveQuery(m) \/ ReceiveUpdate(m) \/ ReceiveAsk(m) \/ Lose(m) PROVE Quiet
  BY <1>3 DEF ReceiveQuery, ReceiveUpdate, ReceiveAsk, Lose
<1>4. ASSUME NEW old \in SUBSET Unrouted, Scan(old) PROVE Quiet
  BY <1>4 DEF Scan
<1>5. ASSUME NEW keep \in BOOLEAN, Restart(keep) PROVE Quiet
  BY <1>5 DEF Restart
<1> QED BY <1>1, <1>2, <1>3, <1>4, <1>5 DEF Next, Publisher

\* The revision of a running runtime is on disk and above those of earlier ones.
LEMMA ReservedStep ==
  ASSUME TypeOK, Reserved, PublishedIsDurable, [Next]_vars
  PROVE  Reserved' /\ PublishedIsDurable'
<1> USE PolicyAssumption
<1>0. /\ file \in Nat /\ disk \in Nat /\ rev \in Nat /\ MaxRevision \in Nat
      /\ \A p \in published : p.rev \in Nat
  BY DEF TypeOK, Policy
<1>1. CASE Quiet
  BY <1>1 DEF Quiet, Reserved, PublishedIsDurable, Current
<1>2. ASSUME NEW c \in Addrs, NEW ok \in BOOLEAN, Start(c, ok)
      PROVE  Reserved' /\ PublishedIsDurable'
  BY <1>2 DEF Start, Reserved, PublishedIsDurable, diskVars
<1>3. CASE Stage
  BY <1>3 DEF Stage, Reserved, PublishedIsDurable, diskVars
<1>4. CASE Rename
  BY <1>0, <1>4 DEF Rename, Reserved, PublishedIsDurable
<1>5. CASE SyncDirectory
  BY <1>0, <1>5 DEF SyncDirectory, Reserved, PublishedIsDurable, Current
<1>6. CASE StartFails
  BY <1>0, <1>6 DEF StartFails, Reserved, PublishedIsDurable
<1>7. CASE Reload
  BY <1>7 DEF Reload, Stopped, Reserved, PublishedIsDurable, diskVars
<1>8. CASE Crash
  BY <1>0, <1>8 DEF Crash, Stopped, Reserved, PublishedIsDurable, diskVars
<1>9. CASE FlushUpdate
  BY <1>0, <1>9 DEF FlushUpdate, Reserved, PublishedIsDurable, Current, diskVars
<1>10. ASSUME NEW a \in Addrs, Decline(a) PROVE Reserved' /\ PublishedIsDurable'
  BY <1>0, <1>10 DEF Decline, Served, Reserved, PublishedIsDurable, Current, diskVars, pubVars
<1> QED
  BY <1>1, <1>2, <1>3, <1>4, <1>5, <1>6, <1>7, <1>8, <1>9, <1>10, QuietSteps

\* A decision that was published stays published.
LEMMA PublishedGrows == [Next]_vars => published \subseteq published'
<1> SUFFICES ASSUME [Next]_vars PROVE published \subseteq published'
  OBVIOUS
<1> QED
  BY QuietSteps DEF Quiet, Stage, Rename, SyncDirectory, FlushUpdate, StartFails, Reload, Crash,
     Start, Decline

-----------------------------------------------------------------------------
\* Datagrams carry published policies.
LEMMA NetCarried ==
  ASSUME TypeOK, Carried, [Next]_vars
  PROVE  \A m \in net' : m.type = "update" => m.policy \in published'
<1>0. published \subseteq published'
  BY PublishedGrows
<1>1. CASE net' \subseteq net
  BY <1>0, <1>1 DEF Carried
<1>2. CASE FlushUpdate
  BY <1>0, <1>2 DEF FlushUpdate, Send, Carried
<1>3. ASSUME NEW a \in Addrs, FlushQuery(a)
      PROVE  \A m \in net' : m.type = "update" => m.policy \in published'
  BY <1>0, <1>3 DEF FlushQuery, Send, Carried
<1>5. CASE SendAsk
  BY <1>0, <1>5 DEF SendAsk, Send, Carried
<1>4. \/ net' \subseteq net \/ FlushUpdate \/ SendAsk \/ \E a \in Addrs : FlushQuery(a)
  <2>1. ASSUME NEW c \in Addrs, NEW ok \in BOOLEAN, Start(c, ok) PROVE net' \subseteq net
    BY <2>1 DEF Start
  <2>2. Stage \/ Rename \/ SyncDirectory \/ StartFails \/ Reload \/ Crash \/ EvictSeeker \/ Call
        => net' \subseteq net
    BY DEF Stage, Rename, SyncDirectory, StartFails, Reload, Crash, EvictSeeker, Call
  <2>3. ASSUME NEW a \in Addrs, Seeker(a) \/ CallBind(a) \/ DialBreaks(a), ~FlushQuery(a)
        PROVE  net' \subseteq net
    BY <2>3 DEF Seeker, ReserveDial, Connect, Bind, PrepareOutbound, CallBind, Decline, HandleDecline, Link, DialFails,
       DialBreaks
  <2>4. ASSUME NEW m \in net, ReceiveQuery(m) \/ ReceiveUpdate(m) \/ ReceiveAsk(m) \/ Lose(m)
        PROVE  net' \subseteq net
    BY <2>4 DEF ReceiveQuery, ReceiveUpdate, ReceiveAsk, Deliver, Lose
  <2>5. ASSUME NEW old \in SUBSET Unrouted, Scan(old) PROVE net' \subseteq net
    BY <2>5 DEF Scan
  <2>6. ASSUME NEW keep \in BOOLEAN, Restart(keep) PROVE net' \subseteq net
    BY <2>6 DEF Restart
  <2>7. LinkLost \/ RouteUp \/ RouteGone \/ RouteFlap \/ UNCHANGED vars => net' \subseteq net
    BY DEF LinkLost, RouteUp, RouteGone, RouteFlap, vars
  <2> QED BY <2>1, <2>2, <2>3, <2>4, <2>5, <2>6, <2>7 DEF Next, Publisher
<1> QED BY <1>1, <1>2, <1>3, <1>4, <1>5

\* A step leaves the replies of sessions, drops some, or is a DECLINE.
LEMMA ReplySteps ==
  ASSUME TypeOK, [Next]_vars
  PROVE  \/ \E a \in Addrs : Decline(a)
         \/ \A b \in Addrs : sess'[b].reply \in {sess[b].reply, None}
<1>1. ASSUME NEW a \in Addrs, Seeker(a) \/ CallBind(a) \/ DialBreaks(a), ~Decline(a), NEW b \in Addrs
      PROVE  sess'[b].reply \in {sess[b].reply, None}
  BY <1>1 DEF TypeOK, Dial, NoDial, Seeker, FlushQuery, ReserveDial, Connect, Bind,
     PrepareOutbound, CallBind, HandleDecline, Link, DialFails, DialBreaks
<1>2. ASSUME NEW keep \in BOOLEAN, Restart(keep), NEW b \in Addrs PROVE sess'[b].reply = None
  BY <1>2 DEF Restart, NoDial
<1>3. ASSUME NEW m \in net, ReceiveQuery(m) \/ ReceiveUpdate(m) \/ ReceiveAsk(m) \/ Lose(m)
      PROVE  sess' = sess
  BY <1>3 DEF ReceiveQuery, ReceiveUpdate, ReceiveAsk, Lose, seekVars
<1>4. ASSUME NEW c \in Addrs, NEW ok \in BOOLEAN, Start(c, ok) PROVE sess' = sess
  BY <1>4 DEF Start, seekVars
<1>5. ASSUME NEW old \in SUBSET Unrouted, Scan(old) PROVE sess' = sess
  BY <1>5 DEF Scan
<1>6. Stage \/ Rename \/ SyncDirectory \/ FlushUpdate \/ StartFails \/ Reload \/ Crash
      \/ EvictSeeker \/ SendAsk \/ Call \/ LinkLost \/ RouteUp \/ RouteGone \/ RouteFlap \/ UNCHANGED vars
      => sess' = sess
  BY DEF Stage, Rename, SyncDirectory, FlushUpdate, StartFails, Reload, Crash, EvictSeeker, SendAsk,
     Call, LinkLost, RouteUp, RouteGone, RouteFlap, vars, seekVars
<1> QED BY <1>1, <1>2, <1>3, <1>4, <1>5, <1>6 DEF Next, Publisher

\* Sessions carry published policies.
LEMMA ReplyCarried ==
  ASSUME TypeOK, Carried, [Next]_vars, NEW b \in Addrs, sess'[b].reply # None
  PROVE  sess'[b].reply \in published'
<1>1. published \subseteq published'
  BY PublishedGrows
<1>2. ASSUME NEW a \in Addrs, Decline(a) PROVE sess'[b].reply \in published'
  BY <1>1, <1>2 DEF Decline, TypeOK, Dial, Carried
<1> QED BY <1>1, <1>2, ReplySteps DEF Carried

-----------------------------------------------------------------------------
\* The seeker's cache.
Seen == [a \in Addrs |-> tgt[a].policy]

\* A step of the seeker's cache: it learns a published policy that is newer, or forgets.
CacheStep ==
  \/ \E a \in Addrs, p \in published :
       /\ tgt[a].policy # None => tgt[a].policy.rev < p.rev
       /\ Seen' = [Seen EXCEPT ![a] = p]
  \/ \E gone \in SUBSET Addrs :
       Seen' = [a \in Addrs |-> IF a \in gone THEN None ELSE Seen[a]]

\* A merge at one loopback is a step of the cache.
LEMMA MergeSeen ==
  ASSUME TypeOK, NEW a \in Addrs, NEW p \in published,
         tgt' = [tgt EXCEPT ![a] = Merge(@, p)]
  PROVE  Seen' = Seen \/ CacheStep
<1>1. tgt[a] \in Target /\ p \in Policy
  BY DEF TypeOK
<1>2. tgt' = [tgt EXCEPT ![a] = Merge(tgt[a], p)] /\ tgt \in [Addrs -> Target]
  BY DEF TypeOK
<1>3. CASE Merge(tgt[a], p).policy = tgt[a].policy
  BY <1>2, <1>3 DEF Seen
<1>4. CASE Merge(tgt[a], p).policy = p /\ (tgt[a].policy # None => tgt[a].policy.rev < p.rev)
  <2>1. Seen' = [Seen EXCEPT ![a] = p]
    BY <1>2, <1>4 DEF Seen
  <2> QED BY <1>4, <2>1 DEF CacheStep
<1> QED BY <1>1, <1>3, <1>4, MergeType

\* Every step leaves the cache, or is a step of it that publishes nothing.
LEMMA SeenStep ==
  ASSUME TypeOK, Carried, [Next]_vars
  PROVE  Seen' = Seen \/ (published' = published /\ CacheStep)
<1>1. ASSUME NEW a \in Addrs, HandleDecline(a)
      PROVE  Seen' = Seen \/ (published' = published /\ CacheStep)
  <2>1. sess[a].reply \in published
    BY <1>1 DEF HandleDecline, Carried
  <2> QED BY <1>1, <2>1, MergeSeen DEF HandleDecline
<1>2. ASSUME NEW m \in net, ReceiveUpdate(m)
      PROVE  Seen' = Seen \/ (published' = published /\ CacheStep)
  <2>1. m.addr \in Addrs /\ m.policy \in published
    BY <1>2 DEF TypeOK, ReceiveUpdate, Datagram, Update, Query, Ask, Carried
  <2>2. CASE tgt' = tgt
    BY <2>2 DEF Seen
  <2>3. CASE tgt' = [tgt EXCEPT ![m.addr] = Merge(@, m.policy)]
    BY <1>2, <2>1, <2>3, MergeSeen DEF ReceiveUpdate
  <2> QED BY <1>2, <2>2, <2>3 DEF ReceiveUpdate
<1>3. ASSUME NEW old \in SUBSET Unrouted, Scan(old)
      PROVE  published' = published /\ CacheStep
  <2>1. old \in SUBSET Addrs
    BY DEF Unrouted
  <2>2. ASSUME NEW a \in Addrs PROVE tgt'[a].policy = IF a \in old THEN None ELSE tgt[a].policy
    BY <1>3 DEF Scan, TypeOK, Target, NoTarget
  <2>3. Seen' = [a \in Addrs |-> IF a \in old THEN None ELSE Seen[a]]
    BY <2>2 DEF Seen
  <2> QED BY <1>3, <2>1, <2>3 DEF CacheStep, Scan
<1>4. ASSUME NEW keep \in BOOLEAN, Restart(keep)
      PROVE  published' = published /\ CacheStep
  <2> DEFINE gone == IF keep THEN {} ELSE Addrs
  <2>1. ASSUME NEW a \in Addrs PROVE tgt'[a].policy = IF a \in gone THEN None ELSE tgt[a].policy
    BY <1>4 DEF Restart, TypeOK, Target, NoTarget
  <2>2. Seen' = [a \in Addrs |-> IF a \in gone THEN None ELSE Seen[a]]
    BY <2>1 DEF Seen
  <2>3. gone \in SUBSET Addrs
    OBVIOUS
  <2> QED BY <1>4, <2>2, <2>3 DEF CacheStep, Restart
<1>5. ASSUME NEW a \in Addrs, FlushQuery(a) \/ Bind(a) \/ PrepareOutbound(a) \/ CallBind(a)
      PROVE  Seen' = Seen
  <2>1. ASSUME NEW b \in Addrs PROVE tgt'[b].policy = tgt[b].policy
    <3>1. CASE FlushQuery(a)
      BY <3>1 DEF FlushQuery, TypeOK, Target
    <3>2. CASE tgt' \in {tgt, Given(a)}
      BY <3>2, GivenType
    <3> QED BY <1>5, <3>1, <3>2 DEF Bind, PrepareOutbound, CallBind, Bound, Given
  <2> QED BY <2>1 DEF Seen
<1>11. ASSUME NEW m \in net, ReceiveAsk(m) PROVE Seen' = Seen
  <2>1. m.addr \in Addrs
    BY DEF TypeOK, Datagram, Update, Query, Ask
  <2>2. ASSUME NEW b \in Addrs PROVE tgt'[b].policy = tgt[b].policy
    BY <1>11, <2>1, GivenType DEF ReceiveAsk
  <2> QED BY <2>2 DEF Seen
<1>6. ASSUME NEW a \in Addrs,
             ReserveDial(a) \/ Connect(a) \/ Decline(a) \/ Link(a) \/ DialFails(a) \/ DialBreaks(a)
      PROVE  tgt' = tgt
  BY <1>6 DEF ReserveDial, Connect, Decline, Link, DialFails, DialBreaks
<1>7. ASSUME NEW m \in net, ReceiveQuery(m) \/ Lose(m) PROVE tgt' = tgt
  BY <1>7 DEF ReceiveQuery, Lose, seekVars
<1>8. ASSUME NEW c \in Addrs, NEW ok \in BOOLEAN, Start(c, ok) PROVE tgt' = tgt
  BY <1>8 DEF Start, seekVars
<1>9. Stage \/ Rename \/ SyncDirectory \/ FlushUpdate \/ StartFails \/ Reload \/ Crash
      \/ EvictSeeker \/ SendAsk \/ Call \/ LinkLost \/ RouteUp \/ RouteGone \/ RouteFlap \/ UNCHANGED vars
      => tgt' = tgt
  BY DEF Stage, Rename, SyncDirectory, FlushUpdate, StartFails, Reload, Crash, EvictSeeker, SendAsk,
     Call, LinkLost, RouteUp, RouteGone, RouteFlap, vars, seekVars
<1>10. tgt' = tgt => Seen' = Seen
  BY DEF Seen
<1> QED BY <1>1, <1>2, <1>3, <1>4, <1>5, <1>6, <1>7, <1>8, <1>9, <1>10, <1>11
  DEF Next, Publisher, Seeker

\* Caches hold published policies.
LEMMA SeenCarried ==
  ASSUME TypeOK, Carried, [Next]_vars, NEW b \in Addrs, tgt'[b].policy # None
  PROVE  tgt'[b].policy \in published'
<1>1. published \subseteq published'
  BY PublishedGrows
<1>2. Seen[b] = tgt[b].policy /\ Seen'[b] = tgt'[b].policy
  BY DEF Seen
<1>3. CASE Seen' = Seen
  BY <1>1, <1>2, <1>3 DEF Carried
<1>4. CASE CacheStep
  <2>1. ASSUME NEW a \in Addrs, NEW p \in published, Seen' = [Seen EXCEPT ![a] = p]
        PROVE  tgt'[b].policy \in published'
    <3>1. Seen'[b] = p \/ Seen'[b] = Seen[b]
      BY <2>1 DEF Seen
    <3> QED BY <1>1, <1>2, <3>1 DEF Carried
  <2>2. ASSUME NEW gone \in SUBSET Addrs,
               Seen' = [a \in Addrs |-> IF a \in gone THEN None ELSE Seen[a]]
        PROVE  tgt'[b].policy \in published'
    <3>1. Seen'[b] = None \/ Seen'[b] = Seen[b]
      BY <2>2
    <3> QED BY <1>1, <1>2, <3>1 DEF Carried
  <2> QED BY <1>4, <2>1, <2>2 DEF CacheStep
<1> QED BY <1>3, <1>4, SeenStep

-----------------------------------------------------------------------------
\* A step gives no target the publisher's identity, or gives it to one.
LEMMA UidSteps ==
  ASSUME TypeOK, [Next]_vars
  PROVE  \/ \E a \in Addrs : Bind(a) \/ PrepareOutbound(a) \/ CallBind(a)
         \/ \E m \in net : ReceiveAsk(m)
         \/ \A b \in Addrs : tgt'[b].uid => tgt[b].uid
<1>1. ASSUME NEW a \in Addrs, HandleDecline(a), NEW b \in Addrs PROVE tgt'[b].uid = tgt[b].uid
  <2>1. sess[a].reply \in Policy /\ tgt[a] \in Target
    BY <1>1 DEF HandleDecline, TypeOK, Dial
  <2>2. Merge(tgt[a], sess[a].reply).uid = tgt[a].uid
    BY <2>1, MergeType
  <2> QED BY <1>1, <2>2 DEF HandleDecline, TypeOK
<1>2. ASSUME NEW m \in net, ReceiveUpdate(m), NEW b \in Addrs PROVE tgt'[b].uid = tgt[b].uid
  <2>1. m.addr \in Addrs /\ m.policy \in Policy
    BY <1>2 DEF TypeOK, ReceiveUpdate, Datagram, Update, Query, Ask
  <2>2. Merge(tgt[m.addr], m.policy).uid = tgt[m.addr].uid
    BY <2>1, MergeType DEF TypeOK
  <2> QED BY <1>2, <2>1, <2>2 DEF ReceiveUpdate, TypeOK
<1>3. ASSUME NEW old \in SUBSET Unrouted, Scan(old), NEW b \in Addrs, tgt'[b].uid PROVE tgt[b].uid
  <2>1. tgt'[b].uid = IF b \in old THEN FALSE ELSE tgt[b].uid
    BY <1>3 DEF Scan, TypeOK, Target, NoTarget
  <2> QED BY <1>3, <2>1
<1>4. ASSUME NEW keep \in BOOLEAN, Restart(keep), NEW b \in Addrs, tgt'[b].uid PROVE tgt[b].uid
  <2>1. tgt'[b].uid = IF keep THEN tgt[b].uid ELSE FALSE
    BY <1>4 DEF Restart, TypeOK, Target, NoTarget
  <2> QED BY <1>4, <2>1
<1>5. ASSUME NEW a \in Addrs, FlushQuery(a), NEW b \in Addrs PROVE tgt'[b].uid = tgt[b].uid
  BY <1>5 DEF FlushQuery, TypeOK, Target
<1>6. ASSUME NEW a \in Addrs,
             ReserveDial(a) \/ Connect(a) \/ Decline(a) \/ Link(a) \/ DialFails(a) \/ DialBreaks(a)
      PROVE  tgt' = tgt
  BY <1>6 DEF ReserveDial, Connect, Decline, Link, DialFails, DialBreaks
<1>7. ASSUME NEW m \in net, ReceiveQuery(m) \/ Lose(m) PROVE tgt' = tgt
  BY <1>7 DEF ReceiveQuery, Lose, seekVars
<1>8. ASSUME NEW c \in Addrs, NEW ok \in BOOLEAN, Start(c, ok) PROVE tgt' = tgt
  BY <1>8 DEF Start, seekVars
<1>9. Stage \/ Rename \/ SyncDirectory \/ FlushUpdate \/ StartFails \/ Reload \/ Crash
      \/ EvictSeeker \/ SendAsk \/ Call \/ LinkLost \/ RouteUp \/ RouteGone \/ RouteFlap \/ UNCHANGED vars
      => tgt' = tgt
  BY DEF Stage, Rename, SyncDirectory, FlushUpdate, StartFails, Reload, Crash, EvictSeeker, SendAsk,
     Call, LinkLost, RouteUp, RouteGone, RouteFlap, vars, seekVars
<1>10. tgt' = tgt => \A b \in Addrs : tgt'[b].uid => tgt[b].uid
  OBVIOUS
<1> QED BY <1>1, <1>2, <1>3, <1>4, <1>5, <1>6, <1>7, <1>8, <1>9, <1>10 DEF Next, Publisher, Seeker

\* What has the identity no other loopback has: bindPolicyPeer and receivePolicy look,
\* prepareOutbound finds what bindPolicyPeer wrote.
LEMMA LoopbackStep ==
  ASSUME TypeOK, OneLoopback, DialKeepsTarget, [Next]_vars
  PROVE  OneLoopback'
<1>1. ASSUME NEW a \in Addrs, tgt' = Given(a) \/ tgt' = [tgt EXCEPT ![a].uid = TRUE],
             ~BoundElsewhere(a)
      PROVE  OneLoopback'
  <2>1. \A b \in Addrs \ {a} : tgt'[b] = tgt[b] /\ ~tgt[b].uid
    <3> SUFFICES ASSUME NEW b \in Addrs \ {a} PROVE tgt'[b] = tgt[b] /\ ~tgt[b].uid
      OBVIOUS
    <3>1. ~tgt[b].uid
      BY <1>1 DEF BoundElsewhere
    <3>2. Given(a)[b] = tgt[b] /\ [tgt EXCEPT ![a].uid = TRUE][b] = tgt[b]
      BY GivenType
    <3> QED BY <1>1, <3>1, <3>2
  <2> QED BY <2>1 DEF OneLoopback
<1>2. ASSUME NEW a \in Addrs, Bind(a) \/ CallBind(a) PROVE OneLoopback'
  <2>1. CASE BoundElsewhere(a)
    BY <1>2, <2>1 DEF Bind, CallBind, Bound, OneLoopback
  <2>2. CASE ~BoundElsewhere(a)
    BY <1>1, <1>2, <2>2 DEF Bind, CallBind, Bound, Given
  <2> QED BY <2>1, <2>2
<1>3. ASSUME NEW a \in Addrs, PrepareOutbound(a) PROVE OneLoopback'
  <2>1. ~BoundElsewhere(a)
    BY <1>3 DEF PrepareOutbound, DialKeepsTarget, OneLoopback, BoundElsewhere
  <2> QED BY <1>1, <1>3, <2>1 DEF PrepareOutbound, Given
<1>4. ASSUME NEW m \in net, ReceiveAsk(m) PROVE OneLoopback'
  <2>1. m.addr \in Addrs
    BY DEF TypeOK, Datagram, Update, Query, Ask
  <2>2. CASE BoundElsewhere(m.addr)
    BY <1>4, <2>2 DEF ReceiveAsk, OneLoopback
  <2>3. CASE ~BoundElsewhere(m.addr)
    BY <1>1, <1>4, <2>1, <2>3 DEF ReceiveAsk
  <2> QED BY <2>2, <2>3
<1> QED BY <1>2, <1>3, <1>4, UidSteps DEF OneLoopback

\* A step takes an identity away only with a target that nobody dials, or on a restart.
LEMMA KeptTarget ==
  ASSUME TypeOK, DialKeepsTarget, [Next]_vars
  PROVE  DialKeepsTarget'
<1> SUFFICES ASSUME NEW b \in Addrs, sess'[b].st = "bound" PROVE tgt'[b].uid
  BY DEF DialKeepsTarget
<1>0. tgt \in [Addrs -> Target] /\ sess \in [Addrs -> Dial]
      /\ (sess[b].st = "bound" => tgt[b].uid)
  BY DEF TypeOK, DialKeepsTarget
<1>1. ASSUME NEW a \in Addrs, Bind(a) PROVE tgt'[b].uid
  <2>1. CASE BoundElsewhere(a)
    <3>1. sess[b].st = "bound" /\ tgt' = tgt
      BY <1>0, <1>1, <2>1 DEF Bind, Bound, NoDial
    <3> QED BY <1>0, <3>1
  <2>2. CASE ~BoundElsewhere(a)
    <3>1. tgt' = Given(a)
      BY <1>1, <2>2 DEF Bind, Bound, Given
    <3>2. CASE b = a
      BY <3>1, <3>2, GivenType
    <3>3. CASE b # a
      <4>1. sess[b].st = "bound"
        BY <1>0, <1>1, <3>3 DEF Bind
      <4> QED BY <1>0, <3>1, <3>3, <4>1, GivenType
    <3> QED BY <3>2, <3>3
  <2> QED BY <2>1, <2>2
<1>2. ASSUME NEW a \in Addrs, PrepareOutbound(a) PROVE tgt'[b].uid
  <2>1. sess[b].st = "bound" /\ b # a
    BY <1>0, <1>2 DEF PrepareOutbound, NoDial, Dial
  <2> QED BY <1>0, <1>2, <2>1 DEF PrepareOutbound
<1>3. ASSUME NEW a \in Addrs, CallBind(a) PROVE tgt'[b].uid
  <2>1. sess[b].st = "bound" /\ (tgt' = tgt \/ tgt' = Given(a))
    BY <1>3 DEF CallBind, Bound, Given
  <2>2. tgt[b].uid => Given(a)[b].uid
    BY <1>0, GivenType
  <2> QED BY <1>0, <2>1, <2>2
<1>4. ASSUME NEW m \in net, ReceiveAsk(m) PROVE tgt'[b].uid
  <2>1. m.addr \in Addrs /\ sess[b].st = "bound"
    BY <1>4 DEF ReceiveAsk, TypeOK, Datagram, Update, Query, Ask
  <2> QED BY <1>0, <1>4, <2>1, GivenType DEF ReceiveAsk
<1>5. ASSUME NEW m \in net, ReceiveUpdate(m) PROVE tgt'[b].uid
  <2>1. m.addr \in Addrs /\ m.policy \in Policy /\ sess[b].st = "bound"
    BY <1>5 DEF TypeOK, ReceiveUpdate, Datagram, Update, Query, Ask
  <2>2. Merge(tgt[m.addr], m.policy).uid = tgt[m.addr].uid
    BY <2>1, MergeType DEF TypeOK
  <2> QED BY <1>0, <1>5, <2>1, <2>2 DEF ReceiveUpdate
<1>6. ASSUME NEW old \in SUBSET Unrouted, Scan(old) PROVE tgt'[b].uid
  <2>1. sess[b].st = "bound" /\ b \notin old
    BY <1>6 DEF Scan, Unrouted, NoDial
  <2> QED BY <1>0, <1>6, <2>1 DEF Scan, Target
<1>7. ASSUME NEW a \in Addrs, HandleDecline(a) PROVE tgt'[b].uid
  <2>1. sess[b].st = "bound" /\ b # a
    BY <1>0, <1>7 DEF HandleDecline, NoDial, Dial
  <2> QED BY <1>0, <1>7, <2>1 DEF HandleDecline
<1>8. ASSUME NEW a \in Addrs, FlushQuery(a) PROVE tgt'[b].uid
  BY <1>0, <1>8 DEF FlushQuery, Target
<1>9. ASSUME NEW a \in Addrs,
             ReserveDial(a) \/ Connect(a) \/ Decline(a) \/ Link(a) \/ DialFails(a) \/ DialBreaks(a)
      PROVE  tgt'[b].uid
  <2>1. tgt' = tgt /\ sess[b].st = "bound"
    BY <1>0, <1>9 DEF ReserveDial, Connect, Decline, Link, DialFails, DialBreaks, NoDial, Dial
  <2> QED BY <1>0, <2>1
<1>10. ASSUME NEW keep \in BOOLEAN, Restart(keep) PROVE FALSE
  BY <1>10 DEF Restart, NoDial
<1>11. CASE UNCHANGED <<tgt, sess>>
  BY <1>0, <1>11
<1>12. ASSUME NEW m \in net, ReceiveQuery(m) \/ Lose(m) PROVE UNCHANGED <<tgt, sess>>
  BY <1>12 DEF ReceiveQuery, Lose, seekVars
<1>13. ASSUME NEW c \in Addrs, NEW ok \in BOOLEAN, Start(c, ok) PROVE UNCHANGED <<tgt, sess>>
  BY <1>13 DEF Start, seekVars
<1>14. Stage \/ Rename \/ SyncDirectory \/ FlushUpdate \/ StartFails \/ Reload \/ Crash
      \/ EvictSeeker \/ SendAsk \/ Call \/ LinkLost \/ RouteUp \/ RouteGone \/ RouteFlap
      \/ UNCHANGED vars
      => UNCHANGED <<tgt, sess>>
  BY DEF Stage, Rename, SyncDirectory, FlushUpdate, StartFails, Reload, Crash, EvictSeeker, SendAsk,
     Call, LinkLost, RouteUp, RouteGone, RouteFlap, vars, seekVars
<1> QED
  BY <1>1, <1>2, <1>3, <1>4, <1>5, <1>6, <1>7, <1>8, <1>9, <1>10, <1>11, <1>12, <1>13, <1>14
  DEF Next, Publisher, Seeker

\* The invariant is inductive.
LEMMA IndInvStep == IndInv /\ [Next]_vars => IndInv'
<1> SUFFICES ASSUME IndInv, [Next]_vars PROVE IndInv'
  OBVIOUS
<1>1. TypeOK /\ Reserved /\ PublishedIsDurable /\ Carried /\ OneLoopback /\ DialKeepsTarget
  BY DEF IndInv
<1>2. Carried'
  BY <1>1, NetCarried, ReplyCarried, SeenCarried DEF Carried
<1> QED BY <1>1, <1>2, TypeStep, ReservedStep, LoopbackStep, KeptTarget DEF IndInv

\* The inductive invariant holds in every reachable state of the exchange.
THEOREM Invariance == Spec => []IndInv
<1>1. Init => IndInv
  BY InitIndInv
<1>2. IndInv /\ [Next]_vars => IndInv'
  BY IndInvStep
<1> QED BY <1>1, <1>2, PTL DEF Spec

\* Types of the model's variables, in every reachable state.
THEOREM TypesHold == Spec => []TypeOK
BY Invariance, PTL DEF IndInv

\* reservePolicyRevision publishes nothing a power loss could make it publish again.
THEOREM DurablePublication == Spec => []PublishedIsDurable
BY Invariance, PTL DEF IndInv

\* The publisher's identity is at one loopback, though four handlers write it, in two
\* critical sections: bindPolicyPeer (of a dial and of an inbound session) and
\* receivePolicy look first, prepareOutbound does not, and the eviction spares its target.
THEOREM UniqueBinding == Spec => []OneLoopback
BY Invariance, PTL DEF IndInv

-----------------------------------------------------------------------------
\* The exchange starts as a register without decisions.
LEMMA RegisterInit == Init => Register!Init
BY DEF Init, Register!Init, NoTarget

\* Publishing names the current decision by a revision above every published one, or
\* repeats it.
LEMMA RegisterPublish ==
  ASSUME IndInv, run = "up", published' = published \cup {Current}, Seen' = Seen
  PROVE  published' = published \/ Register!Publish
<1>1. Current \in Policy
  BY PolicyAssumption DEF IndInv, TypeOK, Reserved, Current, Policy
<1>2. CASE Current \in published
  BY <1>2
<1>3. CASE Current \notin published
  <2>1. \A e \in published : e.rev < Current.rev
    BY <1>3 DEF IndInv, Reserved, Current
  <2> QED BY <1>1, <2>1 DEF Register!Publish, Seen
<1> QED BY <1>2, <1>3

\* Every step of the exchange is a step of the register or leaves it alone.
LEMMA RegisterStep ==
  ASSUME IndInv, [Next]_vars
  PROVE  Register!Next \/ (published' = published /\ Seen' = Seen)
<1>0. TypeOK /\ Carried
  BY DEF IndInv
<1>1. CASE published' = published /\ CacheStep
  <2>1. ASSUME NEW a \in Addrs, NEW p \in published,
               tgt[a].policy # None => tgt[a].policy.rev < p.rev,
               Seen' = [Seen EXCEPT ![a] = p]
        PROVE  Register!Learn(a)
    <3>1. Seen[a] = tgt[a].policy
      BY DEF Seen
    <3> QED BY <1>1, <2>1, <3>1 DEF Register!Learn, Seen
  <2>2. ASSUME NEW gone \in SUBSET Addrs,
               Seen' = [a \in Addrs |-> IF a \in gone THEN None ELSE Seen[a]]
        PROVE  Register!Forget(gone)
    BY <1>1, <2>2 DEF Register!Forget, Seen
  <2> QED BY <1>1, <2>1, <2>2 DEF CacheStep, Register!Next
<1>2. CASE Seen' = Seen
  <2>1. CASE Quiet \/ Stage \/ Rename \/ SyncDirectory \/ StartFails \/ Reload \/ Crash
             \/ \E c \in Addrs, ok \in BOOLEAN : Start(c, ok)
    BY <1>2, <2>1 DEF Quiet, Stage, Rename, SyncDirectory, StartFails, Reload, Crash, Start
  <2>2. CASE FlushUpdate
    BY <1>2, <2>2, RegisterPublish DEF FlushUpdate, Register!Next
  <2>3. ASSUME NEW a \in Addrs, Decline(a)
        PROVE  Register!Next \/ (published' = published /\ Seen' = Seen)
    BY <1>2, <2>3, RegisterPublish DEF Decline, Served, Register!Next
  <2> QED BY <2>1, <2>2, <2>3, QuietSteps
<1> QED BY <1>0, <1>1, <1>2, SeenStep

\* The policy exchange implements the register: whatever the network, the disk and the
\* two daemons do, revisions name one decision each and caches only move to newer ones.
THEOREM Refinement == Spec => ImplementsRegister
<1>1. Init => Register!Init
  BY RegisterInit
<1>2. IndInv /\ [Next]_vars => [Register!Next]_<<published, Seen>>
  BY RegisterStep
<1>3. IndInv /\ [Next]_vars
      => [Register!Next]_<<published, [a \in Addrs |-> tgt[a].policy]>>
  BY <1>2 DEF Seen
<1> QED BY <1>1, <1>3, Invariance, PTL DEF Spec, ImplementsRegister, Register!Spec

=============================================================================

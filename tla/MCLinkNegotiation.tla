------------------------- MODULE MCLinkNegotiation -------------------------
\* Instances of LinkNegotiation for TLC: settings a pair of nodes can have.
EXTENDS LinkNegotiation, TLC

CONSTANTS p1, p2, p3

MCProposals == {p1, p2, p3}
Both(x) == [e \in Ends |-> x]
Pair(x, y) == Initiator :> x @@ Responder :> y

Setting(k, derive, avail) ==
  [kind |-> k, distinct |-> TRUE, loopback |-> Both(TRUE), expected |-> TRUE,
   pool |-> Both(MCProposals), derive |-> derive, avail |-> avail,
   drift |-> TRUE, faults |-> TRUE]

Straight == [i \in 0 .. 2 |-> IF i = 0 THEN p1 ELSE IF i = 1 THEN p2 ELSE p3]
Backward == [i \in 0 .. 2 |-> IF i = 0 THEN p3 ELSE IF i = 1 THEN p2 ELSE p1]
Collides == [i \in 0 .. 2 |-> IF i = 2 THEN p2 ELSE p1]  \* two attempts hash alike
Override == [i \in 0 .. 2 |-> p3]                       \* both families overridden

All == Both(MCProposals)
Common == Setting("link", Both(Straight), All)

\* Every derivation pair, and every way a session fails before negotiation.
FaultySettings ==
  {Setting("link", d, All) : d \in {Both(Straight), Pair(Straight, Backward),
                                    Pair(Collides, Straight), Pair(Straight, Override)}}
  \cup {[Common EXCEPT !.distinct = FALSE],
        [Common EXCEPT !.loopback = Pair(TRUE, FALSE)],
        [Common EXCEPT !.loopback = Pair(FALSE, TRUE)],
        [Common EXCEPT !.pool = Pair({p1, p2, p3}, {p2, p3})],
        [Common EXCEPT !.pool = Pair({p1, p3}, {p1, p2, p3})],
        [Common EXCEPT !.kind = "durable"],
        [Common EXCEPT !.kind = "routed"],
        [Common EXCEPT !.kind = "routed", !.expected = FALSE],
        [Common EXCEPT !.kind = "routed", !.loopback = Pair(TRUE, FALSE)]}

\* Symmetric derivations under every availability of the two nodes, which neither
\* fault nor drift disturbs.
CalmSettings ==
  {[Setting("link", Both(d), a) EXCEPT !.drift = FALSE, !.faults = FALSE] :
     d \in {Straight, Collides}, a \in [Ends -> SUBSET MCProposals]}

MCSettings == FaultySettings \cup CalmSettings
=============================================================================

---------------------------- MODULE MCPeerSearch ----------------------------
\* Networks for PeerSearch: two endpoints per node, three kinds of NAT.
EXTENDS PeerSearch, TLC

MCEndpoint == Initiator :> {1, 2} @@ Responder :> {3, 4}

\* What a node's source looks like at each endpoint of its peer.
Straight == 1 :> 3 @@ 2 :> 4 @@ 3 :> 1 @@ 4 :> 2
Crossed == 1 :> 4 @@ 2 :> 3 @@ 3 :> 2 @@ 4 :> 1
Cone == 1 :> 3 @@ 2 :> 3 @@ 3 :> 1 @@ 4 :> 1
Mapping(f, g) == [n \in Nodes |-> IF n = Initiator THEN f ELSE g]

Twice(s) == [r \in Rounds |-> s]
Then(s, t) == [r \in Rounds |-> IF r = 1 THEN s ELSE t]
Setting(calm, nat, i, r) ==
  [calm |-> calm, nat |-> nat, infer |-> Initiator :> i @@ Responder :> r]

\* Calm: two mutual paths, one, and none.  Rough: the same candidates in both rounds,
\* so that late probes look like new ones; two mutual paths; none at first.
MCEnvironments ==
  {Setting(TRUE, nat, Twice({1, 2}), Twice({3, 4})) :
     nat \in {Mapping(Crossed, Crossed), Mapping(Cone, Straight), Mapping(Crossed, Straight)}}
  \cup {Setting(FALSE, Mapping(Straight, Straight), Twice({1}), Twice({3})),
        Setting(FALSE, Mapping(Crossed, Crossed), Then({1, 2}, {}), Then({3, 4}, {})),
        Setting(FALSE, Mapping(Cone, Straight), Then({}, {1}), Then({4}, {3}))}
=============================================================================

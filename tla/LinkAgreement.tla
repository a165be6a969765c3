--------------------------- MODULE LinkAgreement ---------------------------
(***************************************************************************)
(* What a Link negotiation promises its two endpoints, however it reaches  *)
(* it: one endpoint installs a proposal, after which the other may install *)
(* that proposal and nothing else.  Either may stop at any point, so there *)
(* is no distributed commit: one side may stay without a Link.             *)
(***************************************************************************)
CONSTANTS Proposals, None
VARIABLE installed

Parties == {"initiator", "responder"}

Init == installed = [e \in Parties |-> None]

InstallFirst(e, p) ==
  /\ \A f \in Parties : installed[f] = None
  /\ installed' = [installed EXCEPT ![e] = p]

InstallSame(e, f) ==
  /\ installed[e] = None /\ installed[f] # None
  /\ installed' = [installed EXCEPT ![e] = installed[f]]

Next == \/ \E e \in Parties, p \in Proposals : InstallFirst(e, p)
        \/ \E e, f \in Parties : InstallSame(e, f)

Spec == Init /\ [][Next]_installed
=============================================================================

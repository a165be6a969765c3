--------------------------- MODULE PolicyRegister ---------------------------
(***************************************************************************)
(* What the policy exchange promises to one seeker: the publisher's        *)
(* decisions are numbered, a number stands for one decision and numbers    *)
(* only grow; the seeker learns a published decision newer than the one it *)
(* holds, or forgets what it holds.                                        *)
(***************************************************************************)
EXTENDS Naturals

CONSTANTS
  Places,    \* the loopbacks a publisher is cached under
  Decision,  \* decisions: records of a revision and what it decides
  None       \* no decision

VARIABLES
  decided,   \* decisions ever published
  seen       \* seen[a]: the decision cached for loopback a

Init == decided = {} /\ seen = [a \in Places |-> None]

Publish ==
  \E d \in Decision :
    /\ \A e \in decided : e.rev < d.rev
    /\ decided' = decided \cup {d}
    /\ UNCHANGED seen

Learn(a) ==
  \E d \in decided :
    /\ seen[a] # None => seen[a].rev < d.rev
    /\ seen' = [seen EXCEPT ![a] = d]
    /\ UNCHANGED decided

Forget(gone) ==
  /\ seen' = [a \in Places |-> IF a \in gone THEN None ELSE seen[a]]
  /\ UNCHANGED decided

Next ==
  \/ Publish
  \/ \E a \in Places : Learn(a)
  \/ \E gone \in SUBSET Places : Forget(gone)

Spec == Init /\ [][Next]_<<decided, seen>>

=============================================================================

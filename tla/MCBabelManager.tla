--------------------------- MODULE MCBabelManager ---------------------------
\* Plans for BabelManager: a detached daemon on Links alone, whose channel one update
\* fills, and a unit with a configured interface, which can be withdrawn.
EXTENDS BabelManager

Detached == [interfaces |-> {}, service |-> FALSE]
Packaged == [interfaces |-> Links, service |-> TRUE]
MCPlans == {Detached, Packaged}
=============================================================================

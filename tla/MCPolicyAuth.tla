----------------------------- MODULE MCPolicyAuth -----------------------------
\* PolicyAuth on a small instance.  The requests are alike, and so are the
\* policies that JSON can express.
EXTENDS PolicyAuth, TLC

CONSTANTS r1, r2, tight, loose, unbounded

MCRequest     == {r1, r2}
MCExpressible == {tight, loose}
MCPolicy      == MCExpressible \cup {unbounded}

Symmetry == Permutations(MCRequest) \cup Permutations(MCExpressible)

=============================================================================

--------------------------- MODULE MCPolicyReload ---------------------------
(* An instance of PolicyReload for TLC. *)
EXTENDS PolicyReload

CONSTANTS e1, c1, c2

OneThread  == {e1}
TwoCalls   == {c1, c2}
UnsafeCall == {c2}

Policy(n, prio, c, act) == [name |-> n, priority |-> prio, covers |-> c, action |-> act]

\* File 1 allows all calls unless it is empty, file 2 denies one.
Allow  == Policy("base", 50, TwoCalls, "allow")
Forbid == Policy("extra", 100, {c1}, "deny")

MCPolicies == {Allow, Forbid}
MCRules    == <<{<<Allow>>, <<>>}, {<<Forbid>>}>>
=============================================================================

------------------------------- MODULE MCTaint -------------------------------
(* An instance of Taint for TLC. *)
EXTENDS Taint, TLC

CONSTANTS x, y, r, q

MCVars == {x, y}
MCReaders == {r, q}
MCSources == {[label |-> l, trust |-> DefaultTrust(l)] : l \in {"USER", "WEB_CONTENT"}}

\* Variables are alike, and so are readers.
TaintSymmetry == Permutations(MCVars) \union Permutations(MCReaders)

\* Nothing is claimed of what was computed from a value that lost metadata.
UntilLost == "overwritten" \notin listLost /\ \A v \in Vars : val[v].lost = {}
=============================================================================

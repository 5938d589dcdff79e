----------------------------- MODULE MCDispatch -----------------------------
(* Instances of Dispatch for TLC. *)
EXTENDS Dispatch, TLC

CONSTANTS c1, c2, c3, x, y, t1, t2, r1, r2

MCCalls   == {c1, c2, c3}
TwoCalls  == {c1, c2}
OneTool   == {x}
MCTools   == {x, y}
MCTasks   == {t1, t2}
MCThreads == {r1, r2}

DispatchSymmetry ==
  Permutations(Calls) \union Permutations(Tools) \union Permutations(Tasks)
    \union Permutations(Threads)
=============================================================================

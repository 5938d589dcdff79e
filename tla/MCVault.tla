------------------------------- MODULE MCVault -------------------------------
(* Instances of Vault for TLC. *)
EXTENDS VaultStore, TLC

CONSTANTS p1, p2, a, b, u, v

MCProcs  == {p1, p2}
OneProc  == {p1}
MCNames  == {a, b}
OneValue == {u}
TwoValues == {u, v}

VaultSymmetry == Permutations(MCProcs) \union Permutations(MCNames)
=============================================================================

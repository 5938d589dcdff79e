-------------------------- MODULE MCVaultSatellites --------------------------
(* An instance of VaultSatellites for TLC. *)
EXTENDS VaultSatellites, TLC

CONSTANTS p1, p2, a, b

MCProcs == {p1, p2}
MCNames == {a, b}

\* Nothing is claimed after a mishap, so nothing is explored beyond it.
UntilMishap == expiryCauses = {} /\ honeyCauses = {} /\ logCauses = {}

SatelliteSymmetry == Permutations(MCProcs) \union Permutations(MCNames)
=============================================================================

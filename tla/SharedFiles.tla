----------------------------- MODULE SharedFiles -----------------------------
(* What the models of the vault's helper files have in common.             *)
EXTENDS Naturals

CONSTANTS
  Procs,      \* processes, one object of each helper in every one
  MaxFaults,  \* bound: reads, writes and renames that fail
  None        \* absent

ASSUME FaultAssumption == MaxFaults \in Nat

=============================================================================

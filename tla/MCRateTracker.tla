---------------------------- MODULE MCRateTracker ----------------------------
(* Instances of RateTracker for TLC. *)
EXTENDS RateTracker

CONSTANTS k1, k2

TwoClients == {k1, k2}
=============================================================================

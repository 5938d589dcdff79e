---------------------------- MODULE MCAuditTrail ----------------------------
(* Instances of AuditTrail for TLC: two AuditTrail objects that may live in *)
(* one process or in two.                                                   *)
EXTENDS AuditTrail

CONSTANTS t1, t2

MCTrails == {t1, t2}

\* The key at first and the one it is changed to.
MCKeys == {1, 2}
=============================================================================

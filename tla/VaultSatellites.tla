--------------------------- MODULE VaultSatellites ---------------------------
(***************************************************************************)
(* The three files that the vault's helpers keep next to it.  They share   *)
(* no state with each other, so a behaviour is one of the three, chosen by *)
(* part when it begins; the other two stay as they are.                    *)
(***************************************************************************)
EXTENDS ExpiryFile, HoneyTokens, AccessLog

VARIABLE part

satelliteVars == <<part, expiryVars, honeyVars, logVars>>

Init ==
  /\ part \in {"expiry", "honey", "log"}
  /\ ExpiryInit /\ HoneyInit /\ LogInit

Next ==
  \/ part = "expiry" /\ ExpiryNext /\ UNCHANGED <<part, honeyVars, logVars>>
  \/ part = "honey"  /\ HoneyNext  /\ UNCHANGED <<part, expiryVars, logVars>>
  \/ part = "log"    /\ LogNext    /\ UNCHANGED <<part, expiryVars, honeyVars>>

Spec == Init /\ [][Next]_satelliteVars

=============================================================================

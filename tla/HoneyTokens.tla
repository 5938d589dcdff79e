----------------------------- MODULE HoneyTokens -----------------------------
(***************************************************************************)
(* The decoy credentials of src/hermes_katana/vault/honey_tokens.py.  A    *)
(* HoneyTokenVault loads the registry once, when it is made, and writes    *)
(* its whole copy back at every change; processes share no lock.           *)
(***************************************************************************)
EXTENDS SharedFiles

CONSTANTS
  Decoys,      \* token names
  MaxAccess    \* bound: accesses counted per token

Token    == [accesses : Nat, planted : SUBSET {"env", "file"}]
NoTokens == [t \in Decoys |-> None]

VARIABLES
  registry,    \* the file: a token or None for each name
  copy         \* each object's _tokens; None while the object does not exist

\* History: the registry as the calls that returned should have left it, the
\* mishaps and the faults so far.
VARIABLES meant, honeyCauses, honeyFaults

honeyVars == <<registry, copy, meant, honeyCauses, honeyFaults>>

HoneyMishap ==
  { "outdated",   \* an object wrote back a copy that others had changed on disk
    "unloaded",   \* one that failed to load took the registry to be empty
    "unsaved" }   \* a change stayed in memory after its save had failed

HoneyInit ==
  /\ registry = NoTokens /\ meant = NoTokens
  /\ copy = [p \in Procs |-> None]
  /\ honeyCauses = {} /\ honeyFaults = 0

-----------------------------------------------------------------------------

OpenRegistry(p) ==
  /\ copy[p] = None
  /\ copy' = [copy EXCEPT ![p] = registry]
  /\ UNCHANGED <<registry, meant, honeyCauses, honeyFaults>>

\* _load: a registry that cannot be read is taken to be empty.
OpenRegistryFails(p) ==
  /\ copy[p] = None /\ registry # NoTokens /\ honeyFaults < MaxFaults
  /\ copy' = [copy EXCEPT ![p] = NoTokens]
  /\ honeyFaults' = honeyFaults + 1
  /\ honeyCauses' = honeyCauses \union {"unloaded"}
  /\ UNCHANGED <<registry, meant>>

DropRegistry(p) ==
  /\ copy[p] # None
  /\ copy' = [copy EXCEPT ![p] = None]
  /\ UNCHANGED <<registry, meant, honeyCauses, honeyFaults>>

Saved_TokenOnly(p, t, token) == [NoTokens EXCEPT ![t] = token]   \* mutant

\* What _save writes once t is token in the object's copy.
Saved(p, t, token) == [copy[p] EXCEPT ![t] = token]

\* The object changes t in its copy and saves; a save that raises leaves the
\* copy changed.
Update(p, t, token) ==
  /\ copy' = [copy EXCEPT ![p][t] = token]
  /\ \/ /\ registry' = Saved(p, t, token)
        /\ meant' = [meant EXCEPT ![t] = token]
        /\ honeyCauses' = honeyCauses \union (IF copy[p] # registry THEN {"outdated"} ELSE {})
        /\ UNCHANGED honeyFaults
     \/ /\ honeyFaults < MaxFaults
        /\ honeyFaults' = honeyFaults + 1
        /\ honeyCauses' = honeyCauses \union {"unsaved"}
        /\ UNCHANGED <<registry, meant>>

Has(p, t) == copy[p] # None /\ copy[p][t] # None

\* create(): a name that exists gets a new token.
CreateToken(p, t) ==
  /\ copy[p] # None
  /\ Update(p, t, [accesses |-> 0, planted |-> {}])

\* get(): the access is counted and saved before anybody is told.
TouchToken(p, t) ==
  /\ Has(p, t) /\ copy[p][t].accesses < MaxAccess
  /\ Update(p, t, [copy[p][t] EXCEPT !.accesses = @ + 1])

\* remove() forgets the token, and with it where it was planted.
RemoveToken(p, t) == Has(p, t) /\ Update(p, t, None)

\* plant_env() and plant_file() note where they put the decoy.
PlantToken(p, t, where) ==
  Has(p, t) /\ Update(p, t, [copy[p][t] EXCEPT !.planted = @ \union {where}])

UnplantEnv(p, t) ==
  Has(p, t) /\ Update(p, t, [copy[p][t] EXCEPT !.planted = @ \ {"env"}])

HoneyNext ==
  \E p \in Procs :
    \/ OpenRegistry(p) \/ OpenRegistryFails(p) \/ DropRegistry(p)
    \/ \E t \in Decoys :
         \/ CreateToken(p, t) \/ TouchToken(p, t) \/ RemoveToken(p, t)
         \/ PlantToken(p, t, "env") \/ PlantToken(p, t, "file") \/ UnplantEnv(p, t)

-----------------------------------------------------------------------------
(* Properties *)

\* No save undoes what another object did: a token that was created and not
\* removed is in the registry with all its accesses and places, so that every
\* later object finds it, and no removed token comes back.
TokensKept == honeyCauses = {} => registry = meant

=============================================================================

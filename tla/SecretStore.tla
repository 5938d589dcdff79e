----------------------------- MODULE SecretStore -----------------------------
(***************************************************************************)
(* What the vault of src/hermes_katana/vault/store.py promises: a map from *)
(* names to values that several clients change atomically, one secret at a *)
(* time, and that keeps everything else whatever happens to them.  A key,  *)
(* a rotation, a file and a recovery are nothing a client can see.         *)
(***************************************************************************)
CONSTANTS
  Clients,  \* who may have an operation under way
  Names,    \* secret names
  Values,   \* plaintexts
  None      \* absent: no secret, no operation

Request == [name : Names, val : Values \union {None}]

VARIABLES
  secrets,  \* what each name can be decrypted to
  pending,  \* the set() or remove() each client has under way
  excused   \* a circumstance arose in which the vault promises nothing more

storeVars == <<secrets, pending, excused>>

StoreInit ==
  /\ secrets = [n \in Names |-> None]
  /\ pending = [c \in Clients |-> None]
  /\ excused = FALSE

Ask(c, r) ==
  /\ pending[c] = None
  /\ pending' = [pending EXCEPT ![c] = r]
  /\ UNCHANGED <<secrets, excused>>

\* The one moment at which an operation takes effect: remove() is val = None.
Take(c) ==
  /\ pending[c] # None
  /\ secrets' = [secrets EXCEPT ![pending[c].name] = pending[c].val]
  /\ pending' = [pending EXCEPT ![c] = None]
  /\ UNCHANGED excused

\* It failed, or its process died: nothing happened.
GiveUp(c) ==
  /\ pending[c] # None
  /\ pending' = [pending EXCEPT ![c] = None]
  /\ UNCHANGED <<secrets, excused>>

Excuse ==
  /\ excused'
  /\ secrets' \in [Names -> Values \union {None, "lost"}]
  /\ pending' \in [Clients -> Request \union {None}]

StoreNext ==
  \/ ~excused /\ \E c \in Clients : (\E r \in Request : Ask(c, r)) \/ Take(c) \/ GiveUp(c)
  \/ Excuse

StoreSpec == StoreInit /\ [][StoreNext]_storeVars

=============================================================================

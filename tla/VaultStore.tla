------------------------------ MODULE VaultStore ------------------------------
(***************************************************************************)
(* The vault implements the secret store: what a secret's ciphertext       *)
(* decrypts to under a key that can still be got at is the store's value,  *)
(* and an operation between its reads and the replacement of the file is   *)
(* the store's pending one.                                                *)
(***************************************************************************)
EXTENDS Vault

ASSUME RequestAssumption == None \notin [name : Names, val : Values \union {None}]

Readable(n) ==
  IF entries[n] = None THEN None
  ELSE IF Obtainable(entries[n].key) THEN entries[n].val ELSE "lost"

Changing(p) ==
  IF op[p] \in {"set", "remove"}
  THEN [name |-> name[p],
        val  |-> IF buf[p][name[p]] = None THEN None ELSE buf[p][name[p]].val]
  ELSE None

Abstract == INSTANCE SecretStore WITH
  Clients <- Procs,
  secrets <- [n \in Names |-> Readable(n)],
  pending <- [p \in Procs |-> Changing(p)],
  excused <- causes # {}

\* The vault implements the atomic store.  A set() or remove() takes effect on
\* its own secret at the replacement of the file or, when it fails or its
\* process dies, not at all; no step of a rotation, a recovery, a first opening
\* or a crash between any two of them changes a secret or makes one
\* unreadable.  The store promises this until one of the mishaps occurs.
ImplementsStore == Abstract!StoreSpec

=============================================================================

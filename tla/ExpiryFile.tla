------------------------------ MODULE ExpiryFile ------------------------------
(***************************************************************************)
(* The expiry times of vault secrets, src/hermes_katana/vault/expiry.py: a *)
(* JSON file that every SecretExpiry object reads, changes and writes back *)
(* whole.  The file lock covers one read or one write and the thread lock  *)
(* one object, so the calls of another process fit between the two.        *)
(***************************************************************************)
EXTENDS SharedFiles

CONSTANTS
  Names,      \* secret names
  MaxAt       \* bound: the latest expiry time

ASSUME ExpiryAssumption == MaxAt \in Nat

NoExpiry == [n \in Names |-> 0]

VARIABLES
  expiries,   \* the file: expires_at of each name, 0 when it has none
  editing,    \* what a process is about to write back, None between calls
  listed,     \* the names sync_with_vault() was called with, None if no call
  vaulted     \* the names that are in the vault

\* History: the file as the calls that returned should have left it, the
\* mishaps, and the faults so far.
VARIABLES promised, expiryCauses, expiryFaults

expiryVars == <<expiries, editing, listed, vaulted, promised, expiryCauses, expiryFaults>>

ExpiryMishap ==
  { "overlap",      \* a call wrote back a map that was out of date
    "unread",       \* one that failed to read went on with an empty map
    "unwritten",    \* one returned although its write had failed
    "stale_list" }  \* a sync used a list of names the vault has outgrown

ExpiryInit ==
  /\ expiries = NoExpiry /\ promised = NoExpiry /\ vaulted = {}
  /\ editing = [p \in Procs |-> None] /\ listed = [p \in Procs |-> None]
  /\ expiryCauses = {} /\ expiryFaults = 0

-----------------------------------------------------------------------------

Changes ==
  [kind : {"set", "extend"}, name : Names, at : 1..MaxAt]
    \union [kind : {"remove"}, name : Names] \union [kind : {"sync"}, names : SUBSET Names]

\* The map m after change c: an extension needs an entry, a sync removes the
\* entries of names it was not given.
Changed(m, c) ==
  CASE c.kind = "set"    -> [m EXCEPT ![c.name] = c.at]
    [] c.kind = "extend" -> [m EXCEPT ![c.name] = IF @ = 0 THEN 0 ELSE @ + c.at]
    [] c.kind = "remove" -> [m EXCEPT ![c.name] = 0]
    [] c.kind = "sync"   -> [n \in Names |-> IF n \in c.names THEN m[n] ELSE 0]

\* What c should do at the moment it returns: a sync must not touch names that
\* are in the vault by then.
Intended(m, c) ==
  IF c.kind = "sync" THEN Changed(m, [c EXCEPT !.names = @ \union vaulted]) ELSE Changed(m, c)

\* The call with change c has returned without writing.
ReturnUnwritten(p, c) ==
  /\ editing' = [editing EXCEPT ![p] = None]
  /\ promised' = Intended(promised, c)

\* The first half of every call that changes the file: _read() returns m, the
\* file's map or {} when reading fails.  Only set_expiry() writes a map that it
\* did not change.
ReadMap(p, c, m) ==
  IF c.kind # "set" /\ Changed(m, c) = m
  THEN ReturnUnwritten(p, c)
  ELSE /\ editing' = [editing EXCEPT ![p] = [base |-> expiries, new |-> Changed(m, c), change |-> c]]
       /\ UNCHANGED promised

ReadFor(p, c) ==
  /\ editing[p] = None
  /\ \/ ReadMap(p, c, expiries) /\ UNCHANGED <<expiryCauses, expiryFaults>>
     \/ /\ expiries # NoExpiry /\ expiryFaults < MaxFaults
        /\ expiryFaults' = expiryFaults + 1
        /\ expiryCauses' = expiryCauses \union {"unread"}
        /\ ReadMap(p, c, NoExpiry)

\* set_expiry(), extend_expiry() and remove_expiry().
ChangeExpiry(p, c) ==
  /\ listed[p] = None
  /\ c.kind = "extend" => expiries[c.name] # 0 /\ expiries[c.name] + c.at <= MaxAt
  /\ ReadFor(p, c)
  /\ UNCHANGED <<expiries, listed, vaulted>>

\* The caller of sync_with_vault() lists the vault before it calls.
ListVault(p) ==
  /\ editing[p] = None /\ listed[p] = None
  /\ listed' = [listed EXCEPT ![p] = vaulted]
  /\ UNCHANGED <<expiries, editing, vaulted, promised, expiryCauses, expiryFaults>>

SyncWithVault(p) ==
  /\ listed[p] # None
  /\ ReadFor(p, [kind |-> "sync", names |-> listed[p]])
  /\ listed' = [listed EXCEPT ![p] = None]
  /\ UNCHANGED <<expiries, vaulted>>

Written_Merged(p) ==   \* mutant: a merge, which cannot remove
  [n \in Names |-> IF editing[p].new[n] # 0 THEN editing[p].new[n] ELSE expiries[n]]

Written(p) == editing[p].new

\* The second half: _write() replaces the file, under the file lock again.
WriteExpiries(p) ==
  /\ editing[p] # None
  /\ LET e == editing[p]
         stale == e.change.kind = "sync" /\ \E n \in vaulted \ e.change.names : promised[n] # 0
     IN /\ expiries' = Written(p)
        /\ promised' = Intended(promised, e.change)
        /\ expiryCauses' = expiryCauses \union (IF e.base # expiries THEN {"overlap"} ELSE {})
                                        \union (IF stale THEN {"stale_list"} ELSE {})
  /\ editing' = [editing EXCEPT ![p] = None]
  /\ UNCHANGED <<listed, vaulted, expiryFaults>>

\* _write() logs an OSError, and the call returns as if it had worked.
WriteExpiriesFails(p) ==
  /\ editing[p] # None /\ expiryFaults < MaxFaults
  /\ expiryFaults' = expiryFaults + 1
  /\ expiryCauses' = expiryCauses \union {"unwritten"}
  /\ ReturnUnwritten(p, editing[p].change)
  /\ UNCHANGED <<expiries, listed, vaulted>>

\* The process dies between the two halves: the call never returns.
DieEditing(p) ==
  /\ editing[p] # None
  /\ editing' = [editing EXCEPT ![p] = None]
  /\ UNCHANGED <<expiries, listed, vaulted, promised, expiryCauses, expiryFaults>>

\* clear() unlinks the file without the file lock.
ClearExpiries(p) ==
  /\ editing[p] = None /\ expiries # NoExpiry
  /\ expiries' = NoExpiry /\ promised' = NoExpiry
  /\ UNCHANGED <<editing, listed, vaulted, expiryCauses, expiryFaults>>

\* Meanwhile secrets come and go in the vault.
VaultChanges ==
  /\ \E n \in Names : vaulted' \in {vaulted \union {n}, vaulted \ {n}}
  /\ UNCHANGED <<expiries, editing, listed, promised, expiryCauses, expiryFaults>>

ExpiryNext ==
  \/ \E p \in Procs :
       \/ \E c \in {c \in Changes : c.kind # "sync"} : ChangeExpiry(p, c)
       \/ ListVault(p) \/ SyncWithVault(p)
       \/ WriteExpiries(p) \/ WriteExpiriesFails(p) \/ DieEditing(p) \/ ClearExpiries(p)
  \/ VaultChanges

-----------------------------------------------------------------------------
(* Properties *)

\* A secret given a time to live never becomes permanent, keeps the time it was
\* given, and loses it only by a call that says so, whatever other processes
\* do: unless calls overlap, fail to read or write, or use an old list.
ExpiryKept == expiryCauses = {} => expiries = promised

=============================================================================

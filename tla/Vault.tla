-------------------------------- MODULE Vault --------------------------------
(***************************************************************************)
(* The encrypted secret store of src/hermes_katana/vault/store.py: Vault   *)
(* objects in several processes share one vault file, the master key in    *)
(* the OS keyring, the rotation journal and the circuit-breaker file.  The *)
(* advisory file lock covers one read or one replacement of the file, so   *)
(* each of those is an action and an operation is several of them.         *)
(*                                                                         *)
(* Keys are numbers, generated in the order 1, 2, ...; a ciphertext is the *)
(* pair of its key and its plaintext; the HMAC is the key it was computed  *)
(* with.  The journal holds each key of a rotation encrypted by the other. *)
(***************************************************************************)
EXTENDS Integers, FiniteSets

CONSTANTS
  Procs,       \* processes, one Vault object each
  Names,       \* secret names
  Values,      \* plaintexts
  MaxKeys,     \* bound: master keys generated
  MaxCounter,  \* bound: no operation starts at this write counter
  MaxFaults,   \* bound: crashes and failed keyring or file operations
  None         \* absent: no secret, no owner

Operation == {"set", "remove", "rotate", "init", "recover"}

ASSUME DataAssumption  == None \notin Values /\ None \notin Procs /\ None \notin Operation
ASSUME BoundAssumption == MaxKeys \in Nat /\ MaxCounter \in Nat /\ MaxFaults \in Nat

NoKey == 0
Key   == Nat \ {0}
Dead  == "dead"   \* a breaker owner whose process is gone

Cipher    == [key : Key, val : Values]
Empty     == [k \in Names |-> None]
NoJournal == [old |-> NoKey, new |-> NoKey]

ASSUME NoneAssumption  == None \notin Cipher
ASSUME OwnerAssumption == Dead \notin Procs

VARIABLES
  keyring,   \* the stored master key, NoKey when there is none
  counter,   \* the file's write counter, 0 when there is no file
  entries,   \* the file's ciphertexts
  mac,       \* the key of the file's HMAC
  journal,   \* the rotation journal, NoJournal when there is none
  breaker,   \* owner of the circuit-breaker file
  nextKey,   \* the next key secrets.token_bytes returns
  pc,        \* where each process is in an operation; "down": not running
  op,        \* the operation it is in: "set", "remove", "rotate", "init", "recover"
  mem,       \* _master_key of its Vault object
  buf,       \* the entries it is about to write
  cnt,       \* the counter it is about to write
  name,      \* the secret its set() or remove() is about
  oldKey,    \* the key its rotation started from
  newKey     \* the key it has generated, or chosen in a recovery

\* History variables: they record what happened and guard nothing.
VARIABLES causes, faults

file  == <<counter, entries, mac>>
local == <<op, buf, cnt, name, oldKey, newKey>>
vars  == <<keyring, file, journal, breaker, nextKey, pc, mem, local, causes, faults>>

Mishap == { "overlap",      \* an operation started inside another process's
            "stale",        \* an operation used a cached key the keyring has not
            "unrecovered",  \* one started on a vault under another key
            "keyring" }     \* the keyring failed to answer or to store

-----------------------------------------------------------------------------

Busy(p) == pc[p] \notin {"down", "idle"}

\* _get_key: the cached key, else the one in the keyring.
KeyOf(p) == IF mem[p] # NoKey THEN mem[p] ELSE keyring

\* Every ciphertext of c decrypts under k.
AllUnder(c, k) == \A n \in Names : c[n] # None => c[n].key = k

Reencrypted_SameKey(c, k) == c   \* mutant: the old ciphertexts are written back

\* Ciphertexts c re-encrypted under k.
Reencrypted(c, k) == [n \in Names |-> IF c[n] = None THEN None ELSE [c[n] EXCEPT !.key = k]]

Overlap(p) == IF \E q \in Procs \ {p} : Busy(q) THEN {"overlap"} ELSE {}

\* What goes wrong when p starts an operation with key k in this state.
MishapsOf(p, k) ==
  Overlap(p)
    \union (IF k # keyring THEN {"stale"} ELSE {})
    \union (IF k = keyring /\ ~AllUnder(entries, k) THEN {"unrecovered"} ELSE {})

\* _check_lock: the breaker of a dead process is removed, any other refuses.
BreakerOpen == breaker \in {None, Dead} /\ breaker' = None

Goto(p, label) == pc' = [pc EXCEPT ![p] = label]

Finish(p) ==
  /\ Goto(p, "idle")
  /\ op' = [op EXCEPT ![p] = None]
  /\ buf' = [buf EXCEPT ![p] = Empty]
  /\ cnt' = [cnt EXCEPT ![p] = 0]
  /\ name' = [name EXCEPT ![p] = None]
  /\ oldKey' = [oldKey EXCEPT ![p] = NoKey]
  /\ newKey' = [newKey EXCEPT ![p] = NoKey]

\* The process is gone, its Vault object with it; a breaker it owned stays.
Gone(p) ==
  /\ Goto(p, "down")
  /\ op' = [op EXCEPT ![p] = None]
  /\ buf' = [buf EXCEPT ![p] = Empty]
  /\ cnt' = [cnt EXCEPT ![p] = 0]
  /\ name' = [name EXCEPT ![p] = None]
  /\ oldKey' = [oldKey EXCEPT ![p] = NoKey]
  /\ newKey' = [newKey EXCEPT ![p] = NoKey]
  /\ mem' = [mem EXCEPT ![p] = NoKey]
  /\ breaker' = IF breaker = p THEN Dead ELSE breaker

Init ==
  /\ keyring = NoKey /\ counter = 0 /\ entries = Empty /\ mac = NoKey
  /\ journal = NoJournal /\ breaker = None /\ nextKey = 1
  /\ pc = [p \in Procs |-> "down"] /\ op = [p \in Procs |-> None]
  /\ mem = [p \in Procs |-> NoKey] /\ buf = [p \in Procs |-> Empty]
  /\ cnt = [p \in Procs |-> 0] /\ name = [p \in Procs |-> None]
  /\ oldKey = [p \in Procs |-> NoKey] /\ newKey = [p \in Procs |-> NoKey]
  /\ causes = {} /\ faults = 0

-----------------------------------------------------------------------------
(* Opening the vault.                                                      *)

\* Vault(auto_create=False): the key is fetched when it is first needed.
OpenLazily(p) ==
  /\ pc[p] = "down"
  /\ Goto(p, "idle")
  /\ UNCHANGED <<keyring, file, journal, breaker, nextKey, mem, local, causes, faults>>

\* Vault(): the keyring has a key.
Open(p) ==
  /\ pc[p] = "down" /\ keyring # NoKey
  /\ Goto(p, "idle")
  /\ mem' = [mem EXCEPT ![p] = keyring]
  /\ UNCHANGED <<keyring, file, journal, breaker, nextKey, local, causes, faults>>

\* Vault(): no key is found, so one is generated and an empty vault follows.
\* A keyring that fails to answer looks the same as one without a key.
OpenFirst(p) ==
  /\ pc[p] = "down" /\ nextKey <= MaxKeys /\ counter < MaxCounter
  /\ \/ keyring = NoKey /\ faults' = faults /\ causes' = causes \union MishapsOf(p, NoKey)
     \/ /\ keyring # NoKey /\ faults < MaxFaults
        /\ faults' = faults + 1
        /\ causes' = causes \union {"keyring"} \union Overlap(p)
  /\ op' = [op EXCEPT ![p] = "init"]
  /\ newKey' = [newKey EXCEPT ![p] = nextKey]
  /\ nextKey' = nextKey + 1
  /\ Goto(p, "key")
  /\ UNCHANGED <<keyring, file, journal, breaker, mem, buf, cnt, name, oldKey>>

-----------------------------------------------------------------------------
(* set() and remove(): check the breaker, read, then count and write.      *)

NewEntries(p, n, v) ==
  IF v = None THEN [entries EXCEPT ![n] = None]
  ELSE [entries EXCEPT ![n] = [val |-> v, key |-> KeyOf(p)]]

\* v = None stands for remove(n), which needs n to be there and fetches its key
\* in _write_vault only.
Begin(p, n, v) ==
  /\ pc[p] = "idle" /\ BreakerOpen /\ KeyOf(p) # NoKey /\ counter < MaxCounter
  /\ v = None => entries[n] # None
  /\ mem' = IF v = None THEN mem ELSE [mem EXCEPT ![p] = KeyOf(p)]
  /\ op' = [op EXCEPT ![p] = IF v = None THEN "remove" ELSE "set"]
  /\ name' = [name EXCEPT ![p] = n]
  /\ buf' = [buf EXCEPT ![p] = NewEntries(p, n, v)]
  /\ causes' = causes \union MishapsOf(p, KeyOf(p))
  /\ Goto(p, "count")
  /\ UNCHANGED <<keyring, file, journal, nextKey, cnt, oldKey, newKey, faults>>

\* _write_vault takes the key, reads the counter...
Count(p) ==
  /\ pc[p] = "count"
  /\ mem' = [mem EXCEPT ![p] = KeyOf(p)]
  /\ cnt' = [cnt EXCEPT ![p] = counter + 1]
  /\ Goto(p, "write")
  /\ UNCHANGED <<keyring, file, journal, breaker, nextKey, op, buf, name, oldKey, newKey,
                 causes, faults>>

\* ... and replaces the file in a later critical section.
Replace(p) ==
  /\ counter' = cnt[p]
  /\ entries' = buf[p]
  /\ mac' = mem[p]

Write(p) ==
  /\ pc[p] = "write" /\ op[p] \in {"set", "remove"}
  /\ Replace(p)
  /\ Finish(p)
  /\ UNCHANGED <<keyring, journal, breaker, nextKey, mem, causes, faults>>

WriteFails(p) ==
  /\ pc[p] = "write" /\ op[p] # "rotate" /\ faults < MaxFaults
  /\ faults' = faults + 1
  /\ IF op[p] = "init" THEN Gone(p) ELSE Finish(p) /\ UNCHANGED <<breaker, mem>>
  /\ UNCHANGED <<keyring, file, journal, nextKey, causes>>

\* get(), list_keys(), is_locked(): they leave a cached key, and no dead breaker.
Read(p) ==
  /\ pc[p] = "idle" /\ BreakerOpen
  /\ mem' \in {mem, [mem EXCEPT ![p] = KeyOf(p)]}
  /\ UNCHANGED <<keyring, file, journal, nextKey, pc, local, causes, faults>>

-----------------------------------------------------------------------------
(* rotate_key()                                                            *)

RotateBegin_NoJournal(p) ==   \* mutant: no journal
  /\ pc[p] = "idle" /\ BreakerOpen /\ KeyOf(p) # NoKey
  /\ nextKey <= MaxKeys /\ counter < MaxCounter
  /\ mem' = [mem EXCEPT ![p] = KeyOf(p)]
  /\ op' = [op EXCEPT ![p] = "rotate"]
  /\ oldKey' = [oldKey EXCEPT ![p] = KeyOf(p)]
  /\ newKey' = [newKey EXCEPT ![p] = nextKey]
  /\ nextKey' = nextKey + 1
  /\ causes' = causes \union MishapsOf(p, KeyOf(p))
  /\ Goto(p, "read")
  /\ UNCHANGED <<keyring, file, journal, buf, cnt, name, faults>>

\* The journal comes first.
RotateBegin(p) ==
  /\ pc[p] = "idle" /\ BreakerOpen /\ KeyOf(p) # NoKey
  /\ nextKey <= MaxKeys /\ counter < MaxCounter
  /\ mem' = [mem EXCEPT ![p] = KeyOf(p)]
  /\ op' = [op EXCEPT ![p] = "rotate"]
  /\ oldKey' = [oldKey EXCEPT ![p] = KeyOf(p)]
  /\ newKey' = [newKey EXCEPT ![p] = nextKey]
  /\ nextKey' = nextKey + 1
  /\ journal' = [old |-> KeyOf(p), new |-> nextKey]
  /\ causes' = causes \union MishapsOf(p, KeyOf(p))
  /\ Goto(p, "read")
  /\ UNCHANGED <<keyring, file, buf, cnt, name, faults>>

\* Decrypt everything with the old key, or give up and leave the journal.
RotateRead(p) ==
  /\ pc[p] = "read"
  /\ IF AllUnder(entries, mem[p])
     THEN /\ buf' = [buf EXCEPT ![p] = Reencrypted(entries, newKey[p])]
          /\ Goto(p, "key")
          /\ UNCHANGED <<op, cnt, name, oldKey, newKey>>
     ELSE Finish(p)
  /\ UNCHANGED <<keyring, file, journal, breaker, nextKey, mem, causes, faults>>

\* _set_master_key: a keyring that cannot store the key only causes a warning.
Store(k) ==
  \/ keyring' = k /\ UNCHANGED <<causes, faults>>
  \/ /\ faults < MaxFaults
     /\ faults' = faults + 1
     /\ causes' = causes \union {"keyring"}
     /\ UNCHANGED keyring

RotateKey_DropsJournal(p) ==   \* mutant: the journal goes before the file is written
  /\ pc[p] = "key" /\ op[p] = "rotate"
  /\ Store(newKey[p])
  /\ mem' = [mem EXCEPT ![p] = newKey[p]]
  /\ journal' = NoJournal
  /\ Goto(p, "count")
  /\ UNCHANGED <<file, breaker, nextKey, local>>

RotateKey(p) ==
  /\ pc[p] = "key" /\ op[p] = "rotate"
  /\ Store(newKey[p])
  /\ mem' = [mem EXCEPT ![p] = newKey[p]]
  /\ Goto(p, "count")
  /\ UNCHANGED <<file, journal, breaker, nextKey, local>>

RotateWrite(p) ==
  /\ pc[p] = "write" /\ op[p] = "rotate"
  /\ Replace(p)
  /\ Goto(p, "unlink")
  /\ UNCHANGED <<keyring, journal, breaker, nextKey, mem, local, causes, faults>>

\* The write raises: the old key goes back into the keyring, which may fail as
\* well; the journal stays.
RotateWriteFails(p) ==
  /\ pc[p] = "write" /\ op[p] = "rotate" /\ faults < MaxFaults
  /\ faults' = faults + 1
  /\ \/ keyring' = oldKey[p] /\ UNCHANGED causes
     \/ UNCHANGED keyring /\ causes' = causes \union {"keyring"}
  /\ mem' = [mem EXCEPT ![p] = oldKey[p]]
  /\ Finish(p)
  /\ UNCHANGED <<file, journal, breaker, nextKey>>

\* Removing the journal ends a rotation and a recovery.
Unlink(p) ==
  /\ pc[p] = "unlink"
  /\ journal' = NoJournal
  /\ Finish(p)
  /\ UNCHANGED <<keyring, file, breaker, nextKey, mem, causes, faults>>

\* A journal that cannot be removed stays; the rotation has succeeded even so.
UnlinkFails(p) ==
  /\ pc[p] = "unlink" /\ faults < MaxFaults
  /\ faults' = faults + 1
  /\ Finish(p)
  /\ UNCHANGED <<keyring, file, journal, breaker, nextKey, mem, causes>>

-----------------------------------------------------------------------------
(* The rest of the first opening: store the key, write an empty vault.     *)

InitKey(p) ==
  /\ pc[p] = "key" /\ op[p] = "init"
  /\ Store(newKey[p])
  /\ IF keyring' = NoKey   \* _write_vault finds no key: the constructor raises
     THEN Gone(p)
     ELSE /\ mem' = [mem EXCEPT ![p] = keyring']
          /\ Goto(p, "count")
          /\ UNCHANGED <<breaker, local>>
  /\ UNCHANGED <<file, journal, nextKey>>

InitWrite(p) ==
  /\ pc[p] = "write" /\ op[p] = "init"
  /\ Replace(p)
  /\ mem' = [mem EXCEPT ![p] = newKey[p]]
  /\ Finish(p)
  /\ UNCHANGED <<keyring, journal, breaker, nextKey, causes, faults>>

-----------------------------------------------------------------------------
(* recover_rotation(): it looks at neither the breaker nor the file lock.  *)

\* The key under which the journal says the vault is, NoKey if neither is.
Recovered(p) ==
  IF AllUnder(entries, journal.new) THEN journal.new
  ELSE IF AllUnder(entries, journal.old) THEN journal.old ELSE NoKey

\* A journal neither of whose keys is the current one cannot be read: it stays.
Recover(p) ==
  /\ pc[p] = "idle" /\ journal # NoJournal /\ KeyOf(p) # NoKey
  /\ mem' = [mem EXCEPT ![p] = KeyOf(p)]
  /\ IF KeyOf(p) \in {journal.old, journal.new}
     THEN /\ op' = [op EXCEPT ![p] = "recover"]
          /\ newKey' = [newKey EXCEPT ![p] = Recovered(p)]
          /\ causes' = causes \union Overlap(p)
          /\ Goto(p, IF entries = Empty \/ Recovered(p) = NoKey THEN "unlink" ELSE "key")
     ELSE UNCHANGED <<op, newKey, causes, pc>>
  /\ UNCHANGED <<keyring, file, journal, breaker, nextKey, buf, cnt, name, oldKey, faults>>

RecoverKey(p) ==
  /\ pc[p] = "key" /\ op[p] = "recover"
  /\ Store(newKey[p])
  /\ mem' = [mem EXCEPT ![p] = newKey[p]]
  /\ Goto(p, "unlink")
  /\ UNCHANGED <<file, journal, breaker, nextKey, local>>

-----------------------------------------------------------------------------
(* The circuit breaker and the end of a process.                           *)

LiveOther(p) == breaker \in Procs \ {p}

Lock_Unchecked(p) ==   \* mutant: lock() takes over whatever it finds
  /\ pc[p] = "idle" /\ breaker # p
  /\ breaker' = p
  /\ UNCHANGED <<keyring, file, journal, nextKey, pc, mem, local, causes, faults>>

Lock(p) ==
  /\ pc[p] = "idle" /\ breaker # p /\ ~LiveOther(p)
  /\ breaker' = p
  /\ UNCHANGED <<keyring, file, journal, nextKey, pc, mem, local, causes, faults>>

Unlock(p) ==
  /\ pc[p] = "idle" /\ breaker # None /\ ~LiveOther(p)
  /\ breaker' = None
  /\ UNCHANGED <<keyring, file, journal, nextKey, pc, mem, local, causes, faults>>

\* close() wipes the cached key; the next use fetches it again.
Close(p) ==
  /\ pc[p] = "idle" /\ mem[p] # NoKey
  /\ mem' = [mem EXCEPT ![p] = NoKey]
  /\ UNCHANGED <<keyring, file, journal, breaker, nextKey, pc, local, causes, faults>>

Exit(p) ==
  /\ pc[p] = "idle"
  /\ Gone(p)
  /\ UNCHANGED <<keyring, file, journal, nextKey, causes, faults>>

Crash(p) ==
  /\ Busy(p) /\ faults < MaxFaults
  /\ faults' = faults + 1
  /\ Gone(p)
  /\ UNCHANGED <<keyring, file, journal, nextKey, causes>>

Next ==
  \E p \in Procs :
    \/ OpenLazily(p) \/ Open(p) \/ OpenFirst(p) \/ InitKey(p) \/ InitWrite(p)
    \/ \E n \in Names, v \in Values \union {None} : Begin(p, n, v)
    \/ Count(p) \/ Write(p) \/ WriteFails(p) \/ Read(p)
    \/ RotateBegin(p) \/ RotateRead(p) \/ RotateKey(p)
    \/ RotateWrite(p) \/ RotateWriteFails(p) \/ Unlink(p) \/ UnlinkFails(p)
    \/ Recover(p) \/ RecoverKey(p)
    \/ Lock(p) \/ Unlock(p) \/ Close(p) \/ Exit(p) \/ Crash(p)

Spec == Init /\ [][Next]_vars

-----------------------------------------------------------------------------
(* Properties *)

TypeOK ==
  /\ keyring \in Nat /\ mac \in Nat /\ nextKey \in Key
  /\ counter \in Nat
  /\ entries \in [Names -> Cipher \union {None}]
  /\ journal \in [old : Nat, new : Nat]
  /\ breaker \in Procs \union {Dead, None}
  /\ pc \in [Procs -> {"down", "idle", "read", "key", "count", "write", "unlink"}]
  /\ op \in [Procs -> Operation \union {None}]
  /\ mem \in [Procs -> Nat] /\ oldKey \in [Procs -> Nat] /\ newKey \in [Procs -> Nat]
  /\ buf \in [Procs -> [Names -> Cipher \union {None}]]
  /\ cnt \in [Procs -> Nat]
  /\ name \in [Procs -> Names \union {None}]
  /\ causes \subseteq Mishap
  /\ faults \in Nat

\* What a restarted process can get at: the key in the keyring, and with it
\* both keys of the journal.
Obtainable(k) ==
  k = keyring \/ (keyring \in {journal.old, journal.new} /\ k \in {journal.old, journal.new})

AllObtainable == \A n \in Names : entries[n] # None => Obtainable(entries[n].key)

\* However a rotation is interrupted - a crash between any two of its steps,
\* a failed write, a crash in the recovery itself - every stored secret can
\* still be decrypted, if operations do not overlap, use no outdated key, wait
\* for the recovery and the keyring works (store.py:851-911, 937-988).
NoSecretLost == causes = {} => AllObtainable

\* At rest with no journal left, the keyring's key opens every secret and
\* verifies the HMAC: get() succeeds in any newly started process.
ReadableAtRest ==
  causes = {} /\ journal = NoJournal /\ (\A p \in Procs : ~Busy(p)) =>
    AllUnder(entries, keyring) /\ (entries # Empty => mac = keyring)

\* A breaker that a live process holds is only ever released by that process:
\* nobody else's lock(), unlock() or operation removes it (store.py:542-555,
\* 789-796, 820-824).
LiveOwnerKeepsBreaker ==
  [][\A p \in Procs : breaker = p /\ breaker' # p => Unlock(p) \/ pc'[p] = "down"]_vars

=============================================================================

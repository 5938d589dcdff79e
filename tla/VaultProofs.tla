----------------------------- MODULE VaultProofs -----------------------------
(***************************************************************************)
(* Proofs about the vault, for any processes, secrets, values and numbers  *)
(* of keys and faults: however rotations, recoveries and first openings    *)
(* are interrupted, and as long as none of the four mishaps has occurred,  *)
(* every secret stays decryptable.                                         *)
(***************************************************************************)
EXTENDS VaultStore, TLAPS

\* What an operation can be at each of its steps.
Shape ==
  \A p \in Procs :
    /\ pc[p] \in {"down", "idle"} <=> op[p] = None
    /\ pc[p] = "read" => op[p] = "rotate"
    /\ pc[p] = "key" => op[p] \in {"rotate", "init", "recover"}
    /\ pc[p] \in {"count", "write"} => op[p] \in {"set", "remove", "rotate", "init"}
    /\ pc[p] = "unlink" => op[p] \in {"rotate", "recover"}
    /\ op[p] \in {"rotate", "init"} => newKey[p] \in Key
    /\ op[p] \in {None, "init"} => buf[p] = Empty
    /\ op[p] \in {"set", "remove"} => name[p] \in Names

Typed == TypeOK /\ Shape

\* Without an overlap at most one process is in the middle of an operation.
OneBusy == \A p, q \in Procs : Busy(p) /\ Busy(q) => p = q

\* The file is under one key, which the HMAC also has; the journal names it
\* and the keyring's key whenever the two differ.
FileSound ==
  /\ AllUnder(entries, mac)
  /\ journal = NoJournal => AllUnder(entries, keyring)
  /\ journal # NoJournal =>
       /\ journal.old \in Key /\ journal.new \in Key
       /\ keyring \in {journal.old, journal.new}
       /\ AllUnder(entries, keyring) \/ AllUnder(entries, journal.old)

\* Before the first key is stored there is nothing.
FirstKey ==
  keyring = NoKey =>
    entries = Empty /\ journal = NoJournal /\ \A p \in Procs : mem[p] = NoKey

\* What a process in the middle of an operation can rely on, by the operation.
Opening(p) ==
  /\ entries = Empty /\ journal = NoJournal
  /\ pc[p] = "key" <=> keyring = NoKey

Changed(p) ==
  /\ KeyOf(p) = keyring /\ keyring # NoKey /\ AllUnder(entries, keyring) /\ AllUnder(buf[p], keyring)
  /\ pc[p] = "write" => mem[p] = keyring
  /\ \A n \in Names \ {name[p]} : buf[p][n] = entries[n]

Rotating(p) ==
  /\ journal = [old |-> oldKey[p], new |-> newKey[p]] /\ oldKey[p] \in Key
  /\ pc[p] \in {"read", "key"} => keyring = oldKey[p] /\ mem[p] = oldKey[p]
  /\ pc[p] \in {"count", "write", "unlink"} => keyring = newKey[p] /\ mem[p] = newKey[p]
  /\ pc[p] \in {"read", "key", "count", "write"} => AllUnder(entries, oldKey[p])
  /\ pc[p] \in {"key", "count", "write"} => buf[p] = Reencrypted(entries, newKey[p])
  /\ pc[p] = "unlink" => AllUnder(entries, newKey[p])

Recovering(p) ==
  /\ journal # NoJournal
  /\ pc[p] = "key" =>
       /\ newKey[p] \in {journal.old, journal.new}
       /\ AllUnder(entries, newKey[p])
  /\ pc[p] = "unlink" => AllUnder(entries, keyring)

AtWork(p) ==
  /\ op[p] = "init" => Opening(p)
  /\ op[p] \in {"set", "remove"} => Changed(p)
  /\ op[p] = "rotate" => Rotating(p)
  /\ op[p] = "recover" => Recovering(p)

Sound == OneBusy /\ FileSound /\ FirstKey /\ \A p \in Procs : AtWork(p)

VaultInv == Typed /\ (causes = {} => Sound)

-----------------------------------------------------------------------------
(* Types                                                                   *)

\* The first state and every step keep the types: TypedInit, TypedStep.
LEMMA TypedInit == Init => Typed
BY DataAssumption, BoundAssumption
   DEF Init, Typed, TypeOK, Shape, Empty, NoJournal, NoKey, Key, Cipher, Operation

\* The types of what belongs to a process.
LocalTyped ==
  /\ pc \in [Procs -> {"down", "idle", "read", "key", "count", "write", "unlink"}]
  /\ op \in [Procs -> Operation \union {None}]
  /\ oldKey \in [Procs -> Nat] /\ newKey \in [Procs -> Nat]
  /\ buf \in [Procs -> [Names -> Cipher \union {None}]]
  /\ cnt \in [Procs -> Nat]
  /\ name \in [Procs -> Names \union {None}]

\* An operation that is over leaves nothing behind ...
LEMMA FinishTyped ==
  ASSUME Typed, NEW p \in Procs, Finish(p)
  PROVE  LocalTyped' /\ Shape'
BY DataAssumption
   DEF Typed, TypeOK, Shape, LocalTyped, Finish, Goto, Empty, NoKey, Key, Operation

\* ... and neither does a process that is gone, except its breaker.
LEMMA GoneTyped ==
  ASSUME Typed, NEW p \in Procs, Gone(p)
  PROVE  /\ LocalTyped' /\ Shape' /\ mem' \in [Procs -> Nat]
         /\ breaker' \in Procs \union {Dead, None}
BY DataAssumption
   DEF Typed, TypeOK, Shape, LocalTyped, Gone, Goto, Empty, NoKey, Key, Operation

\* Mishaps added to the recorded ones are still mishaps.
LEMMA MishapsTyped ==
  ASSUME causes \subseteq Mishap, NEW p \in Procs, NEW k
  PROVE  /\ causes \union {"keyring"} \subseteq Mishap
         /\ causes \union {"keyring"} \union Overlap(p) \subseteq Mishap
         /\ causes \union Overlap(p) \subseteq Mishap
         /\ causes \union MishapsOf(p, k) \subseteq Mishap
<1>1. Overlap(p) \subseteq Mishap /\ MishapsOf(p, k) \subseteq Mishap /\ {"keyring"} \subseteq Mishap
  BY DEF Overlap, MishapsOf, Mishap
<1>. QED  BY <1>1

\* A key stored, or lost with a warning.
LEMMA StoreTyped ==
  ASSUME Typed, NEW p \in Procs, NEW k \in Nat, Store(k)
  PROVE  keyring' \in Nat /\ causes' \subseteq Mishap /\ faults' \in Nat
<1>1. CASE keyring' = k /\ UNCHANGED <<causes, faults>>
  BY <1>1 DEF Typed, TypeOK
<1>2. CASE faults' = faults + 1 /\ causes' = causes \union {"keyring"} /\ UNCHANGED keyring
  <2>1. causes \subseteq Mishap /\ faults \in Nat /\ keyring \in Nat
    BY DEF Typed, TypeOK
  <2>2. causes \union {"keyring"} \subseteq Mishap
    BY <2>1, MishapsTyped, Zenon
  <2>3. causes' \subseteq Mishap
    BY <1>2, <2>2, Zenon
  <2>4. faults' \in Nat /\ keyring' \in Nat
    BY <1>2, <2>1
  <2>. QED  BY <2>3, <2>4
<1>. QED  BY <1>1, <1>2 DEF Store

\* Re-encryption keeps the plaintexts and changes the key of each ciphertext.
LEMMA ReencryptedTyped ==
  ASSUME NEW c \in [Names -> Cipher \union {None}], NEW k \in Key
  PROVE  /\ Reencrypted(c, k) \in [Names -> Cipher \union {None}]
         /\ \A n \in Names : c[n] = None => Reencrypted(c, k)[n] = None
         /\ \A n \in Names : c[n] # None =>
              Reencrypted(c, k)[n] = [key |-> k, val |-> c[n].val]
<1>1. \A r \in Cipher : [r EXCEPT !.key = k] = [key |-> k, val |-> r.val]
  BY DEF Cipher
<1>. DEFINE new(r) == [r EXCEPT !.key = k]
<1>2. \A r \in Cipher : new(r) = [key |-> k, val |-> r.val]
  BY <1>1
<1>3. Reencrypted(c, k) = [n \in Names |-> IF c[n] = None THEN None ELSE new(c[n])]
  BY Zenon DEF Reencrypted
<1>. HIDE DEF new
<1>4. \A n \in Names : c[n] # None => c[n] \in Cipher
  OBVIOUS
<1>5. \A r \in Cipher : [key |-> k, val |-> r.val] \in Cipher
  BY DEF Cipher
<1>. QED  BY <1>2, <1>3, <1>4, <1>5

\* One case per action of Next.
LEMMA TypedStep == Typed /\ [Next]_vars => Typed'
<1>. SUFFICES ASSUME Typed, [Next]_vars PROVE Typed'
  OBVIOUS
<1>. USE DataAssumption DEF Typed, TypeOK, Shape, NoKey, Key, Operation, file, local
<1>1. CASE UNCHANGED vars
  BY <1>1 DEF vars
<1>2. ASSUME NEW p \in Procs, OpenLazily(p) PROVE Typed'
  BY <1>2 DEF OpenLazily, Goto
<1>3. ASSUME NEW p \in Procs, Open(p) PROVE Typed'
  BY <1>3 DEF Open, Goto
<1>4. ASSUME NEW p \in Procs, OpenFirst(p) PROVE Typed'
  <2>1. faults' \in Nat
    BY <1>4 DEF OpenFirst
  <2>2. \/ causes' = causes \union MishapsOf(p, NoKey)
        \/ causes' = causes \union {"keyring"} \union Overlap(p)
    BY <1>4, Zenon DEF OpenFirst
  <2>3. causes' \subseteq Mishap
    BY <2>2, MishapsTyped, Zenon
  <2>. QED  BY <1>4, <2>1, <2>3 DEF OpenFirst, Goto
<1>5. ASSUME NEW p \in Procs, InitKey(p) PROVE Typed'
  <2>1. keyring' \in Nat /\ causes' \subseteq Mishap /\ faults' \in Nat
    BY <1>5, StoreTyped DEF InitKey
  <2>2. CASE keyring' = NoKey
    BY <1>5, <2>1, <2>2, GoneTyped DEF InitKey, LocalTyped
  <2>3. CASE keyring' # NoKey
    <3>1. /\ pc' = [pc EXCEPT ![p] = "count"] /\ mem' = [mem EXCEPT ![p] = keyring']
          /\ UNCHANGED <<breaker, local>>
      BY <1>5, <2>3 DEF InitKey, Goto
    <3>2. pc[p] = "key" /\ op[p] = "init" /\ UNCHANGED <<file, journal, nextKey>>
      BY <1>5 DEF InitKey
    <3>3. TypeOK'
      BY <2>1, <3>1, <3>2
    <3>4. Shape'
      BY <3>1, <3>2
    <3>. QED  BY <3>3, <3>4
  <2>. QED  BY <2>2, <2>3
<1>6. ASSUME NEW p \in Procs, InitWrite(p) PROVE Typed'
  BY <1>6 DEF InitWrite, Goto, Finish, Replace, Empty
<1>7. ASSUME NEW p \in Procs, NEW n \in Names, NEW v \in Values \union {None}, Begin(p, n, v)
      PROVE  Typed'
  BY <1>7, MishapsTyped DEF Begin, NewEntries, KeyOf, Cipher, BreakerOpen, Goto
<1>8. ASSUME NEW p \in Procs, Count(p) PROVE Typed'
  BY <1>8 DEF Count, Goto, KeyOf
<1>9. ASSUME NEW p \in Procs, Write(p) PROVE Typed'
  BY <1>9 DEF Write, Goto, Finish, Replace, Empty
<1>10. ASSUME NEW p \in Procs, WriteFails(p) PROVE Typed'
  <2>1. CASE op[p] = "init"
    BY <1>10, <2>1, GoneTyped DEF WriteFails, LocalTyped
  <2>2. CASE op[p] # "init"
    BY <1>10, <2>2, FinishTyped DEF WriteFails, LocalTyped
  <2>. QED  BY <2>1, <2>2
<1>11. ASSUME NEW p \in Procs, Read(p) PROVE Typed'
  BY <1>11 DEF Read, KeyOf, BreakerOpen
<1>12. ASSUME NEW p \in Procs, RotateBegin(p) PROVE Typed'
  BY <1>12, MishapsTyped DEF RotateBegin, KeyOf, BreakerOpen, Goto
<1>13. ASSUME NEW p \in Procs, RotateRead(p) PROVE Typed'
  <2>1. CASE AllUnder(entries, mem[p])
    <3>1. Reencrypted(entries, newKey[p]) \in [Names -> Cipher \union {None}]
      BY <1>13, ReencryptedTyped DEF RotateRead
    <3>. DEFINE new == Reencrypted(entries, newKey[p])
    <3>2. /\ pc' = [pc EXCEPT ![p] = "key"] /\ buf' = [buf EXCEPT ![p] = new] /\ pc[p] = "read"
          /\ UNCHANGED <<op, cnt, name, oldKey, newKey, keyring, file, journal, breaker, nextKey,
                         mem, causes, faults>>
      BY <1>13, <2>1 DEF RotateRead, Goto
    <3>. HIDE DEF new
    <3>3. buf' \in [Procs -> [Names -> Cipher \union {None}]]
      BY <3>1, <3>2 DEF new
    <3>4. TypeOK'
      BY <3>2, <3>3
    <3>5. Shape'
      BY <3>2
    <3>. QED  BY <3>4, <3>5
  <2>2. CASE ~AllUnder(entries, mem[p])
    BY <1>13, <2>2, FinishTyped DEF RotateRead, LocalTyped
  <2>. QED  BY <2>1, <2>2
<1>14. ASSUME NEW p \in Procs, RotateKey(p) PROVE Typed'
  <2>1. keyring' \in Nat /\ causes' \subseteq Mishap /\ faults' \in Nat
    BY <1>14, StoreTyped DEF RotateKey
  <2>. QED  BY <1>14, <2>1 DEF RotateKey, Goto
<1>15. ASSUME NEW p \in Procs, RotateWrite(p) PROVE Typed'
  BY <1>15 DEF RotateWrite, Replace, Goto
<1>16. ASSUME NEW p \in Procs, RotateWriteFails(p) PROVE Typed'
  <2>1. LocalTyped' /\ Shape'
    BY <1>16, FinishTyped DEF RotateWriteFails
  <2>2. keyring' \in Nat /\ faults' \in Nat
    BY <1>16 DEF RotateWriteFails
  <2>3. causes' = causes \/ causes' = causes \union {"keyring"}
    BY <1>16, Zenon DEF RotateWriteFails
  <2>4. causes' \subseteq Mishap
    BY <2>3, MishapsTyped, Zenon
  <2>. QED  BY <1>16, <2>1, <2>2, <2>4 DEF RotateWriteFails, LocalTyped
<1>17. ASSUME NEW p \in Procs, Unlink(p) PROVE Typed'
  BY <1>17 DEF Unlink, Finish, Goto, Empty, NoJournal
<1>18. ASSUME NEW p \in Procs, UnlinkFails(p) PROVE Typed'
  BY <1>18 DEF UnlinkFails, Finish, Goto, Empty
<1>19. ASSUME NEW p \in Procs, Recover(p) PROVE Typed'
  <2>1. Recovered(p) \in Nat /\ KeyOf(p) \in Nat
    BY DEF Recovered, KeyOf
  <2>2. CASE KeyOf(p) \in {journal.old, journal.new}
    <3>. DEFINE next == IF entries = Empty \/ Recovered(p) = NoKey THEN "unlink" ELSE "key"
    <3>1. next \in {"unlink", "key"}
      OBVIOUS
    <3>2. /\ Goto(p, next) /\ op' = [op EXCEPT ![p] = "recover"]
          /\ newKey' = [newKey EXCEPT ![p] = Recovered(p)]
      BY <1>19, <2>2 DEF Recover
    <3>3. causes' \subseteq Mishap
      <4>1. causes' = causes \union Overlap(p)
        BY <1>19, <2>2, Zenon DEF Recover
      <4>. QED  BY <4>1, MishapsTyped, Zenon
    <3>. HIDE DEF next
    <3>. QED  BY <1>19, <2>1, <3>1, <3>2, <3>3 DEF Recover, Goto
  <2>3. CASE KeyOf(p) \notin {journal.old, journal.new}
    BY <1>19, <2>1, <2>3 DEF Recover
  <2>. QED  BY <2>2, <2>3
<1>20. ASSUME NEW p \in Procs, RecoverKey(p) PROVE Typed'
  <2>1. keyring' \in Nat /\ causes' \subseteq Mishap /\ faults' \in Nat
    BY <1>20, StoreTyped DEF RecoverKey
  <2>. QED  BY <1>20, <2>1 DEF RecoverKey, Goto
<1>21. ASSUME NEW p \in Procs, Lock(p) PROVE Typed'
  BY <1>21 DEF Lock
<1>22. ASSUME NEW p \in Procs, Unlock(p) PROVE Typed'
  BY <1>22 DEF Unlock
<1>23. ASSUME NEW p \in Procs, Close(p) PROVE Typed'
  BY <1>23 DEF Close
<1>24. ASSUME NEW p \in Procs, Exit(p) PROVE Typed'
  BY <1>24 DEF Exit, Gone, Goto, Empty
<1>25. ASSUME NEW p \in Procs, Crash(p) PROVE Typed'
  BY <1>25 DEF Crash, Gone, Goto, Empty
<1>. QED  BY <1>1, <1>2, <1>3, <1>4, <1>5, <1>6, <1>7, <1>8, <1>9, <1>10, <1>11, <1>12, <1>13,
             <1>14, <1>15, <1>16, <1>17, <1>18, <1>19, <1>20, <1>21, <1>22, <1>23, <1>24, <1>25
             DEF Next

-----------------------------------------------------------------------------
(* Steps and the processes that do not take them.                          *)

\* What is under a key.
LEMMA UnderKey ==
  /\ \A k : AllUnder(Empty, k)
  /\ \A c \in [Names -> Cipher \union {None}], k \in Key : AllUnder(Reencrypted(c, k), k)
<1>1. \A k : AllUnder(Empty, k)
  BY DEF AllUnder, Empty
<1>2. ASSUME NEW c \in [Names -> Cipher \union {None}], NEW k \in Key
      PROVE  AllUnder(Reencrypted(c, k), k)
  <2>1. \A n \in Names : c[n] # None => Reencrypted(c, k)[n] = [key |-> k, val |-> c[n].val]
    BY ReencryptedTyped
  <2>2. \A n \in Names : c[n] = None => Reencrypted(c, k)[n] = None
    BY ReencryptedTyped
  <2>3. ASSUME NEW n \in Names, c[n] # None PROVE Reencrypted(c, k)[n].key = k
    <3>. DEFINE r == Reencrypted(c, k)
    <3>1. r[n] = [key |-> k, val |-> c[n].val]
      BY <2>1, <2>3
    <3>. HIDE DEF r
    <3>2. r[n].key = k
      BY <3>1
    <3>. QED  BY <3>2 DEF r
  <2>. QED  BY <2>2, <2>3 DEF AllUnder
<1>. QED  BY <1>1, <1>2

\* An operation that starts without a mishap starts alone and, if it needs a key,
\* with the keyring's, under which the file is.
LEMMA StartsAlone ==
  ASSUME NEW p \in Procs, NEW k
  PROVE  /\ causes \union Overlap(p) = {} => causes = {} /\ \A q \in Procs \ {p} : ~Busy(q)
         /\ causes \union MishapsOf(p, k) = {} =>
              /\ causes = {} /\ \A q \in Procs \ {p} : ~Busy(q)
              /\ k = keyring /\ AllUnder(entries, k)
<1>1. Overlap(p) = {} => \A q \in Procs \ {p} : ~Busy(q)
  BY DEF Overlap
<1>2. MishapsOf(p, k) = {} => Overlap(p) = {} /\ k = keyring /\ AllUnder(entries, k)
  BY DEF MishapsOf
<1>. QED  BY <1>1, <1>2

\* Mishaps are never forgotten.
LEMMA CausesGrow == [Next]_vars => causes \subseteq causes'
<1>. SUFFICES ASSUME [Next]_vars PROVE causes \subseteq causes'
  OBVIOUS
<1>1. CASE UNCHANGED vars
  BY <1>1 DEF vars
<1>2. CASE Next
  BY <1>2 DEF Next, Store, OpenLazily, Open, OpenFirst, InitKey, InitWrite, Begin, Count, Write,
     WriteFails, Read, RotateBegin, RotateRead, RotateKey, RotateWrite, RotateWriteFails, Unlink,
     UnlinkFails, Recover, RecoverKey, Lock, Unlock, Close, Exit, Crash
<1>. QED  BY <1>1, <1>2

\* What a step of p leaves alone.
OwnStep(p) ==
  \A q \in Procs \ {p} :
    /\ pc'[q] = pc[q] /\ op'[q] = op[q] /\ mem'[q] = mem[q] /\ buf'[q] = buf[q]
    /\ name'[q] = name[q] /\ oldKey'[q] = oldKey[q] /\ newKey'[q] = newKey[q]

StepOf(p) ==
  \/ OpenLazily(p) \/ Open(p) \/ OpenFirst(p) \/ InitKey(p) \/ InitWrite(p)
  \/ \E n \in Names, v \in Values \union {None} : Begin(p, n, v)
  \/ Count(p) \/ Write(p) \/ WriteFails(p) \/ Read(p)
  \/ RotateBegin(p) \/ RotateRead(p) \/ RotateKey(p)
  \/ RotateWrite(p) \/ RotateWriteFails(p) \/ Unlink(p) \/ UnlinkFails(p)
  \/ Recover(p) \/ RecoverKey(p)
  \/ Lock(p) \/ Unlock(p) \/ Close(p) \/ Exit(p) \/ Crash(p)

\* Every action leaves what belongs to other processes alone.
LEMMA EachStepOwn ==
  ASSUME Typed, NEW p \in Procs, StepOf(p)
  PROVE  OwnStep(p)
<1>. USE DEF Typed, TypeOK, OwnStep, local
<1>1. CASE OpenLazily(p)
  BY <1>1 DEF OpenLazily, Goto
<1>2. CASE Open(p)
  BY <1>2 DEF Open, Goto
<1>3. CASE OpenFirst(p)
  BY <1>3 DEF OpenFirst, Goto
<1>4. CASE InitKey(p)
  BY <1>4 DEF InitKey, Goto, Gone
<1>5. CASE InitWrite(p)
  BY <1>5 DEF InitWrite, Replace, Finish, Goto
<1>6. ASSUME NEW n \in Names, NEW v \in Values \union {None}, Begin(p, n, v) PROVE OwnStep(p)
  BY <1>6 DEF Begin, Goto
<1>7. CASE Count(p)
  BY <1>7 DEF Count, Goto
<1>8. CASE Write(p)
  BY <1>8 DEF Write, Replace, Finish, Goto
<1>9. CASE WriteFails(p)
  BY <1>9 DEF WriteFails, Gone, Finish, Goto
<1>10. CASE Read(p)
  BY <1>10 DEF Read
<1>11. CASE RotateBegin(p)
  BY <1>11 DEF RotateBegin, Goto
<1>12. CASE RotateRead(p)
  BY <1>12 DEF RotateRead, Finish, Goto
<1>13. CASE RotateKey(p)
  BY <1>13 DEF RotateKey, Goto
<1>14. CASE RotateWrite(p)
  BY <1>14 DEF RotateWrite, Goto
<1>15. CASE RotateWriteFails(p)
  BY <1>15 DEF RotateWriteFails, Finish, Goto
<1>16. CASE Unlink(p)
  BY <1>16 DEF Unlink, Finish, Goto
<1>17. CASE UnlinkFails(p)
  BY <1>17 DEF UnlinkFails, Finish, Goto
<1>18. CASE Recover(p)
  BY <1>18 DEF Recover, Goto
<1>19. CASE RecoverKey(p)
  BY <1>19 DEF RecoverKey, Goto
<1>20. CASE Lock(p)
  BY <1>20 DEF Lock
<1>21. CASE Unlock(p)
  BY <1>21 DEF Unlock
<1>22. CASE Close(p)
  BY <1>22 DEF Close
<1>23. CASE Exit(p)
  BY <1>23 DEF Exit, Gone, Goto
<1>24. CASE Crash(p)
  BY <1>24 DEF Crash, Gone, Goto
<1>. QED  BY <1>1, <1>2, <1>3, <1>4, <1>5, <1>6, <1>7, <1>8, <1>9, <1>10, <1>11, <1>12, <1>13,
             <1>14, <1>15, <1>16, <1>17, <1>18, <1>19, <1>20, <1>21, <1>22, <1>23, <1>24 DEF
             StepOf

\* When p is the only one in an operation, the others have nothing to rely on.
LEMMA OthersRest ==
  ASSUME Typed, Typed', Sound, NEW p \in Procs, OwnStep(p),
         Busy(p) \/ \A q \in Procs \ {p} : ~Busy(q)
  PROVE  OneBusy' /\ \A q \in Procs \ {p} : AtWork(q)'
<1>1. \A q \in Procs \ {p} : ~Busy(q)
  BY DEF Sound, OneBusy
<1>2. \A q \in Procs \ {p} : op'[q] = None /\ ~Busy(q)'
  BY <1>1 DEF OwnStep, Busy, Typed, Shape
<1>3. OneBusy'
  BY <1>2 DEF OneBusy
<1>4. \A q \in Procs \ {p} : AtWork(q)'
  BY <1>2, DataAssumption DEF AtWork, Operation
<1>. QED  BY <1>3, <1>4

\* A process that is in no operation after its step, and changed nothing but
\* its own state, disturbs nobody.
LEMMA QuietStep ==
  ASSUME Typed, Typed', Sound, NEW p \in Procs, OwnStep(p), ~Busy(p)',
         UNCHANGED <<keyring, file, journal>>, keyring = NoKey => mem'[p] = NoKey
  PROVE  Sound'
<1>. USE DEF file
<1>1. OneBusy'
  BY DEF Sound, OneBusy, OwnStep, Busy
<1>2. FileSound'
  BY DEF Sound, FileSound
<1>3. FirstKey'
  BY DEF Sound, FirstKey, OwnStep
<1>4. op'[p] = None
  BY DEF Busy, Typed, Shape
<1>5. AtWork(p)'
  BY <1>4, DataAssumption DEF AtWork, Operation
<1>6. ASSUME NEW q \in Procs \ {p} PROVE AtWork(q)'
  <2>1. /\ pc'[q] = pc[q] /\ op'[q] = op[q] /\ mem'[q] = mem[q] /\ buf'[q] = buf[q]
        /\ name'[q] = name[q] /\ oldKey'[q] = oldKey[q] /\ newKey'[q] = newKey[q]
    BY DEF OwnStep
  <2>2. AtWork(q)
    BY DEF Sound
  <2>. QED  BY <2>1, <2>2 DEF AtWork, Opening, Changed, Rotating, Recovering, KeyOf
<1>. QED  BY <1>1, <1>2, <1>3, <1>5, <1>6 DEF Sound

-----------------------------------------------------------------------------
(* The steps that keep Sound, an operation at a time.                      *)

\* An empty vault is sound.
LEMMA SoundInit == Init => Sound
<1>. SUFFICES ASSUME Init PROVE Sound
  OBVIOUS
<1>1. AllUnder(entries, mac) /\ AllUnder(entries, keyring)
  BY UnderKey DEF Init
<1>2. FileSound /\ FirstKey /\ OneBusy
  BY <1>1 DEF Init, FileSound, FirstKey, OneBusy, Busy
<1>3. \A p \in Procs : AtWork(p)
  BY DataAssumption DEF Init, AtWork, Operation
<1>. QED  BY <1>2, <1>3 DEF Sound

\* Steps of processes between operations, and those that end one without a
\* change of the file, the keyring or the journal.
LEMMA QuietSteps ==
  ASSUME Typed, Typed', Sound, NEW p \in Procs, OwnStep(p),
         \/ OpenLazily(p) \/ Open(p) \/ Read(p) \/ WriteFails(p) \/ UnlinkFails(p)
         \/ Lock(p) \/ Unlock(p) \/ Close(p) \/ Exit(p) \/ Crash(p)
  PROVE  Sound'
<1>. USE DEF Typed, TypeOK
<1>1. keyring = NoKey => mem[p] = NoKey
  BY DEF Sound, FirstKey
<1>2. CASE OpenLazily(p)
  <2>1. ~Busy(p)' /\ UNCHANGED <<keyring, file, journal>> /\ (keyring = NoKey => mem'[p] = NoKey)
    BY <1>1, <1>2 DEF OpenLazily, Goto, Busy
  <2>. QED  BY <2>1, QuietStep
<1>3. CASE Open(p)
  <2>1. ~Busy(p)' /\ UNCHANGED <<keyring, file, journal>> /\ (keyring = NoKey => mem'[p] = NoKey)
    BY <1>1, <1>3 DEF Open, Goto, Busy
  <2>. QED  BY <2>1, QuietStep
<1>4. CASE Read(p)
  <2>1. ~Busy(p)' /\ UNCHANGED <<keyring, file, journal>> /\ (keyring = NoKey => mem'[p] = NoKey)
    BY <1>1, <1>4 DEF Read, KeyOf, Busy
  <2>. QED  BY <2>1, QuietStep
<1>5. CASE WriteFails(p)
  <2>1. ~Busy(p)' /\ UNCHANGED <<keyring, file, journal>> /\ (keyring = NoKey => mem'[p] = NoKey)
    BY <1>1, <1>5 DEF WriteFails, Gone, Finish, Goto, Busy
  <2>. QED  BY <2>1, QuietStep
<1>6. CASE UnlinkFails(p)
  <2>1. ~Busy(p)' /\ UNCHANGED <<keyring, file, journal>> /\ (keyring = NoKey => mem'[p] = NoKey)
    BY <1>1, <1>6 DEF UnlinkFails, Finish, Goto, Busy
  <2>. QED  BY <2>1, QuietStep
<1>7. CASE Lock(p)
  <2>1. ~Busy(p)' /\ UNCHANGED <<keyring, file, journal>> /\ (keyring = NoKey => mem'[p] = NoKey)
    BY <1>1, <1>7 DEF Lock, Busy
  <2>. QED  BY <2>1, QuietStep
<1>8. CASE Unlock(p)
  <2>1. ~Busy(p)' /\ UNCHANGED <<keyring, file, journal>> /\ (keyring = NoKey => mem'[p] = NoKey)
    BY <1>1, <1>8 DEF Unlock, Busy
  <2>. QED  BY <2>1, QuietStep
<1>9. CASE Close(p)
  <2>1. ~Busy(p)' /\ UNCHANGED <<keyring, file, journal>> /\ (keyring = NoKey => mem'[p] = NoKey)
    BY <1>1, <1>9 DEF Close, Busy
  <2>. QED  BY <2>1, QuietStep
<1>10. CASE Exit(p)
  <2>1. ~Busy(p)' /\ UNCHANGED <<keyring, file, journal>> /\ (keyring = NoKey => mem'[p] = NoKey)
    BY <1>1, <1>10 DEF Exit, Gone, Goto, Busy
  <2>. QED  BY <2>1, QuietStep
<1>11. CASE Crash(p)
  <2>1. ~Busy(p)' /\ UNCHANGED <<keyring, file, journal>> /\ (keyring = NoKey => mem'[p] = NoKey)
    BY <1>1, <1>11 DEF Crash, Gone, Goto, Busy
  <2>. QED  BY <2>1, QuietStep
<1>. QED  BY <1>2, <1>3, <1>4, <1>5, <1>6, <1>7, <1>8, <1>9, <1>10, <1>11

\* A first opening ...
LEMMA OpenFirstSound ==
  ASSUME Typed, Typed', Sound, causes' = {}, NEW p \in Procs, OwnStep(p), OpenFirst(p)
  PROVE  Sound'
<1>1. causes \union MishapsOf(p, NoKey) = {} /\ keyring = NoKey
  BY DEF OpenFirst
<1>2. /\ \A q \in Procs \ {p} : ~Busy(q)
      /\ pc'[p] = "key" /\ op'[p] = "init" /\ UNCHANGED <<keyring, file, journal, mem>>
  BY <1>1, StartsAlone DEF OpenFirst, Goto, Typed, TypeOK
<1>3. OneBusy' /\ \A q \in Procs \ {p} : AtWork(q)'
  BY <1>2, OthersRest
<1>4. FileSound' /\ FirstKey'
  BY <1>2 DEF Sound, FileSound, FirstKey, file
<1>5. Opening(p)'
  BY <1>1, <1>2 DEF Opening, Sound, FirstKey, file
<1>6. AtWork(p)'
  BY <1>2, <1>5 DEF AtWork
<1>. QED  BY <1>3, <1>4, <1>6 DEF Sound

LEMMA InitKeySound ==
  ASSUME Typed, Typed', Sound, causes' = {}, NEW p \in Procs, OwnStep(p), InitKey(p)
  PROVE  Sound'
<1>1. Opening(p) /\ newKey[p] \in Key /\ Busy(p)
  BY DEF InitKey, Sound, AtWork, Typed, Shape, Busy
<1>2. keyring' = newKey[p] /\ keyring' # NoKey
  BY <1>1 DEF InitKey, Store, Key, NoKey
<1>3. pc'[p] = "count" /\ op'[p] = "init" /\ UNCHANGED <<file, journal>>
  BY <1>2 DEF InitKey, Goto, Typed, TypeOK, local
<1>4. OneBusy' /\ \A q \in Procs \ {p} : AtWork(q)'
  BY <1>1, OthersRest
<1>5. FileSound' /\ FirstKey'
  BY <1>1, <1>2, <1>3, UnderKey DEF FileSound, FirstKey, Opening, file
<1>6. AtWork(p)'
  BY <1>1, <1>2, <1>3 DEF AtWork, Opening, file
<1>. QED  BY <1>4, <1>5, <1>6 DEF Sound

LEMMA InitWriteSound ==
  ASSUME Typed, Typed', Sound, NEW p \in Procs, OwnStep(p), InitWrite(p)
  PROVE  Sound'
<1>1. Opening(p) /\ buf[p] = Empty /\ Busy(p)
  BY DEF InitWrite, Sound, AtWork, Typed, Shape, Busy
<1>2. /\ entries' = Empty /\ UNCHANGED <<keyring, journal>>
      /\ op'[p] = None /\ keyring # NoKey
  BY <1>1 DEF InitWrite, Replace, Finish, Typed, TypeOK, Opening
<1>3. OneBusy' /\ \A q \in Procs \ {p} : AtWork(q)'
  BY <1>1, OthersRest
<1>4. FileSound' /\ FirstKey'
  BY <1>1, <1>2, UnderKey DEF FileSound, FirstKey, Opening
<1>5. AtWork(p)'
  BY <1>2, DataAssumption DEF AtWork, Operation
<1>. QED  BY <1>3, <1>4, <1>5 DEF Sound

\* set() and remove() ...
LEMMA BeginSound ==
  ASSUME Typed, Typed', Sound, causes' = {}, NEW p \in Procs, OwnStep(p),
         NEW n \in Names, NEW v \in Values \union {None}, Begin(p, n, v)
  PROVE  Sound'
<1>1. causes \union MishapsOf(p, KeyOf(p)) = {}
  BY DEF Begin
<1>2. /\ \A q \in Procs \ {p} : ~Busy(q)
      /\ KeyOf(p) = keyring /\ keyring # NoKey /\ AllUnder(entries, keyring)
  BY <1>1, StartsAlone DEF Begin
<1>3. /\ UNCHANGED <<keyring, file, journal>>
      /\ pc'[p] = "count" /\ op'[p] \in {"set", "remove"} /\ name'[p] = n
      /\ buf'[p] = NewEntries(p, n, v) /\ mem'[p] \in {mem[p], keyring}
  BY <1>2 DEF Begin, Goto, Typed, TypeOK
<1>4. OneBusy' /\ \A q \in Procs \ {p} : AtWork(q)'
  BY <1>2, OthersRest
<1>5. FileSound' /\ FirstKey'
  BY <1>2, <1>3 DEF Sound, FileSound, FirstKey, file
<1>6. /\ AllUnder(NewEntries(p, n, v), keyring)
      /\ \A m \in Names \ {n} : NewEntries(p, n, v)[m] = entries[m]
  BY <1>2 DEF NewEntries, AllUnder, Typed, TypeOK
<1>7. Changed(p)'
  BY <1>2, <1>3, <1>6 DEF Changed, KeyOf, AllUnder, file
<1>8. AtWork(p)'
  BY <1>3, <1>7 DEF AtWork
<1>. QED  BY <1>4, <1>5, <1>8 DEF Sound

LEMMA CountSound ==
  ASSUME Typed, Typed', Sound, NEW p \in Procs, OwnStep(p), Count(p)
  PROVE  Sound'
<1>1. /\ AtWork(p) /\ Busy(p) /\ pc[p] = "count" /\ op[p] \in {"set", "remove", "rotate", "init"}
      /\ op[p] = "rotate" => newKey[p] \in Key
  BY DEF Count, Sound, Typed, Shape, Busy
<1>2. /\ UNCHANGED <<keyring, file, journal>>
      /\ pc'[p] = "write" /\ mem'[p] = KeyOf(p)
      /\ op'[p] = op[p] /\ buf'[p] = buf[p] /\ name'[p] = name[p]
      /\ oldKey'[p] = oldKey[p] /\ newKey'[p] = newKey[p]
  BY DEF Count, Goto, Typed, TypeOK
<1>3. OneBusy' /\ \A q \in Procs \ {p} : AtWork(q)'
  BY <1>1, OthersRest
<1>4. FileSound' /\ FirstKey'
  BY <1>2 DEF Sound, FileSound, FirstKey, OwnStep, KeyOf, file
<1>5. op[p] = "init" => Opening(p)'
  BY <1>1, <1>2 DEF AtWork, Opening, file
<1>6. op[p] \in {"set", "remove"} => Changed(p)'
  BY <1>1, <1>2 DEF AtWork, Changed, KeyOf, file
<1>7. op[p] = "rotate" => Rotating(p)'
  BY <1>1, <1>2 DEF AtWork, Rotating, KeyOf, Key, NoKey, file
<1>8. AtWork(p)'
  BY <1>1, <1>2, <1>5, <1>6, <1>7 DEF AtWork
<1>. QED  BY <1>3, <1>4, <1>8 DEF Sound

LEMMA WriteSound ==
  ASSUME Typed, Typed', Sound, NEW p \in Procs, OwnStep(p), Write(p)
  PROVE  Sound'
<1>1. Changed(p) /\ Busy(p) /\ mem[p] = keyring
  BY DEF Write, Sound, AtWork, Changed, Busy
<1>2. /\ entries' = buf[p] /\ mac' = keyring /\ UNCHANGED <<keyring, journal>>
      /\ op'[p] = None
  BY <1>1 DEF Write, Replace, Finish, Typed, TypeOK
<1>3. OneBusy' /\ \A q \in Procs \ {p} : AtWork(q)'
  BY <1>1, OthersRest
<1>4. AllUnder(entries', keyring)
  BY <1>1, <1>2 DEF Changed
<1>5. FileSound' /\ FirstKey'
  BY <1>1, <1>2, <1>4 DEF Sound, FileSound, FirstKey, Changed
<1>6. AtWork(p)'
  BY <1>2, DataAssumption DEF AtWork, Operation
<1>. QED  BY <1>3, <1>5, <1>6 DEF Sound

\* A rotation ...
LEMMA RotateBeginSound ==
  ASSUME Typed, Typed', Sound, causes' = {}, NEW p \in Procs, OwnStep(p), RotateBegin(p)
  PROVE  Sound'
<1>1. causes \union MishapsOf(p, KeyOf(p)) = {}
  BY DEF RotateBegin
<1>2. /\ \A q \in Procs \ {p} : ~Busy(q)
      /\ KeyOf(p) = keyring /\ keyring \in Key /\ AllUnder(entries, keyring)
  <2>1. /\ \A q \in Procs \ {p} : ~Busy(q)
        /\ KeyOf(p) = keyring /\ keyring # NoKey /\ AllUnder(entries, keyring)
    BY <1>1, StartsAlone DEF RotateBegin
  <2>. QED  BY <2>1 DEF Typed, TypeOK, Key, NoKey
<1>3. /\ UNCHANGED <<keyring, file>> /\ nextKey \in Key
      /\ journal' = [old |-> keyring, new |-> nextKey]
      /\ pc'[p] = "read" /\ op'[p] = "rotate" /\ mem'[p] = keyring
      /\ oldKey'[p] = keyring /\ newKey'[p] = nextKey
  BY <1>2 DEF RotateBegin, Goto, Typed, TypeOK
<1>4. OneBusy' /\ \A q \in Procs \ {p} : AtWork(q)'
  BY <1>2, OthersRest
<1>5. FileSound' /\ FirstKey'
  BY <1>2, <1>3 DEF Sound, FileSound, FirstKey, file, NoJournal, NoKey, Key
<1>6. Rotating(p)'
  BY <1>2, <1>3 DEF Rotating, file
<1>7. AtWork(p)'
  BY <1>3, <1>6 DEF AtWork
<1>. QED  BY <1>4, <1>5, <1>7 DEF Sound

LEMMA RotateReadSound ==
  ASSUME Typed, Typed', Sound, NEW p \in Procs, OwnStep(p), RotateRead(p)
  PROVE  Sound'
<1>1. Rotating(p) /\ Busy(p) /\ op[p] = "rotate"
  BY DEF RotateRead, Sound, AtWork, Typed, Shape, Busy
<1>2. keyring # NoKey /\ UNCHANGED <<keyring, file, journal, mem>>
  BY <1>1 DEF Rotating, RotateRead, Key, NoKey
<1>3. CASE AllUnder(entries, mem[p])
  <2>. DEFINE new == Reencrypted(entries, newKey[p])
  <2>1. /\ pc[p] = "read" /\ pc'[p] = "key" /\ op'[p] = "rotate" /\ buf'[p] = new
        /\ newKey'[p] = newKey[p] /\ oldKey'[p] = oldKey[p]
    BY <1>1, <1>3 DEF RotateRead, Goto, Typed, TypeOK
  <2>. HIDE DEF new
  <2>2. OneBusy' /\ \A q \in Procs \ {p} : AtWork(q)'
    BY <1>1, OthersRest
  <2>3. FileSound' /\ FirstKey'
    BY <1>2 DEF Sound, FileSound, FirstKey, file
  <2>4. Rotating(p)'
    <3>1. new = Reencrypted(entries', newKey'[p])
      BY <1>2, <2>1 DEF new, file
    <3>. QED  BY <1>1, <1>2, <2>1, <3>1 DEF Rotating, file
  <2>5. AtWork(p)'
    BY <2>1, <2>4 DEF AtWork
  <2>. QED  BY <2>2, <2>3, <2>5 DEF Sound
<1>4. CASE ~AllUnder(entries, mem[p])
  <2>1. ~Busy(p)'
    BY <1>4 DEF RotateRead, Finish, Goto, Busy, Typed, TypeOK
  <2>. QED  BY <1>2, <2>1, QuietStep
<1>. QED  BY <1>3, <1>4

LEMMA RotateKeySound ==
  ASSUME Typed, Typed', Sound, causes' = {}, NEW p \in Procs, OwnStep(p), RotateKey(p)
  PROVE  Sound'
<1>1. Rotating(p) /\ Busy(p) /\ pc[p] = "key" /\ newKey[p] \in Key
  BY DEF RotateKey, Sound, AtWork, Typed, Shape, Busy
<1>2. /\ keyring' = newKey[p] /\ mem'[p] = newKey[p] /\ UNCHANGED <<file, journal>>
      /\ pc'[p] = "count" /\ op'[p] = "rotate" /\ buf'[p] = buf[p]
      /\ newKey'[p] = newKey[p] /\ oldKey'[p] = oldKey[p]
  BY DEF RotateKey, Store, Goto, Typed, TypeOK, local
<1>3. OneBusy' /\ \A q \in Procs \ {p} : AtWork(q)'
  BY <1>1, OthersRest
<1>4. FileSound' /\ FirstKey'
  BY <1>1, <1>2 DEF Sound, FileSound, FirstKey, Rotating, file, Key, NoKey, NoJournal
<1>5. Rotating(p)'
  BY <1>1, <1>2 DEF Rotating, file
<1>6. AtWork(p)'
  BY <1>2, <1>5 DEF AtWork
<1>. QED  BY <1>3, <1>4, <1>6 DEF Sound

LEMMA RotateWriteSound ==
  ASSUME Typed, Typed', Sound, NEW p \in Procs, OwnStep(p), RotateWrite(p)
  PROVE  Sound'
<1>1. Rotating(p) /\ Busy(p) /\ pc[p] = "write" /\ newKey[p] \in Key
  BY DEF RotateWrite, Sound, AtWork, Typed, Shape, Busy
<1>2. /\ entries' = buf[p] /\ mac' = mem[p] /\ UNCHANGED <<keyring, journal, mem>>
      /\ pc'[p] = "unlink" /\ op'[p] = "rotate"
      /\ newKey'[p] = newKey[p] /\ oldKey'[p] = oldKey[p]
  BY DEF RotateWrite, Replace, Goto, Typed, TypeOK, local
<1>3. keyring = newKey[p] /\ mac' = newKey[p] /\ AllUnder(entries', newKey[p])
  <2>1. keyring = newKey[p] /\ mem[p] = newKey[p] /\ buf[p] = Reencrypted(entries, newKey[p])
    BY <1>1 DEF Rotating
  <2>2. AllUnder(Reencrypted(entries, newKey[p]), newKey[p])
    BY <1>1, UnderKey DEF Typed, TypeOK
  <2>3. AllUnder(buf[p], newKey[p])
    BY <2>1, <2>2, Zenon
  <2>. QED  BY <1>2, <2>1, <2>3 DEF AllUnder
<1>4. OneBusy' /\ \A q \in Procs \ {p} : AtWork(q)'
  BY <1>1, OthersRest
<1>5. FileSound' /\ FirstKey'
  BY <1>1, <1>2, <1>3 DEF Sound, FileSound, FirstKey, Rotating, Key, NoKey, NoJournal
<1>6. Rotating(p)'
  BY <1>1, <1>2, <1>3 DEF Rotating
<1>7. AtWork(p)'
  BY <1>2, <1>6 DEF AtWork
<1>. QED  BY <1>4, <1>5, <1>7 DEF Sound

LEMMA RotateWriteFailsSound ==
  ASSUME Typed, Typed', Sound, causes' = {}, NEW p \in Procs, OwnStep(p), RotateWriteFails(p)
  PROVE  Sound'
<1>1. Rotating(p) /\ Busy(p) /\ pc[p] = "write"
  BY DEF RotateWriteFails, Sound, AtWork, Busy
<1>2. keyring' = oldKey[p] /\ UNCHANGED <<file, journal>> /\ op'[p] = None
  BY DEF RotateWriteFails, Finish, Typed, TypeOK
<1>3. OneBusy' /\ \A q \in Procs \ {p} : AtWork(q)'
  BY <1>1, OthersRest
<1>4. FileSound' /\ FirstKey'
  BY <1>1, <1>2 DEF Sound, FileSound, FirstKey, Rotating, file, Key, NoKey, NoJournal
<1>5. AtWork(p)'
  BY <1>2, DataAssumption DEF AtWork, Operation
<1>. QED  BY <1>3, <1>4, <1>5 DEF Sound

LEMMA UnlinkSound ==
  ASSUME Typed, Typed', Sound, NEW p \in Procs, OwnStep(p), Unlink(p)
  PROVE  Sound'
<1>1. Busy(p) /\ AllUnder(entries, keyring)
  BY DEF Unlink, Sound, AtWork, Rotating, Recovering, Typed, Shape, Busy
<1>2. journal' = NoJournal /\ op'[p] = None /\ UNCHANGED <<keyring, file, mem>>
  BY DEF Unlink, Finish, Typed, TypeOK
<1>3. OneBusy' /\ \A q \in Procs \ {p} : AtWork(q)'
  BY <1>1, OthersRest
<1>4. FileSound' /\ FirstKey'
  BY <1>1, <1>2 DEF Sound, FileSound, FirstKey, file
<1>5. AtWork(p)'
  BY <1>2, DataAssumption DEF AtWork, Operation
<1>. QED  BY <1>3, <1>4, <1>5 DEF Sound

\* A recovery, which finds one of the journal's keys to be the file's ...
LEMMA RecoverSound ==
  ASSUME Typed, Typed', Sound, causes' = {}, NEW p \in Procs, OwnStep(p), Recover(p)
  PROVE  Sound'
<1>1. /\ journal # NoJournal /\ UNCHANGED <<keyring, file, journal>>
      /\ journal.old \in Key /\ journal.new \in Key /\ keyring # NoKey
  BY DEF Recover, Sound, FileSound, Key, NoKey
<1>2. CASE KeyOf(p) \in {journal.old, journal.new}
  <2>1. causes \union Overlap(p) = {}
    BY <1>2, Zenon DEF Recover
  <2>2. \A q \in Procs \ {p} : ~Busy(q)
    BY <2>1, StartsAlone
  <2>3. Recovered(p) \in {journal.old, journal.new} /\ AllUnder(entries, Recovered(p))
    BY <1>1 DEF Recovered, Sound, FileSound
  <2>4. /\ op'[p] = "recover" /\ newKey'[p] = Recovered(p)
        /\ pc'[p] \in {"key", "unlink"} /\ (pc'[p] = "unlink" => entries = Empty)
    BY <1>1, <1>2, <2>3 DEF Recover, Goto, Typed, TypeOK, Key, NoKey
  <2>5. OneBusy' /\ \A q \in Procs \ {p} : AtWork(q)'
    BY <2>2, OthersRest
  <2>6. FileSound' /\ FirstKey'
    BY <1>1 DEF Sound, FileSound, FirstKey, file
  <2>7. Recovering(p)'
    BY <1>1, <2>3, <2>4, UnderKey DEF Recovering, file
  <2>8. AtWork(p)'
    BY <2>4, <2>7 DEF AtWork
  <2>. QED  BY <2>5, <2>6, <2>8 DEF Sound
<1>3. CASE KeyOf(p) \notin {journal.old, journal.new}
  <2>1. ~Busy(p)'
    BY <1>3 DEF Recover, Busy
  <2>. QED  BY <1>1, <2>1, QuietStep
<1>. QED  BY <1>2, <1>3

LEMMA RecoverKeySound ==
  ASSUME Typed, Typed', Sound, causes' = {}, NEW p \in Procs, OwnStep(p), RecoverKey(p)
  PROVE  Sound'
<1>1. Recovering(p) /\ Busy(p) /\ pc[p] = "key"
  BY DEF RecoverKey, Sound, AtWork, Busy
<1>2. /\ keyring' = newKey[p] /\ UNCHANGED <<file, journal>>
      /\ pc'[p] = "unlink" /\ op'[p] = "recover"
  BY DEF RecoverKey, Store, Goto, Typed, TypeOK, local
<1>3. OneBusy' /\ \A q \in Procs \ {p} : AtWork(q)'
  BY <1>1, OthersRest
<1>4. FileSound' /\ FirstKey'
  BY <1>1, <1>2 DEF Sound, FileSound, FirstKey, Recovering, file, Key, NoKey
<1>5. Recovering(p)'
  BY <1>1, <1>2 DEF Recovering, file
<1>6. AtWork(p)'
  BY <1>2, <1>5 DEF AtWork
<1>. QED  BY <1>3, <1>4, <1>6 DEF Sound

\* Every step that brings no mishap keeps the vault sound.
LEMMA SoundStep ==
  ASSUME Typed, Typed', Sound, causes' = {}, [Next]_vars
  PROVE  Sound'
<1>1. CASE UNCHANGED vars
  BY <1>1 DEF vars, file, local, Sound, OneBusy, Busy, FileSound, FirstKey, AtWork, Opening,
     Changed, Rotating, Recovering, KeyOf
<1>2. ASSUME NEW p \in Procs, StepOf(p) PROVE Sound'
  <2>1. OwnStep(p)
    BY <1>2, EachStepOwn
  <2>. QED  BY <1>2, <2>1, QuietSteps, OpenFirstSound, InitKeySound, InitWriteSound, BeginSound,
            CountSound, WriteSound, RotateBeginSound, RotateReadSound, RotateKeySound,
            RotateWriteSound, RotateWriteFailsSound, UnlinkSound, RecoverSound, RecoverKeySound,
            Zenon
         DEF StepOf
<1>3. CASE Next
  BY <1>2, <1>3, Zenon DEF Next, StepOf
<1>. QED  BY <1>1, <1>3

-----------------------------------------------------------------------------
(* The theorems.                                                           *)

\* The inductive invariant.
LEMMA VaultInvariant == Spec => []VaultInv
<1>1. Init => VaultInv
  BY TypedInit, SoundInit DEF VaultInv
<1>2. VaultInv /\ [Next]_vars => VaultInv'
  <2>. SUFFICES ASSUME VaultInv, [Next]_vars PROVE VaultInv'
    OBVIOUS
  <2>1. Typed /\ Typed'
    BY TypedStep DEF VaultInv
  <2>2. ASSUME causes' = {} PROVE Sound'
    <3>1. causes = {}
      BY <2>2, CausesGrow
    <3>2. Sound
      BY <3>1 DEF VaultInv
    <3>. QED  BY <2>1, <2>2, <3>2, SoundStep
  <2>. QED  BY <2>1, <2>2 DEF VaultInv
<1>. QED  BY <1>1, <1>2, PTL DEF Spec

\* The vault's state is well typed, for any number of processes, secrets, keys
\* and faults.
THEOREM TypeCorrect == Spec => []TypeOK
<1>1. VaultInv => TypeOK
  BY DEF VaultInv, Typed
<1>. QED  BY <1>1, VaultInvariant, PTL

\* However a rotation, its recovery or a first opening is interrupted, every
\* stored secret can still be decrypted, unless one of the four mishaps occurred.
THEOREM SecretsKept == Spec => []NoSecretLost
<1>1. VaultInv => NoSecretLost
  BY DEF VaultInv, Sound, FileSound, NoSecretLost, AllObtainable, Obtainable, AllUnder
<1>. QED  BY <1>1, VaultInvariant, PTL

\* At rest the keyring's key opens every secret and verifies the file.
THEOREM AlwaysReadableAtRest == Spec => []ReadableAtRest
<1>1. VaultInv => ReadableAtRest
  <2>. SUFFICES ASSUME VaultInv, causes = {}, journal = NoJournal, entries # Empty
       PROVE  mac = keyring
    BY DEF VaultInv, Sound, FileSound, ReadableAtRest
  <2>1. AllUnder(entries, mac) /\ AllUnder(entries, keyring)
    BY DEF VaultInv, Sound, FileSound
  <2>2. PICK n \in Names : entries[n] # None
    BY DEF VaultInv, Typed, TypeOK, Empty
  <2>. QED  BY <2>1, <2>2 DEF AllUnder
<1>2. VaultInv => ReadableAtRest
  BY <1>1
<1>. QED  BY <1>2, VaultInvariant, PTL

\* Nobody but its owner releases the breaker of a live process.
THEOREM BreakerKept == Spec => LiveOwnerKeepsBreaker
<1>. DEFINE Kept == \A p \in Procs : breaker = p /\ breaker' # p => Unlock(p) \/ pc'[p] = "down"
<1>1. ASSUME Typed, [Next]_vars PROVE Kept
  <2>. SUFFICES ASSUME NEW p \in Procs, breaker = p, breaker' # p
       PROVE  Unlock(p) \/ pc'[p] = "down"
    OBVIOUS
  <2>1. PICK q \in Procs : StepOf(q)
    <3>1. Next
      BY <1>1 DEF vars
    <3>. QED  BY <3>1, Zenon DEF Next, StepOf
  <2>2. ~BreakerOpen
    BY DataAssumption, OwnerAssumption DEF BreakerOpen
  <2>3. Lock(q) => FALSE
    BY DEF Lock, LiveOther
  <2>4. Unlock(q) => q = p
    BY DEF Unlock, LiveOther
  <2>5. Gone(q) => q = p /\ pc'[p] = "down"
    <3>1. Gone(q) => breaker = q /\ pc'[q] = "down"
      BY <1>1 DEF Gone, Goto, Typed, TypeOK
    <3>. QED  BY <3>1
  <2>. QED  BY <1>1, <2>1, <2>2, <2>3, <2>4, <2>5
        DEF StepOf, OpenLazily, Open, OpenFirst, InitKey, InitWrite, Begin, Count, Write, WriteFails,
            Read, RotateBegin, RotateRead, RotateKey, RotateWrite, RotateWriteFails, Unlink,
            UnlinkFails, Recover, RecoverKey, Close, Exit, Crash, local
<1>2. VaultInv => Typed
  BY DEF VaultInv
<1>. QED  BY <1>1, <1>2, VaultInvariant, PTL DEF Spec, LiveOwnerKeepsBreaker

-----------------------------------------------------------------------------
(* The vault implements the secret store.                                  *)

\* The plaintexts of ciphertexts.
Plain(c) == [n \in Names |-> IF c[n] = None THEN None ELSE c[n].val]

\* As long as nothing is lost, what can be decrypted is what is stored.
NothingLost == [n \in Names |-> Readable(n)] = Plain(entries)

LEMMA ReadableIsPlain == Typed /\ Sound => NothingLost
<1>. SUFFICES ASSUME Typed, Sound PROVE NothingLost
  OBVIOUS
<1>1. \A n \in Names : entries[n] # None => Obtainable(entries[n].key)
  BY DEF Sound, FileSound, Obtainable, AllUnder
<1>. QED  BY <1>1 DEF Readable, Plain, NothingLost

\* Requests and secrets stay in their types, whatever happens.
RequestsTyped == /\ \A n \in Names : Readable(n) \in Values \union {None, "lost"}
              /\ \A p \in Procs : Changing(p) \in Abstract!Request \union {None}

LEMMA StoreTypesHold == Typed => RequestsTyped
<1>. SUFFICES ASSUME Typed PROVE RequestsTyped
  OBVIOUS
<1>1. ASSUME NEW n \in Names PROVE Readable(n) \in Values \union {None, "lost"}
  <2>1. entries[n] # None => entries[n].val \in Values
    BY DEF Typed, TypeOK, Cipher
  <2>. QED  BY <2>1 DEF Readable
<1>2. ASSUME NEW p \in Procs, op[p] \in {"set", "remove"}
      PROVE  Changing(p) \in Abstract!Request
  <2>1. name[p] \in Names /\ buf[p][name[p]] \in Cipher \union {None}
    BY <1>2 DEF Typed, TypeOK, Shape
  <2>2. (IF buf[p][name[p]] = None THEN None ELSE buf[p][name[p]].val) \in Values \union {None}
    BY <2>1 DEF Cipher
  <2>. QED  BY <1>2, <2>1, <2>2 DEF Changing, Abstract!Request
<1>. QED  BY <1>1, <1>2 DEF Changing, RequestsTyped

\* A step that changes no plaintext and no request is none of the store's.
LEMMA Stutter ==
  ASSUME Typed, Typed', Sound, Sound', causes = {}, causes' = {}, NEW p \in Procs, OwnStep(p),
         Plain(entries)' = Plain(entries), Changing(p)' = Changing(p)
  PROVE  UNCHANGED Abstract!storeVars
<1>1. [n \in Names |-> Readable(n)]' = [n \in Names |-> Readable(n)]
  <2>1. NothingLost /\ NothingLost'
    BY ReadableIsPlain, PTL
  <2>. QED  BY <2>1 DEF NothingLost
<1>2. \A q \in Procs : Changing(q)' = Changing(q)
  BY DEF OwnStep, Changing
<1>3. [q \in Procs |-> Changing(q)]' = [q \in Procs |-> Changing(q)]
  BY <1>2
<1>. QED  BY <1>1, <1>3 DEF Abstract!storeVars

\* The steps that are none of the store's.
LEMMA StutterSteps ==
  ASSUME Typed, Typed', Sound, Sound', causes = {}, causes' = {}, NEW p \in Procs, OwnStep(p),
         StepOf(p), ~Write(p), ~WriteFails(p), ~Crash(p),
         \A n \in Names, v \in Values \union {None} : ~Begin(p, n, v)
  PROVE  UNCHANGED Abstract!storeVars
<1>1. CASE op[p] \notin {"set", "remove"} /\ op'[p] \notin {"set", "remove"} /\ entries' = entries
  <2>1. Changing(p)' = Changing(p)
    BY <1>1 DEF Changing
  <2>2. Plain(entries)' = Plain(entries)
    BY <1>1 DEF Plain
  <2>. QED  BY <2>1, <2>2, Stutter
<1>2. CASE UNCHANGED <<op, buf, name>> /\ entries' = entries
  <2>1. Changing(p)' = Changing(p)
    BY <1>2 DEF Changing
  <2>2. Plain(entries)' = Plain(entries)
    BY <1>2 DEF Plain
  <2>. QED  BY <2>1, <2>2, Stutter
<1>3. CASE InitWrite(p)
  <2>1. entries = Empty /\ buf[p] = Empty /\ op[p] = "init"
    BY <1>3 DEF InitWrite, Sound, AtWork, Opening, Typed, Shape
  <2>2. entries' = Empty /\ op'[p] = None
    BY <1>3, <2>1 DEF InitWrite, Replace, Finish, Typed, TypeOK
  <2>. QED  BY <2>1, <2>2, <1>1, DataAssumption DEF Operation
<1>4. CASE RotateWrite(p)
  <2>1. op[p] = "rotate" /\ op'[p] = "rotate" /\ entries' = Reencrypted(entries, newKey[p])
    BY <1>4 DEF RotateWrite, Replace, Sound, AtWork, Rotating, local
  <2>2. \A n \in Names : /\ entries[n] = None => entries'[n] = None
                         /\ entries[n] # None =>
                              entries'[n] = [key |-> newKey[p], val |-> entries[n].val]
    <3>1. entries \in [Names -> Cipher \union {None}] /\ newKey[p] \in Key
      BY <2>1 DEF Typed, TypeOK, Shape
    <3>. DEFINE new == Reencrypted(entries, newKey[p])
    <3>2. \A n \in Names : /\ entries[n] = None => new[n] = None
                           /\ entries[n] # None =>
                                new[n] = [key |-> newKey[p], val |-> entries[n].val]
      BY <3>1, ReencryptedTyped
    <3>. HIDE DEF new
    <3>3. entries' = new
      BY <2>1 DEF new
    <3>. QED  BY <3>2, <3>3
  <2>3. \A n \in Names : entries[n] # None => entries'[n] # None /\ entries'[n].val = entries[n].val
    <3>. SUFFICES ASSUME NEW n \in Names, entries[n] # None
         PROVE  entries'[n] # None /\ entries'[n].val = entries[n].val
      OBVIOUS
    <3>1. entries[n].val \in Values /\ newKey[p] \in Key
      BY <2>1 DEF Typed, TypeOK, Shape, Cipher
    <3>2. entries'[n] = [key |-> newKey[p], val |-> entries[n].val]
      BY <2>2
    <3>. QED  BY <3>1, <3>2, NoneAssumption DEF Cipher
  <2>4. Plain(entries)' = Plain(entries)
    BY <2>2, <2>3 DEF Plain
  <2>5. Changing(p)' = Changing(p)
    BY <2>1 DEF Changing
  <2>. QED  BY <2>4, <2>5, Stutter
<1>. USE DataAssumption DEF Operation, Typed, TypeOK, Shape, file, local
<1>5. CASE OpenLazily(p) \/ Open(p) \/ Read(p) \/ Count(p) \/ Lock(p) \/ Unlock(p) \/ Close(p)
           \/ RotateKey(p) \/ RecoverKey(p)
  BY <1>2, <1>5 DEF OpenLazily, Open, Read, Count, Lock, Unlock, Close, RotateKey, RecoverKey
<1>6. CASE OpenFirst(p) \/ RotateBegin(p) \/ RotateRead(p) \/ RotateWriteFails(p) \/ Unlink(p)
           \/ UnlinkFails(p) \/ Exit(p)
  BY <1>1, <1>6 DEF OpenFirst, RotateBegin, RotateRead, RotateWriteFails, Unlink, UnlinkFails, Exit,
     Finish, Gone, Goto
<1>7. CASE InitKey(p)
  BY <1>1, <1>7 DEF InitKey, Gone
<1>8. CASE Recover(p)
  BY <1>1, <1>8 DEF Recover
<1>. QED  BY <1>3, <1>4, <1>5, <1>6, <1>7, <1>8, Zenon DEF StepOf

\* The pending requests after a step of p.
LEMMA PendingStep ==
  ASSUME NEW p \in Procs, OwnStep(p)
  PROVE  [q \in Procs |-> Changing(q)]'
           = [[q \in Procs |-> Changing(q)] EXCEPT ![p] = Changing(p)']
<1>1. \A q \in Procs \ {p} : Changing(q)' = Changing(q)
  BY DEF OwnStep, Changing
<1>. DEFINE old(q) == Changing(q)
            new(q) == Changing(q)'
<1>2. \A q \in Procs \ {p} : new(q) = old(q)
  BY <1>1
<1>. HIDE DEF old, new
<1>3. [q \in Procs |-> new(q)] = [[q \in Procs |-> old(q)] EXCEPT ![p] = new(p)]
  BY <1>2
<1>. QED  BY <1>3 DEF old, new

\* The beginning of set() or remove() is the store's Ask ...
LEMMA BeginAsks ==
  ASSUME Typed, Typed', Sound, Sound', causes = {}, causes' = {}, NEW p \in Procs, OwnStep(p),
         NEW n \in Names, NEW v \in Values \union {None}, Begin(p, n, v)
  PROVE  Abstract!StoreNext
<1>1. pc[p] = "idle" /\ op[p] = None /\ entries' = entries /\ op'[p] \in {"set", "remove"}
  BY DEF Begin, Typed, TypeOK, Shape, file
<1>2. Changing(p) = None /\ Changing(p)' \in Abstract!Request
  <2>1. op[p] \notin {"set", "remove"}
    BY <1>1, DataAssumption DEF Operation
  <2>2. name[p]' \in Names /\ buf[p]'[name[p]'] \in Cipher \union {None}
    BY <1>1 DEF Typed, TypeOK, Shape
  <2>3. (IF buf[p]'[name[p]'] = None THEN None ELSE buf[p]'[name[p]'].val) \in Values \union {None}
    BY <2>2 DEF Cipher
  <2>. QED  BY <1>1, <2>1, <2>2, <2>3 DEF Changing, Abstract!Request
<1>3. [q \in Procs |-> Changing(q)]'
        = [[q \in Procs |-> Changing(q)] EXCEPT ![p] = Changing(p)']
  BY PendingStep
<1>4. [m \in Names |-> Readable(m)]' = [m \in Names |-> Readable(m)]
  <2>1. NothingLost /\ NothingLost'
    BY ReadableIsPlain, PTL
  <2>2. Plain(entries)' = Plain(entries)
    BY <1>1 DEF Plain
  <2>. QED  BY <2>1, <2>2 DEF NothingLost
<1>5. Abstract!Ask(p, Changing(p)')
  BY <1>2, <1>3, <1>4 DEF Abstract!Ask
<1>. QED  BY <1>2, <1>5 DEF Abstract!StoreNext

\* ... the replacement of the file its Take ...
LEMMA WriteTakes ==
  ASSUME Typed, Typed', Sound, Sound', causes = {}, causes' = {}, NEW p \in Procs, OwnStep(p),
         Write(p)
  PROVE  Abstract!StoreNext
<1>1. /\ op[p] \in {"set", "remove"} /\ entries' = buf[p] /\ op'[p] = None /\ name[p] \in Names
      /\ \A m \in Names \ {name[p]} : buf[p][m] = entries[m]
  BY DEF Write, Replace, Finish, Typed, TypeOK, Shape, Sound, AtWork, Changed
<1>. DEFINE val == IF buf[p][name[p]] = None THEN None ELSE buf[p][name[p]].val
<1>2. Changing(p)' = None
  BY <1>1, DataAssumption DEF Changing, Operation
<1>3. Changing(p) = [name |-> name[p], val |-> val] /\ Changing(p) # None
  <2>1. Changing(p) = [name |-> name[p], val |-> val]
    BY <1>1 DEF Changing
  <2>2. buf[p][name[p]] \in Cipher \union {None}
    BY <1>1 DEF Typed, TypeOK
  <2>3. val \in Values \union {None}
    BY <2>2 DEF Cipher
  <2>4. [name |-> name[p], val |-> val] \in [name : Names, val : Values \union {None}]
    BY <1>1, <2>3
  <2>. QED  BY <2>1, <2>4, RequestAssumption
<1>4. [q \in Procs |-> Changing(q)]'
        = [[q \in Procs |-> Changing(q)] EXCEPT ![p] = None]
  BY <1>2, PendingStep
<1>5. Plain(entries)' = [Plain(entries) EXCEPT ![name[p]] = val]
  BY <1>1 DEF Plain
<1>6. [m \in Names |-> Readable(m)]' = [[m \in Names |-> Readable(m)] EXCEPT ![name[p]] = val]
  <2>1. NothingLost /\ NothingLost'
    BY ReadableIsPlain, PTL
  <2>. QED  BY <2>1, <1>5 DEF NothingLost
<1>. DEFINE pen == [q \in Procs |-> Changing(q)]
<1>7. pen[p] # None /\ pen[p].name = name[p] /\ pen[p].val = val
  BY <1>3
<1>8. Abstract!Take(p)
  BY <1>4, <1>6, <1>7 DEF Abstract!Take
<1>. QED  BY <1>8 DEF Abstract!StoreNext

\* ... and a failure or a crash in between its GiveUp.
LEMMA FailureGivesUp ==
  ASSUME Typed, Typed', Sound, Sound', causes = {}, causes' = {}, NEW p \in Procs, OwnStep(p),
         WriteFails(p) \/ Crash(p)
  PROVE  Abstract!StoreNext \/ UNCHANGED Abstract!storeVars
<1>1. entries' = entries /\ op'[p] = None
  BY DEF WriteFails, Crash, Finish, Gone, Typed, TypeOK, file
<1>2. Changing(p)' = None /\ Plain(entries)' = Plain(entries)
  BY <1>1, DataAssumption DEF Changing, Operation, Plain
<1>3. CASE Changing(p) = None
  BY <1>2, <1>3, Stutter
<1>4. CASE Changing(p) # None
  <2>1. [q \in Procs |-> Changing(q)]'
          = [[q \in Procs |-> Changing(q)] EXCEPT ![p] = None]
    BY <1>2, PendingStep
  <2>2. NothingLost /\ NothingLost'
    BY ReadableIsPlain, PTL
  <2>3. [m \in Names |-> Readable(m)]' = [m \in Names |-> Readable(m)]
    BY <1>2, <2>2 DEF NothingLost
  <2>4. Abstract!GiveUp(p)
    BY <1>4, <2>1, <2>3 DEF Abstract!GiveUp
  <2>. QED  BY <2>4 DEF Abstract!StoreNext
<1>. QED  BY <1>3, <1>4

\* After a mishap the store promises nothing.
LEMMA MishapExcuses ==
  ASSUME Typed', causes' # {}
  PROVE  Abstract!StoreNext
<1>1. [n \in Names |-> Readable(n)]' \in [Names -> Values \union {None, "lost"}]
  <2>1. (\A n \in Names : Readable(n) \in Values \union {None, "lost"})'
    <3>1. RequestsTyped'
      BY StoreTypesHold, PTL
    <3>. QED  BY <3>1 DEF RequestsTyped
  <2>. QED  BY <2>1
<1>2. [p \in Procs |-> Changing(p)]' \in [Procs -> Abstract!Request \union {None}]
  <2>1. (\A p \in Procs : Changing(p) \in Abstract!Request \union {None})'
    <3>1. RequestsTyped'
      BY StoreTypesHold, PTL
    <3>. QED  BY <3>1 DEF RequestsTyped
  <2>. QED  BY <2>1
<1>3. Abstract!Excuse
  BY <1>1, <1>2 DEF Abstract!Excuse
<1>. QED  BY <1>3 DEF Abstract!StoreNext

\* Every operation of the vault is atomic and changes its own secret only, and
\* no step of a rotation, a recovery, a first opening or a crash changes or loses
\* one, unless one of the four mishaps occurred.
THEOREM VaultImplementsStore == Spec => ImplementsStore
<1>1. Init => Abstract!StoreInit
  <2>. SUFFICES ASSUME Init PROVE Abstract!StoreInit
    OBVIOUS
  <2>1. \A n \in Names : Readable(n) = None
    BY DEF Init, Readable, Empty
  <2>2. \A p \in Procs : Changing(p) = None
    BY DataAssumption DEF Init, Changing, Operation
  <2>. QED  BY <2>1, <2>2 DEF Abstract!StoreInit, Init
<1>2. VaultInv /\ VaultInv' /\ [Next]_vars => [Abstract!StoreNext]_(Abstract!storeVars)
  <2>. SUFFICES ASSUME VaultInv, VaultInv', [Next]_vars
       PROVE  Abstract!StoreNext \/ UNCHANGED Abstract!storeVars
    OBVIOUS
  <2>1. CASE causes' # {}
    BY <2>1, MishapExcuses DEF VaultInv
  <2>2. CASE causes' = {}
    <3>1. causes = {} /\ Typed /\ Typed' /\ Sound /\ Sound'
      BY <2>2, CausesGrow DEF VaultInv
    <3>2. CASE UNCHANGED vars
      BY <3>2 DEF vars, file, local, Readable, Changing, Obtainable, Abstract!storeVars
    <3>3. ASSUME NEW p \in Procs, StepOf(p)
          PROVE  Abstract!StoreNext \/ UNCHANGED Abstract!storeVars
      <4>1. OwnStep(p)
        BY <3>1, <3>3, EachStepOwn
      <4>. QED  BY <2>2, <3>1, <3>3, <4>1, StutterSteps, BeginAsks, WriteTakes, FailureGivesUp,
                Zenon
    <3>4. CASE Next
      BY <3>3, <3>4, Zenon DEF Next, StepOf
    <3>. QED  BY <3>2, <3>4
  <2>. QED  BY <2>1, <2>2
<1>. QED  BY <1>1, <1>2, VaultInvariant, PTL DEF Spec, ImplementsStore, Abstract!StoreSpec
=============================================================================

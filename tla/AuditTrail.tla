----------------------------- MODULE AuditTrail -----------------------------
(***************************************************************************)
(* The hash-chained audit log of src/hermes_katana/audit/trail.py: several *)
(* AuditTrail objects (the plugin's, the CLI's, the proxy's, the one the   *)
(* honey-token manager creates for each access, in one process or in many) *)
(* append to one active file, rotate it, prune old rotations and anchor    *)
(* the chain head in a sidecar.  They share the files and an advisory file *)
(* lock, which the kernel releases when its holder dies.                   *)
(*                                                                         *)
(* Hashes are the numbers 1, 2, ... in the order the entries are finalized *)
(* (SHA-256 is taken to be collision free), so the lines of a file are its *)
(* entries in the order of their hashes.  Timestamps are whole seconds.    *)
(* Keys are numbers as well: two anchors signed with different keys never  *)
(* have the same HMAC.                                                     *)
(***************************************************************************)
EXTENDS Integers, FiniteSets

CONSTANTS
  Trails,        \* the AuditTrail objects that share the log
  MaxSize,       \* lines after which _maybe_rotate rotates (max_size)
  MaxRotations,  \* rotated files kept (max_rotations)
  Keys, FirstKey,\* what _resolve_anchor_key() may find, and what it finds at first
  MaxEntries,    \* bound: log() calls that get as far as a hash
  MaxTime,       \* bound: seconds that pass
  MaxFaults,     \* bound: crashes, failed reads and writes, changes of the key
  None           \* "no AuditTrail object"

ASSUME TrailsAssumption == None \notin Trails
ASSUME SizeAssumption   == MaxSize \in Nat \ {0} /\ MaxRotations \in Nat
ASSUME BoundAssumption  == MaxEntries \in Nat /\ MaxTime \in Nat \ {0} /\ MaxFaults \in Nat
ASSUME KeysAssumption   == Keys \subseteq Nat /\ FirstKey \in Keys

Genesis == 0   \* _GENESIS_HASH, and the head that a missing anchor stands for
Active  == 0   \* the place of the active file; rotated files are named 1, 2, ...
NoKey   == 0   \* no secret can be resolved

Unresolved == -1   \* _anchor_key_resolved is False
Missing == [head |-> Genesis, key |-> NoKey]   \* there is no anchor sidecar

VARIABLES
  log,       \* the parsable lines on disk: [hash, prev, file]
  rotated,   \* names (timestamps) of the rotated files
  junk,      \* files that hold an unparsable line
  garbled,   \* files that hold bytes which are not UTF-8
  torn,      \* the active file ends in a partial line without a newline
  anchor,    \* the anchor sidecar: a head and the key it was signed with
  key,       \* the key _resolve_anchor_key() finds now
  lock,      \* holder of the file lock
  clock,     \* the time, in seconds
  issued,    \* hashes handed out so far
  pc,        \* where each object is in log() or rotate(); "down": not created
  cache,     \* _last_hash of each object
  mine,      \* entry_hash of the entry an object is logging
  held,      \* _anchor_hmac_key of each object, resolved once
  target     \* rotated name an object has computed

\* History variables: they record what happened and guard nothing.
VARIABLES
  lastWriter, \* the object that appended last and knows it, None once it is gone
  causes,     \* mishaps so far, see Mishap
  returned,   \* hashes whose log() call returned
  faults

files == <<log, rotated, junk, garbled, torn, anchor>>
keys  == <<key, held>>
vars  == <<files, keys, lock, clock, issued, pc, cache, mine, target,
           lastWriter, causes, returned, faults>>

Mishap == { "torn",       \* an append left a partial line
            "stale",      \* a fresh file was started by another than the last writer
            "clash",      \* a rotation took a name not newer than all others
            "pruned",     \* old rotations were deleted
            "unread",     \* an append could not read the file it appended to
            "unanchored" }\* the newest entry has not been anchored

Place == Nat              \* Active or the name of a rotated file
Entry == [hash : Nat \ {0}, prev : Nat, file : Place]

-----------------------------------------------------------------------------
(* Reading the files.  _chain_files orders rotated files by name and puts  *)
(* the active file last.                                                   *)

FileBefore(f, g) == f # g /\ f # Active /\ (g = Active \/ f < g)

Before(d, e) == FileBefore(d.file, e.file) \/ (d.file = e.file /\ d.hash < e.hash)

LastIn(S) == {d \in S : \A e \in S : e = d \/ Before(e, d)}

HashOfLast(S) == IF S = {} THEN Genesis ELSE (CHOOSE d \in LastIn(S) : TRUE).hash

InActive == {e \in log : e.file = Active}

ActiveExists == InActive # {} \/ Active \in junk

ActiveSize == Cardinality(InActive) + (IF Active \in junk THEN 1 ELSE 0)

\* What _read_last_hash_from_file and _load_last_hash find.
ActiveHead == HashOfLast(InActive)

\* A read of the active file succeeds (ok) or raises, as it always does when
\* the file is not UTF-8; any exception makes the head the genesis hash.
Readable(ok) == ~ActiveExists \/ (ok /\ Active \notin garbled)

HeadRead(ok) == IF Readable(ok) THEN ActiveHead ELSE Genesis

\* Whether the read of an operation fails by itself, which is a fault.
ReadOutcome(ok) == ok \/ (ActiveExists /\ faults < MaxFaults)

\* The hash the next entry of p links to: its own _last_hash stands in for
\* an active file that is missing because it was rotated away.
LinkOf_NoReread(p, ok) == cache[p]                 \* mutant: trust the cache
LinkOf_NoCarry(p, ok)  == HeadRead(ok)             \* mutant: restart after rotation
LinkOf(p, ok) == IF ActiveExists THEN HeadRead(ok) ELSE cache[p]

Head == HashOfLast(log)

Linked(e) == e.prev = HashOfLast({d \in log : Before(d, e)})

\* _get_anchor_key: resolved at the first use and then kept.
KeyOf(p) == IF held[p] = Unresolved THEN key ELSE held[p]

Resolve(p) == held' = [held EXCEPT ![p] = KeyOf(p)]

\* _verify_anchor(head) of an object that holds k.
VerifyAnchor(k, head) ==
  \/ k = NoKey
  \/ anchor = Missing /\ head = Genesis
  \/ anchor = [head |-> head, key |-> k]

\* verify_chain() of p, run on the files as they are while they can be read.
VerifyChain(p) ==
  /\ junk = {}
  /\ \A e \in log : Linked(e)
  /\ VerifyAnchor(KeyOf(p), Head)

-----------------------------------------------------------------------------

Init ==
  /\ log = {} /\ rotated = {} /\ junk = {} /\ garbled = {} /\ torn = FALSE
  /\ anchor = Missing
  /\ key = FirstKey /\ held = [p \in Trails |-> Unresolved]
  /\ lock = None /\ clock = 1 /\ issued = 0
  /\ pc = [p \in Trails |-> "down"]
  /\ cache = [p \in Trails |-> Genesis]
  /\ mine = [p \in Trails |-> Genesis]
  /\ target = [p \in Trails |-> 0]
  /\ lastWriter = None /\ causes = {} /\ returned = {} /\ faults = 0

Goto(p, label) == pc' = [pc EXCEPT ![p] = label]

\* Mutant: the lock outlives its holder, as a plain lock file would.
Leave_KeepsLock(p) ==
  /\ UNCHANGED lock
  /\ lastWriter' = IF lastWriter = p THEN None ELSE lastWriter
  /\ Goto(p, "down")
  /\ cache' = [cache EXCEPT ![p] = Genesis]
  /\ mine' = [mine EXCEPT ![p] = Genesis]
  /\ target' = [target EXCEPT ![p] = 0]
  /\ held' = [held EXCEPT ![p] = Unresolved]
  /\ UNCHANGED key

\* The object, or the process it lives in, is gone: so are its locals, and
\* the kernel releases the file lock it held.
Leave(p) ==
  /\ lock' = IF lock = p THEN None ELSE lock
  /\ lastWriter' = IF lastWriter = p THEN None ELSE lastWriter
  /\ Goto(p, "down")
  /\ cache' = [cache EXCEPT ![p] = Genesis]
  /\ mine' = [mine EXCEPT ![p] = Genesis]
  /\ target' = [target EXCEPT ![p] = 0]
  /\ held' = [held EXCEPT ![p] = Unresolved]
  /\ UNCHANGED key

\* AuditTrail(path): the head is loaded from the active file alone, if that
\* can be read.
Create(p, ok) ==
  /\ pc[p] = "down" /\ ReadOutcome(ok)
  /\ cache' = [cache EXCEPT ![p] = HeadRead(ok)]
  /\ faults' = IF ok THEN faults ELSE faults + 1
  /\ Goto(p, "idle")
  /\ UNCHANGED <<files, keys, lock, clock, issued, mine, target,
                 lastWriter, causes, returned>>

\* log() under the file lock: re-read the head, finalize the entry, append it.
\* A partial line swallows the text appended to it.
Enter(p, ok) ==
  /\ pc[p] = "idle" /\ lock = None /\ issued < MaxEntries /\ ReadOutcome(ok)
  /\ issued' = issued + 1
  /\ cache' = [cache EXCEPT ![p] = LinkOf(p, ok)]
  /\ log' = IF torn THEN log
            ELSE log \union {[hash |-> issued + 1, prev |-> LinkOf(p, ok), file |-> Active]}
  /\ torn' = FALSE
  /\ UNCHANGED <<rotated, junk, garbled, anchor, keys, clock, target, returned>>

\* What an append to an unknown head does to the chain.
Broken(p, ok) ==
  (IF ~ActiveExists /\ issued > 0 /\ lastWriter # p THEN {"stale"} ELSE {})
    \union (IF Readable(ok) THEN {} ELSE {"unread"})

Append(p, ok) ==
  /\ Enter(p, ok)
  /\ lock' = p
  /\ mine' = [mine EXCEPT ![p] = issued + 1]
  /\ lastWriter' = p
  /\ causes' = causes \union Broken(p, ok)
  /\ faults' = IF ok THEN faults ELSE faults + 1
  /\ Goto(p, "anchor")

\* The line is written but fsync raises: log() fails before the anchor, and
\* _last_hash stays at the entry before.
AppendUnsynced(p) ==
  /\ faults < MaxFaults
  /\ Enter(p, TRUE)
  /\ lastWriter' = None
  /\ causes' = causes \union Broken(p, TRUE) \union {"unanchored"}
  /\ faults' = faults + 1
  /\ UNCHANGED <<lock, pc, mine>>

\* The write of the line fails half way, possibly inside a character: log()
\* raises, or its process dies.
TornAppend(p) ==
  /\ pc[p] = "idle" /\ lock = None /\ issued < MaxEntries /\ faults < MaxFaults
  /\ torn' = TRUE
  /\ junk' = junk \union {Active}
  /\ garbled' \in {garbled, garbled \union {Active}}
  /\ causes' = causes \union {"torn"}
  /\ faults' = faults + 1
  /\ \/ /\ cache' = [cache EXCEPT ![p] = LinkOf(p, TRUE)]
        /\ UNCHANGED <<keys, lock, pc, mine, target, lastWriter>>
     \/ Leave(p)
  /\ UNCHANGED <<log, rotated, anchor, clock, issued, returned>>

\* _write_anchor(head): a no-op for an object without a key.
SignAnchor(p, head) ==
  IF KeyOf(p) = NoKey
  THEN /\ causes' = causes \union {"unanchored"}
       /\ UNCHANGED anchor
  ELSE /\ causes' = causes \ {"unanchored"}
       /\ anchor' = [head |-> head, key |-> KeyOf(p)]

\* Mutant: the anchor takes _last_hash, which is still the previous head.
WriteAnchor_LastHash(p) ==
  /\ pc[p] = "anchor"
  /\ Resolve(p)
  /\ SignAnchor(p, cache[p])
  /\ lock' = None
  /\ Goto(p, "check")
  /\ UNCHANGED <<log, rotated, junk, garbled, torn, key, clock, issued, cache, mine, target,
                 lastWriter, returned, faults>>

\* _write_anchor, still under the file lock, which is then released.
WriteAnchor(p) ==
  /\ pc[p] = "anchor"
  /\ Resolve(p)
  /\ SignAnchor(p, mine[p])
  /\ lock' = None
  /\ Goto(p, "check")
  /\ UNCHANGED <<log, rotated, junk, garbled, torn, key, clock, issued, cache, mine, target,
                 lastWriter, returned, faults>>

\* _write_anchor only warns when the sidecar cannot be written.
WriteAnchorFails(p) ==
  /\ pc[p] = "anchor" /\ KeyOf(p) # NoKey /\ faults < MaxFaults
  /\ Resolve(p)
  /\ causes' = causes \union {"unanchored"}
  /\ faults' = faults + 1
  /\ lock' = None
  /\ Goto(p, "check")
  /\ UNCHANGED <<files, key, clock, issued, cache, mine, target, lastWriter, returned>>

\* The file is at its size limit, or rotate() is called: the name of the
\* rotated file is computed, outside the file lock.
BeginRotation(p) ==
  /\ target' = [target EXCEPT ![p] = clock]
  /\ Goto(p, "move")

\* The rest of log(): cache the new head and _maybe_rotate.
AfterAppend(p) ==
  /\ pc[p] = "check"
  /\ cache' = [cache EXCEPT ![p] = mine[p]]
  /\ returned' = returned \union {mine[p]}
  /\ IF ActiveExists /\ ActiveSize >= MaxSize
     THEN BeginRotation(p)
     ELSE Goto(p, "idle") /\ UNCHANGED target
  /\ mine' = [mine EXCEPT ![p] = Genesis]
  /\ UNCHANGED <<files, keys, lock, clock, issued, lastWriter, causes, faults>>

RotateCalled(p) ==
  /\ pc[p] = "idle" /\ ActiveExists
  /\ BeginRotation(p)
  /\ UNCHANGED <<files, keys, lock, clock, issued, cache, mine,
                 lastWriter, causes, returned, faults>>

\* shutil.move of the active file under the file lock; it replaces a file of
\* that name, and fails when another object has moved the active file away.
Renamed_Truncates(t) == {e \in log : e.file \notin {t, Active}}   \* mutant

Renamed(t) ==
  {IF e.file = Active THEN [e EXCEPT !.file = t] ELSE e : e \in {d \in log : d.file # t}}

Followed(t, S) ==   \* what is true of the active file is now true of t
  (S \ {Active, t}) \union (IF Active \in S THEN {t} ELSE {})

Move(p) ==
  /\ pc[p] = "move" /\ lock = None
  /\ IF ActiveExists
     THEN /\ log' = Renamed(target[p])
          /\ rotated' = rotated \union {target[p]}
          /\ junk' = Followed(target[p], junk)
          /\ garbled' = Followed(target[p], garbled)
          /\ torn' = FALSE
          /\ causes' = IF \E t \in rotated : t >= target[p]
                       THEN causes \union {"clash"} ELSE causes
          /\ Goto(p, "cleanup")
     ELSE /\ Goto(p, "idle")
          /\ UNCHANGED <<log, rotated, junk, garbled, torn, causes>>
  /\ target' = [target EXCEPT ![p] = 0]
  /\ UNCHANGED <<anchor, keys, lock, clock, issued, cache, mine, lastWriter, returned, faults>>

\* _cleanup_rotations keeps the newest MaxRotations files.
Excess == {t \in rotated : Cardinality({u \in rotated : u > t}) >= MaxRotations}

Cleanup(p) ==
  /\ pc[p] = "cleanup"
  /\ rotated' = rotated \ Excess
  /\ log' = {e \in log : e.file \notin Excess}
  /\ junk' = junk \ Excess
  /\ garbled' = garbled \ Excess
  /\ causes' = IF Excess # {} THEN causes \union {"pruned"} ELSE causes
  /\ Goto(p, "idle")
  /\ UNCHANGED <<torn, anchor, keys, lock, clock, issued, cache, mine, target,
                 lastWriter, returned, faults>>

\* reanchor(): an administrator accepts the chain as it is.  It raises at a
\* file that is not UTF-8, and silently leaves out files it cannot open.
Reanchor(p) ==
  /\ pc[p] = "idle" /\ lock = None /\ garbled = {}
  /\ Resolve(p)
  /\ \/ /\ SignAnchor(p, Head)
        /\ UNCHANGED faults
     \/ /\ faults < MaxFaults /\ KeyOf(p) # NoKey
        /\ \E f \in rotated \union {Active} :
             anchor' = [head |-> HashOfLast({e \in log : e.file # f}), key |-> KeyOf(p)]
        /\ causes' = causes \union {"unanchored"}
        /\ faults' = faults + 1
  /\ UNCHANGED <<log, rotated, junk, garbled, torn, key, lock, clock, issued, pc, cache, mine,
                 target, lastWriter, returned>>

\* verify_chain() changes nothing but the key its object holds.
Verify(p) ==
  /\ pc[p] = "idle" /\ junk = {}
  /\ Resolve(p)
  /\ UNCHANGED <<files, key, lock, clock, issued, pc, cache, mine, target,
                 lastWriter, causes, returned, faults>>

\* HERMES_KATANA_LOG_KEY is set, changed or removed, the vault's master key
\* is rotated, or the keyring stops or starts answering.
ChangeKey ==
  /\ faults < MaxFaults
  /\ key' \in Keys \ {key}
  /\ faults' = faults + 1
  /\ UNCHANGED <<files, held, lock, clock, issued, pc, cache, mine, target,
                 lastWriter, causes, returned>>

\* The object goes away while it is idle...
Drop(p) ==
  /\ pc[p] = "idle"
  /\ Leave(p)
  /\ UNCHANGED <<files, clock, issued, causes, returned, faults>>

\* ... or the process dies in the middle of log() or rotate().
Crash(p) ==
  /\ pc[p] \notin {"down", "idle"} /\ faults < MaxFaults
  /\ faults' = faults + 1
  /\ causes' = IF pc[p] = "anchor" THEN causes \union {"unanchored"} ELSE causes
  /\ Leave(p)
  /\ UNCHANGED <<files, clock, issued, returned>>

Tick ==
  /\ clock < MaxTime
  /\ clock' = clock + 1
  /\ UNCHANGED <<files, keys, lock, issued, pc, cache, mine, target,
                 lastWriter, causes, returned, faults>>

Continue(p) == WriteAnchor(p) \/ WriteAnchorFails(p) \/ AfterAppend(p) \/ Move(p) \/ Cleanup(p)

Call(p) ==
  \/ \E ok \in BOOLEAN : Create(p, ok) \/ Append(p, ok)
  \/ RotateCalled(p) \/ Reanchor(p) \/ Verify(p)

Fail(p) == AppendUnsynced(p) \/ TornAppend(p) \/ Drop(p) \/ Crash(p)

Next == Tick \/ ChangeKey \/ \E p \in Trails : Call(p) \/ Continue(p) \/ Fail(p)

Spec == Init /\ [][Next]_vars

\* A call that has begun runs on as long as its process lives; nobody has to
\* make another call.
FairSpec == Spec /\ \A p \in Trails : WF_vars(Continue(p))

-----------------------------------------------------------------------------
(* Properties *)

TypeOK ==
  /\ log \subseteq Entry
  /\ rotated \subseteq Nat \ {0}
  /\ junk \subseteq Place /\ garbled \subseteq Place
  /\ torn \in BOOLEAN
  /\ anchor \in [head : Nat, key : Nat] /\ key \in Nat
  /\ held \in [Trails -> Nat \union {Unresolved}]
  /\ issued \in Nat /\ clock \in Nat \ {0} /\ faults \in Nat
  /\ lock \in Trails \union {None} /\ lastWriter \in Trails \union {None}
  /\ pc \in [Trails -> {"down", "idle", "anchor", "check", "move", "cleanup"}]
  /\ cache \in [Trails -> Nat] /\ mine \in [Trails -> Nat] /\ target \in [Trails -> Nat]
  /\ causes \subseteq Mishap
  /\ returned \subseteq Nat

\* Whatever is torn, crashed, overwritten, pruned or re-keyed, and however the
\* objects interleave, inside any one file every line links to the line before
\* it: log() re-reads the head under the file lock (trail.py:349-364).  The one
\* exception is an append that could not read the file it appended to: it
\* starts again from the genesis hash inside it (trail.py:412-413).
FilesChained ==
  "unread" \notin causes =>
    \A e \in log :
      LET before == {d \in log : d.file = e.file /\ d.hash < e.hash}
      IN before # {} => e.prev = HashOfLast(before)

\* verify_chain() of every object accepts the log at every moment at which
\* nobody is inside log()'s critical section, unless the chain has met one of
\* the first five mishaps, or the object holds a key and the newest entry is
\* not anchored or anchored under another key: there is no other way for
\* honest use to break the chain.
VerifiesUnlessMishap ==
  lock = None /\ causes \subseteq {"unanchored"} =>
    \A p \in Trails : pc[p] # "down" =>
      \/ VerifyChain(p)
      \/ KeyOf(p) # NoKey /\ ("unanchored" \in causes \/ anchor.key \notin {KeyOf(p), NoKey})

\* The entry of every log() call that returned is still on disk and parsable,
\* unless a torn line swallowed it, a rotation overwrote it or it was pruned;
\* stale links, failed reads, new keys and missing anchors never cost an
\* entry.
ReturnedIsDurable ==
  causes \intersect {"torn", "clash", "pruned"} = {} =>
    \A h \in returned : \E e \in log : e.hash = h

\* An anchor that was not written is made good by the next entry of an object
\* with a key: whenever the lock is free and the newest entry was anchored, the
\* anchor names the newest entry on disk, even across crashes, stale links,
\* failed reads and changes of the key.
AnchorNamesHead ==
  lock = None /\ causes \intersect {"torn", "clash", "pruned", "unanchored"} = {}
    => anchor.head = Head

\* The file lock never stays taken: a holder finishes or dies, and either
\* releases it (AdvisoryFileLock, _files.py:32-70), whoever takes it next.
LockReleased == []<>(lock = None)

\* trail.py:337-339 says that because the head is re-read under the file lock
\* "concurrent processes always chain correctly".
ConcurrentObjectsChain ==
  causes \intersect {"torn", "clash", "pruned", "unread"} = {} => \A e \in log : Linked(e)

=============================================================================

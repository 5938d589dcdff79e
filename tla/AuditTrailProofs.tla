-------------------------- MODULE AuditTrailProofs --------------------------
(***************************************************************************)
(* Machine-checked proofs about AuditTrail, for every number of objects,   *)
(* entries, rotations, faults and seconds.                                 *)
(***************************************************************************)
EXTENDS AuditTrail, WellFoundedInduction, TLAPS

-----------------------------------------------------------------------------
(* The inductive invariant.                                                *)

\* Hashes and file names are bounded, and a hash names one line.
FilesOrdered ==
  /\ \A e \in log : e.hash <= issued /\ e.file <= clock /\ e.file \in rotated \union {Active}
  /\ \A d, e \in log : d.hash = e.hash => d = e
  /\ \A t \in rotated : t <= clock
  /\ \A p \in Trails : target[p] <= clock /\ (pc[p] = "move" => target[p] > 0)

\* FilesChained with its "line before" named by a witness.
LinksInFile ==
  "unread" \notin causes => \A e \in log : (\E d \in log : d.file = e.file /\ d.hash < e.hash) =>
    \E d \in log : /\ d.file = e.file /\ d.hash < e.hash /\ e.prev = d.hash
                   /\ \A c \in log : c.file = e.file /\ c.hash < e.hash => c.hash <= d.hash

\* Exactly the object inside log()'s critical section holds the lock, and its
\* entry is the newest.
LockDiscipline ==
  /\ \A p \in Trails : pc[p] = "anchor" <=> lock = p
  /\ \A p \in Trails : pc[p] = "anchor" => mine[p] = issued
  /\ \A p \in Trails : pc[p] \in {"anchor", "check"} => mine[p] \in 1..issued
  /\ returned \subseteq 1..issued

\* The last writer knows the head.
WriterKnowsHead ==
  \A p \in Trails : lastWriter = p =>
    /\ pc[p] # "down"
    /\ pc[p] \in {"anchor", "check"} => mine[p] = issued
    /\ pc[p] \notin {"anchor", "check"} => cache[p] = issued

\* Without torn lines, clashing names and pruning the files hold every entry,
\* in the order of their hashes.
Complete ==
  causes \intersect {"torn", "clash", "pruned"} = {} =>
    /\ junk = {} /\ torn = FALSE
    /\ \A h \in 1..issued : \E e \in log : e.hash = h
    /\ \A d, e \in log : d.hash < e.hash => Before(d, e)
    /\ WriterKnowsHead
    /\ lock = None /\ "unanchored" \notin causes => anchor.head = issued

\* Without stale links and failed reads as well, each entry links to its
\* predecessor.
Chained ==
  causes \intersect {"torn", "stale", "clash", "pruned", "unread"} = {} =>
    \A e \in log : e.prev = e.hash - 1

\* No object has seen a hash that was not handed out.
CacheBounded == \A p \in Trails : cache[p] <= issued

\* A sidecar on disk has been signed.
AnchorSigned == anchor.key = NoKey => anchor = Missing

IInv == /\ AnchorSigned /\ TypeOK /\ FilesOrdered /\ LinksInFile /\ LockDiscipline /\ CacheBounded
        /\ Complete /\ Chained

-----------------------------------------------------------------------------
(* The order of the lines.                                                 *)

\* Every nonempty set of natural numbers has a least element ...
LEMMA LeastNat ==
  ASSUME NEW S \in SUBSET Nat, S # {}
  PROVE  \E x \in S : \A y \in S : x <= y
<1>1. PICK x \in S : \A y \in S : <<y, x>> \notin OpToRel(<, Nat)
  BY WFMin, NatLessThanWellFounded
<1>2. ASSUME NEW y \in S PROVE ~(y < x)
  BY <1>1 DEF OpToRel
<1>. QED  BY <1>2

\* ... and if it is bounded a greatest.
LEMMA GreatestNat ==
  ASSUME NEW S \in SUBSET Nat, S # {}, NEW b \in Nat, \A x \in S : x <= b
  PROVE  \E x \in S : \A y \in S : y <= x
<1>1. PICK m \in {b - x : x \in S} : \A y \in {b - x : x \in S} : m <= y
  <2>1. \A x \in S : b - x \in Nat /\ b - x \in {b - y : y \in S}
    OBVIOUS
  <2>. QED  BY <2>1, LeastNat
<1>2. PICK x \in S : m = b - x
  OBVIOUS
<1>3. ASSUME NEW y \in S PROVE y <= x
  <2>1. b - x <= b - y /\ x \in Nat /\ y \in Nat
    BY <1>1, <1>2
  <2>. QED  BY <2>1
<1>. QED  BY <1>3

\* Every nonempty set of lines has a last one in the order in which
\* _chain_files and the lines of a file are read.
LEMMA LastExists ==
  ASSUME TypeOK, FilesOrdered, NEW S \in SUBSET log, S # {}
  PROVE  \E d \in S : \A e \in S : e = d \/ Before(e, d)
<1>. USE DEF TypeOK, FilesOrdered, Entry, Place, Active
<1>1. ASSUME NEW T \in SUBSET log, T # {}, \A d, e \in T : d.file = e.file
      PROVE  \E d \in T : \A e \in T : e = d \/ Before(e, d)
  <2>. DEFINE H == {e.hash : e \in T}
  <2>1. H \in SUBSET Nat /\ H # {} /\ \A h \in H : h <= issued
    BY <1>1
  <2>2. PICK m \in H : \A h \in H : h <= m
    BY <2>1, GreatestNat
  <2>3. PICK d \in T : d.hash = m
    BY <2>2
  <2>4. \A e \in T : e.hash \in H
    OBVIOUS
  <2>5. ASSUME NEW e \in T PROVE e = d \/ Before(e, d)
    <3>1. e.hash <= d.hash /\ e.file = d.file
      BY <2>2, <2>3, <2>4, <1>1
    <3>2. e.hash \in Nat /\ d.hash \in Nat /\ (e.hash = d.hash => e = d)
      OBVIOUS
    <3>. QED  BY <3>1, <3>2 DEF Before
  <2>. QED  BY <2>5
<1>2. CASE \E d \in S : d.file = Active
  <2>. DEFINE T == {d \in S : d.file = Active}
  <2>1. PICK d \in T : \A e \in T : e = d \/ Before(e, d)
    BY <1>1, <1>2
  <2>2. \A e \in S : e = d \/ Before(e, d)
    BY <2>1 DEF Before, FileBefore
  <2>. QED  BY <2>2
<1>3. CASE ~ \E d \in S : d.file = Active
  <2>. DEFINE F == {d.file : d \in S}
  <2>1. F \in SUBSET Nat /\ F # {} /\ \A f \in F : f <= clock
    OBVIOUS
  <2>2. PICK f \in F : \A g \in F : g <= f
    BY <2>1, GreatestNat
  <2>. DEFINE T == {d \in S : d.file = f}
  <2>3. T # {}
    BY <2>2
  <2>4. PICK d \in T : \A e \in T : e = d \/ Before(e, d)
    BY <2>3, <1>1
  <2>5. \A e \in S : e.file \in F /\ e.file # Active
    BY <1>3
  <2>6. ASSUME NEW e \in S PROVE e = d \/ Before(e, d)
    <3>1. e.file <= f /\ d.file = f /\ e.file # Active /\ d.file # Active
      BY <2>2, <2>5
    <3>2. CASE e.file = f
      BY <2>4, <3>2
    <3>3. CASE e.file # f
      BY <2>1, <3>1, <3>3 DEF Before, FileBefore
    <3>. QED  BY <3>2, <3>3
  <2>. QED  BY <2>6
<1>. QED  BY <1>2, <1>3

\* HashOfLast finds that line: Before is asymmetric.
LEMMA HashOfLastIs ==
  ASSUME TypeOK, NEW S \in SUBSET log, NEW d \in S, \A e \in S : e = d \/ Before(e, d)
  PROVE  HashOfLast(S) = d.hash
<1>1. LastIn(S) = {d}
  <2>1. d \in LastIn(S)
    BY DEF LastIn
  <2>2. ASSUME NEW c \in LastIn(S), c # d PROVE FALSE
    <3>1. Before(c, d) /\ Before(d, c) /\ c \in Entry /\ d \in Entry
      BY <2>2 DEF LastIn, TypeOK
    <3>. QED  BY <3>1 DEF Before, FileBefore, Entry, Place, Active
  <2>. QED  BY <2>1, <2>2 DEF LastIn
<1>. QED  BY <1>1 DEF HashOfLast

\* A set of lines is empty and its last hash Genesis, or it has a last line.
LEMMA HashOfLastCases ==
  ASSUME TypeOK, FilesOrdered, NEW S \in SUBSET log
  PROVE  \/ S = {} /\ HashOfLast(S) = Genesis
         \/ \E d \in S : HashOfLast(S) = d.hash /\ \A e \in S : e = d \/ Before(e, d)
<1>1. CASE S = {}
  BY <1>1 DEF HashOfLast
<1>2. CASE S # {}
  BY <1>2, LastExists, HashOfLastIs
<1>. QED  BY <1>1, <1>2

LEMMA HashOfLastType ==
  ASSUME TypeOK, FilesOrdered, NEW S \in SUBSET log
  PROVE  HashOfLast(S) \in 0..issued
BY HashOfLastCases DEF TypeOK, FilesOrdered, Entry, Genesis

\* So does what log() and __init__ read, whether the read succeeds or not.
LEMMA LinkType ==
  ASSUME TypeOK, FilesOrdered, NEW ok \in BOOLEAN
  PROVE  /\ HeadRead(ok) \in 0..issued
         /\ \A p \in Trails : LinkOf(p, ok) \in Nat /\ (cache[p] <= issued => LinkOf(p, ok) <= issued)
<1>1. HashOfLast(InActive) \in 0..issued
  BY HashOfLastType DEF InActive
<1>2. issued \in Nat /\ cache \in [Trails -> Nat]
  BY DEF TypeOK
<1>3. HeadRead(ok) \in 0..issued
  BY <1>1, <1>2 DEF HeadRead, ActiveHead, Genesis
<1>. QED  BY <1>2, <1>3 DEF LinkOf

-----------------------------------------------------------------------------
(* Type correctness.                                                       *)

LEMMA InitInv == Init => IInv
<1>. SUFFICES ASSUME Init PROVE IInv
  OBVIOUS
<1>. USE TrailsAssumption, SizeAssumption, BoundAssumption, KeysAssumption DEF Init, Genesis, Active, Missing, NoKey
<1>1. TypeOK
  <2>1. /\ pc \in [Trails -> {"down", "idle", "anchor", "check", "move", "cleanup"}]
        /\ cache \in [Trails -> Nat] /\ mine \in [Trails -> Nat] /\ target \in [Trails -> Nat]
    OBVIOUS
  <2>2. log \subseteq Entry /\ rotated \subseteq Nat \ {0} /\ junk \subseteq Place /\ garbled \subseteq Place
    OBVIOUS
  <2>6. anchor \in [head : Nat, key : Nat] /\ key \in Nat /\ held \in [Trails -> Nat \union {Unresolved}]
    OBVIOUS
  <2>3. issued \in Nat /\ clock \in Nat \ {0} /\ faults \in Nat
    OBVIOUS
  <2>5. torn \in BOOLEAN
    OBVIOUS
  <2>4. causes \subseteq Mishap /\ returned \subseteq Nat
    OBVIOUS
  <2>. QED  BY <2>1, <2>2, <2>3, <2>4, <2>5, <2>6 DEF TypeOK
<1>2. FilesOrdered /\ LinksInFile /\ LockDiscipline /\ CacheBounded
  BY DEF FilesOrdered, LinksInFile, LockDiscipline, CacheBounded
<1>3. Complete /\ Chained /\ AnchorSigned
  BY DEF Complete, Chained, WriterKnowsHead, AnchorSigned
<1>. QED  BY <1>1, <1>2, <1>3 DEF IInv

\* The types are preserved by every step of the trail; that a head exists to
\* be cached rests on FilesOrdered.
LEMMA TypeStep == TypeOK /\ FilesOrdered /\ [Next]_vars => TypeOK'
<1>. SUFFICES ASSUME TypeOK, FilesOrdered, [Next]_vars PROVE TypeOK'
  OBVIOUS
<1>h. HashOfLast(InActive) \in Nat /\ HashOfLast(log) \in Nat
  BY HashOfLastType DEF InActive, TypeOK
<1>l. \A p \in Trails, ok \in BOOLEAN : LinkOf(p, ok) \in Nat /\ HeadRead(ok) \in Nat
  BY LinkType
<1>k. \A p \in Trails : Resolve(p) => held' \in [Trails -> Nat \union {Unresolved}]
  BY DEF Resolve, KeyOf, TypeOK
<1>y. \A p \in Trails : KeyOf(p) \in Nat
  BY DEF KeyOf, TypeOK, Unresolved
<1>s. \A p \in Trails, h \in Nat :
        SignAnchor(p, h) => anchor' \in [head : Nat, key : Nat] /\ causes' \subseteq Mishap
  <2>. SUFFICES ASSUME NEW p \in Trails, NEW h \in Nat, SignAnchor(p, h)
                PROVE  anchor' \in [head : Nat, key : Nat] /\ causes' \subseteq Mishap
    OBVIOUS
  <2>1. anchor' = anchor \/ anchor' = [head |-> h, key |-> KeyOf(p)]
    BY DEF SignAnchor
  <2>2. causes' \subseteq causes \union {"unanchored"}
    BY DEF SignAnchor
  <2>. QED  BY <1>y, <2>1, <2>2 DEF TypeOK, Mishap
<1>e. ASSUME NEW p \in Trails, NEW ok \in BOOLEAN, Enter(p, ok)
      PROVE  /\ log' \subseteq Entry /\ torn' \in BOOLEAN /\ cache' \in [Trails -> Nat] /\ issued' \in Nat
             /\ UNCHANGED <<rotated, junk, garbled, anchor, keys, clock, target, returned>>
  <2>1. LinkOf(p, ok) \in Nat /\ issued + 1 \in Nat \ {0}
    BY <1>l DEF TypeOK
  <2>2. log' \subseteq Entry
    BY <1>e, <2>1 DEF Enter, Entry, Place, Active, TypeOK
  <2>. QED  BY <1>e, <2>1, <2>2 DEF Enter, TypeOK
<1>b. \A p \in Trails, ok \in BOOLEAN : Broken(p, ok) \subseteq Mishap
  BY DEF Broken, Mishap
<1>. USE TrailsAssumption, BoundAssumption, KeysAssumption DEF TypeOK, Mishap, files, keys, Goto, Leave, BeginRotation
<1>1. CASE Tick
  BY <1>1 DEF Tick
<1>2. ASSUME NEW p \in Trails, NEW ok \in BOOLEAN, Create(p, ok) PROVE TypeOK'
  BY <1>2, <1>l DEF Create
<1>3. ASSUME NEW p \in Trails, NEW ok \in BOOLEAN, Append(p, ok) PROVE TypeOK'
  <2>1. Enter(p, ok)
    BY <1>3 DEF Append
  <2>2. /\ lock' = p /\ lastWriter' = p /\ pc' = [pc EXCEPT ![p] = "anchor"]
        /\ mine' \in [Trails -> Nat] /\ faults' \in Nat /\ causes' \subseteq Mishap
    BY <1>3 DEF Append, Broken
  <2>. QED  BY <1>e, <2>1, <2>2
<1>15. ASSUME NEW p \in Trails, AppendUnsynced(p) PROVE TypeOK'
  <2>1. Enter(p, TRUE)
    BY <1>15 DEF AppendUnsynced
  <2>2. lastWriter' = None /\ faults' \in Nat
    BY <1>15 DEF AppendUnsynced
  <2>4. causes' \subseteq Mishap
    <3>1. causes' = causes \union Broken(p, TRUE) \union {"unanchored"}
      BY <1>15 DEF AppendUnsynced
    <3>. QED  BY <1>b, <3>1
  <2>3. UNCHANGED <<lock, pc, mine>>
    BY <1>15 DEF AppendUnsynced
  <2>. QED  BY <1>e, <2>1, <2>2, <2>3, <2>4
<1>4. ASSUME NEW p \in Trails, TornAppend(p) PROVE TypeOK'
  <2>2. junk' \subseteq Place /\ garbled' \subseteq Place /\ torn' \in BOOLEAN
    BY <1>4 DEF TornAppend, Place, Active
  <2>6. faults' \in Nat /\ causes' \subseteq Mishap
    BY <1>4 DEF TornAppend
  <2>7. UNCHANGED <<log, rotated, anchor, clock, issued, returned>>
    BY <1>4 DEF TornAppend
  <2>3. \/ cache' = [cache EXCEPT ![p] = LinkOf(p, TRUE)] /\ UNCHANGED <<keys, lock, pc, mine, target, lastWriter>>
        \/ Leave(p)
    BY <1>4 DEF TornAppend
  <2>4. CASE cache' = [cache EXCEPT ![p] = LinkOf(p, TRUE)] /\ UNCHANGED <<keys, lock, pc, mine, target, lastWriter>>
    <3>1. cache' \in [Trails -> Nat]
      BY <1>l, <2>4
    <3>2. UNCHANGED <<key, held, lock, pc, mine, target, lastWriter>>
      BY <2>4
    <3>. QED  BY <3>1, <3>2, <2>2, <2>6, <2>7
  <2>5. CASE Leave(p)
    BY <2>2, <2>5, <2>6, <2>7 DEF Genesis
  <2>. QED  BY <2>3, <2>4, <2>5
<1>5. ASSUME NEW p \in Trails, WriteAnchor(p) PROVE TypeOK'
  <2>1. SignAnchor(p, mine[p]) /\ Resolve(p) /\ mine[p] \in Nat
    BY <1>5 DEF WriteAnchor
  <2>2. /\ anchor' \in [head : Nat, key : Nat] /\ causes' \subseteq Mishap
        /\ held' \in [Trails -> Nat \union {Unresolved}]
    BY <1>k, <1>s, <2>1
  <2>3. /\ lock' = None /\ pc' = [pc EXCEPT ![p] = "check"]
        /\ UNCHANGED <<log, rotated, junk, garbled, torn, key, clock, issued, cache, mine, target,
                       lastWriter, returned, faults>>
    BY <1>5 DEF WriteAnchor
  <2>. QED  BY <2>2, <2>3
<1>6. ASSUME NEW p \in Trails, WriteAnchorFails(p) PROVE TypeOK'
  BY <1>6, <1>k DEF WriteAnchorFails
<1>7. ASSUME NEW p \in Trails, AfterAppend(p) PROVE TypeOK'
  <2>1. cache' \in [Trails -> Nat] /\ mine' \in [Trails -> Nat] /\ returned' \subseteq Nat
    <3>1. /\ cache' = [cache EXCEPT ![p] = mine[p]]
          /\ mine' = [mine EXCEPT ![p] = 0]
          /\ returned' = returned \union {mine[p]}
      BY <1>7 DEF AfterAppend, Genesis
    <3>. QED  BY <3>1
  <2>0. UNCHANGED <<files, keys, lock, clock, issued, lastWriter, causes, faults>>
    BY <1>7 DEF AfterAppend
  <2>2. BeginRotation(p) \/ (Goto(p, "idle") /\ UNCHANGED target)
    BY <1>7 DEF AfterAppend
  <2>. QED  BY <2>0, <2>1, <2>2
<1>8. ASSUME NEW p \in Trails, RotateCalled(p) PROVE TypeOK'
  BY <1>8 DEF RotateCalled
<1>9. ASSUME NEW p \in Trails, Move(p) PROVE TypeOK'
  <2>1. target[p] \in Nat \ {0}
    BY <1>9 DEF Move, FilesOrdered
  <2>2. Renamed(target[p]) \subseteq Entry
    BY <2>1 DEF Renamed, Entry, Place
  <2>3. junk' \subseteq Place /\ garbled' \subseteq Place /\ torn' \in BOOLEAN
    BY <1>9, <2>1 DEF Move, Place, Followed
  <2>4. log' \subseteq Entry /\ rotated' \subseteq Nat \ {0} /\ causes' \subseteq Mishap
    BY <1>9, <2>1, <2>2 DEF Move
  <2>5. pc' = [pc EXCEPT ![p] = "cleanup"] \/ pc' = [pc EXCEPT ![p] = "idle"]
    BY <1>9 DEF Move
  <2>6. /\ target' = [target EXCEPT ![p] = 0]
        /\ UNCHANGED <<anchor, keys, lock, clock, issued, cache, mine, lastWriter, returned, faults>>
    BY <1>9 DEF Move
  <2>. QED  BY <2>3, <2>4, <2>5, <2>6
<1>10. ASSUME NEW p \in Trails, Cleanup(p) PROVE TypeOK'
  BY <1>10 DEF Cleanup
<1>11. ASSUME NEW p \in Trails, Reanchor(p) PROVE TypeOK'
  <2>1. held' \in [Trails -> Nat \union {Unresolved}]
    BY <1>11, <1>k DEF Reanchor
  <2>2. anchor' \in [head : Nat, key : Nat] /\ causes' \subseteq Mishap /\ faults' \in Nat
    <3>1. CASE SignAnchor(p, Head) /\ UNCHANGED faults
      BY <3>1, <1>s, <1>h DEF Head
    <3>2. CASE /\ \E f \in rotated \union {Active} :
                    anchor' = [head |-> HashOfLast({e \in log : e.file # f}), key |-> KeyOf(p)]
               /\ causes' = causes \union {"unanchored"} /\ faults' = faults + 1
      <4>1. PICK f \in rotated \union {Active} :
                    anchor' = [head |-> HashOfLast({e \in log : e.file # f}), key |-> KeyOf(p)]
        BY <3>2
      <4>2. HashOfLast({e \in log : e.file # f}) \in Nat
        BY HashOfLastType
      <4>. QED  BY <3>2, <4>1, <4>2, <1>y
    <3>. QED  BY <1>11, <3>1, <3>2 DEF Reanchor
  <2>3. UNCHANGED <<log, rotated, junk, garbled, torn, key, lock, clock, issued, pc, cache, mine,
                    target, lastWriter, returned>>
    BY <1>11 DEF Reanchor
  <2>. QED  BY <2>1, <2>2, <2>3
<1>16. ASSUME NEW p \in Trails, Verify(p) PROVE TypeOK'
  BY <1>16, <1>k DEF Verify
<1>17. CASE ChangeKey
  BY <1>17 DEF ChangeKey
<1>12. ASSUME NEW p \in Trails, Drop(p) PROVE TypeOK'
  BY <1>12 DEF Drop, Genesis
<1>13. ASSUME NEW p \in Trails, Crash(p) PROVE TypeOK'
  BY <1>13 DEF Crash, Genesis
<1>14. CASE UNCHANGED vars
  BY <1>14 DEF vars
<1>. QED  BY <1>1, <1>2, <1>3, <1>4, <1>5, <1>6, <1>7, <1>8, <1>9, <1>10, <1>11, <1>12, <1>13, <1>14,
             <1>15, <1>16, <1>17
          DEF Next, Call, Continue, Fail

-----------------------------------------------------------------------------
(* The order of hashes and names.                                          *)

LEMMA OrderedStep == TypeOK /\ FilesOrdered /\ [Next]_vars => FilesOrdered'
<1>. SUFFICES ASSUME TypeOK, FilesOrdered, [Next]_vars PROVE FilesOrdered'
  OBVIOUS
<1>. USE DEF TypeOK, FilesOrdered, files, keys, Entry, Place, Goto
<1>1. CASE Tick
  BY <1>1 DEF Tick
<1>2. ASSUME NEW p \in Trails, NEW ok \in BOOLEAN, Create(p, ok) PROVE FilesOrdered'
  BY <1>2 DEF Create
<1>e. ASSUME NEW p \in Trails, NEW ok \in BOOLEAN, Enter(p, ok)
      PROVE  /\ \A e \in log' : e.hash <= issued' /\ e.file <= clock' /\ e.file \in rotated' \union {Active}
             /\ \A d, e \in log' : d.hash = e.hash => d = e
             /\ UNCHANGED <<rotated, clock, target>>
  BY <1>e DEF Enter, Active
<1>3. ASSUME NEW p \in Trails, NEW ok \in BOOLEAN, Append(p, ok) PROVE FilesOrdered'
  <2>1. Enter(p, ok) /\ pc' = [pc EXCEPT ![p] = "anchor"]
    BY <1>3 DEF Append
  <2>2. UNCHANGED <<rotated, clock, target>>
    BY <1>e, <2>1
  <2>3. \A q \in Trails : target'[q] <= clock' /\ (pc'[q] = "move" => target'[q] > 0)
    BY <2>1, <2>2
  <2>. QED  BY <1>e, <2>1, <2>2, <2>3
<1>15. ASSUME NEW p \in Trails, AppendUnsynced(p) PROVE FilesOrdered'
  <2>1. Enter(p, TRUE) /\ pc' = pc
    BY <1>15 DEF AppendUnsynced
  <2>2. UNCHANGED <<rotated, clock, target>>
    BY <1>e, <2>1
  <2>. QED  BY <1>e, <2>1, <2>2
<1>4. ASSUME NEW p \in Trails, TornAppend(p) PROVE FilesOrdered'
  <2>1. UNCHANGED <<log, rotated, clock, issued>>
    BY <1>4 DEF TornAppend
  <2>2. \/ UNCHANGED <<pc, target>>
        \/ pc' = [pc EXCEPT ![p] = "down"] /\ target' = [target EXCEPT ![p] = 0]
    BY <1>4 DEF TornAppend, Leave
  <2>. QED  BY <2>1, <2>2
<1>5. ASSUME NEW p \in Trails, WriteAnchor(p) PROVE FilesOrdered'
  BY <1>5 DEF WriteAnchor
<1>6. ASSUME NEW p \in Trails, WriteAnchorFails(p) PROVE FilesOrdered'
  BY <1>6 DEF WriteAnchorFails
<1>7. ASSUME NEW p \in Trails, AfterAppend(p) PROVE FilesOrdered'
  <2>1. UNCHANGED <<log, rotated, clock, issued>>
    BY <1>7 DEF AfterAppend
  <2>2. BeginRotation(p) \/ (Goto(p, "idle") /\ UNCHANGED target)
    BY <1>7 DEF AfterAppend
  <2>. QED  BY <2>1, <2>2 DEF BeginRotation
<1>8. ASSUME NEW p \in Trails, RotateCalled(p) PROVE FilesOrdered'
  BY <1>8 DEF RotateCalled, BeginRotation
<1>9. ASSUME NEW p \in Trails, Move(p) PROVE FilesOrdered'
  <2>1. CASE ActiveExists
    <3>1. /\ log' = Renamed(target[p]) /\ rotated' = rotated \union {target[p]}
          /\ target' = [target EXCEPT ![p] = 0] /\ pc' = [pc EXCEPT ![p] = "cleanup"]
          /\ UNCHANGED <<clock, issued>>
      BY <1>9, <2>1 DEF Move
    <3>2. \A e \in log' : \E d \in log : /\ e.hash = d.hash
                                         /\ e = IF d.file = Active THEN [d EXCEPT !.file = target[p]] ELSE d
      BY <3>1 DEF Renamed
    <3>3. \A e \in log' : e.hash <= issued /\ e.file <= clock /\ e.file \in rotated' \union {Active}
      BY <3>1, <3>2
    <3>4. \A d, e \in log' : d.hash = e.hash => d = e
      BY <3>2
    <3>. QED  BY <3>1, <3>3, <3>4
  <2>2. CASE ~ActiveExists
    <3>1. UNCHANGED <<log, rotated, clock, issued>>
      BY <1>9, <2>2 DEF Move
    <3>2. target' = [target EXCEPT ![p] = 0] /\ pc' = [pc EXCEPT ![p] = "idle"]
      BY <1>9, <2>2 DEF Move
    <3>. QED  BY <3>1, <3>2
  <2>. QED  BY <2>1, <2>2
<1>10. ASSUME NEW p \in Trails, Cleanup(p) PROVE FilesOrdered'
  <2>1. log' \subseteq log /\ rotated' \subseteq rotated
    BY <1>10 DEF Cleanup
  <2>2. \A e \in log' : e.file \in rotated' \union {Active}
    BY <1>10 DEF Cleanup
  <2>3. UNCHANGED <<clock, issued, target>> /\ pc' = [pc EXCEPT ![p] = "idle"]
    BY <1>10 DEF Cleanup
  <2>. QED  BY <2>1, <2>2, <2>3
<1>11. ASSUME NEW p \in Trails, Reanchor(p) PROVE FilesOrdered'
  BY <1>11 DEF Reanchor
<1>16. ASSUME NEW p \in Trails, Verify(p) PROVE FilesOrdered'
  BY <1>16 DEF Verify
<1>17. CASE ChangeKey
  BY <1>17 DEF ChangeKey
<1>12. ASSUME NEW p \in Trails, Drop(p) PROVE FilesOrdered'
  BY <1>12 DEF Drop, Leave
<1>13. ASSUME NEW p \in Trails, Crash(p) PROVE FilesOrdered'
  BY <1>13 DEF Crash, Leave
<1>14. CASE UNCHANGED vars
  BY <1>14 DEF vars
<1>. QED  BY <1>1, <1>2, <1>3, <1>4, <1>5, <1>6, <1>7, <1>8, <1>9, <1>10, <1>11, <1>12, <1>13, <1>14,
             <1>15, <1>16, <1>17
          DEF Next, Call, Continue, Fail

-----------------------------------------------------------------------------
(* The chain inside a file.                                                *)

\* Only appending, moving and pruning touch the lines on disk.
LEMMA LogSteps ==
  ASSUME [Next]_vars
  PROVE  \/ log' = log
         \/ \E p \in Trails : Move(p) \/ Cleanup(p) \/ \E ok \in BOOLEAN :
              Enter(p, ok) /\ causes' \in {causes \union Broken(p, ok),
                                          causes \union Broken(p, ok) \union {"unanchored"}}
BY DEF Next, Call, Continue, Fail, vars, files, Tick, ChangeKey, Create, Append, AppendUnsynced,
       TornAppend, WriteAnchor, WriteAnchorFails, AfterAppend, RotateCalled, Reanchor, Verify,
       Drop, Crash

\* A mishap is never forgotten, except that an anchor can be made good.
LEMMA CausesKept == ASSUME TypeOK, [Next]_vars PROVE causes \subseteq causes' \union {"unanchored"}
BY DEF Next, Call, Continue, Fail, vars, files, Tick, ChangeKey, Create, Append, AppendUnsynced,
       TornAppend, WriteAnchor, WriteAnchorFails, SignAnchor, AfterAppend, RotateCalled, Move,
       Cleanup, Reanchor, Verify, Drop, Crash

\* An appended line links to the last line of the active file, which is read
\* under the file lock; renaming and deleting move whole files.
LEMMA LinksStep == TypeOK /\ FilesOrdered /\ LinksInFile /\ [Next]_vars => LinksInFile'
<1>. SUFFICES ASSUME TypeOK, FilesOrdered, LinksInFile, [Next]_vars, "unread" \notin causes'
              PROVE LinksInFile'
  BY DEF LinksInFile
<1>u. "unread" \notin causes
  BY CausesKept
<1>. USE DEF Entry, Place
<1>0. log \subseteq Entry /\ issued \in Nat /\ \A e \in log : e.hash <= issued
  BY DEF TypeOK, FilesOrdered
<1>1. CASE log' = log
  BY <1>1, <1>u DEF LinksInFile
<1>2. ASSUME NEW p \in Trails, NEW ok \in BOOLEAN, Enter(p, ok),
             Broken(p, ok) \subseteq causes'
      PROVE  LinksInFile'
  <2>1. CASE torn
    BY <1>2, <2>1, <1>u DEF Enter, LinksInFile
  <2>2. CASE ~torn
    <3>. DEFINE new == [hash |-> issued + 1, prev |-> LinkOf(p, ok), file |-> Active]
    <3>1. log' = log \union {new} /\ new.hash = issued + 1 /\ new.file = Active /\ new.prev = LinkOf(p, ok)
      BY <1>2, <2>2 DEF Enter
    <3>2. \A c \in log : c.hash < new.hash
      BY <1>0, <3>1
    <3>3. ASSUME NEW e \in log, \E d \in log' : d.file = e.file /\ d.hash < e.hash
          PROVE  \E d \in log' : /\ d.file = e.file /\ d.hash < e.hash /\ e.prev = d.hash
                                 /\ \A c \in log' : c.file = e.file /\ c.hash < e.hash => c.hash <= d.hash
      <4>1. \E d \in log : d.file = e.file /\ d.hash < e.hash
        BY <3>1, <3>2, <3>3, <1>0
      <4>2. PICK d \in log : /\ d.file = e.file /\ d.hash < e.hash /\ e.prev = d.hash
                             /\ \A c \in log : c.file = e.file /\ c.hash < e.hash => c.hash <= d.hash
        BY <4>1, <1>u DEF LinksInFile
      <4>. QED  BY <3>1, <3>2, <4>2, <1>0
    <3>4. ASSUME \E d \in log' : d.file = Active /\ d.hash < new.hash
          PROVE  \E d \in log' : /\ d.file = Active /\ d.hash < new.hash /\ new.prev = d.hash
                                 /\ \A c \in log' : c.file = Active /\ c.hash < new.hash => c.hash <= d.hash
      <4>1. InActive # {}
        BY <3>1, <3>4, <1>0 DEF InActive
      <4>2. PICK d \in InActive : ActiveHead = d.hash /\ \A e \in InActive : e = d \/ Before(e, d)
        BY <4>1, HashOfLastCases DEF InActive, ActiveHead
      <4>3. \A c \in InActive : c.hash <= d.hash
        BY <4>2, <1>0 DEF Before, FileBefore, InActive
      <4>5. Readable(ok)
        BY <1>2 DEF Broken
      <4>4. new.prev = d.hash
        BY <3>1, <4>1, <4>2, <4>5 DEF LinkOf, HeadRead, ActiveExists
      <4>. QED  BY <3>1, <3>2, <4>3, <4>4, <1>0 DEF InActive
    <3>. HIDE DEF new
    <3>. QED  BY <3>1, <3>3, <3>4 DEF LinksInFile
  <2>. QED  BY <2>1, <2>2
<1>3. ASSUME NEW p \in Trails, Move(p) PROVE LinksInFile'
  <2>1. CASE ~ActiveExists
    BY <1>3, <2>1, <1>u DEF Move, LinksInFile
  <2>2. CASE ActiveExists
    <3>. DEFINE t == target[p]
                new(d) == IF d.file = Active THEN [d EXCEPT !.file = t] ELSE d
                kept == {d \in log : d.file # t}
    <3>1. log' = {new(d) : d \in kept}
      BY <1>3, <2>2 DEF Move, Renamed
    <3>2. \A d \in kept : new(d).hash = d.hash /\ new(d).prev = d.prev
      BY <1>0
    <3>3. \A c, d \in kept : new(c).file = new(d).file <=> c.file = d.file
      BY <1>0
    <3>. HIDE DEF new
    <3>4. ASSUME NEW e \in kept, \E d \in kept : new(d).file = new(e).file /\ new(d).hash < new(e).hash
          PROVE  \E d \in kept : /\ new(d).file = new(e).file /\ new(d).hash < new(e).hash /\ new(e).prev = new(d).hash
                                 /\ \A c \in kept : new(c).file = new(e).file /\ new(c).hash < new(e).hash => new(c).hash <= new(d).hash
      <4>1. PICK d \in log : /\ d.file = e.file /\ d.hash < e.hash /\ e.prev = d.hash
                             /\ \A c \in log : c.file = e.file /\ c.hash < e.hash => c.hash <= d.hash
        BY <3>2, <3>3, <3>4, <1>u DEF LinksInFile
      <4>2. d \in kept
        BY <4>1
      <4>. QED  BY <4>1, <4>2, <3>2, <3>3
    <3>. QED  BY <3>1, <3>4 DEF LinksInFile
  <2>. QED  BY <2>1, <2>2
<1>4. ASSUME NEW p \in Trails, Cleanup(p) PROVE LinksInFile'
  <2>1. log' = {e \in log : e.file \notin Excess}
    BY <1>4 DEF Cleanup
  <2>. QED  BY <2>1, <1>u DEF LinksInFile
<1>. QED  BY <1>1, <1>2, <1>3, <1>4, LogSteps

-----------------------------------------------------------------------------
(* The critical section of log().                                          *)

LEMMA LockStep == TypeOK /\ LockDiscipline /\ [Next]_vars => LockDiscipline'
<1>. SUFFICES ASSUME TypeOK, LockDiscipline, [Next]_vars PROVE LockDiscipline'
  OBVIOUS
<1>. USE TrailsAssumption DEF TypeOK, LockDiscipline, files, keys, Goto
<1>1. CASE Tick
  BY <1>1 DEF Tick
<1>2. ASSUME NEW p \in Trails, NEW ok \in BOOLEAN, Create(p, ok) PROVE LockDiscipline'
  BY <1>2 DEF Create
<1>3. ASSUME NEW p \in Trails, NEW ok \in BOOLEAN, Append(p, ok) PROVE LockDiscipline'
  <2>1. /\ lock = None /\ lock' = p /\ issued' = issued + 1 /\ UNCHANGED returned
        /\ mine' = [mine EXCEPT ![p] = issued + 1] /\ pc' = [pc EXCEPT ![p] = "anchor"]
    BY <1>3 DEF Append, Enter
  <2>. QED  BY <2>1
<1>15. ASSUME NEW p \in Trails, AppendUnsynced(p) PROVE LockDiscipline'
  <2>1. pc[p] = "idle" /\ lock = None /\ issued' = issued + 1 /\ UNCHANGED <<lock, pc, mine, returned>>
    BY <1>15 DEF AppendUnsynced, Enter
  <2>2. \A q \in Trails : pc[q] # "anchor"
    BY <2>1
  <2>. QED  BY <2>1, <2>2
<1>4. ASSUME NEW p \in Trails, TornAppend(p) PROVE LockDiscipline'
  <2>1. pc[p] = "idle" /\ lock = None /\ UNCHANGED <<issued, returned>>
    BY <1>4 DEF TornAppend
  <2>2. UNCHANGED <<lock, pc, mine>> \/ Leave(p)
    BY <1>4 DEF TornAppend
  <2>. QED  BY <2>1, <2>2 DEF Leave
<1>5. ASSUME NEW p \in Trails, WriteAnchor(p) PROVE LockDiscipline'
  BY <1>5 DEF WriteAnchor
<1>6. ASSUME NEW p \in Trails, WriteAnchorFails(p) PROVE LockDiscipline'
  BY <1>6 DEF WriteAnchorFails
<1>7. ASSUME NEW p \in Trails, AfterAppend(p) PROVE LockDiscipline'
  <2>1. /\ pc[p] = "check" /\ mine' = [mine EXCEPT ![p] = 0]
        /\ returned' = returned \union {mine[p]} /\ UNCHANGED <<lock, issued>>
    BY <1>7 DEF AfterAppend, Genesis
  <2>2. pc' = [pc EXCEPT ![p] = "move"] \/ pc' = [pc EXCEPT ![p] = "idle"]
    BY <1>7 DEF AfterAppend, BeginRotation
  <2>. QED  BY <2>1, <2>2
<1>8. ASSUME NEW p \in Trails, RotateCalled(p) PROVE LockDiscipline'
  BY <1>8 DEF RotateCalled, BeginRotation
<1>9. ASSUME NEW p \in Trails, Move(p) PROVE LockDiscipline'
  <2>1. pc[p] = "move" /\ UNCHANGED <<lock, issued, mine, returned>>
    BY <1>9 DEF Move
  <2>2. pc' = [pc EXCEPT ![p] = "cleanup"] \/ pc' = [pc EXCEPT ![p] = "idle"]
    BY <1>9 DEF Move
  <2>. QED  BY <2>1, <2>2
<1>10. ASSUME NEW p \in Trails, Cleanup(p) PROVE LockDiscipline'
  BY <1>10 DEF Cleanup
<1>11. ASSUME NEW p \in Trails, Reanchor(p) PROVE LockDiscipline'
  BY <1>11 DEF Reanchor
<1>16. ASSUME NEW p \in Trails, Verify(p) PROVE LockDiscipline'
  BY <1>16 DEF Verify
<1>17. CASE ChangeKey
  BY <1>17 DEF ChangeKey
<1>12. ASSUME NEW p \in Trails, Drop(p) PROVE LockDiscipline'
  BY <1>12 DEF Drop, Leave
<1>13. ASSUME NEW p \in Trails, Crash(p) PROVE LockDiscipline'
  BY <1>13 DEF Crash, Leave
<1>14. CASE UNCHANGED vars
  BY <1>14 DEF vars
<1>. QED  BY <1>1, <1>2, <1>3, <1>4, <1>5, <1>6, <1>7, <1>8, <1>9, <1>10, <1>11, <1>12, <1>13, <1>14,
             <1>15, <1>16, <1>17
          DEF Next, Call, Continue, Fail

LEMMA CacheStep ==
  TypeOK /\ FilesOrdered /\ LockDiscipline /\ CacheBounded /\ [Next]_vars => CacheBounded'
<1>. SUFFICES ASSUME TypeOK, FilesOrdered, LockDiscipline, CacheBounded, [Next]_vars
              PROVE CacheBounded'
  OBVIOUS
<1>. USE DEF TypeOK, CacheBounded, files
<1>1. issued' \in Nat /\ issued <= issued'
  <2>1. issued' = issued \/ issued' = issued + 1
    BY DEF Next, Call, Continue, Fail, vars, Tick, ChangeKey, Create, Append, AppendUnsynced, Enter,
           TornAppend, WriteAnchor, WriteAnchorFails, AfterAppend, RotateCalled, Move, Cleanup, Reanchor,
           Verify, Drop, Crash
  <2>. QED  BY <2>1
<1>2. \A ok \in BOOLEAN : HeadRead(ok) <= issued /\ HeadRead(ok) \in Nat
  BY LinkType
<1>3. \A p \in Trails, ok \in BOOLEAN : LinkOf(p, ok) <= issued /\ LinkOf(p, ok) \in Nat
  BY LinkType
<1>4. \/ UNCHANGED cache
      \/ \E p \in Trails, h \in Nat : h <= issued /\ cache' = [cache EXCEPT ![p] = h]
  <2>1. ASSUME NEW p \in Trails, NEW ok \in BOOLEAN, Create(p, ok) PROVE \E h \in Nat : h <= issued /\ cache' = [cache EXCEPT ![p] = h]
    BY <2>1, <1>2 DEF Create
  <2>2. ASSUME NEW p \in Trails, NEW ok \in BOOLEAN, Enter(p, ok) PROVE \E h \in Nat : h <= issued /\ cache' = [cache EXCEPT ![p] = h]
    BY <2>2, <1>3 DEF Enter
  <2>3. ASSUME NEW p \in Trails, Leave(p) PROVE \E h \in Nat : h <= issued /\ cache' = [cache EXCEPT ![p] = h]
    <3>1. cache' = [cache EXCEPT ![p] = 0]
      BY <2>3 DEF Leave, Genesis
    <3>2. 0 \in Nat /\ 0 <= issued
      OBVIOUS
    <3>. QED  BY <3>1, <3>2, Zenon
  <2>4. ASSUME NEW p \in Trails, TornAppend(p) PROVE \E h \in Nat : h <= issued /\ cache' = [cache EXCEPT ![p] = h]
    <3>1. cache' = [cache EXCEPT ![p] = LinkOf(p, TRUE)] \/ Leave(p)
      BY <2>4 DEF TornAppend
    <3>. QED  BY <3>1, <2>3, <1>3
  <2>5. ASSUME NEW p \in Trails, AfterAppend(p) PROVE \E h \in Nat : h <= issued /\ cache' = [cache EXCEPT ![p] = h]
    <3>1. mine[p] \in 1..issued
      BY <2>5 DEF AfterAppend, LockDiscipline
    <3>2. cache' = [cache EXCEPT ![p] = mine[p]]
      BY <2>5 DEF AfterAppend
    <3>3. mine[p] \in Nat /\ mine[p] <= issued
      BY <3>1
    <3>. QED  BY <3>2, <3>3, Zenon
  <2>6. \/ UNCHANGED cache
        \/ \E p \in Trails : \/ \E ok \in BOOLEAN : Create(p, ok) \/ Enter(p, ok)
                             \/ Leave(p) \/ TornAppend(p) \/ AfterAppend(p)
    <3>1. ASSUME NEW p \in Trails, Fail(p) PROVE Enter(p, TRUE) \/ Leave(p) \/ TornAppend(p)
      BY <3>1 DEF Fail, AppendUnsynced, Drop, Crash
    <3>2. ASSUME NEW p \in Trails, Continue(p) PROVE UNCHANGED cache \/ AfterAppend(p)
      BY <3>2 DEF Continue, WriteAnchor, WriteAnchorFails, Move, Cleanup
    <3>3. ASSUME NEW p \in Trails, Call(p)
          PROVE  UNCHANGED cache \/ \E ok \in BOOLEAN : Create(p, ok) \/ Enter(p, ok)
      BY <3>3 DEF Call, Append, RotateCalled, Reanchor, Verify
    <3>4. UNCHANGED cache \/ \E p \in Trails : Fail(p) \/ Continue(p) \/ Call(p)
      BY DEF Next, Tick, ChangeKey, vars
    <3>. QED  BY <3>1, <3>2, <3>3, <3>4
  <2>. QED  BY <2>1, <2>2, <2>3, <2>4, <2>5, <2>6
<1>5. CASE UNCHANGED cache
  BY <1>1, <1>5
<1>6. ASSUME NEW p \in Trails, NEW h \in Nat, h <= issued, cache' = [cache EXCEPT ![p] = h]
      PROVE  CacheBounded'
  BY <1>1, <1>6
<1>. QED  BY <1>4, <1>5, <1>6

-----------------------------------------------------------------------------
(* Completeness of the files while nothing tears, overwrites or prunes.    *)

Undamaged == causes \intersect {"torn", "clash", "pruned"} = {}

\* The head of a complete, ordered log is the newest hash.
LEMMA HeadIsNewest ==
  ASSUME TypeOK, FilesOrdered, Complete, Undamaged
  PROVE  Head = issued
<1>. USE DEF Complete, Undamaged, Genesis
<1>. log \subseteq Entry /\ issued \in Nat /\ \A e \in log : e.hash <= issued
  BY DEF TypeOK, FilesOrdered
<1>1. CASE issued = 0
  <2>1. log = {}
    BY <1>1 DEF Entry
  <2>. QED  BY <1>1, <2>1 DEF Head, HashOfLast
<1>2. CASE issued # 0
  <2>1. PICK d \in log : d.hash = issued
    BY <1>2
  <2>2. \A e \in log : e = d \/ Before(e, d)
    BY <2>1 DEF Entry, FilesOrdered
  <2>. QED  BY <2>1, <2>2, HashOfLastIs DEF Head
<1>. QED  BY <1>1, <1>2

LEMMA CompleteStep ==
  TypeOK /\ FilesOrdered /\ LockDiscipline /\ Complete /\ [Next]_vars => Complete'
<1>. SUFFICES ASSUME TypeOK, FilesOrdered, LockDiscipline, Complete, [Next]_vars, Undamaged'
              PROVE  /\ junk' = {} /\ torn' = FALSE
                     /\ \A h \in 1..issued' : \E e \in log' : e.hash = h
                     /\ \A d, e \in log' : d.hash < e.hash => Before(d, e)
                     /\ WriterKnowsHead'
                     /\ lock' = None /\ "unanchored" \notin causes' => anchor'.head = issued'
  BY DEF Complete, Undamaged, Before, FileBefore
<1>. DEFINE Goal == /\ junk' = {} /\ torn' = FALSE
                    /\ \A h \in 1..issued' : \E e \in log' : e.hash = h
                    /\ \A d, e \in log' : d.hash < e.hash => Before(d, e)
                    /\ WriterKnowsHead'
                    /\ lock' = None /\ "unanchored" \notin causes' => anchor'.head = issued'
<1>0. Undamaged
  BY CausesKept DEF Undamaged
<1>a. /\ junk = {} /\ torn = FALSE
      /\ \A h \in 1..issued : \E e \in log : e.hash = h
      /\ \A d, e \in log : d.hash < e.hash => Before(d, e)
      /\ WriterKnowsHead
      /\ lock = None /\ "unanchored" \notin causes => anchor.head = issued
  BY <1>0 DEF Complete, Undamaged
<1>b. pc \in [Trails -> {"down", "idle", "anchor", "check", "move", "cleanup"}]
      /\ cache \in [Trails -> Nat] /\ mine \in [Trails -> Nat] /\ issued \in Nat /\ log \subseteq Entry
  BY DEF TypeOK
<1>. USE TrailsAssumption DEF files, keys, Goto, WriterKnowsHead
<1>1. CASE Tick
  BY <1>1, <1>a DEF Tick
<1>2. ASSUME NEW p \in Trails, NEW ok \in BOOLEAN, Create(p, ok) PROVE Goal
  BY <1>2, <1>a, <1>b DEF Create
<1>e. ASSUME NEW p \in Trails, NEW ok \in BOOLEAN, Enter(p, ok)
      PROVE  /\ junk' = {} /\ torn' = FALSE /\ issued' = issued + 1 /\ anchor' = anchor
             /\ \A h \in 1..issued' : \E e \in log' : e.hash = h
             /\ \A d, e \in log' : d.hash < e.hash => Before(d, e)
  <2>. DEFINE new == [hash |-> issued + 1, prev |-> LinkOf(p, ok), file |-> Active]
  <2>1. log' = log \union {new} /\ issued' = issued + 1 /\ UNCHANGED <<junk, anchor>> /\ torn' = FALSE
    BY <1>e, <1>a DEF Enter
  <2>2. new.hash = issued + 1 /\ new.file = Active
    OBVIOUS
  <2>3. \A e \in log : e.hash <= issued /\ e.hash \in Nat
    BY <1>b DEF FilesOrdered, Entry
  <2>. HIDE DEF new
  <2>4. \A h \in 1..issued' : \E e \in log' : e.hash = h
    <3>. TAKE h \in 1..issued'
    <3>1. CASE h \in 1..issued
      BY <3>1, <2>1, <1>a
    <3>2. CASE h = issued + 1
      BY <3>2, <2>1, <2>2
    <3>. QED  BY <3>1, <3>2, <2>1, <1>b
  <2>5. \A d \in log : Before(d, new) /\ ~(new.hash < d.hash)
    BY <2>2, <2>3, <1>b DEF Before, FileBefore
  <2>6. \A d, e \in log' : d.hash < e.hash => Before(d, e)
    BY <2>1, <2>2, <2>5, <1>a, <1>b
  <2>. QED  BY <2>1, <2>4, <2>6, <1>a
<1>3. ASSUME NEW p \in Trails, NEW ok \in BOOLEAN, Append(p, ok) PROVE Goal
  <2>1. Enter(p, ok) /\ issued' = issued + 1 /\ lock' # None
    BY <1>3 DEF Append, Enter
  <2>2. WriterKnowsHead'
    BY <1>3, <2>1, <1>b DEF Append
  <2>. QED  BY <1>e, <2>1, <2>2
<1>15. ASSUME NEW p \in Trails, AppendUnsynced(p) PROVE Goal
  <2>1. Enter(p, TRUE) /\ lastWriter' = None /\ "unanchored" \in causes'
    BY <1>15 DEF AppendUnsynced
  <2>. QED  BY <1>e, <2>1
<1>4. ASSUME NEW p \in Trails, TornAppend(p) PROVE Goal
  BY <1>4 DEF TornAppend, Undamaged
<1>5. ASSUME NEW p \in Trails, WriteAnchor(p) PROVE Goal
  BY <1>5, <1>a, <1>b DEF WriteAnchor, SignAnchor, LockDiscipline
<1>6. ASSUME NEW p \in Trails, WriteAnchorFails(p) PROVE Goal
  BY <1>6, <1>a, <1>b DEF WriteAnchorFails
<1>7. ASSUME NEW p \in Trails, AfterAppend(p) PROVE Goal
  <2>1. /\ pc[p] = "check" /\ cache' = [cache EXCEPT ![p] = mine[p]] /\ mine' = [mine EXCEPT ![p] = Genesis]
        /\ UNCHANGED <<log, junk, torn, anchor, lock, issued, lastWriter, causes>>
    BY <1>7 DEF AfterAppend
  <2>2. pc' = [pc EXCEPT ![p] = "move"] \/ pc' = [pc EXCEPT ![p] = "idle"]
    BY <1>7 DEF AfterAppend, BeginRotation
  <2>3. WriterKnowsHead'
    BY <2>1, <2>2, <1>a, <1>b
  <2>. QED  BY <2>1, <2>3, <1>a DEF Before, FileBefore
<1>8. ASSUME NEW p \in Trails, RotateCalled(p) PROVE Goal
  BY <1>8, <1>a, <1>b DEF RotateCalled, BeginRotation
<1>9. ASSUME NEW p \in Trails, Move(p) PROVE Goal
  <2>1. /\ pc[p] = "move" /\ UNCHANGED <<anchor, lock, issued, cache, mine, lastWriter>>
        /\ causes \subseteq causes'
    BY <1>9 DEF Move
  <2>2. pc' = [pc EXCEPT ![p] = "cleanup"] \/ pc' = [pc EXCEPT ![p] = "idle"]
    BY <1>9 DEF Move
  <2>3. WriterKnowsHead'
    BY <2>1, <2>2, <1>a, <1>b
  <2>4. CASE ~ActiveExists
    BY <1>9, <2>1, <2>3, <2>4, <1>a DEF Move
  <2>5. CASE ActiveExists
    <3>. DEFINE t == target[p]
                new(d) == IF d.file = Active THEN [d EXCEPT !.file = t] ELSE d
    <3>1. log' = Renamed(t) /\ \A u \in rotated : ~(u >= t)
      BY <1>9, <2>5 DEF Move, Undamaged
    <3>2. junk' = {} /\ torn' = FALSE
      BY <1>9, <2>5, <1>a DEF Move, Followed
    <3>3. t \in Nat /\ t > 0 /\ t \notin rotated
      BY <2>1, <3>1 DEF TypeOK, FilesOrdered
    <3>4. \A d \in log : d.file # t /\ d.file \in Nat /\ d.hash \in Nat /\ (d.file # Active => d.file < t)
      BY <3>1, <3>3, <1>b DEF FilesOrdered, TypeOK, Entry, Place, Active
    <3>5. log' = {new(d) : d \in log}
      BY <3>1, <3>4 DEF Renamed
    <3>6. \A d \in log : new(d).hash = d.hash /\ new(d).file = IF d.file = Active THEN t ELSE d.file
      BY <1>b DEF Entry
    <3>. HIDE DEF new
    <3>7. \A d, e \in log : Before(d, e) => Before(new(d), new(e))
      BY <3>3, <3>4, <3>6 DEF Before, FileBefore, Active
    <3>8. \A h \in 1..issued' : \E e \in log' : e.hash = h
      BY <2>1, <3>5, <3>6, <1>a
    <3>9. \A d, e \in log' : d.hash < e.hash => Before(d, e)
      BY <3>5, <3>6, <3>7, <1>a
    <3>. QED  BY <2>1, <2>3, <3>2, <3>8, <3>9, <1>a
  <2>. QED  BY <2>4, <2>5
<1>10. ASSUME NEW p \in Trails, Cleanup(p) PROVE Goal
  <2>1. Excess = {}
    BY <1>10 DEF Cleanup, Undamaged
  <2>2. UNCHANGED <<log, junk, torn, anchor, lock, issued, cache, mine, lastWriter, causes>>
    BY <1>10, <2>1 DEF Cleanup
  <2>3. pc[p] = "cleanup" /\ pc' = [pc EXCEPT ![p] = "idle"]
    BY <1>10 DEF Cleanup
  <2>. QED  BY <2>2, <2>3, <1>a, <1>b DEF Before, FileBefore
<1>11. ASSUME NEW p \in Trails, Reanchor(p) PROVE Goal
  BY <1>11, <1>a, <1>0, HeadIsNewest DEF Reanchor, SignAnchor
<1>16. ASSUME NEW p \in Trails, Verify(p) PROVE Goal
  BY <1>16, <1>a DEF Verify, Before, FileBefore
<1>17. CASE ChangeKey
  BY <1>17, <1>a DEF ChangeKey, Before, FileBefore
<1>12. ASSUME NEW p \in Trails, Drop(p) PROVE Goal
  <2>1. lock # p
    BY <1>12 DEF Drop, LockDiscipline
  <2>. QED  BY <1>12, <2>1, <1>a, <1>b DEF Drop, Leave
<1>13. ASSUME NEW p \in Trails, Crash(p) PROVE Goal
  <2>1. lock = p => "unanchored" \in causes'
    BY <1>13 DEF Crash, LockDiscipline
  <2>2. WriterKnowsHead'
    BY <1>13, <1>a, <1>b DEF Crash, Leave
  <2>3. UNCHANGED <<files, issued>> /\ causes \subseteq causes' /\ (lock' # lock => lock = p)
    BY <1>13 DEF Crash, Leave
  <2>. QED  BY <2>1, <2>2, <2>3, <1>a
<1>14. CASE UNCHANGED vars
  BY <1>14, <1>a DEF vars
<1>. QED  BY <1>1, <1>2, <1>3, <1>4, <1>5, <1>6, <1>7, <1>8, <1>9, <1>10, <1>11, <1>12, <1>13, <1>14,
             <1>15, <1>16, <1>17
          DEF Next, Call, Continue, Fail

-----------------------------------------------------------------------------
(* The chain across files.                                                 *)

LEMMA ChainedStep ==
  TypeOK /\ FilesOrdered /\ CacheBounded /\ Complete /\ Chained /\ [Next]_vars => Chained'
<1>. SUFFICES ASSUME TypeOK, FilesOrdered, CacheBounded, Complete, Chained, [Next]_vars,
                     causes' \intersect {"torn", "stale", "clash", "pruned", "unread"} = {}
              PROVE  \A e \in log' : e.prev = e.hash - 1
  BY DEF Chained
<1>0. /\ Undamaged /\ causes \intersect {"stale", "unread"} = {}
      /\ \A e \in log : e.prev = e.hash - 1
  BY CausesKept DEF Undamaged, Chained
<1>a. log \subseteq Entry /\ issued \in Nat /\ cache \in [Trails -> Nat]
  BY DEF TypeOK
<1>1. CASE log' = log
  BY <1>0, <1>1
<1>2. ASSUME NEW p \in Trails, NEW ok \in BOOLEAN, Enter(p, ok), Broken(p, ok) \subseteq causes'
      PROVE  \A e \in log' : e.prev = e.hash - 1
  <2>1. LinkOf(p, ok) = issued
    <3>1. CASE ActiveExists
      <4>1. InActive # {} /\ issued # 0
        <5>1. InActive # {}
          BY <3>1, <1>0 DEF ActiveExists, Complete, Undamaged
        <5>. QED  BY <5>1, <1>a DEF InActive, FilesOrdered, Entry
      <4>2. PICK d \in InActive : ActiveHead = d.hash /\ \A e \in InActive : e = d \/ Before(e, d)
        BY <4>1, HashOfLastCases DEF InActive, ActiveHead
      <4>3. PICK e \in log : e.hash = issued
        BY <4>1, <1>0, <1>a DEF Complete, Undamaged
      <4>4. d \in log /\ d.file = Active /\ d.hash <= issued /\ d.hash \in Nat
        BY <1>a DEF InActive, FilesOrdered, Entry
      <4>5. CASE d.hash < e.hash
        <5>1. Before(d, e)
          BY <4>4, <4>5, <1>0 DEF Complete, Undamaged
        <5>2. e \in InActive
          BY <5>1, <4>4 DEF Before, FileBefore, InActive
        <5>3. e = d \/ Before(e, d)
          BY <5>2, <4>2
        <5>. QED  BY <5>1, <5>3, <4>3, <4>4, <4>5, <1>a DEF Before, FileBefore
      <4>6. CASE ~(d.hash < e.hash)
        <5>1. d.hash = issued
          BY <4>3, <4>4, <4>6, <1>a
        <5>2. Readable(ok)
          BY <1>2 DEF Broken
        <5>. QED  BY <5>1, <5>2, <4>2, <3>1 DEF LinkOf, HeadRead
      <4>. QED  BY <4>5, <4>6
    <3>2. CASE ~ActiveExists
      <4>1. issued = 0 \/ lastWriter = p
        <5>1. "stale" \notin causes'
          OBVIOUS
        <5>2. ~ActiveExists /\ issued > 0 /\ lastWriter # p => "stale" \in causes'
          BY <1>2 DEF Broken
        <5>. QED  BY <5>1, <5>2, <3>2, <1>a
      <4>2. pc[p] = "idle"
        BY <1>2 DEF Enter
      <4>3. cache[p] = issued
        BY <4>1, <4>2, <1>0, <1>a DEF Complete, Undamaged, WriterKnowsHead, CacheBounded
      <4>. QED  BY <4>3, <3>2 DEF LinkOf
    <3>. QED  BY <3>1, <3>2
  <2>2. \A e \in log' : e \in log \/ e = [hash |-> issued + 1, prev |-> LinkOf(p, ok), file |-> Active]
    BY <1>2 DEF Enter
  <2>. QED  BY <2>1, <2>2, <1>0, <1>a
<1>3. ASSUME NEW p \in Trails, Move(p) PROVE \A e \in log' : e.prev = e.hash - 1
  <2>1. log' = log \/ log' = Renamed(target[p])
    BY <1>3 DEF Move
  <2>. QED  BY <2>1, <1>0, <1>a DEF Renamed, Entry
<1>4. ASSUME NEW p \in Trails, Cleanup(p) PROVE \A e \in log' : e.prev = e.hash - 1
  BY <1>4, <1>0 DEF Cleanup
<1>. QED  BY <1>1, <1>2, <1>3, <1>4, LogSteps

-----------------------------------------------------------------------------
(* Theorems.                                                               *)

LEMMA SignedStep == TypeOK /\ AnchorSigned /\ [Next]_vars => AnchorSigned'
<1>. SUFFICES ASSUME TypeOK, AnchorSigned, [Next]_vars PROVE AnchorSigned'
  OBVIOUS
<1>1. \/ UNCHANGED anchor
      \/ \E p \in Trails : SignAnchor(p, mine[p]) \/ Reanchor(p)
  BY DEF Next, Call, Continue, Fail, vars, files, Tick, ChangeKey, Create, Append, AppendUnsynced,
         Enter, TornAppend, WriteAnchor, WriteAnchorFails, AfterAppend, RotateCalled, Move, Cleanup,
         Verify, Drop, Crash
<1>2. UNCHANGED anchor \/ \E p \in Trails : anchor'.key = KeyOf(p) /\ KeyOf(p) # NoKey
  <2>1. ASSUME NEW p \in Trails, NEW h, SignAnchor(p, h)
        PROVE  UNCHANGED anchor \/ (anchor'.key = KeyOf(p) /\ KeyOf(p) # NoKey)
    BY <2>1 DEF SignAnchor
  <2>2. ASSUME NEW p \in Trails, Reanchor(p)
        PROVE  UNCHANGED anchor \/ (anchor'.key = KeyOf(p) /\ KeyOf(p) # NoKey)
    <3>1. CASE SignAnchor(p, Head)
      BY <2>1, <3>1
    <3>2. CASE /\ KeyOf(p) # NoKey
               /\ \E f \in rotated \union {Active} :
                    anchor' = [head |-> HashOfLast({e \in log : e.file # f}), key |-> KeyOf(p)]
      BY <3>2
    <3>. QED  BY <2>2, <3>1, <3>2 DEF Reanchor
  <2>. QED  BY <1>1, <2>1, <2>2
<1>. QED  BY <1>2 DEF AnchorSigned

\* The inductive invariant holds in every behaviour of the trail.
THEOREM Invariance == Spec => []IInv
<1>1. IInv /\ [Next]_vars => IInv'
  BY TypeStep, OrderedStep, LinksStep, LockStep, CacheStep, CompleteStep, ChainedStep, SignedStep DEF IInv
<1>. QED  BY InitInv, <1>1, PTL DEF Spec

\* The state of the files, the locks and the objects is always well typed.
THEOREM TypeCorrect == Spec => []TypeOK
<1>1. IInv => TypeOK
  BY DEF IInv
<1>. QED  BY Invariance, <1>1, PTL

\* Inside every file each line links to the line before it, whatever crashes,
\* tears, clashes, prunings and changes of the key have happened, unless an
\* append could not read the file (trail.py:349-364, 412-413).
THEOREM FilesAlwaysChained == Spec => []FilesChained
<1>1. IInv => FilesChained
  <2>. SUFFICES ASSUME IInv, "unread" \notin causes, NEW e \in log,
                       {d \in log : d.file = e.file /\ d.hash < e.hash} # {}
                PROVE  e.prev = HashOfLast({d \in log : d.file = e.file /\ d.hash < e.hash})
    BY DEF FilesChained
  <2>. DEFINE before == {d \in log : d.file = e.file /\ d.hash < e.hash}
  <2>1. PICK d \in before : e.prev = d.hash /\ \A c \in before : c.hash <= d.hash
    BY DEF IInv, LinksInFile
  <2>2. ASSUME NEW c \in before PROVE c = d \/ Before(c, d)
    <3>1. c.hash <= d.hash /\ c.hash \in Nat /\ d.hash \in Nat /\ c.file = d.file
      BY <2>1 DEF IInv, TypeOK, Entry
    <3>2. c.hash = d.hash => c = d
      BY DEF IInv, FilesOrdered
    <3>. QED  BY <3>1, <3>2 DEF Before
  <2>3. HashOfLast(before) = d.hash
    BY <2>2, HashOfLastIs DEF IInv
  <2>. QED  BY <2>1, <2>3
<1>. QED  BY Invariance, <1>1, PTL

\* The anchor names the newest entry whenever the lock is free, unless a
\* write was torn, a file overwritten or pruned, or the newest anchor lost.
THEOREM AnchorCorrect == Spec => []AnchorNamesHead
<1>1. IInv => AnchorNamesHead
  <2>. SUFFICES ASSUME IInv, lock = None,
                       causes \intersect {"torn", "clash", "pruned", "unanchored"} = {}
                PROVE  anchor.head = Head
    BY DEF AnchorNamesHead
  <2>1. Undamaged /\ "unanchored" \notin causes
    BY DEF Undamaged
  <2>2. anchor.head = issued
    BY <2>1 DEF IInv, Complete, Undamaged
  <2>. QED  BY <2>1, <2>2, HeadIsNewest DEF IInv
<1>. QED  BY Invariance, <1>1, PTL

\* verify_chain() of every object accepts every log that no mishap has
\* touched, unless the newest entry is not anchored under the object's key.
THEOREM VerificationComplete == Spec => []VerifiesUnlessMishap
<1>1. IInv => VerifiesUnlessMishap
  <2>. SUFFICES ASSUME IInv, lock = None, causes \subseteq {"unanchored"}, NEW p \in Trails,
                       KeyOf(p) # NoKey => "unanchored" \notin causes /\ anchor.key \in {KeyOf(p), NoKey}
                PROVE  VerifyChain(p)
    BY DEF VerifiesUnlessMishap
  <2>1. Undamaged /\ junk = {} /\ VerifyAnchor(KeyOf(p), Head)
    <3>1. Undamaged
      BY DEF Undamaged
    <3>2. "unanchored" \notin causes => anchor.head = Head
      BY <3>1, HeadIsNewest DEF IInv, Complete, Undamaged
    <3>3. anchor = [head |-> anchor.head, key |-> anchor.key]
      BY DEF IInv, TypeOK
    <3>4. anchor.key = NoKey => anchor = Missing /\ anchor.head = Genesis
      BY DEF IInv, AnchorSigned, Missing
    <3>5. VerifyAnchor(KeyOf(p), Head)
      <4>1. CASE KeyOf(p) = NoKey
        BY <4>1 DEF VerifyAnchor
      <4>2. CASE KeyOf(p) # NoKey /\ anchor.key = NoKey
        BY <4>2, <3>2, <3>4 DEF VerifyAnchor
      <4>3. CASE KeyOf(p) # NoKey /\ anchor.key = KeyOf(p)
        BY <4>3, <3>2, <3>3 DEF VerifyAnchor
      <4>. QED  BY <4>1, <4>2, <4>3
    <3>. QED  BY <3>1, <3>5 DEF IInv, Complete, Undamaged
  <2>2. ASSUME NEW e \in log PROVE Linked(e)
    <3>. DEFINE before == {d \in log : Before(d, e)}
    <3>0. e.prev = e.hash - 1 /\ e.hash \in Nat \ {0} /\ e.hash <= issued /\ issued \in Nat
      BY DEF IInv, Chained, TypeOK, Entry, FilesOrdered
    <3>a. \A c, d \in log : c.hash < d.hash => Before(c, d)
      BY <2>1 DEF IInv, Complete, Undamaged
    <3>b. \A c, d \in log : /\ c.hash \in Nat /\ d.hash \in Nat /\ (c.hash = d.hash => c = d)
                            /\ (Before(c, d) => ~Before(d, c) /\ c # d)
      BY DEF IInv, TypeOK, FilesOrdered, Entry, Place, Active, Before, FileBefore
    <3>1. \A d \in log : d \in before <=> d.hash < e.hash
      BY <3>a, <3>b
    <3>2. CASE e.hash = 1
      <4>1. before = {}
        BY <3>1, <3>2 DEF IInv, TypeOK, Entry
      <4>. QED  BY <3>0, <3>2, <4>1 DEF Linked, HashOfLast, Genesis
    <3>3. CASE e.hash # 1
      <4>1. e.hash - 1 \in 1..issued
        BY <3>0, <3>3
      <4>2. PICK d \in log : d.hash = e.hash - 1
        BY <4>1, <2>1 DEF IInv, Complete, Undamaged
      <4>3. d \in before
        BY <3>0, <3>1, <4>2
      <4>4. \A c \in before : c = d \/ Before(c, d)
        BY <3>0, <3>1, <3>a, <3>b, <4>2
      <4>5. HashOfLast(before) = d.hash
        BY <4>3, <4>4, HashOfLastIs DEF IInv
      <4>. QED  BY <3>0, <4>2, <4>5 DEF Linked
    <3>. QED  BY <3>2, <3>3
  <2>. QED  BY <2>1, <2>2 DEF VerifyChain
<1>. QED  BY Invariance, <1>1, PTL

\* No entry whose log() call returned is lost, unless a write was torn or a
\* file overwritten or pruned.
THEOREM ReturnedAlwaysDurable == Spec => []ReturnedIsDurable
<1>1. IInv => ReturnedIsDurable
  BY DEF IInv, ReturnedIsDurable, LockDiscipline, Complete
<1>. QED  BY Invariance, <1>1, PTL
=============================================================================

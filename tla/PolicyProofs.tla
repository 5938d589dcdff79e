---------------------------- MODULE PolicyProofs ----------------------------
(***************************************************************************)
(* Proofs about the policy engine and its hot-reload, for any files,       *)
(* policies, calls, threads and sizes of the cache.                        *)
(***************************************************************************)
EXTENDS PolicyReload, FiniteSetTheorems, SequenceTheorems, WellFoundedInduction, TLAPS

-----------------------------------------------------------------------------
(* The inductive invariant of the reload.                                  *)

\* Among policies ps is one that file f may hold.
Holds(ps, f) ==
  \E i \in 1..Len(ps) : \E r \in Rules[f] : \E j \in 1..Len(r) : r[j] = ps[i]

FilesTyped ==
  /\ disk \in [Files -> Content] /\ \A f \in Files : disk[f] \in ContentOf(f)
  /\ pending \subseteq Files /\ covered \subseteq Files
  /\ rules \in Seq(Policies) /\ loaded \in Nat

\* A covered file is there and not empty, and valid until the engine is built.
CoveredFiles ==
  \A f \in covered :
    /\ Exists(f)
    /\ disk[f].kind = "valid" => disk[f].rules # <<>>
    /\ Booting => disk[f].kind = "valid"

\* The first load passes no covered file over.
FirstLoad == w = "boot load" => \A f \in covered : f \in pending \/ Holds(rules, f)

\* A reload has counted the files it has loaded; all are still there unless one
\* disappeared meanwhile.
Counted(L) ==
  /\ loaded = Cardinality(L) /\ L \intersect pending = {}
  /\ \A f \in L : Exists(f)
  /\ \A f \in L \intersect covered : Holds(rules, f)

Reload == w = "load" /\ "uncounted" \notin causes => \E L \in SUBSET Files : Counted(L)

\* CoverageKept, with Holds.
Kept ==
  Built /\ "uncounted" \notin causes /\ "api" \notin causes => \A f \in covered : Holds(policies, f)

CoverageInv == FilesTyped /\ CoveredFiles /\ FirstLoad /\ Reload /\ Kept

-----------------------------------------------------------------------------
(* Lists of policies.                                                      *)

\* Every nonempty set of natural numbers has a least element.
LEMMA LeastNat ==
  ASSUME NEW S \in SUBSET Nat, S # {}
  PROVE  \E x \in S : \A y \in S : x <= y
<1>1. PICK x \in S : \A y \in S : <<y, x>> \notin OpToRel(<, Nat)
  BY WFMin, NatLessThanWellFounded
<1>2. ASSUME NEW y \in S PROVE ~(y < x)
  BY <1>1 DEF OpToRel
<1>. QED  BY <1>2

\* The empty list is one.
LEMMA EmptyList == <<>> \in Seq(Policies)
OBVIOUS

\* All sets of files are finite.
LEMMA FilesFinite == \A L \in SUBSET Files : IsFiniteSet(L) /\ Cardinality(L) \in Nat
<1>1. IsFiniteSet(Files)
  BY FileAssumption, FS_Interval DEF Files
<1>. QED  BY <1>1, FS_Subset, FS_CardinalityType

\* What a list holds it still holds with more policies behind.
LEMMA HoldsMore ==
  ASSUME NEW ps \in Seq(Policies), NEW qs \in Seq(Policies), NEW f \in Files, Holds(ps, f)
  PROVE  Holds(ps \o qs, f)
<1>1. PICK i \in 1..Len(ps) : \E r \in Rules[f] : \E j \in 1..Len(r) : r[j] = ps[i]
  BY DEF Holds
<1>2. i \in 1..Len(ps \o qs) /\ (ps \o qs)[i] = ps[i]
  OBVIOUS
<1>. QED  BY <1>1, <1>2 DEF Holds

\* A list with the policies of a version of the file, which is not empty, holds one.
LEMMA HoldsOwn ==
  ASSUME NEW ps \in Seq(Policies), NEW f \in Files, NEW r \in Rules[f], r # <<>>
  PROVE  Holds(ps \o r, f)
<1>1. r \in Seq(Policies)
  BY FileAssumption
<1>2. 1 \in 1..Len(r) /\ Len(ps) + 1 \in 1..Len(ps \o r) /\ (ps \o r)[Len(ps) + 1] = r[1]
  BY <1>1
<1>. QED  BY <1>2 DEF Holds

\* The content of a file is a list of policies, one of its versions if it is valid.
LEMMA ContentRules ==
  ASSUME NEW f \in Files, NEW c \in ContentOf(f)
  PROVE  c.rules \in Seq(Policies) /\ (c.kind = "valid" => c.rules \in Rules[f])
<1>1. Rules[f] \subseteq Seq(Policies)
  BY FileAssumption
<1>2. c.kind = "valid" => c.rules \in Rules[f]
  BY DEF ContentOf
<1>3. c.kind # "valid" => c.rules = <<>>
  BY DEF ContentOf, Content
<1>. QED  BY <1>1, <1>2, <1>3, EmptyList

\* A reload that has counted as many files as there are has loaded all of them.
LEMMA AllCounted ==
  ASSUME FilesTyped, NEW L \in SUBSET Files, Counted(L),
         loaded >= Cardinality({f \in Files : Exists(f)})
  PROVE  \A f \in Files : Exists(f) => f \in L
<1>. DEFINE there == {f \in Files : Exists(f)}
<1>2. IsFiniteSet(there) /\ IsFiniteSet(L)
  BY FilesFinite
<1>3. L \subseteq there
  BY DEF Counted
<1>4. Cardinality(L) \in Nat /\ Cardinality(there) \in Nat
  BY <1>2, FS_CardinalityType
<1>5. Cardinality(L) >= Cardinality(there)
  BY DEF Counted
<1>6. Cardinality(L) = Cardinality(there) => L = there
  BY <1>2, <1>3, FS_Subset
<1>7. Cardinality(L) <= Cardinality(there)
  BY <1>2, <1>3, FS_Subset
<1>. QED  BY <1>4, <1>5, <1>6, <1>7

-----------------------------------------------------------------------------
(* The steps.                                                              *)

LEMMA CoverageInit == Init => CoverageInv
<1>. SUFFICES ASSUME Init PROVE CoverageInv
  OBVIOUS
<1>2. FilesTyped
  BY EmptyList DEF Init, FilesTyped, ContentOf
<1>3. CoveredFiles
  BY DEF Init, CoveredFiles, Exists
<1>4. FirstLoad /\ Reload /\ Kept
  BY DEF Init, FirstLoad, Reload, Kept, Built
<1>. QED  BY <1>2, <1>3, <1>4 DEF CoverageInv

LEMMA EditStep ==
  ASSUME CoverageInv, NEW f \in Files, NEW c \in ContentOf(f), Edit(f, c)
  PROVE  CoverageInv'
<1>. USE DEF CoverageInv
<1>1. FilesTyped'
  BY DEF FilesTyped, Edit, ContentOf, watcher
<1>2. covered' \subseteq covered /\ (f \in covered' => Covers(c))
  BY DEF Edit
<1>3. CoveredFiles'
  <2>. SUFFICES ASSUME NEW g \in covered'
                PROVE  /\ Exists(g)' /\ (disk'[g].kind = "valid" => disk'[g].rules # <<>>)
                       /\ Booting' => disk'[g].kind = "valid"
    BY DEF CoveredFiles, Exists, Booting
  <2>1. CASE g = f
    <3>1. disk'[g] = c
      BY <2>1 DEF Edit, FilesTyped
    <3>. QED  BY <3>1, <2>1, <1>2 DEF Covers, Exists, Booting, Edit, watcher
  <2>2. CASE g # f
    <3>1. disk'[g] = disk[g] /\ g \in Files
      BY <2>2, <1>2 DEF Edit, FilesTyped
    <3>. QED  BY <3>1, <1>2 DEF CoveredFiles, Exists, Booting, Edit, watcher
  <2>. QED  BY <2>1, <2>2
<1>7. UNCHANGED <<w, pending, loaded, rules, policies>>
  BY DEF Edit, watcher, engine
<1>4. FirstLoad'
  BY <1>2, <1>7 DEF FirstLoad
<1>5. Reload'
  <2>. SUFFICES ASSUME w' = "load", "uncounted" \notin causes'
                PROVE  \E L \in SUBSET Files : Counted(L)'
    BY DEF Reload, Counted, Exists
  <2>1. w = "load" /\ causes \subseteq causes' /\ EditMishaps(f, c) \subseteq causes'
    BY DEF Edit, watcher
  <2>2. c.kind # "missing"
    BY <2>1 DEF EditMishaps
  <2>3. PICK L \in SUBSET Files : Counted(L)
    BY <2>1 DEF Reload
  <2>4. \A g \in L : Exists(g)'
    BY <2>2, <2>3 DEF Counted, Exists, Edit, FilesTyped
  <2>5. Counted(L)'
    BY <2>3, <2>4, <1>2, <1>7 DEF Counted
  <2>. QED  BY <2>5
<1>6. Kept'
  <2>1. causes \subseteq causes'
    BY DEF Edit
  <2>. QED  BY <2>1, <1>2, <1>7 DEF Kept, Built
<1>. QED  BY <1>1, <1>3, <1>4, <1>5, <1>6

LEMMA ListStep == CoverageInv /\ List => CoverageInv'
<1>. SUFFICES ASSUME CoverageInv, List PROVE CoverageInv'
  OBVIOUS
<1>. USE DEF CoverageInv
<1>1. FilesTyped'
  BY EmptyList DEF FilesTyped, List, dir
<1>2. CoveredFiles'
  BY DEF CoveredFiles, List, dir, Exists, Booting, Step
<1>3. FirstLoad'
  BY DEF FirstLoad, List, dir, CoveredFiles, FilesTyped, Exists
<1>4. Reload'
  <2>1. Counted({})'
    BY FS_EmptySet DEF Counted, List
  <2>2. \E L \in SUBSET Files : Counted(L)'
    BY <2>1
  <2>. QED  BY <2>2 DEF Reload, Counted, Exists
<1>5. Kept'
  BY DEF Kept, List, dir, engineVars, engine, Built, Step
<1>. QED  BY <1>1, <1>2, <1>3, <1>4, <1>5

\* The file that LoadFile takes is one of the pending ones.
LEMMA NextFile ==
  ASSUME FilesTyped, pending # {}
  PROVE  (CHOOSE f \in pending : \A g \in pending : f <= g) \in pending
<1>1. pending \in SUBSET Nat
  BY DEF FilesTyped, Files
<1>2. \E f \in pending : \A g \in pending : f <= g
  BY <1>1, LeastNat
<1>. QED  BY <1>2

LEMMA AbortStep ==
  ASSUME CoverageInv, Abort, w \in {"boot load", "load"}, UNCHANGED <<engine, dir>>,
         causes \subseteq causes'
  PROVE  CoverageInv'
<1>. USE DEF CoverageInv
<1>1. FilesTyped'
  BY EmptyList DEF FilesTyped, Abort, dir
<1>2. CoveredFiles' /\ FirstLoad' /\ Reload'
  BY DEF CoveredFiles, FirstLoad, Reload, Abort, dir, Exists, Booting, Step
<1>3. Kept'
  BY DEF Kept, Abort, dir, engine, Built, Step
<1>. QED  BY <1>1, <1>2, <1>3

LEMMA LoadFileStep == CoverageInv /\ LoadFile => CoverageInv'
<1>. SUFFICES ASSUME CoverageInv, LoadFile PROVE CoverageInv'
  OBVIOUS
<1>. USE DEF CoverageInv
<1>0. PICK f \in Files : f = CHOOSE g \in pending : \A h \in pending : g <= h
  BY NextFile DEF LoadFile, FilesTyped
<1>1. f \in pending
  BY <1>0, NextFile DEF LoadFile
<1>2. CASE disk[f].kind \in {"missing", "garbled"}
  <2>1. Abort
    BY <1>2, <1>0 DEF LoadFile
  <2>. QED  BY <2>1, AbortStep DEF LoadFile, engineVars, engine, dir
<1>3. CASE disk[f].kind \notin {"missing", "garbled"}
  <2>1. /\ pending' = pending \ {f}
        /\ loaded' = IF disk[f].kind = "valid" THEN loaded + 1 ELSE loaded
        /\ rules' = rules \o disk[f].rules
        /\ UNCHANGED <<w, causes, policies, disk, covered>>
    BY <1>3, <1>0 DEF LoadFile, engineVars, engine, dir
  <2>2. disk[f].rules \in Seq(Policies) /\ (disk[f].kind = "valid" => disk[f].rules \in Rules[f])
    BY <1>1, ContentRules DEF FilesTyped
  <2>3. FilesTyped'
    BY <2>1, <2>2 DEF FilesTyped
  <2>4. CoveredFiles'
    BY <2>1 DEF CoveredFiles, Exists, Booting
  <2>5. \A g \in Files : Holds(rules, g) => Holds(rules', g)
    BY <2>1, <2>2, HoldsMore DEF FilesTyped
  <2>6. f \in covered /\ disk[f].kind = "valid" => Holds(rules', f)
    BY <2>1, <2>2, <1>1, HoldsOwn DEF CoveredFiles, FilesTyped
  <2>7. FirstLoad'
    BY <2>1, <2>5, <2>6 DEF FirstLoad, CoveredFiles, Booting, FilesTyped, Holds
  <2>8. Reload'
    <3>. SUFFICES ASSUME w = "load", "uncounted" \notin causes
                  PROVE  \E L \in SUBSET Files : Counted(L)'
      BY <2>1 DEF Reload, Counted, Exists
    <3>1. PICK L \in SUBSET Files : Counted(L)
      BY DEF Reload
    <3>2. CASE disk[f].kind = "valid"
      <4>1. f \notin L
        BY <3>1, <1>1 DEF Counted
      <4>2. IsFiniteSet(L)
        BY FilesFinite
      <4>3. Cardinality(L \union {f}) = loaded + 1
        BY <4>1, <4>2, <3>1, FS_AddElement DEF Counted
      <4>4. \A g \in L \union {f} : Exists(g)'
        BY <2>1, <3>1, <3>2 DEF Counted, Exists
      <4>5. \A g \in (L \union {f}) \intersect covered' : Holds(rules, g)'
        BY <2>1, <2>5, <2>6, <3>1, <3>2 DEF Counted, Holds
      <4>6. (L \union {f}) \intersect pending' = {}
        BY <2>1, <3>1 DEF Counted
      <4>7. Counted(L \union {f})'
        BY <4>3, <4>4, <4>5, <4>6, <2>1, <3>2 DEF Counted
      <4>. QED  BY <4>7, <1>1
    <3>3. CASE disk[f].kind # "valid"
      <4>1. Counted(L)'
        BY <2>1, <2>5, <3>1, <3>3 DEF Counted, Exists, Holds
      <4>. QED  BY <4>1
    <3>. QED  BY <3>2, <3>3
  <2>9. Kept'
    BY <2>1 DEF Kept, Built
  <2>. QED  BY <2>3, <2>4, <2>7, <2>8, <2>9
<1>. QED  BY <1>2, <1>3

LEMMA BuildStep == CoverageInv /\ Build => CoverageInv'
<1>. SUFFICES ASSUME CoverageInv, Build PROVE CoverageInv'
  OBVIOUS
<1>. USE DEF CoverageInv
<1>1. FilesTyped'
  BY EmptyList DEF FilesTyped, Build, dir
<1>2. CoveredFiles' /\ FirstLoad' /\ Reload'
  BY DEF CoveredFiles, FirstLoad, Reload, Build, dir, Exists, Booting, Step
<1>3. \A f \in covered : Holds(policies', f)
  BY DEF FirstLoad, Build
<1>4. Kept'
  BY <1>3 DEF Kept, Build, dir, Holds
<1>. QED  BY <1>1, <1>2, <1>4

LEMMA AdoptStep == CoverageInv /\ Adopt => CoverageInv'
<1>. SUFFICES ASSUME CoverageInv, Adopt PROVE CoverageInv'
  OBVIOUS
<1>. USE DEF CoverageInv
<1>1. FilesTyped'
  BY EmptyList DEF FilesTyped, Adopt, dir
<1>2. CoveredFiles' /\ FirstLoad' /\ Reload'
  BY DEF CoveredFiles, FirstLoad, Reload, Adopt, dir, Exists, Booting, Step
<1>3. Kept'
  <2>. SUFFICES ASSUME "uncounted" \notin causes', "api" \notin causes', NEW f \in covered
                PROVE  Holds(policies', f)
    BY DEF Kept, Holds, Adopt, dir
  <2>1. "uncounted" \notin causes /\ "api" \notin causes
    BY DEF Adopt, ReplaceAll, Invalidate
  <2>2. Holds(policies, f)
    BY <2>1 DEF Kept, Holds, Adopt, Built
  <2>3. CASE policies' = policies
    BY <2>2, <2>3 DEF Holds
  <2>4. CASE policies' # policies
    <3>1. loaded >= Cardinality({g \in Files : Exists(g)}) /\ policies' = rules
      <4>1. ~(loaded = 0 \/ loaded < Cardinality({g \in Files : Exists(g)})) /\ policies' = rules
        BY <2>4 DEF Adopt, ReplaceAll, Become, engine
      <4>2. Cardinality({g \in Files : Exists(g)}) \in Nat
        BY FilesFinite
      <4>. QED  BY <4>1, <4>2 DEF FilesTyped
    <3>2. PICK L \in SUBSET Files : Counted(L)
      BY <2>1 DEF Reload, Adopt
    <3>3. f \in L
      BY <3>1, <3>2, AllCounted DEF CoveredFiles, FilesTyped
    <3>. QED  BY <3>1, <3>2, <3>3 DEF Counted
  <2>. QED  BY <2>3, <2>4
<1>. QED  BY <1>1, <1>2, <1>3

\* Steps of the engine's callers: they leave the files alone, and only calls of
\* the engine's methods change the policies.
LEMMA EngineStep ==
  ASSUME Mutate \/ \E t \in Threads : Evaluate(t)
  PROVE  /\ causes \intersect {"uncounted", "api"} \subseteq causes'
         /\ "timeout" \in causes => "timeout" \in causes'
         /\ "api" \notin causes' => UNCHANGED policies
<1>1. CASE Mutate
  <2>1. CASE \E p \in Policies : Add(p) \/ Remove(p.name)
    BY <2>1 DEF Add, Remove, Invalidate
  <2>2. CASE Clear
    BY <2>2 DEF Clear
  <2>3. CASE \E d \in Action : SetDefault(d)
    BY <2>3 DEF SetDefault, Become
  <2>. QED  BY <1>1, <2>1, <2>2, <2>3 DEF Mutate
<1>2. ASSUME NEW t \in Threads, Evaluate(t)
      PROVE  causes \subseteq causes' /\ UNCHANGED policies
  BY <1>2 DEF Evaluate, Lookup, MatchPolicies, Put, Return, engine
<1>. QED  BY <1>1, <1>2

LEMMA UseStep == CoverageInv /\ Use => CoverageInv'
<1>. SUFFICES ASSUME CoverageInv, Use PROVE CoverageInv'
  OBVIOUS
<1>. USE DEF CoverageInv
<1>1. /\ causes \intersect {"uncounted", "api"} \subseteq causes'
      /\ "api" \notin causes' => UNCHANGED policies
      /\ UNCHANGED <<disk, covered, w, pending, loaded, rules>>
  BY EngineStep DEF Use, dir, watcher
<1>2. FilesTyped' /\ CoveredFiles' /\ FirstLoad'
  BY <1>1 DEF FilesTyped, CoveredFiles, FirstLoad, Exists, Booting, Holds
<1>3. Reload'
  BY <1>1 DEF Reload, Counted, Exists, Holds
<1>4. Kept'
  BY <1>1 DEF Kept, Built
<1>. QED  BY <1>2, <1>3, <1>4

\* Steps that touch neither the files nor what is loaded of them.
LEMMA IdleStep ==
  ASSUME CoverageInv, StartWatcher \/ Poll \/ StopWatcher \/ WatcherEnds \/ StopReturns \/ UNCHANGED vars
  PROVE  CoverageInv'
<1>. USE DEF CoverageInv
<1>1. UNCHANGED <<disk, covered, pending, loaded, rules, policies>> /\ causes \subseteq causes'
  BY DEF StartWatcher, Poll, StopWatcher, WatcherEnds, StopReturns, vars, engineVars, engine, dir, watcher
<1>2. /\ w' = w \/ (w' \notin {"boot list", "boot load", "load"} /\ (Built' => Built))
      /\ Booting' => Booting
  BY DEF StartWatcher, Poll, StopWatcher, WatcherEnds, StopReturns, vars, watcher, Step, Booting, Built
<1>3. FilesTyped'
  BY <1>1 DEF FilesTyped
<1>4. CoveredFiles'
  BY <1>1, <1>2 DEF CoveredFiles, Exists
<1>5. FirstLoad'
  BY <1>1, <1>2 DEF FirstLoad
<1>7. Reload'
  BY <1>1, <1>2 DEF Reload, Counted, Exists
<1>6. Kept'
  BY <1>1, <1>2 DEF Kept, Built
<1>. QED  BY <1>3, <1>4, <1>5, <1>7, <1>6

LEMMA CoverageStep == CoverageInv /\ [Next]_vars => CoverageInv'
<1>. SUFFICES ASSUME CoverageInv, [Next]_vars PROVE CoverageInv'
  OBVIOUS
<1>1. ASSUME LoadFails PROVE CoverageInv'
  BY <1>1, AbortStep DEF LoadFails
<1>2. ASSUME Watch PROVE CoverageInv'
  BY <1>2, ListStep, LoadFileStep, BuildStep, AdoptStep, IdleStep DEF Watch
<1>3. ASSUME \E f \in Files : \E c \in ContentOf(f) : Edit(f, c) PROVE CoverageInv'
  BY <1>3, EditStep
<1>. QED  BY <1>1, <1>2, <1>3, UseStep, IdleStep DEF Next

\* No reload costs coverage (yaml_loader.py:398-433).
THEOREM CoverageAlwaysKept == Spec => []CoverageKept
<1>1. CoverageInv => CoverageKept
  BY DEF CoverageInv, Kept, Holds, CoverageKept
<1>. QED  BY CoverageInit, CoverageStep, <1>1, PTL DEF Spec

-----------------------------------------------------------------------------
(* The watcher's end.                                                      *)

\* Before stop_watcher() returns the thread has ended, or the wait was given
\* up; and there is nothing to stop before the engine is built.
Ended ==
  /\ stop = "returned" /\ "timeout" \notin causes => w = "ended"
  /\ stop # "no" => ~Booting /\ w # "failed"

LEMMA EndedStep ==
  Ended /\ [Next]_vars =>
    /\ Ended'
    /\ stop = "returned" /\ "timeout" \notin causes /\ "api" \notin causes' => UNCHANGED policies
<1>. SUFFICES ASSUME Ended, [Next]_vars
     PROVE /\ Ended'
           /\ stop = "returned" /\ "timeout" \notin causes /\ "api" \notin causes' => UNCHANGED policies
  OBVIOUS
<1>. USE DEF Ended, Booting
<1>1. ASSUME NEW f \in Files, NEW c \in ContentOf(f), Edit(f, c)
      PROVE  UNCHANGED <<w, stop, policies>> /\ causes \subseteq causes'
  BY <1>1 DEF Edit, watcher, engine
<1>2. CASE Watch
  BY <1>2 DEF Watch, List, LoadFile, Abort, Build, StartWatcher, Poll, Adopt, WatcherEnds, ReplaceAll,
              Become, Invalidate, Step, engineVars, engine
<1>3. CASE LoadFails \/ StopWatcher \/ StopReturns \/ UNCHANGED vars
  BY <1>3 DEF LoadFails, Abort, StopWatcher, StopReturns, vars, watcher, engineVars, engine, Step
<1>4. CASE Use
  <2>1. UNCHANGED <<w, stop>>
    BY <1>4 DEF Use, watcher
  <2>2. /\ "timeout" \in causes => "timeout" \in causes'
        /\ "api" \notin causes' => UNCHANGED policies
    BY <1>4, EngineStep DEF Use
  <2>. QED  BY <2>1, <2>2
<1>. QED  BY <1>1, <1>2, <1>3, <1>4 DEF Next

\* After stop_watcher() has returned, in time, the watcher changes no policy
\* any more (yaml_loader.py:390-396).
THEOREM StoppedIsQuiet == Spec => QuietAfterStop
<1>1. Init => Ended
  BY DEF Init, Ended
<1>2. Ended /\ [Next]_vars =>
        Ended' /\ [stop = "returned" /\ "timeout" \notin causes /\ "api" \notin causes'
                     => policies' = policies]_vars
  BY EndedStep
<1>. QED  BY <1>1, <1>2, PTL DEF Spec, QuietAfterStop

-----------------------------------------------------------------------------
(* The answers of evaluate().                                              *)

\* Without a result that raced and a change that left the cache alone, what is
\* cached is what evaluating the call comes to.
CacheSound ==
  /\ \E S : cache \in Seq(S)
  /\ causes \intersect {"raced", "uncleared"} = {} =>
       \A i \in 1..Len(cache) : cache[i].action = Decide(cache[i].call, policies, default)

\* What a thread has found so far was right at some moment of its evaluation.
FoundSound ==
  \A t \in Threads :
    /\ pc[t] = "match" => call[t] \notin Unsafe
    /\ pc[t] \in {"match", "put"} => Decide(call[t], policies, default) \in valid[t]
    /\ pc[t] = "put" /\ found[t] # None => found[t] \in valid[t]
    /\ pc[t] = "put" /\ found[t] = None /\ "torn" \notin causes => default \in valid[t]

\* Nobody evaluates before the engine is built.
Unused == ~Built => cache = <<>> /\ \A t \in Threads : pc[t] = "idle"

Threaded == \A f \in {pc, call, found, answer, valid} : DOMAIN f = Threads

AnswerInv == Threaded /\ CacheSound /\ FoundSound /\ Unused

\* The answer a thread gets in this step.
Answered ==
  causes \intersect {"raced", "uncleared", "torn"} = {} =>
    \A t \in Threads : pc[t] # "done" /\ pc'[t] = "done" => answer'[t] \in valid'[t]

\* Entering a right result leaves only right results.
LEMMA EnterSound ==
  ASSUME NEW S, cache \in Seq(S), NEW c, NEW a
  PROVE  /\ \E T : Enter(c, a) \in Seq(T)
         /\ \A i \in 1..Len(Enter(c, a)) :
              \/ Enter(c, a)[i] = [call |-> c, action |-> a]
              \/ \E j \in 1..Len(cache) : Enter(c, a)[i] = cache[j]
<1>. DEFINE new  == [call |-> c, action |-> a]
            kept == IF Len(cache) >= CacheMax THEN SubSeq(cache, Evicted + 1, Len(cache)) ELSE cache
            T    == S \union {new}
<1>1. kept \in Seq(T) /\ \A i \in 1..Len(kept) : \E j \in 1..Len(cache) : kept[i] = cache[j]
  <2>1. CASE Len(cache) < CacheMax
    <3>1. cache \in Seq(T)
      OBVIOUS
    <3>2. kept = cache
      BY <2>1, CacheAssumption
    <3>. QED  BY <3>1, <3>2
  <2>2. CASE Len(cache) >= CacheMax
    <3>1. Evicted \in Nat /\ Evicted >= 1 /\ Len(cache) >= Evicted
      BY <2>2, CacheAssumption
    <3>2. cache \in Seq(T) /\ Len(cache) \in Nat /\ \A i \in 1..Len(cache) : cache[i] \in T
      OBVIOUS
    <3>3. \A i \in Evicted + 1 .. Len(cache) : cache[i] \in T
      BY <3>1, <3>2
    <3>4. SubSeq(cache, Evicted + 1, Len(cache)) \in Seq(T)
      BY <3>1, <3>2, <3>3, SubSeqProperties
    <3>5. /\ Len(SubSeq(cache, Evicted + 1, Len(cache))) = Len(cache) - Evicted
          /\ \A i \in 1..(Len(cache) - Evicted) :
               SubSeq(cache, Evicted + 1, Len(cache))[i] = cache[Evicted + i]
      BY <3>1, <3>2, <3>3, SubSeqProperties
    <3>6. kept = SubSeq(cache, Evicted + 1, Len(cache))
      BY <2>2
    <3>7. \A i \in 1..(Len(cache) - Evicted) : Evicted + i \in 1..Len(cache)
      BY <3>1
    <3>. QED  BY <3>4, <3>5, <3>6, <3>7
  <2>. QED  BY <2>1, <2>2, CacheAssumption
<1>. HIDE DEF kept
<1>2. CASE \E i \in 1..Len(kept) : kept[i].call = c
  <2>. DEFINE e == [i \in 1..Len(kept) |-> IF kept[i].call = c THEN new ELSE kept[i]]
  <2>1. Enter(c, a) = e
    BY <1>2 DEF Enter, kept
  <2>2. e \in Seq(T) /\ Len(e) = Len(kept)
    BY <1>1
  <2>3. \A i \in 1..Len(kept) : e[i] = new \/ e[i] = kept[i]
    OBVIOUS
  <2>. HIDE DEF e
  <2>. QED  BY <1>1, <2>1, <2>2, <2>3
<1>3. CASE ~ \E i \in 1..Len(kept) : kept[i].call = c
  <2>1. Enter(c, a) = Append(kept, new)
    BY <1>3 DEF Enter, kept
  <2>2. new \in T
    OBVIOUS
  <2>3. /\ Append(kept, new) \in Seq(T) /\ Len(Append(kept, new)) = Len(kept) + 1
        /\ Append(kept, new)[Len(kept) + 1] = new
        /\ \A i \in 1..Len(kept) : Append(kept, new)[i] = kept[i]
    BY <1>1, <2>2, AppendProperties
  <2>4. \A i \in 1..(Len(kept) + 1) : i \in 1..Len(kept) \/ i = Len(kept) + 1
    BY <1>1
  <2>. QED  BY <1>1, <2>1, <2>3, <2>4
<1>. QED  BY <1>2, <1>3

LEMMA AnswerInit == Init => AnswerInv
<1>. SUFFICES ASSUME Init PROVE AnswerInv
  OBVIOUS
<1>1. cache = <<>> /\ \A t \in Threads : pc[t] = "idle"
  BY DEF Init, EngineInit
<1>2. cache \in Seq({})
  BY <1>1
<1>3. CacheSound
  BY <1>1, <1>2 DEF CacheSound
<1>4. Threaded
  BY DEF Init, EngineInit, Threaded
<1>. QED  BY <1>1, <1>3, <1>4 DEF AnswerInv, FoundSound, Unused

-----------------------------------------------------------------------------
(* evaluate(), step by step.                                               *)

LEMMA LookupAnswer ==
  ASSUME AnswerInv, Built, Built', NEW t \in Threads, NEW c \in Calls, Lookup(t, c)
  PROVE  AnswerInv' /\ Answered
<1>. USE DEF AnswerInv
<1>1. UNCHANGED <<policies, default, cache, causes>>
  BY DEF Lookup, engine
<1>2. Threaded' /\ CacheSound' /\ Unused'
  BY <1>1 DEF Lookup, Goto, Threaded, CacheSound, Unused
<1>3. /\ call'[t] = c /\ valid'[t] = {Decide(c, policies, default)}
      /\ pc'[t] \in {"match", "put", "done"}
      /\ pc'[t] = "match" => c \notin Unsafe
      /\ pc'[t] = "put" => c \in Unsafe /\ found'[t] = "deny"
      /\ pc'[t] = "done" => \E i \in Cached(c) : answer'[t] = cache[i].action
      /\ \A u \in Threads \ {t} : /\ pc'[u] = pc[u] /\ call'[u] = call[u] /\ valid'[u] = valid[u]
                                  /\ found'[u] = found[u]
  BY DEF Lookup, Goto, Threaded
<1>4. c \in Unsafe => Decide(c, policies, default) = "deny"
  BY DEF Decide
<1>5. "deny" # None
  BY CallAssumption DEF Action
<1>6. FoundSound'
  BY <1>1, <1>3, <1>4, <1>5 DEF FoundSound
<1>7. Answered
  BY <1>1, <1>3 DEF Answered, CacheSound, Cached
<1>. QED  BY <1>2, <1>6, <1>7

LEMMA MatchAnswer ==
  ASSUME AnswerInv, Built, Built', NEW t \in Threads, MatchPolicies(t)
  PROVE  AnswerInv' /\ Answered
<1>. USE DEF AnswerInv
<1>1. UNCHANGED <<policies, default, cache, call, valid, causes>>
  BY DEF MatchPolicies, engine
<1>2. Threaded' /\ CacheSound' /\ Unused'
  BY <1>1 DEF MatchPolicies, Goto, Threaded, CacheSound, Unused
<1>3. /\ pc[t] = "match" /\ pc'[t] = "put" /\ found'[t] = Match(call[t], policies)
      /\ \A u \in Threads \ {t} : pc'[u] = pc[u] /\ found'[u] = found[u]
  BY DEF MatchPolicies, Goto, Threaded
<1>4. call[t] \notin Unsafe /\ Decide(call[t], policies, default) \in valid[t]
  BY <1>3 DEF FoundSound
<1>5. Decide(call[t], policies, default) = IF found'[t] = None THEN default ELSE found'[t]
  BY <1>3, <1>4 DEF Decide
<1>6. FoundSound'
  BY <1>1, <1>3, <1>4, <1>5 DEF FoundSound
<1>7. Answered
  BY <1>3 DEF Answered
<1>. QED  BY <1>2, <1>6, <1>7

LEMMA PutAnswer ==
  ASSUME AnswerInv, Built, Built', NEW t \in Threads, Put(t)
  PROVE  AnswerInv' /\ Answered
<1>. USE DEF AnswerInv
<1>. DEFINE result == IF found[t] = None THEN default ELSE found[t]
<1>1. /\ pc[t] = "put" /\ cache' = Enter(call[t], result)
      /\ answer' = [answer EXCEPT ![t] = result]
      /\ causes' = IF result # Decide(call[t], policies, default)
                   THEN causes \union {"raced"} ELSE causes
      /\ pc' = [pc EXCEPT ![t] = "done"] /\ found' = [found EXCEPT ![t] = None]
      /\ UNCHANGED <<policies, default, call, valid>>
  BY DEF Put, Goto
<1>2. "torn" \notin causes => result \in valid[t]
  BY <1>1 DEF FoundSound
<1>. HIDE DEF result
<1>3. Threaded' /\ Unused'
  BY <1>1 DEF Threaded, Unused
<1>4. CacheSound'
  <2>1. PICK S : cache \in Seq(S)
    BY DEF CacheSound
  <2>2. \E T : cache' \in Seq(T)
    BY <1>1, <2>1, EnterSound
  <2>3. \A i \in 1..Len(cache') :
          \/ cache'[i] = [call |-> call[t], action |-> result]
          \/ \E j \in 1..Len(cache) : cache'[i] = cache[j]
    BY <1>1, <2>1, EnterSound
  <2>4. ASSUME causes' \intersect {"raced", "uncleared"} = {}, NEW i \in 1..Len(cache')
        PROVE  cache'[i].action = Decide(cache'[i].call, policies, default)
    <3>1. result = Decide(call[t], policies, default) /\ causes' = causes
      BY <1>1, <2>4
    <3>. QED  BY <3>1, <2>3, <2>4 DEF CacheSound
  <2>. QED  BY <2>2, <2>4, <1>1 DEF CacheSound
<1>5. FoundSound'
  BY <1>1 DEF FoundSound, Threaded
<1>6. Answered
  BY <1>1, <1>2 DEF Answered, Threaded
<1>. QED  BY <1>3, <1>4, <1>5, <1>6

LEMMA ReturnAnswer ==
  ASSUME AnswerInv, Built, Built', NEW t \in Threads, Return(t)
  PROVE  AnswerInv' /\ Answered
<1>. USE DEF AnswerInv
<1>1. UNCHANGED <<policies, default, cache, causes, found>>
  BY DEF Return, engine
<1>2. Threaded' /\ CacheSound' /\ Unused'
  BY <1>1 DEF Return, Goto, Threaded, CacheSound, Unused
<1>3. FoundSound' /\ Answered
  BY <1>1 DEF Return, Goto, Threaded, FoundSound, Answered
<1>. QED  BY <1>2, <1>3

-----------------------------------------------------------------------------
(* Changes of the engine.                                                  *)

\* Whatever the policies and the default become: a thread that evaluates knows
\* of it, and if the default changes under one that fell back on it, so do we.
LEMMA BecomeFound ==
  ASSUME Threaded, FoundSound, NEW ps, NEW d, Become(ps, d), UNCHANGED threads,
         "torn" \in causes => "torn" \in causes',
         d # default /\ (\E t \in Threads : pc[t] = "put" /\ found[t] = None) => "torn" \in causes'
  PROVE  Threaded' /\ FoundSound' /\ Answered
<1>1. /\ policies' = ps /\ default' = d /\ UNCHANGED <<pc, call, found, answer>>
      /\ DOMAIN valid' = Threads
      /\ \A t \in Threads : valid'[t] = IF pc[t] \in {"match", "put"}
                                        THEN valid[t] \union {Decide(call[t], ps, d)} ELSE valid[t]
  BY DEF Become, threads
<1>2. Threaded'
  BY <1>1 DEF Threaded
<1>3. FoundSound'
  BY <1>1 DEF FoundSound
<1>. QED  BY <1>1, <1>2, <1>3 DEF Answered

\* An empty cache, or one known to be stale, is sound.
LEMMA CacheCleared ==
  ASSUME CacheSound, cache' = <<>> \/ (cache' = cache /\ "uncleared" \in causes')
  PROVE  CacheSound'
<1>1. CASE cache' = <<>>
  <2>1. cache' \in Seq({})
    BY <1>1
  <2>. QED  BY <1>1, <2>1 DEF CacheSound
<1>2. CASE cache' = cache /\ "uncleared" \in causes'
  BY <1>2 DEF CacheSound
<1>. QED  BY <1>1, <1>2

LEMMA MutateAnswer ==
  ASSUME AnswerInv, Built, Built', Mutate
  PROVE  AnswerInv' /\ Answered
<1>. USE DEF AnswerInv
<1>1. UNCHANGED threads
  BY DEF Mutate, Add, Remove, Clear, SetDefault, ApiCall
<1>2. ASSUME NEW ps, Become(ps, default), Invalidate({"api"}) PROVE AnswerInv' /\ Answered
  <2>1. cache' = <<>> /\ ("torn" \in causes => "torn" \in causes')
    BY <1>2 DEF Invalidate
  <2>. QED  BY <1>1, <1>2, <2>1, BecomeFound, CacheCleared DEF Unused
<1>3. CASE \E p \in Policies : Add(p) \/ Remove(p.name)
  <2>1. \E ps : Become(ps, default) /\ Invalidate({"api"})
    BY <1>3 DEF Add, Remove
  <2>. QED  BY <1>2, <2>1
<1>4. CASE Clear
  <2>1. Become(<<>>, default) /\ cache' = cache /\ "uncleared" \in causes' /\ causes \subseteq causes'
    BY <1>4 DEF Clear
  <2>. QED  BY <1>1, <2>1, BecomeFound, CacheCleared DEF Unused
<1>5. CASE \E d \in Action : SetDefault(d)
  <2>1. PICK d \in Action : SetDefault(d)
    BY <1>5
  <2>2. /\ Become(policies, d) /\ cache' = cache
        /\ "uncleared" \in causes' /\ causes \subseteq causes'
        /\ (\E t \in Threads : pc[t] = "put" /\ found[t] = None) => "torn" \in causes'
    BY <2>1 DEF SetDefault
  <2>. QED  BY <1>1, <2>2, BecomeFound, CacheCleared DEF Unused
<1>. QED  BY <1>3, <1>4, <1>5 DEF Mutate

-----------------------------------------------------------------------------
(* All steps.                                                              *)

\* A step of the files and the watcher changes the engine only in one piece.
LEMMA WatcherAnswer ==
  ASSUME AnswerInv, [Next]_vars, ~Use
  PROVE  AnswerInv' /\ Answered
<1>. USE DEF AnswerInv
<1>1. UNCHANGED threads /\ (Built => Built')
  BY DEF Next, Watch, Edit, List, LoadFile, LoadFails, Abort, Build, StartWatcher, Poll, Adopt,
         StopWatcher, WatcherEnds, StopReturns, vars, engineVars, watcher, Step, Built
<1>2. CASE /\ UNCHANGED <<engine, valid>>
           /\ causes \intersect {"raced", "uncleared", "torn"} \subseteq causes'
           /\ causes' \intersect {"raced", "uncleared", "torn"} \subseteq causes
  <2>1. Threaded' /\ Answered
    BY <1>1, <1>2 DEF Threaded, Answered, threads
  <2>2. CacheSound'
    BY <1>2 DEF CacheSound, engine
  <2>3. FoundSound' /\ Unused'
    BY <1>1, <1>2 DEF FoundSound, Unused, threads, engine
  <2>. QED  BY <2>1, <2>2, <2>3
<1>3. CASE Build
  <2>1. /\ ~Built /\ UNCHANGED <<cache, threads, valid, causes>>
    BY <1>3 DEF Build, Built
  <2>2. cache = <<>> /\ \A t \in Threads : pc[t] = "idle"
    BY <2>1 DEF Unused
  <2>3. CacheSound'
    BY <2>1, <2>2, CacheCleared
  <2>4. Threaded' /\ FoundSound' /\ Unused' /\ Answered
    BY <2>1, <2>2 DEF Threaded, FoundSound, Unused, Answered, threads
  <2>. QED  BY <2>3, <2>4
<1>4. CASE Become(rules, default) /\ Invalidate({})
  <2>1. cache' = <<>> /\ ("torn" \in causes => "torn" \in causes')
    BY <1>4 DEF Invalidate
  <2>2. CacheSound'
    BY <2>1, CacheCleared
  <2>3. Threaded' /\ FoundSound' /\ Answered
    BY <1>1, <1>4, <2>1, BecomeFound
  <2>4. Unused'
    BY <1>1, <2>1 DEF Unused, threads
  <2>. QED  BY <2>2, <2>3, <2>4
<1>5. CASE \E f \in Files : \E c \in ContentOf(f) : Edit(f, c)
  <2>1. PICK f \in Files : \E c \in ContentOf(f) : Edit(f, c)
    BY <1>5
  <2>. PICK c \in ContentOf(f) : Edit(f, c)
    BY <2>1
  <2>2. UNCHANGED <<engine, valid>> /\
        (causes' = causes \union EditMishaps(f, c)
           \/ causes' = causes \union EditMishaps(f, c) \union {"sametick"})
    BY DEF Edit
  <2>3. EditMishaps(f, c) \intersect {"raced", "uncleared", "torn"} = {}
    BY DEF EditMishaps
  <2>. QED  BY <2>2, <2>3, <1>2
<1>6. CASE LoadFails \/ StopReturns
  BY <1>6, <1>2 DEF LoadFails, StopReturns
<1>7. CASE List \/ LoadFile \/ StartWatcher \/ Poll \/ WatcherEnds \/ StopWatcher \/ UNCHANGED vars
  BY <1>7, <1>2 DEF List, LoadFile, StartWatcher, Poll, WatcherEnds, StopWatcher, vars, engineVars
<1>8. CASE Adopt
  BY <1>8, <1>2, <1>4 DEF Adopt, ReplaceAll
<1>. QED  BY <1>3, <1>5, <1>6, <1>7, <1>8 DEF Next, Watch

LEMMA AnswerStep == AnswerInv /\ [Next]_vars => AnswerInv' /\ Answered
<1>. SUFFICES ASSUME AnswerInv, [Next]_vars PROVE AnswerInv' /\ Answered
  OBVIOUS
<1>1. CASE Use
  <2>1. Built /\ Built'
    BY <1>1 DEF Use, Built, watcher
  <2>2. CASE Mutate
    BY <2>1, <2>2, MutateAnswer
  <2>3. CASE \E t \in Threads : Evaluate(t)
    BY <2>1, <2>3, LookupAnswer, MatchAnswer, PutAnswer, ReturnAnswer DEF Evaluate
  <2>. QED  BY <1>1, <2>2, <2>3 DEF Use
<1>2. CASE ~Use
  BY <1>2, WatcherAnswer
<1>. QED  BY <1>1, <1>2

\* Every answer of evaluate(), cached or computed, is what the policies said at
\* some moment of the evaluation (engine.py:877-956).
THEOREM AnswersAlwaysCurrent == Spec => AnswersCurrent
<1>1. AnswerInv /\ [Next]_vars => AnswerInv' /\ [Answered]_engineVars
  BY AnswerStep
<1>2. Answered => (causes \intersect {"raced", "uncleared", "torn"} = {} =>
        \A t \in Threads : pc[t] # "done" /\ pc'[t] = "done" => answer'[t] \in valid'[t])
  BY DEF Answered
<1>. QED  BY AnswerInit, <1>1, <1>2, PTL DEF Spec, AnswersCurrent

=============================================================================

---------------------------- MODULE PolicyReload ----------------------------
(***************************************************************************)
(* PolicyEngine composed with the policy directory and the polling watcher *)
(* of src/hermes_katana/policy/yaml_loader.py: from_directory() builds the *)
(* engine from the YAML files and starts the watcher, which from then on   *)
(* compares modification times, loads the changed directory file by file   *)
(* and replaces the engine's policies, while an administrator edits.       *)
(*                                                                         *)
(* The files are numbered in the order of their paths.  A modification     *)
(* time is the number of a file's version; it is 0 for a missing file.     *)
(***************************************************************************)
EXTENDS PolicyEngine, FiniteSets

LOCAL SeqExt == INSTANCE SequencesExt

CONSTANTS
  NumFiles,
  Rules      \* Rules[f]: the lists of policies that valid versions of file f hold

Files == 1..NumFiles

ASSUME FileAssumption ==
  /\ NumFiles \in Nat
  /\ \A f \in Files : Rules[f] \subseteq Seq(Policies)

\* "invalid" files fail validation; "garbled" ones are no YAML.
Content ==
  [kind : {"missing", "invalid", "garbled"}, rules : {<<>>}]
    \union [kind : {"valid"}, rules : UNION {Rules[f] : f \in Files}]

ContentOf(f) == {c \in Content : c.kind = "valid" => c.rules \in Rules[f]}

VARIABLES
  disk,     \* the content of each file
  mtime,    \* its modification time
  w,        \* where the builder, and after it the watcher's thread, is
  last,     \* _last_mtimes
  pending,  \* files listed and not loaded yet
  loaded,   \* files loaded so far ...
  rules,    \* ... and their policies
  stop      \* stop_watcher(): "no", "asked", "returned"

\* A history variable: the files that were valid when the engine was built and
\* have neither been missing nor emptied since.
VARIABLE covered

dir     == <<disk, mtime, covered>>
watcher == <<w, last, pending, loaded, rules>>
vars    == <<engineVars, dir, watcher, stop>>

LoadMishap == { "missed",     \* an edit between the first load and the watcher's start
                "sametick",   \* an edit that left the modification time as it was
                "readerror",  \* a file could not be read
                "vanished",   \* a file came and went between two polls
                "uncounted",  \* a file disappeared while the directory was loaded
                "timeout" }   \* stop_watcher() gave up waiting

Booting == w \in {"boot list", "boot load", "boot watch"}
Built   == w \notin {"boot list", "boot load", "failed"}

Exists(f) == disk[f].kind # "missing"

Step(label) == w' = label

Init ==
  /\ EngineInit
  /\ disk \in [Files -> {c \in Content : c.kind # "garbled"}]
  /\ \A f \in Files : disk[f] \in ContentOf(f)
  /\ mtime = [f \in Files |-> IF Exists(f) THEN 1 ELSE 0]
  /\ w = "boot list"
  /\ last = [f \in Files |-> 0]
  /\ pending = {} /\ loaded = 0 /\ rules = <<>>
  /\ stop = "no"
  /\ covered = {f \in Files : disk[f].kind = "valid" /\ disk[f].rules # <<>>}

-----------------------------------------------------------------------------
(* The administrator.                                                      *)

\* A version of f that leaves f covered.
Covers(c) ==
  \/ c.kind = "valid" /\ c.rules # <<>>
  \/ c.kind \in {"invalid", "garbled"} /\ ~Booting

\* What an edit that gives file f content c escapes.
EditMishaps(f, c) ==
  (IF \/ w = "boot load" /\ f \notin pending
      \/ w = "boot watch"
   THEN {"missed"} ELSE {})
    \union (IF c.kind = "missing" /\ w = "load" THEN {"uncounted"} ELSE {})
    \union (IF c.kind = "missing" /\ last[f] = 0 /\ ~Booting THEN {"vanished"} ELSE {})

Edit(f, c) ==
  /\ events < MaxEvents /\ c # disk[f]
  /\ events' = events + 1
  /\ disk' = [disk EXCEPT ![f] = c]
  /\ covered' = IF Covers(c) THEN covered ELSE covered \ {f}
  /\ \/ /\ mtime' = [mtime EXCEPT ![f] = IF c.kind = "missing" THEN 0 ELSE events + 2]
        /\ causes' = causes \union EditMishaps(f, c)
     \/ /\ Exists(f) /\ c.kind # "missing"
        /\ causes' = causes \union EditMishaps(f, c) \union {"sametick"}
        /\ UNCHANGED mtime
  /\ UNCHANGED <<engine, threads, valid, watcher, stop>>

-----------------------------------------------------------------------------
(* load_policy_directory(), for the first load and for each reload.        *)

List ==
  /\ w \in {"boot list", "list"}
  /\ pending' = {f \in Files : Exists(f)}
  /\ loaded' = 0 /\ rules' = <<>>
  /\ Step(IF w = "list" THEN "load" ELSE "boot load")
  /\ UNCHANGED <<engineVars, dir, last, stop>>

\* An exception ends the load; the watcher logs it and goes on polling.
Abort ==
  /\ Step(IF w = "load" THEN "wait" ELSE "failed")
  /\ pending' = {} /\ loaded' = 0 /\ rules' = <<>>

\* Files are loaded in order; one that fails validation is skipped, one that is
\* gone or no YAML raises.
LoadFile ==
  /\ w \in {"boot load", "load"} /\ pending # {}
  /\ LET f == CHOOSE f \in pending : \A g \in pending : f <= g
     IN  IF disk[f].kind \in {"missing", "garbled"}
         THEN Abort
         ELSE /\ pending' = pending \ {f}
              /\ loaded' = IF disk[f].kind = "valid" THEN loaded + 1 ELSE loaded
              /\ rules' = rules \o disk[f].rules
              /\ UNCHANGED w
  /\ UNCHANGED <<engineVars, dir, last, stop>>

LoadFails ==
  /\ w \in {"boot load", "load"} /\ pending # {} /\ events < MaxEvents
  /\ events' = events + 1
  /\ Abort
  /\ causes' = causes \union {"readerror"}
  /\ UNCHANGED <<engine, threads, valid, dir, last, stop>>

-----------------------------------------------------------------------------
(* from_directory() and the watcher's thread.                              *)

\* The first load settles for what is valid.
Build ==
  /\ w = "boot load" /\ pending = {}
  /\ policies' = rules
  /\ loaded' = 0 /\ rules' = <<>>
  /\ Step("boot watch")
  /\ UNCHANGED <<default, cache, threads, valid, causes, events, dir, last, pending, stop>>

\* PolicyFileWatcher.start() takes the files as they are now for known.
StartWatcher ==
  /\ w = "boot watch"
  /\ last' = mtime
  /\ Step("wait")
  /\ UNCHANGED <<engineVars, dir, pending, loaded, rules, stop>>

\* A change is noted before it is loaded.
Poll ==
  /\ w = "wait" /\ stop = "no" /\ mtime # last
  /\ last' = mtime
  /\ Step("list")
  /\ UNCHANGED <<engineVars, dir, pending, loaded, rules, stop>>

Adopt_Unchecked ==   \* mutant: the files are not counted
  /\ w = "load" /\ pending = {}
  /\ ReplaceAll(rules, {})
  /\ Step("wait")
  /\ loaded' = 0 /\ rules' = <<>>
  /\ UNCHANGED <<threads, events, dir, last, pending, stop>>

Adopt_NotesLate ==   \* mutant: the change is noted once it is loaded
  /\ w = "load" /\ pending = {}
  /\ IF loaded = 0 \/ loaded < Cardinality({f \in Files : Exists(f)})
     THEN UNCHANGED <<engine, valid, causes>>
     ELSE ReplaceAll(rules, {})
  /\ last' = mtime
  /\ Step("wait")
  /\ loaded' = 0 /\ rules' = <<>>
  /\ UNCHANGED <<threads, events, dir, pending, stop>>

\* The files are counted again, and only a complete load replaces the policies.
Adopt ==
  /\ w = "load" /\ pending = {}
  /\ IF loaded = 0 \/ loaded < Cardinality({f \in Files : Exists(f)})
     THEN UNCHANGED <<engine, valid, causes>>
     ELSE ReplaceAll(rules, {})
  /\ Step("wait")
  /\ loaded' = 0 /\ rules' = <<>>
  /\ UNCHANGED <<threads, events, dir, last, pending, stop>>

StopWatcher ==
  /\ ~Booting /\ w # "failed" /\ stop = "no"
  /\ stop' = "asked"
  /\ UNCHANGED <<engineVars, dir, watcher>>

WatcherEnds ==
  /\ w = "wait" /\ stop # "no"
  /\ Step("ended")
  /\ UNCHANGED <<engineVars, dir, last, pending, loaded, rules, stop>>

StopReturns_NoJoin ==   \* mutant: the thread is not joined
  /\ stop = "asked"
  /\ stop' = "returned"
  /\ UNCHANGED <<engineVars, dir, watcher>>

\* join(), which waits ten seconds at most.
StopReturns ==
  /\ stop = "asked"
  /\ stop' = "returned"
  /\ \/ w = "ended" /\ UNCHANGED <<causes, events>>
     \/ /\ w # "ended" /\ events < MaxEvents
        /\ events' = events + 1
        /\ causes' = causes \union {"timeout"}
  /\ UNCHANGED <<engine, threads, valid, dir, watcher>>

Watch == List \/ LoadFile \/ Build \/ StartWatcher \/ Poll \/ Adopt \/ WatcherEnds

Use ==
  /\ Built
  /\ Mutate \/ \E t \in Threads : Evaluate(t)
  /\ UNCHANGED <<dir, watcher, stop>>

Next ==
  \/ \E f \in Files : \E c \in ContentOf(f) : Edit(f, c)
  \/ Watch \/ LoadFails \/ StopWatcher \/ StopReturns
  \/ Use

Spec == Init /\ [][Next]_vars

\* The builder and the watcher's thread run on; edits, calls and errors need not.
FairSpec == Spec /\ WF_vars(Watch)

-----------------------------------------------------------------------------
(* Properties *)

TypeOK ==
  /\ EngineTypeOK
  /\ causes \subseteq Mishap \union LoadMishap
  /\ disk \in [Files -> Content]
  /\ mtime \in [Files -> Nat] /\ last \in [Files -> Nat]
  /\ loaded \in Nat
  /\ w \in {"boot list", "boot load", "boot watch", "failed", "wait", "list", "load", "ended"}
  /\ pending \subseteq Files /\ covered \subseteq Files
  /\ rules \in Seq(Policies)
  /\ stop \in {"no", "asked", "returned"}

\* No reload costs coverage: a file that was valid when the engine was built
\* and has not been deleted or emptied since has a policy in force, through
\* edits that break it or other files, through half-done edits and read errors.
\* It takes a file that disappears between loading and counting, or a change
\* through the engine's methods, to lose one (yaml_loader.py:398-433).
CoverageKept ==
  Built /\ causes \intersect {"uncounted", "api"} = {} =>
    \A f \in covered : \E i \in 1..Len(policies) : \E r \in Rules[f] :
      \E j \in 1..Len(r) : r[j] = policies[i]

OnDisk == SeqExt!FlattenSeq([f \in Files |-> disk[f].rules])

\* The files are in a state the watcher is willing to adopt.
Settled ==
  /\ \A f \in Files : disk[f].kind \in {"valid", "missing"}
  /\ OnDisk # <<>>

\* Once the edits stop and leave the directory settled, the engine comes to
\* enforce what is on disk, unless an edit fell between the first load and the
\* watcher's start, kept the modification time, a file could not be read, or one
\* came, spoilt a load and went before the next poll: a failed load is not tried
\* again (yaml_loader.py:402-405).
Converges ==
  <>[](Settled /\ Built /\ stop = "no" /\ causes \subseteq {"raced", "uncounted"})
    => <>[](policies = OnDisk)

\* After stop_watcher() has returned the watcher changes no policy any more,
\* unless it gave up waiting for a load under way (yaml_loader.py:390-396).
QuietAfterStop ==
  [][stop = "returned" /\ "timeout" \notin causes /\ "api" \notin causes'
       => policies' = policies]_vars

=============================================================================

------------------------- MODULE ProxyProofs --------------------------------
(***************************************************************************)
(* Machine-checked proofs about the proxy: about ProxyRunner, for every set *)
(* of owners and ports and every number of processes and faults, about     *)
(* RateTracker, for every number of clients and every limit and window, and *)
(* about ProxyAddon, for every set of flows, messages and configurations.  *)
(***************************************************************************)
EXTENDS ProxyRunner, ProxyAddon, SequenceTheorems, WellFoundedInduction, TLAPS

-----------------------------------------------------------------------------
(* The inductive invariant of the runner.                                  *)

\* Circumstances that may separate a proxy from its PID.
Steady == causes \intersect {"overlap", "late", "stale", "unnamed"} = {}

\* Every PID in the state is that of a process that was started.
Known ==
  /\ pidfile # None => born[pidfile] # None
  /\ checking # None => born[checking] # None
  /\ \A o \in Owners : process[o] # None => born[process[o]] # None
  /\ \A p \in Pids : pc[p] # "idle" => born[p] # None
  /\ \A t \in Threads : saw[t] # None => born[saw[t]] # None

\* A process seen dead stays dead.
DeadIsDead ==
  /\ checking \notin alive
  /\ \A w \in Pids : pc[w] = "want" => saw[w] \notin alive

\* The lock of an owner, and the absence of overlaps, exclude all other threads.
OneInside ==
  /\ \A t, u \in Threads : pc[t] \in Inside /\ pc[u] \in Inside /\ Of(t) = Of(u) => t = u
  /\ "overlap" \notin causes =>
       \A t, u \in Threads : pc[t] \in Inside /\ pc[u] \in Inside => t = u

\* Whoever starts or cleans up has dealt with the proxy of the PID file.
Handled ==
  Steady => \A t \in Threads :
    /\ pc[t] \in {"unlink", "clean"} \union Starting => pidfile \notin alive
    /\ pc[t] \in {"kill", "endkill"} => pidfile \in {saw[t], None}

\* A health server is lost only under a second one or by a stop that it did not
\* hear, and stop leaves none that is not lost.
Served ==
  \A o \in Owners :
    /\ health[o] = "lost" => causes \intersect {"unserved", "unheard"} # {}
    /\ pc[o] \in {"endkill", "clean"} => health[o] # "live"

\* Between a stop and the next start nobody is inside.
QuietMeansIdle ==
  /\ "overlap" \notin causes =>
       \A o \in Owners : pc[o] \in {"endkill", "clean"} => asked = "stop"
  /\ quiet # None /\ causes \intersect {"overlap", "late"} = {} =>
       asked = "stop" /\ \A t \in Threads : pc[t] \notin Inside

IInv == /\ TypeOK /\ Known /\ DeadIsDead /\ OneInside /\ Handled
        /\ NamedOrStarting /\ Served /\ QuietMeansIdle /\ StopLeavesNothing

-----------------------------------------------------------------------------
(* Owners and their threads.                                               *)

\* A thread that was ever started belongs to exactly one owner.
LEMMA OneOwner ==
  ASSUME Typed, NEW t \in Threads, t \in Pids => born[t] # None
  PROVE  /\ Of(t) \in Owners
         /\ \A o \in Owners : Belongs(t, o) <=> Of(t) = o
  BY OwnerAssumption, NoneAssumption DEF Typed, Threads, Of, Belongs

\* None is neither a process nor a record of one.
LEMMA NoneIsNothing ==
  /\ None \notin Pids /\ None \notin Owners
  /\ \A o \in Owners, port \in Ports : [by |-> o, port |-> port] # None
  BY NoneAssumption

-----------------------------------------------------------------------------
(* Type correctness.                                                       *)

\* A thread that is anywhere was started by an owner.
LEMMA OwnerOfActive ==
  ASSUME Typed, Known, NEW t \in Threads, pc[t] # "idle"
  PROVE  /\ Of(t) \in Owners
         /\ \A o \in Owners : Belongs(t, o) <=> Of(t) = o
  BY OneOwner DEF Known

\* What a stop does to the health server of its owner, and what it records.
LEMMA StopHealthStep ==
  ASSUME Typed, NEW o \in Owners, StopHealth(o)
  PROVE  /\ health' \in [Owners -> {"none", "live", "lost"}]
         /\ \A p \in Owners : p # o => health'[p] = health[p]
         /\ health'[o] # "live"
         /\ health'[o] = "lost" => health[o] = "lost" \/ "unheard" \in causes'
         /\ causes \subseteq causes' /\ causes' \subseteq Mishap
         /\ causes' \subseteq causes \union {"overlap", "unheard"}
         /\ "overlap" \in causes' <=> "overlap" \in causes \/ Overlap(o)
<1>. DEFINE crossed == IF Overlap(o) THEN {"overlap"} ELSE {}
<1>. USE DEF Typed
<1>1. PICK served \in BOOLEAN :
        /\ health' = [health EXCEPT ![o] = IF @ = "live" THEN (IF served THEN "none" ELSE "lost") ELSE @]
        /\ causes' = causes \union crossed
                          \union (IF health[o] = "live" /\ ~served THEN {"unheard"} ELSE {})
  BY DEF StopHealth
<1>2. /\ crossed \subseteq {"overlap"}
      /\ "overlap" \in crossed <=> Overlap(o)
  OBVIOUS
<1>. HIDE DEF crossed
<1>3. health' \in [Owners -> {"none", "live", "lost"}]
  BY <1>1
<1>4. \A p \in Owners : p # o => health'[p] = health[p]
  BY <1>1
<1>5. health'[o] = IF health[o] = "live" THEN (IF served THEN "none" ELSE "lost") ELSE health[o]
  BY <1>1
<1>6. /\ health'[o] # "live"
      /\ health'[o] = "lost" => health[o] = "lost" \/ (health[o] = "live" /\ ~served)
  BY <1>5
<1>7. health[o] = "live" /\ ~served => "unheard" \in causes'
  BY <1>1
<1>8. causes \subseteq causes' /\ causes' \subseteq causes \union {"overlap", "unheard"}
  BY <1>1, <1>2
<1>9. causes' \subseteq Mishap
  BY <1>8 DEF Mishap
<1>10. "overlap" \in causes' <=> "overlap" \in causes \/ Overlap(o)
  BY <1>1, <1>2
<1>. QED  BY <1>3, <1>4, <1>6, <1>7, <1>8, <1>9, <1>10

LEMMA TypeStep ==
  ASSUME Typed, Known, [Next]_vars
  PROVE  Typed'
<1>. USE OwnerAssumption, NoneIsNothing DEF Typed, Threads, Inside, Mishap
<1>1. ASSUME NEW o \in Owners, Start(o) PROVE Typed'
  BY <1>1 DEF Start, Begin, Goto, Runs
<1>2. ASSUME NEW o \in Owners, Stop(o) PROVE Typed'
  BY <1>2, StopHealthStep DEF Stop, Woken, Runs
<1>3. ASSUME NEW o \in Owners, Exit(o) PROVE Typed'
  BY <1>3 DEF Exit
<1>4. ASSUME NEW o \in Owners, Unlink(o) PROVE Typed'
  BY <1>4 DEF Unlink, Goto
<1>5. ASSUME NEW o \in Owners, Kill(o) PROVE Typed'
  BY <1>5 DEF Kill, Goto, Runs
<1>6. ASSUME NEW o \in Owners, Clean(o) PROVE Typed'
  BY <1>6 DEF Clean, Goto
<1>7. ASSUME NEW w \in Pids, Look(w) PROVE Typed'
  BY <1>7 DEF Look, Goto, Runs
<1>8. ASSUME NEW w \in Pids, Restart(w) PROVE Typed'
  BY <1>8 DEF Restart, Goto
<1>9. ASSUME NEW t \in Threads, Spawn(t) PROVE Typed'
  <2>1. Of(t) \in Owners
    BY <1>9, OwnerOfActive DEF Spawn
  <2>. QED  BY <1>9, <2>1 DEF Spawn, Goto
<1>10. ASSUME NEW t \in Threads, SpawnFails(t) PROVE Typed'
  BY <1>10 DEF SpawnFails, Fail, Goto
<1>11. ASSUME NEW t \in Threads, Settle(t) PROVE Typed'
  <2>1. Of(t) \in Owners
    BY <1>11, OwnerOfActive DEF Settle
  <2>2. pc' \in [Threads -> {"idle", "wait", "want"} \union Inside]
    BY <1>11 DEF Settle, Fail, Goto
  <2>3. process' \in [Owners -> Pids \union {None}]
    BY <1>11, <2>1 DEF Settle
  <2>4. causes' = causes \/ causes' = causes \union {"forgotten"}
    BY ONLY <1>11 DEF Settle, Fail
  <2>5. causes' \subseteq Mishap
    BY <2>4
  <2>. QED  BY <1>11, <2>2, <2>3, <2>5 DEF Settle
<1>12. ASSUME NEW t \in Threads, Write(t) PROVE Typed'
  <2>1. Of(t) \in Owners
    BY <1>12, OwnerOfActive DEF Write
  <2>2. pc' \in [Threads -> {"idle", "wait", "want"} \union Inside]
    BY <1>12 DEF Write
  <2>3. health' \in [Owners -> {"none", "live", "lost"}]
    BY <1>12, <2>1 DEF Write
  <2>4. pidfile' \in Pids \union {None} /\ stopping' \in [Owners -> BOOLEAN]
    BY <1>12, <2>1 DEF Write
  <2>5. causes' \subseteq Mishap
    BY <1>12 DEF Write
  <2>. QED  BY <1>12, <2>2, <2>3, <2>4, <2>5 DEF Write
<1>13. ASSUME NEW t \in Threads, WriteFails(t) PROVE Typed'
  BY <1>13 DEF WriteFails, Goto
<1>14. ASSUME NEW p \in Pids, Die(p) PROVE Typed'
  BY <1>14 DEF Die
<1>15. CASE Check
  BY <1>15 DEF Check
<1>16. CASE CheckUnlinks
  BY <1>16 DEF CheckUnlinks
<1>17. CASE UNCHANGED vars
  BY <1>17 DEF vars, Of
<1>. QED
  BY <1>1, <1>2, <1>3, <1>4, <1>5, <1>6, <1>7, <1>8, <1>9, <1>10, <1>11, <1>12, <1>13,
     <1>14, <1>15, <1>16, <1>17 DEF Next, Step

-----------------------------------------------------------------------------
(* The other parts of the invariant, one by one.                           *)

\* Processes are started before their PIDs are used, and never forgotten.
LEMMA KnownStep ==
  ASSUME Typed, Known, [Next]_vars
  PROVE  Known'
<1>. USE OwnerAssumption, NoneIsNothing DEF Typed, Known, Threads
<1>1. ASSUME NEW o \in Owners, Start(o) PROVE Known'
  BY <1>1 DEF Start, Begin, Goto, Runs
<1>2. ASSUME NEW o \in Owners, Stop(o) PROVE Known'
  BY <1>2 DEF Stop, StopHealth, Woken, Runs
<1>3. ASSUME NEW o \in Owners, Exit(o) PROVE Known'
  BY <1>3 DEF Exit
<1>4. ASSUME NEW o \in Owners, Unlink(o) PROVE Known'
  BY <1>4 DEF Unlink, Goto
<1>5. ASSUME NEW o \in Owners, Kill(o) PROVE Known'
  BY <1>5 DEF Kill, Goto, Runs
<1>6. ASSUME NEW o \in Owners, Clean(o) PROVE Known'
  BY <1>6 DEF Clean, Goto
<1>7. ASSUME NEW w \in Pids, Look(w) PROVE Known'
  BY <1>7 DEF Look, Goto, Runs
<1>8. ASSUME NEW w \in Pids, Restart(w) PROVE Known'
  BY <1>8 DEF Restart, Goto
<1>9. ASSUME NEW t \in Threads, Spawn(t) PROVE Known'
  BY <1>9 DEF Spawn, Goto
<1>10. ASSUME NEW t \in Threads, SpawnFails(t) PROVE Known'
  BY <1>10 DEF SpawnFails, Fail, Goto
<1>11. ASSUME NEW t \in Threads, Settle(t) PROVE Known'
  BY <1>11 DEF Settle, Fail, Goto, Runs
<1>12. ASSUME NEW t \in Threads, Write(t) PROVE Known'
  <2>1. Of(t) \in Owners
    BY <1>12, OwnerOfActive DEF Write
  <2>. QED  BY <1>12, <2>1 DEF Write
<1>13. ASSUME NEW t \in Threads, WriteFails(t) PROVE Known'
  BY <1>13 DEF WriteFails, Goto
<1>14. ASSUME NEW p \in Pids, Die(p) PROVE Known'
  BY <1>14 DEF Die
<1>15. CASE Check
  BY <1>15 DEF Check
<1>16. CASE CheckUnlinks
  BY <1>16 DEF CheckUnlinks
<1>17. CASE UNCHANGED vars
  BY <1>17 DEF vars, Of
<1>. QED
  BY <1>1, <1>2, <1>3, <1>4, <1>5, <1>6, <1>7, <1>8, <1>9, <1>10, <1>11, <1>12, <1>13,
     <1>14, <1>15, <1>16, <1>17 DEF Next, Step, Threads

\* No process comes back to life.
LEMMA DeadStep ==
  ASSUME Typed, Known, DeadIsDead, [Next]_vars
  PROVE  DeadIsDead'
<1>. USE OwnerAssumption, NoneIsNothing DEF Typed, Known, DeadIsDead, Threads, Inside
<1>1. ASSUME NEW o \in Owners, Start(o) PROVE DeadIsDead'
  BY <1>1 DEF Start, Begin, Goto, Runs
<1>2. ASSUME NEW o \in Owners, Stop(o) PROVE DeadIsDead'
  BY <1>2 DEF Stop, StopHealth, Woken, Runs
<1>3. ASSUME NEW o \in Owners, Exit(o) PROVE DeadIsDead'
  BY <1>3 DEF Exit
<1>4. ASSUME NEW o \in Owners, Unlink(o) PROVE DeadIsDead'
  BY <1>4 DEF Unlink, Goto
<1>5. ASSUME NEW o \in Owners, Kill(o) PROVE DeadIsDead'
  BY <1>5 DEF Kill, Goto, Runs
<1>6. ASSUME NEW o \in Owners, Clean(o) PROVE DeadIsDead'
  BY <1>6 DEF Clean, Goto
<1>7. ASSUME NEW w \in Pids, Look(w) PROVE DeadIsDead'
  BY <1>7 DEF Look, Goto, Runs
<1>8. ASSUME NEW w \in Pids, Restart(w) PROVE DeadIsDead'
  BY <1>8 DEF Restart, Goto
<1>9. ASSUME NEW t \in Threads, Spawn(t) PROVE DeadIsDead'
  BY <1>9 DEF Spawn, Goto
<1>10. ASSUME NEW t \in Threads, SpawnFails(t) PROVE DeadIsDead'
  BY <1>10 DEF SpawnFails, Fail, Goto
<1>11. ASSUME NEW t \in Threads, Settle(t) PROVE DeadIsDead'
  BY <1>11 DEF Settle, Fail, Goto, Runs
<1>12. ASSUME NEW t \in Threads, Write(t) PROVE DeadIsDead'
  BY <1>12 DEF Write
<1>13. ASSUME NEW t \in Threads, WriteFails(t) PROVE DeadIsDead'
  BY <1>13 DEF WriteFails, Goto
<1>14. ASSUME NEW p \in Pids, Die(p) PROVE DeadIsDead'
  BY <1>14 DEF Die
<1>15. CASE Check
  BY <1>15 DEF Check, Runs
<1>16. CASE CheckUnlinks
  BY <1>16 DEF CheckUnlinks
<1>17. CASE UNCHANGED vars
  BY <1>17 DEF vars, Of
<1>. QED
  BY <1>1, <1>2, <1>3, <1>4, <1>5, <1>6, <1>7, <1>8, <1>9, <1>10, <1>11, <1>12, <1>13,
     <1>14, <1>15, <1>16, <1>17 DEF Next, Step, Threads

\* Mishaps are not forgotten.
LEMMA CausesGrow ==
  ASSUME [Next]_vars
  PROVE  causes \subseteq causes'
<1>1. ASSUME NEW o \in Owners, Start(o) PROVE causes \subseteq causes'
  BY <1>1 DEF Start, Begin, Goto, Runs
<1>2. ASSUME NEW o \in Owners, Stop(o) PROVE causes \subseteq causes'
  <2>1. PICK served \in BOOLEAN : causes' = causes
          \union (IF Overlap(o) THEN {"overlap"} ELSE {})
          \union (IF health[o] = "live" /\ ~served THEN {"unheard"} ELSE {})
    BY <1>2 DEF Stop, StopHealth
  <2>. QED  BY <2>1
<1>3. ASSUME NEW o \in Owners, Exit(o) PROVE causes \subseteq causes'
  BY <1>3 DEF Exit
<1>4. ASSUME NEW o \in Owners, Unlink(o) PROVE causes \subseteq causes'
  BY <1>4 DEF Unlink, Goto
<1>5. ASSUME NEW o \in Owners, Kill(o) PROVE causes \subseteq causes'
  BY <1>5 DEF Kill, Goto, Runs
<1>6. ASSUME NEW o \in Owners, Clean(o) PROVE causes \subseteq causes'
  BY <1>6 DEF Clean, Goto
<1>7. ASSUME NEW w \in Pids, Look(w) PROVE causes \subseteq causes'
  BY <1>7 DEF Look, Goto, Runs
<1>8. ASSUME NEW w \in Pids, Restart(w) PROVE causes \subseteq causes'
  BY <1>8 DEF Restart, Goto
<1>9. ASSUME NEW t \in Threads, Spawn(t) PROVE causes \subseteq causes'
  BY <1>9 DEF Spawn, Goto
<1>10. ASSUME NEW t \in Threads, SpawnFails(t) PROVE causes \subseteq causes'
  BY <1>10 DEF SpawnFails, Fail, Goto
<1>11. ASSUME NEW t \in Threads, Settle(t) PROVE causes \subseteq causes'
  BY <1>11 DEF Settle, Fail, Goto, Runs
<1>12. ASSUME NEW t \in Threads, Write(t) PROVE causes \subseteq causes'
  BY <1>12 DEF Write
<1>13. ASSUME NEW t \in Threads, WriteFails(t) PROVE causes \subseteq causes'
  BY <1>13 DEF WriteFails, Goto
<1>14. ASSUME NEW p \in Pids, Die(p) PROVE causes \subseteq causes'
  BY <1>14 DEF Die
<1>15. CASE Check
  BY <1>15 DEF Check
<1>16. CASE CheckUnlinks
  BY <1>16 DEF CheckUnlinks
<1>17. CASE UNCHANGED vars
  BY <1>17 DEF vars, Of
<1>. QED
  BY <1>1, <1>2, <1>3, <1>4, <1>5, <1>6, <1>7, <1>8, <1>9, <1>10, <1>11, <1>12, <1>13,
     <1>14, <1>15, <1>16, <1>17 DEF Next, Step, Threads

\* A thread keeps its owner.
LEMMA OfKept ==
  ASSUME Typed, Known, [Next]_vars, NEW t \in Threads, pc[t] # "idle"
  PROVE  Of(t)' = Of(t)
<1>1. born' = born \/ \E p \in Pids : born[p] = None /\ \E r : born' = [born EXCEPT ![p] = r]
  BY DEF Next, Step, Start, Begin, Stop, StopHealth, Exit, Unlink, Kill, Clean, Look, Restart, Spawn,
         SpawnFails, Settle, Write, WriteFails, Die, Check, CheckUnlinks, vars
<1>. QED  BY <1>1 DEF Of, Known, Typed, Threads

\* How the lock is taken: not at all, or by u.
NobodyEnters == \A t \in Threads : pc'[t] \in Inside => pc[t] \in Inside

Enters(u) ==
  /\ pc[u] \notin Inside /\ (u \in Owners \/ pc[u] # "idle")
  /\ Of(u) \in Owners /\ Free(Of(u))
  /\ Overlap(Of(u)) => "overlap" \in causes'
  /\ \A t \in Threads \ {u} : pc'[t] \in Inside => pc[t] \in Inside

\* A thread enters only through a free lock, and is noted when another owner is inside.
LEMMA WhoEnters ==
  ASSUME Typed, Known, [Next]_vars
  PROVE  NobodyEnters \/ \E u \in Threads : Enters(u)
<1>. USE OwnerAssumption, NoneIsNothing DEF Typed, Threads, Inside, NobodyEnters
<1>1. ASSUME NEW o \in Owners, Start(o) PROVE Enters(o)
  BY <1>1, OneOwner DEF Start, Begin, Goto, Enters, Of
<1>2. ASSUME NEW o \in Owners, Stop(o) PROVE Enters(o)
  BY <1>2, OneOwner DEF Stop, StopHealth, Woken, Enters, Of
<1>3. ASSUME NEW o \in Owners, Exit(o) PROVE NobodyEnters
  BY <1>3 DEF Exit
<1>4. ASSUME NEW o \in Owners, Unlink(o) PROVE NobodyEnters
  BY <1>4 DEF Unlink, Goto
<1>5. ASSUME NEW o \in Owners, Kill(o) PROVE NobodyEnters
  BY <1>5 DEF Kill, Goto, Runs
<1>6. ASSUME NEW o \in Owners, Clean(o) PROVE NobodyEnters
  BY <1>6 DEF Clean, Goto
<1>7. ASSUME NEW w \in Pids, Look(w) PROVE NobodyEnters
  BY <1>7 DEF Look, Goto, Runs
<1>8. ASSUME NEW w \in Pids, Restart(w) PROVE Enters(w)
  BY <1>8, OwnerOfActive DEF Restart, Goto, Enters
<1>9. ASSUME NEW t \in Threads, Spawn(t) PROVE NobodyEnters
  BY <1>9 DEF Spawn, Goto
<1>10. ASSUME NEW t \in Threads, SpawnFails(t) PROVE NobodyEnters
  BY <1>10 DEF SpawnFails, Fail, Goto
<1>11. ASSUME NEW t \in Threads, Settle(t) PROVE NobodyEnters
  BY <1>11 DEF Settle, Fail, Goto, Runs
<1>12. ASSUME NEW t \in Threads, Write(t) PROVE NobodyEnters
  BY <1>12 DEF Write
<1>13. ASSUME NEW t \in Threads, WriteFails(t) PROVE NobodyEnters
  BY <1>13 DEF WriteFails, Goto
<1>14. ASSUME NEW p \in Pids, Die(p) PROVE NobodyEnters
  BY <1>14 DEF Die
<1>15. ASSUME Check PROVE NobodyEnters
  BY <1>15 DEF Check
<1>16. ASSUME CheckUnlinks PROVE NobodyEnters
  BY <1>16 DEF CheckUnlinks
<1>17. ASSUME UNCHANGED vars PROVE NobodyEnters
  BY <1>17 DEF vars, Of
<1>. QED
  BY <1>1, <1>2, <1>3, <1>4, <1>5, <1>6, <1>7, <1>8, <1>9, <1>10, <1>11, <1>12, <1>13,
     <1>14, <1>15, <1>16, <1>17 DEF Next, Step, Threads

\* The lock works.
LEMMA OneInsideStep ==
  ASSUME Typed, Known, OneInside, [Next]_vars
  PROVE  OneInside'
<1>1. ASSUME NEW t \in Threads, pc[t] \in Inside
      PROVE  /\ Of(t)' = Of(t) /\ Of(t) \in Owners
             /\ \A o \in Owners : Belongs(t, o) <=> Of(t) = o
  BY <1>1, OfKept, OwnerOfActive DEF Inside
<1>2. Inside' = Inside /\ causes \subseteq causes'
  BY CausesGrow DEF Inside
<1>3. CASE NobodyEnters
  BY <1>1, <1>2, <1>3 DEF NobodyEnters, OneInside
<1>4. ASSUME NEW u \in Threads, Enters(u) PROVE OneInside'
  <2>1. \A t \in Threads : pc[t] \in Inside => Of(t) # Of(u)
    BY <1>1, <1>4 DEF Enters, Free, Within
  <2>2. ASSUME NEW t \in Threads, pc[t] \in Inside PROVE "overlap" \in causes'
    <3>1. ~Belongs(t, Of(u))
      BY <1>1, <1>4, <2>1, <2>2 DEF Enters
    <3>2. Overlap(Of(u))
      BY <2>2, <3>1 DEF Overlap
    <3>. QED  BY <1>4, <3>2 DEF Enters
  <2>3. Of(u)' = Of(u)
    BY <1>4, OfKept DEF Enters, Of
  <2>. QED  BY <1>1, <1>2, <1>4, <2>1, <2>2, <2>3 DEF Enters, OneInside
<1>. QED  BY <1>3, <1>4, WhoEnters

\* Nobody takes from a thread what it is going to use.
LEMMA PreparedStep ==
  ASSUME Typed, Known, OneInside, Prepared, [Next]_vars
  PROVE  Prepared'
<1>. USE OwnerAssumption, NoneIsNothing DEF Prepared, Inside
<1>0. /\ \A t \in Threads : pc[t] # "idle" => Of(t)' = Of(t) /\ Of(t) \in Owners
      /\ \A t \in Threads, o \in Owners : pc[t] # "idle" => (Belongs(t, o) <=> Of(t) = o)
      /\ \A o \in Owners : Of(o) = o
      /\ Typed /\ Typed'
  BY OfKept, OwnerOfActive, TypeStep DEF Of
<1>1. ASSUME NEW o \in Owners, Start(o) PROVE Prepared'
  BY <1>0, <1>1 DEF Typed, Start, Begin, Goto, Runs
<1>2. ASSUME NEW o \in Owners, Stop(o) PROVE Prepared'
  BY <1>0, <1>2 DEF Typed, Stop, StopHealth, Woken, Runs
<1>3. ASSUME NEW o \in Owners, Exit(o) PROVE Prepared'
  BY <1>0, <1>3 DEF Typed, Exit
<1>4. ASSUME NEW o \in Owners, Unlink(o) PROVE Prepared'
  BY <1>0, <1>4 DEF Typed, Unlink, Goto
<1>5. ASSUME NEW o \in Owners, Kill(o) PROVE Prepared'
  BY <1>0, <1>5 DEF Typed, Kill, Goto, Runs
<1>6. ASSUME NEW o \in Owners, Clean(o) PROVE Prepared'
  <2>1. \A t \in Threads : pc[t] \in {"settle", "write"} => Of(t) # o
    BY <1>0, <1>6 DEF OneInside, Clean, Threads
  <2>. QED  BY <1>0, <1>6, <2>1 DEF Typed, Clean, Goto
<1>7. ASSUME NEW w \in Pids, Look(w) PROVE Prepared'
  BY <1>0, <1>7 DEF Typed, Look, Goto, Runs
<1>8. ASSUME NEW w \in Pids, Restart(w) PROVE Prepared'
  BY <1>0, <1>8 DEF Typed, Restart, Goto
<1>9. ASSUME NEW t \in Threads, Spawn(t) PROVE Prepared'
  BY <1>0, <1>9 DEF Typed, Spawn, Goto
<1>10. ASSUME NEW t \in Threads, SpawnFails(t) PROVE Prepared'
  BY <1>0, <1>10 DEF Typed, SpawnFails, Fail, Goto
<1>11. ASSUME NEW t \in Threads, Settle(t) PROVE Prepared'
  <2>1. \A u \in Threads : pc[u] \in {"settle", "write"} /\ Of(u) = Of(t) => u = t
    BY <1>0, <1>11 DEF OneInside, Settle
  <2>. QED  BY <1>0, <1>11, <2>1 DEF Typed, Settle, Fail, Goto
<1>12. ASSUME NEW t \in Threads, Write(t) PROVE Prepared'
  BY <1>0, <1>12 DEF Typed, Write
<1>13. ASSUME NEW t \in Threads, WriteFails(t) PROVE Prepared'
  BY <1>0, <1>13 DEF Typed, WriteFails, Goto
<1>14. ASSUME NEW p \in Pids, Die(p) PROVE Prepared'
  BY <1>0, <1>14 DEF Typed, Die
<1>15. CASE Check
  BY <1>0, <1>15 DEF Typed, Check
<1>16. CASE CheckUnlinks
  BY <1>0, <1>16 DEF Typed, CheckUnlinks
<1>17. CASE UNCHANGED vars
  BY <1>0, <1>17 DEF Typed, vars, Of
<1>. QED
  BY <1>1, <1>2, <1>3, <1>4, <1>5, <1>6, <1>7, <1>8, <1>9, <1>10, <1>11, <1>12, <1>13,
     <1>14, <1>15, <1>16, <1>17 DEF Next, Step, Threads

\* The PID file is dealt with before anyone starts or cleans up.
LEMMA HandledStep ==
  ASSUME Typed, Known, DeadIsDead, OneInside, Prepared, Handled, NamedOrStarting, [Next]_vars
  PROVE  Handled'
<1>. USE OwnerAssumption, NoneIsNothing DEF Handled, Steady, Inside, Starting
<1>0. /\ \A t \in Threads : pc[t] # "idle" => Of(t)' = Of(t) /\ Of(t) \in Owners
      /\ \A t \in Threads, o \in Owners : pc[t] # "idle" => (Belongs(t, o) <=> Of(t) = o)
      /\ \A o \in Owners : Of(o) = o
      /\ Typed /\ Typed' /\ causes \subseteq causes'
  BY OfKept, OwnerOfActive, TypeStep, CausesGrow DEF Of
<1>1. ASSUME NEW o \in Owners, Start(o) PROVE Handled'
  BY <1>0, <1>1 DEF Typed, Start, Begin, Goto, Runs
<1>2. ASSUME NEW o \in Owners, Stop(o) PROVE Handled'
  BY <1>0, <1>2 DEF Typed, Stop, StopHealth, Woken, Runs
<1>3. ASSUME NEW o \in Owners, Exit(o) PROVE Handled'
  BY <1>0, <1>3 DEF Typed, Exit
<1>4. ASSUME NEW o \in Owners, Unlink(o) PROVE Handled'
  BY <1>0, <1>4 DEF Typed, Unlink, Goto
<1>5. ASSUME NEW o \in Owners, Kill(o) PROVE Handled'
  BY <1>0, <1>5 DEF Typed, Kill, Goto, Runs
<1>6. ASSUME NEW o \in Owners, Clean(o) PROVE Handled'
  BY <1>0, <1>6 DEF Typed, Clean, Goto
<1>7. ASSUME NEW w \in Pids, Look(w) PROVE Handled'
  BY <1>0, <1>7 DEF Typed, Look, Goto, Runs
<1>8. ASSUME NEW w \in Pids, Restart(w) PROVE Handled'
  <2>1. Steady' => pidfile \notin alive
    BY <1>8 DEF DeadIsDead, Restart
  <2>. QED  BY <1>0, <1>8, <2>1 DEF Typed, Threads, Restart, Goto
<1>9. ASSUME NEW t \in Threads, Spawn(t) PROVE Handled'
  BY <1>0, <1>9 DEF Typed, Known, Spawn, Goto
<1>10. ASSUME NEW t \in Threads, SpawnFails(t) PROVE Handled'
  BY <1>0, <1>10 DEF Typed, SpawnFails, Fail, Goto
<1>11. ASSUME NEW t \in Threads, Settle(t) PROVE Handled'
  BY <1>0, <1>11 DEF Typed, Settle, Fail, Goto, Runs
<1>12. ASSUME NEW t \in Threads, Write(t) PROVE Handled'
  <2>1. ASSUME Steady, NEW u \in Threads \ {t} PROVE pc[u] \notin Inside
    BY <1>12, <2>1 DEF OneInside, Write
  <2>2. ASSUME Steady, NEW u \in Threads PROVE pc'[u] \notin Inside
    BY <1>0, <1>12, <2>1, <2>2 DEF Typed, Write
  <2>. QED  BY <1>0, <1>12, <2>2 DEF Write
<1>13. ASSUME NEW t \in Threads, WriteFails(t) PROVE Handled'
  BY <1>0, <1>13 DEF Typed, WriteFails, Goto
<1>14. ASSUME NEW p \in Pids, Die(p) PROVE Handled'
  BY <1>0, <1>14 DEF Typed, Die
<1>15. CASE Check
  BY <1>0, <1>15 DEF Typed, Check
<1>16. CASE CheckUnlinks
  BY <1>0, <1>16 DEF Typed, CheckUnlinks
<1>17. CASE UNCHANGED vars
  BY <1>0, <1>17 DEF Typed, vars, Of
<1>. QED
  BY <1>1, <1>2, <1>3, <1>4, <1>5, <1>6, <1>7, <1>8, <1>9, <1>10, <1>11, <1>12, <1>13,
     <1>14, <1>15, <1>16, <1>17 DEF Next, Step, Threads

\* No running proxy loses its PID.
LEMMA NamedStep ==
  ASSUME Typed, Known, DeadIsDead, OneInside, Prepared, Handled, NamedOrStarting, [Next]_vars
  PROVE  NamedOrStarting'
<1>. USE OwnerAssumption, NoneIsNothing DEF NamedOrStarting, Steady, Inside, Starting
<1>0. /\ \A t \in Threads : pc[t] # "idle" => Of(t)' = Of(t) /\ Of(t) \in Owners
      /\ \A t \in Threads, o \in Owners : pc[t] # "idle" => (Belongs(t, o) <=> Of(t) = o)
      /\ \A o \in Owners : Of(o) = o
      /\ Typed /\ Typed' /\ causes \subseteq causes'
  BY OfKept, OwnerOfActive, TypeStep, CausesGrow DEF Of
<1>1. ASSUME NEW o \in Owners, Start(o) PROVE NamedOrStarting'
  BY <1>0, <1>1 DEF Typed, Start, Begin, Goto, Runs
<1>2. ASSUME NEW o \in Owners, Stop(o) PROVE NamedOrStarting'
  <2>1. \A t \in Threads : pc[t] \in {"settle", "write"} => pc'[t] = pc[t]
    BY <1>0, <1>2 DEF Typed, Stop, StopHealth, Woken
  <2>. QED  BY <1>0, <1>2, <2>1 DEF Stop
<1>3. ASSUME NEW o \in Owners, Exit(o) PROVE NamedOrStarting'
  <2>1. ASSUME Steady', NEW t \in Threads, pc[t] \in {"settle", "write"}
        PROVE  pc'[t] = pc[t] /\ process'[Of(t)] = process[Of(t)]
    <3>1. ~Belongs(t, o)
      BY <1>3, <2>1 DEF Exit, Within
    <3>. QED  BY <1>0, <1>3, <2>1, <3>1 DEF Typed, Exit
  <2>. QED  BY <1>0, <1>3, <2>1 DEF Exit
<1>4. ASSUME NEW o \in Owners, Unlink(o) PROVE NamedOrStarting'
  <2>1. \A t \in Threads : pc[t] \in {"settle", "write"} => pc'[t] = pc[t]
    BY <1>0, <1>4 DEF Typed, Unlink, Goto
  <2>2. Steady => pidfile \notin alive
    BY <1>4 DEF Handled, Unlink, Threads
  <2>. QED  BY <1>0, <1>4, <2>1, <2>2 DEF Unlink
<1>5. ASSUME NEW o \in Owners, Kill(o) PROVE NamedOrStarting'
  BY <1>0, <1>5 DEF Typed, Kill, Goto, Runs
<1>6. ASSUME NEW o \in Owners, Clean(o) PROVE NamedOrStarting'
  <2>1. Steady => pidfile \notin alive
    BY <1>6 DEF Handled, Clean, Threads
  <2>2. Steady => \A t \in Threads : pc[t] \notin {"settle", "write"}
    BY <1>6 DEF OneInside, Clean, Threads
  <2>. QED  BY <1>0, <1>6, <2>1, <2>2 DEF Clean
<1>7. ASSUME NEW w \in Pids, Look(w) PROVE NamedOrStarting'
  BY <1>0, <1>7 DEF Typed, Look, Goto, Runs
<1>8. ASSUME NEW w \in Pids, Restart(w) PROVE NamedOrStarting'
  BY <1>0, <1>8 DEF Typed, Restart, Goto
<1>9. ASSUME NEW t \in Threads, Spawn(t) PROVE NamedOrStarting'
  <2>1. Steady => pidfile \notin alive
    BY <1>9 DEF Handled, Spawn
  <2>2. Steady => \A u \in Threads : pc[u] \notin {"settle", "write"}
    BY <1>9 DEF OneInside, Spawn
  <2>3. Steady => alive = {}
    BY <2>1, <2>2
  <2>4. \A p \in alive' \ alive : process'[Of(t)] = p /\ pc'[t] = "settle"
    BY <1>0, <1>9 DEF Typed, Spawn, Goto
  <2>. QED  BY <1>0, <1>9, <2>3, <2>4 DEF Spawn
<1>10. ASSUME NEW t \in Threads, SpawnFails(t) PROVE NamedOrStarting'
  BY <1>0, <1>10 DEF Typed, SpawnFails, Fail, Goto
<1>11. ASSUME NEW t \in Threads, Settle(t) PROVE NamedOrStarting'
  BY <1>0, <1>11 DEF Typed, Settle, Fail, Goto, Runs
<1>12. ASSUME NEW t \in Threads, Write(t) PROVE NamedOrStarting'
  <2>1. Steady => pidfile \notin alive
    BY <1>12 DEF Handled, Write
  <2>2. Steady => \A u \in Threads : pc[u] \in {"settle", "write"} => u = t
    BY <1>12 DEF OneInside, Write
  <2>. QED  BY <1>0, <1>12, <2>1, <2>2 DEF Write
<1>13. ASSUME NEW t \in Threads, WriteFails(t) PROVE NamedOrStarting'
  BY <1>0, <1>13 DEF Typed, WriteFails, Goto
<1>14. ASSUME NEW p \in Pids, Die(p) PROVE NamedOrStarting'
  BY <1>0, <1>14 DEF Typed, Die
<1>15. CASE Check
  BY <1>0, <1>15 DEF Typed, Check
<1>16. CASE CheckUnlinks
  <2>1. Steady' => pidfile \notin alive
    <3>1. Steady' => pidfile \in {None, checking}
      BY ONLY <1>16 DEF CheckUnlinks, Steady
    <3>2. None \notin alive /\ checking \notin alive
      BY <1>0 DEF DeadIsDead, Typed
    <3>. QED  BY <3>1, <3>2
  <2>. QED  BY <1>0, <1>16, <2>1 DEF CheckUnlinks
<1>17. CASE UNCHANGED vars
  BY <1>0, <1>17 DEF Typed, vars, Of
<1>. QED
  BY <1>1, <1>2, <1>3, <1>4, <1>5, <1>6, <1>7, <1>8, <1>9, <1>10, <1>11, <1>12, <1>13,
     <1>14, <1>15, <1>16, <1>17 DEF Next, Step, Threads

\* Every lost health server is accounted for.
LEMMA ServedStep ==
  ASSUME Typed, Known, OneInside, Served, [Next]_vars
  PROVE  Served'
<1>. USE OwnerAssumption, NoneIsNothing DEF Served, Threads, Inside
<1>0. /\ \A t \in Threads : pc[t] # "idle" => Of(t)' = Of(t) /\ Of(t) \in Owners
      /\ \A t \in Threads, o \in Owners : pc[t] # "idle" => (Belongs(t, o) <=> Of(t) = o)
      /\ \A o \in Owners : Of(o) = o
      /\ Typed /\ Typed' /\ causes \subseteq causes'
  BY OfKept, OwnerOfActive, TypeStep, CausesGrow DEF Of
<1>1. ASSUME NEW o \in Owners, Start(o) PROVE Served'
  BY <1>0, <1>1 DEF Typed, Start, Begin, Goto, Runs
<1>2. ASSUME NEW o \in Owners, Stop(o) PROVE Served'
  BY <1>0, <1>2, StopHealthStep DEF Typed, Stop, Woken, Runs
<1>3. ASSUME NEW o \in Owners, Exit(o) PROVE Served'
  BY <1>0, <1>3 DEF Typed, Exit
<1>4. ASSUME NEW o \in Owners, Unlink(o) PROVE Served'
  BY <1>0, <1>4 DEF Typed, Unlink, Goto
<1>5. ASSUME NEW o \in Owners, Kill(o) PROVE Served'
  BY <1>0, <1>5 DEF Typed, Kill, Goto, Runs
<1>6. ASSUME NEW o \in Owners, Clean(o) PROVE Served'
  BY <1>0, <1>6 DEF Typed, Clean, Goto
<1>7. ASSUME NEW w \in Pids, Look(w) PROVE Served'
  BY <1>0, <1>7 DEF Typed, Look, Goto, Runs
<1>8. ASSUME NEW w \in Pids, Restart(w) PROVE Served'
  BY <1>0, <1>8 DEF Typed, Restart, Goto
<1>9. ASSUME NEW t \in Threads, Spawn(t) PROVE Served'
  BY <1>0, <1>9 DEF Typed, Spawn, Goto
<1>10. ASSUME NEW t \in Threads, SpawnFails(t) PROVE Served'
  BY <1>0, <1>10 DEF Typed, SpawnFails, Fail, Goto
<1>11. ASSUME NEW t \in Threads, Settle(t) PROVE Served'
  BY <1>0, <1>11 DEF Typed, Settle, Fail, Goto, Runs
<1>12. ASSUME NEW t \in Threads, Write(t) PROVE Served'
  <2>1. Of(t) \in Owners /\ pc[Of(t)] \notin {"endkill", "clean"}
    BY <1>0, <1>12 DEF OneInside, Write
  <2>2. \A o \in Owners : pc'[o] \in {"endkill", "clean"} => pc'[o] = pc[o]
    BY <1>0, <1>12 DEF Typed, Write
  <2>3. \A o \in Owners : o # Of(t) => health'[o] = health[o]
    BY <1>0, <1>12 DEF Typed, Write
  <2>4. health'[Of(t)] = "lost" => "unserved" \in causes'
    BY <1>0, <1>12, <2>1 DEF Typed, Write
  <2>. QED  BY <1>0, <2>1, <2>2, <2>3, <2>4
<1>13. ASSUME NEW t \in Threads, WriteFails(t) PROVE Served'
  BY <1>0, <1>13 DEF Typed, WriteFails, Goto
<1>14. ASSUME NEW p \in Pids, Die(p) PROVE Served'
  BY <1>0, <1>14 DEF Typed, Die
<1>15. CASE Check
  BY <1>0, <1>15 DEF Typed, Check
<1>16. CASE CheckUnlinks
  BY <1>0, <1>16 DEF Typed, CheckUnlinks
<1>17. CASE UNCHANGED vars
  BY <1>0, <1>17 DEF Typed, vars, Of
<1>. QED
  BY <1>1, <1>2, <1>3, <1>4, <1>5, <1>6, <1>7, <1>8, <1>9, <1>10, <1>11, <1>12, <1>13,
     <1>14, <1>15, <1>16, <1>17 DEF Next, Step, Threads

\* After a stop only a call or a late watchdog gets inside.
LEMMA QuietStep ==
  ASSUME Typed, Known, OneInside, QuietMeansIdle, [Next]_vars
  PROVE  QuietMeansIdle'
<1>. USE OwnerAssumption, NoneIsNothing DEF QuietMeansIdle, Threads, Inside
<1>0. /\ \A t \in Threads : pc[t] # "idle" => Of(t)' = Of(t) /\ Of(t) \in Owners
      /\ \A t \in Threads, o \in Owners : pc[t] # "idle" => (Belongs(t, o) <=> Of(t) = o)
      /\ \A o \in Owners : Of(o) = o
      /\ Typed /\ Typed' /\ causes \subseteq causes'
  BY OfKept, OwnerOfActive, TypeStep, CausesGrow DEF Of
<1>1. ASSUME NEW o \in Owners, Start(o) PROVE QuietMeansIdle'
  <2>1. "overlap" \notin causes' => \A t \in Threads : pc[t] \notin Inside
    BY <1>1 DEF Start, Begin, Free, Within, Overlap
  <2>2. \A u \in Threads : pc'[u] # pc[u] => u = o /\ pc'[u] \notin {"endkill", "clean"}
    BY <1>0, <1>1 DEF Typed, Start, Goto
  <2>. QED  BY <1>0, <1>1, <2>1, <2>2 DEF Start, Begin
<1>2. ASSUME NEW o \in Owners, Stop(o) PROVE QuietMeansIdle'
  BY <1>0, <1>2 DEF Typed, Stop, StopHealth, Woken, Runs
<1>3. ASSUME NEW o \in Owners, Exit(o) PROVE QuietMeansIdle'
  BY <1>0, <1>3 DEF Typed, Exit
<1>4. ASSUME NEW o \in Owners, Unlink(o) PROVE QuietMeansIdle'
  BY <1>0, <1>4 DEF Typed, Unlink, Goto
<1>5. ASSUME NEW o \in Owners, Kill(o) PROVE QuietMeansIdle'
  BY <1>0, <1>5 DEF Typed, Kill, Goto, Runs
<1>6. ASSUME NEW o \in Owners, Clean(o) PROVE QuietMeansIdle'
  <2>1. "overlap" \notin causes => \A u \in Threads : u # o => pc[u] \notin Inside
    BY <1>6 DEF OneInside, Clean
  <2>2. "overlap" \notin causes => asked = "stop"
    BY <1>6 DEF Clean
  <2>3. \A u \in Threads : pc'[u] = IF u = o THEN "idle" ELSE pc[u]
    BY <1>0, <1>6 DEF Typed, Clean, Goto
  <2>. QED  BY <1>0, <1>6, <2>1, <2>2, <2>3 DEF Clean
<1>7. ASSUME NEW w \in Pids, Look(w) PROVE QuietMeansIdle'
  BY <1>0, <1>7 DEF Typed, Look, Goto, Runs
<1>8. ASSUME NEW w \in Pids, Restart(w) PROVE QuietMeansIdle'
  BY <1>0, <1>8 DEF Typed, Restart, Goto
<1>9. ASSUME NEW t \in Threads, Spawn(t) PROVE QuietMeansIdle'
  BY <1>0, <1>9 DEF Typed, Spawn, Goto
<1>10. ASSUME NEW t \in Threads, SpawnFails(t) PROVE QuietMeansIdle'
  BY <1>0, <1>10 DEF Typed, SpawnFails, Fail, Goto
<1>11. ASSUME NEW t \in Threads, Settle(t) PROVE QuietMeansIdle'
  BY <1>0, <1>11 DEF Typed, Settle, Fail, Goto, Runs
<1>12. ASSUME NEW t \in Threads, Write(t) PROVE QuietMeansIdle'
  BY <1>0, <1>12 DEF Typed, Write
<1>13. ASSUME NEW t \in Threads, WriteFails(t) PROVE QuietMeansIdle'
  BY <1>0, <1>13 DEF Typed, WriteFails, Goto
<1>14. ASSUME NEW p \in Pids, Die(p) PROVE QuietMeansIdle'
  BY <1>0, <1>14 DEF Typed, Die
<1>15. CASE Check
  BY <1>0, <1>15 DEF Typed, Check
<1>16. CASE CheckUnlinks
  BY <1>0, <1>16 DEF Typed, CheckUnlinks
<1>17. CASE UNCHANGED vars
  BY <1>0, <1>17 DEF Typed, vars, Of
<1>. QED
  BY <1>1, <1>2, <1>3, <1>4, <1>5, <1>6, <1>7, <1>8, <1>9, <1>10, <1>11, <1>12, <1>13,
     <1>14, <1>15, <1>16, <1>17 DEF Next, Step, Threads

\* What stop has removed stays removed.
LEMMA StopStep ==
  ASSUME IInv, [Next]_vars
  PROVE  StopLeavesNothing'
<1>. DEFINE Gone == /\ alive = {} /\ pidfile = None
                    /\ "unheard" \notin causes => health[quiet] = "none"
<1>. USE OwnerAssumption, NoneIsNothing DEF Threads, Inside
<1>. SUFFICES ASSUME quiet' # None, causes' \subseteq {"forgotten", "unheard"}
             PROVE  Gone'
  BY DEF StopLeavesNothing
<1>0. Typed /\ Typed' /\ causes \subseteq causes' /\ Steady
      /\ causes \subseteq {"forgotten", "unheard"}
  BY TypeStep, CausesGrow DEF IInv, TypeOK, Steady
<1>a. quiet # None => Gone /\ asked = "stop" /\ \A t \in Threads : pc[t] \notin Inside
  BY <1>0 DEF IInv, StopLeavesNothing, QuietMeansIdle
<1>1. ASSUME NEW o \in Owners, Start(o) PROVE Gone'
  BY <1>1 DEF Start, Begin
<1>2. ASSUME NEW o \in Owners, Stop(o) PROVE Gone'
  BY <1>2 DEF Stop, StopHealth
<1>3. ASSUME NEW o \in Owners, Exit(o) PROVE Gone'
  BY <1>0, <1>a, <1>3 DEF Typed, Exit
<1>4. ASSUME NEW o \in Owners, Unlink(o) PROVE Gone'
  BY <1>0, <1>a, <1>4 DEF Unlink
<1>5. ASSUME NEW o \in Owners, Kill(o) PROVE Gone'
  BY <1>0, <1>a, <1>5 DEF Kill
<1>6. ASSUME NEW o \in Owners, Clean(o) PROVE Gone'
  <2>1. pidfile \notin alive
    BY <1>0, <1>6 DEF IInv, Handled, Clean
  <2>2. \A t \in Threads : pc[t] \notin {"settle", "write"}
    BY <1>0, <1>6 DEF IInv, OneInside, Clean
  <2>3. alive = {}
    BY <1>0, <2>1, <2>2 DEF IInv, NamedOrStarting
  <2>4. ("unheard" \notin causes => health[o] = "none") /\ asked = "stop"
    BY <1>0, <1>6 DEF IInv, Served, QuietMeansIdle, Typed, Clean
  <2>. QED  BY <1>6, <2>3, <2>4 DEF Clean
<1>7. ASSUME NEW w \in Pids, Look(w) PROVE Gone'
  BY <1>0, <1>a, <1>7 DEF Look
<1>8. ASSUME NEW w \in Pids, Restart(w) PROVE Gone'
  BY <1>0, <1>a, <1>8 DEF Restart
<1>9. ASSUME NEW t \in Threads, Spawn(t) PROVE Gone'
  BY <1>0, <1>a, <1>9 DEF Spawn
<1>10. ASSUME NEW t \in Threads, SpawnFails(t) PROVE Gone'
  BY <1>0, <1>a, <1>10 DEF SpawnFails
<1>11. ASSUME NEW t \in Threads, Settle(t) PROVE Gone'
  BY <1>0, <1>a, <1>11 DEF Settle
<1>12. ASSUME NEW t \in Threads, Write(t) PROVE Gone'
  BY <1>0, <1>a, <1>12 DEF Write
<1>13. ASSUME NEW t \in Threads, WriteFails(t) PROVE Gone'
  BY <1>0, <1>a, <1>13 DEF WriteFails
<1>14. ASSUME NEW p \in Pids, Die(p) PROVE Gone'
  BY <1>0, <1>a, <1>14 DEF Die
<1>15. CASE Check
  BY <1>0, <1>a, <1>15 DEF Check
<1>16. CASE CheckUnlinks
  BY <1>0, <1>a, <1>16 DEF CheckUnlinks
<1>17. CASE UNCHANGED vars
  BY <1>0, <1>a, <1>17 DEF vars
<1>. QED
  BY <1>1, <1>2, <1>3, <1>4, <1>5, <1>6, <1>7, <1>8, <1>9, <1>10, <1>11, <1>12, <1>13,
     <1>14, <1>15, <1>16, <1>17 DEF Next, Step

-----------------------------------------------------------------------------
(* The invariant, and what follows from it.                                *)

LEMMA InitIInv == Init => IInv
<1>. SUFFICES ASSUME Init PROVE IInv
  OBVIOUS
<1>1. TypeOK
  BY DEF Init, TypeOK, Typed, Prepared, Threads, Inside, Mishap
<1>2. Known /\ DeadIsDead /\ Served
  BY OwnerAssumption, NoneIsNothing DEF Init, Known, DeadIsDead, Served, Threads
<1>3. OneInside /\ Handled /\ QuietMeansIdle
  BY DEF Init, OneInside, Handled, QuietMeansIdle, Inside, Starting, Threads
<1>4. NamedOrStarting /\ StopLeavesNothing
  BY DEF Init, NamedOrStarting, StopLeavesNothing
<1>. QED  BY <1>1, <1>2, <1>3, <1>4 DEF IInv

LEMMA Invariance == Spec => []IInv
<1>1. ASSUME IInv, [Next]_vars PROVE IInv'
  <2>1. Typed' /\ Known' /\ DeadIsDead' /\ OneInside' /\ Prepared'
    BY <1>1, TypeStep, KnownStep, DeadStep, OneInsideStep, PreparedStep DEF IInv, TypeOK
  <2>2. Handled' /\ NamedOrStarting' /\ Served' /\ QuietMeansIdle' /\ StopLeavesNothing'
    BY <1>1, HandledStep, NamedStep, ServedStep, QuietStep, StopStep DEF IInv, TypeOK
  <2>. QED  BY <2>1, <2>2 DEF IInv, TypeOK
<1>. QED  BY <1>1, InitIInv, PTL DEF Spec

\* The state of the proxy is well typed, and no thread uses a PID that another
\* one has taken away (runner.py:403-541, 550-583).
THEOREM TypeCorrect == Spec => []TypeOK
<1>1. IInv => TypeOK
  BY DEF IInv
<1>. QED  BY <1>1, Invariance, PTL

\* No running proxy loses its entry in the PID file, except through the four
\* mishaps NamedOrStarting names: the list is complete.
THEOREM NoProxyLost == Spec => []NamedOrStarting
<1>1. IInv => NamedOrStarting
  BY DEF IInv
<1>. QED  BY <1>1, Invariance, PTL

\* A stop that returned left neither a proxy nor a PID file nor, unless it came
\* before the server's thread served, a health server (runner.py:334-343,
\* 543-583), with the mishaps as the only exceptions.
THEOREM StopIsClean == Spec => []StopLeavesNothing
<1>1. IInv => StopLeavesNothing
  BY DEF IInv
<1>. QED  BY <1>1, Invariance, PTL

-----------------------------------------------------------------------------
(* Least numbers and sequences.                                            *)

\* Every nonempty set of natural numbers has a least element.
LEMMA LeastNat ==
  ASSUME NEW S \in SUBSET Nat, S # {}
  PROVE  \E x \in S : \A y \in S : x <= y
<1>1. PICK x \in S : \A y \in S : <<y, x>> \notin OpToRel(<, Nat)
  BY WFMin, NatLessThanWellFounded
<1>2. ASSUME NEW y \in S PROVE ~(y < x)
  BY <1>1 DEF OpToRel
<1>. QED  BY <1>2

\* The operator that picks it.
LEMMA MinIsLeast ==
  ASSUME NEW S \in SUBSET Nat, S # {}
  PROVE  Min(S) \in S /\ \A x \in S : Min(S) <= x
<1>1. \E x \in S : \A y \in S : x <= y
  BY LeastNat
<1>. QED  BY <1>1 DEF Min

\* Without its first n elements a sequence keeps the others in their order.
LEMMA SuffixKeeps ==
  ASSUME NEW S, NEW s \in Seq(S), NEW n \in 0..Len(s)
  PROVE  /\ SubSeq(s, n + 1, Len(s)) \in Seq(S)
         /\ Len(SubSeq(s, n + 1, Len(s))) = Len(s) - n
         /\ \A k \in 1..(Len(s) - n) : SubSeq(s, n + 1, Len(s))[k] = s[k + n]
<1>1. n + 1 \in Int /\ Len(s) \in Int /\ \A i \in (n + 1)..Len(s) : s[i] \in S
  OBVIOUS
<1>2. /\ SubSeq(s, n + 1, Len(s)) \in Seq(S)
      /\ Len(SubSeq(s, n + 1, Len(s))) = IF n + 1 <= Len(s) THEN Len(s) - (n + 1) + 1 ELSE 0
      /\ \A k \in 1..(Len(s) - (n + 1) + 1) : SubSeq(s, n + 1, Len(s))[k] = s[n + 1 + k - 1]
  BY <1>1, SubSeqProperties
<1>3. Len(s) - (n + 1) + 1 = Len(s) - n
  OBVIOUS
<1>4. \A k \in 1..(Len(s) - n) : n + 1 + k - 1 = k + n
  OBVIOUS
<1>5. (IF n + 1 <= Len(s) THEN Len(s) - (n + 1) + 1 ELSE 0) = Len(s) - n
  OBVIOUS
<1>. DEFINE u == SubSeq(s, n + 1, Len(s))
<1>. HIDE DEF u
<1>6. u \in Seq(S) /\ Len(u) = Len(s) - n
  BY <1>2, <1>5 DEF u
<1>7. \A k \in 1..(Len(s) - n) : u[k] = s[n + 1 + k - 1]
  BY <1>2, <1>3 DEF u
<1>. QED  BY <1>4, <1>6, <1>7 DEF u

-----------------------------------------------------------------------------
(* The rate tracker.                                                       *)

\* The places of the requests of a window that have not expired.
Fresh(w) == {i \in 1..Len(w) : w[i] <= Window}

\* A tracked window holds every request granted to the client in the last
\* Window ticks, and no client has too many of them.
RateInv ==
  /\ windows \in [Clients -> Seq(Nat)] /\ violations \in [Clients -> Nat]
  /\ granted = [c \in Clients |-> Recent(windows[c])]
  /\ RateBound

\* Popping a window leaves a suffix of it that begins with a fresh request.
LEMMA RecentIsSuffix ==
  ASSUME NEW w \in Seq(Nat)
  PROVE  /\ Recent(w) \in Seq(Nat)
         /\ \/ Fresh(w) = {} /\ Recent(w) = <<>>
            \/ \E m \in Fresh(w) :
                 /\ \A i \in Fresh(w) : m <= i
                 /\ Len(Recent(w)) = Len(w) - (m - 1)
                 /\ \A k \in 1..(Len(w) - (m - 1)) : Recent(w)[k] = w[k + (m - 1)]
<1>1. CASE Fresh(w) = {}
  BY <1>1 DEF Recent, Since, Fresh
<1>2. CASE Fresh(w) # {}
  <2>. DEFINE m == Min(Fresh(w))
  <2>1. m \in Fresh(w) /\ \A i \in Fresh(w) : m <= i
    <3>1. Fresh(w) \in SUBSET Nat
      BY DEF Fresh
    <3>. QED  BY <1>2, <3>1, MinIsLeast
  <2>2. Recent(w) = SubSeq(w, m, Len(w))
    BY <1>2 DEF Recent, Since, Fresh
  <2>. HIDE DEF m
  <2>3. m \in 1..Len(w)
    BY <2>1 DEF Fresh
  <2>4. m - 1 \in 0..Len(w) /\ (m - 1) + 1 = m
    BY <2>3
  <2>5. /\ SubSeq(w, (m - 1) + 1, Len(w)) \in Seq(Nat)
        /\ Len(SubSeq(w, (m - 1) + 1, Len(w))) = Len(w) - (m - 1)
        /\ \A k \in 1..(Len(w) - (m - 1)) : SubSeq(w, (m - 1) + 1, Len(w))[k] = w[k + (m - 1)]
    BY <2>4, SuffixKeeps
  <2>. QED  BY <2>1, <2>2, <2>4, <2>5
<1>. QED  BY <1>1, <1>2

\* A window that begins with a fresh request is left as it is.
LEMMA RecentStable ==
  ASSUME NEW w \in Seq(Nat), w = <<>> \/ w[1] <= Window
  PROVE  Recent(w) = w
<1>1. CASE w = <<>>
  BY <1>1 DEF Recent, Since
<1>2. CASE w # <<>>
  <2>1. 1 \in Fresh(w)
    BY <1>2 DEF Fresh
  <2>2. PICK m \in Fresh(w) :
          /\ \A i \in Fresh(w) : m <= i
          /\ Len(Recent(w)) = Len(w) - (m - 1)
          /\ \A k \in 1..(Len(w) - (m - 1)) : Recent(w)[k] = w[k + (m - 1)]
    BY <2>1, RecentIsSuffix
  <2>3. m = 1
    BY <2>1, <2>2 DEF Fresh
  <2>4. /\ Recent(w) \in Seq(Nat) /\ Len(Recent(w)) = Len(w)
        /\ \A k \in 1..Len(w) : Recent(w)[k] = w[k]
    BY <2>2, <2>3, RecentIsSuffix
  <2>. QED  BY <2>4, SeqEqual
<1>. QED  BY <1>1, <1>2

\* Popping a popped window does nothing, and nothing after a grant.
LEMMA RecentOnce ==
  ASSUME NEW w \in Seq(Nat)
  PROVE  /\ Recent(Recent(w)) = Recent(w)
         /\ Recent(Append(Recent(w), 0)) = Append(Recent(w), 0)
<1>. DEFINE r == Recent(w)
<1>1. r \in Seq(Nat) /\ (r = <<>> \/ r[1] <= Window)
  <2>1. CASE r = <<>>
    BY <2>1, RecentIsSuffix
  <2>2. CASE r # <<>>
    <3>1. PICK m \in Fresh(w) : /\ Len(r) = Len(w) - (m - 1)
                                /\ \A k \in 1..(Len(w) - (m - 1)) : r[k] = w[k + (m - 1)]
      BY <2>2, RecentIsSuffix
    <3>2. m \in 1..Len(w) /\ w[m] <= Window /\ 1 \in 1..(Len(w) - (m - 1)) /\ 1 + (m - 1) = m
      BY DEF Fresh
    <3>. QED  BY <3>1, <3>2, RecentIsSuffix
  <2>. QED  BY <2>1, <2>2
<1>. HIDE DEF r
<1>2. Append(r, 0) \in Seq(Nat) /\ Append(r, 0)[1] <= Window
  <2>1. CASE r = <<>>
    BY <2>1, RateAssumption
  <2>2. CASE r # <<>>
    BY <1>1, <2>2
  <2>. QED  BY <1>1, <2>1, <2>2
<1>. QED  BY <1>1, <1>2, RecentStable DEF r

\* Ageing and popping commute: what was popped before a tick would be popped
\* after it.
LEMMA RecentOlder ==
  ASSUME NEW w \in Seq(Nat)
  PROVE  /\ Older(w) \in Seq(Nat)
         /\ Since(Older(Recent(w)), {i \in 1..Len(Recent(w)) : Recent(w)[i] < Window})
              = Recent(Older(w))
         /\ Len(Recent(Older(w))) <= Len(Recent(w))
<1>. DEFINE r == Recent(w)
            q == Older(w)
            u == Older(r)
<1>1. /\ r \in Seq(Nat) /\ q \in Seq(Nat) /\ Len(q) = Len(w)
      /\ \A i \in 1..Len(w) : q[i] = IF w[i] > Window THEN w[i] ELSE w[i] + 1
      /\ u \in Seq(Nat) /\ Len(u) = Len(r)
      /\ \A i \in 1..Len(r) : u[i] = IF r[i] > Window THEN r[i] ELSE r[i] + 1
  <2>1. r \in Seq(Nat)
    BY RecentIsSuffix
  <2>2. ASSUME NEW v \in Seq(Nat)
        PROVE  /\ Older(v) \in Seq(Nat) /\ Len(Older(v)) = Len(v)
               /\ \A i \in 1..Len(v) : Older(v)[i] = IF v[i] > Window THEN v[i] ELSE v[i] + 1
    <3>. DEFINE o == Older(v)
    <3>1. /\ o = [i \in 1..Len(v) |-> IF v[i] > Window THEN v[i] ELSE v[i] + 1]
          /\ Len(v) \in Nat
      BY DEF Older
    <3>. HIDE DEF o
    <3>2. \A i \in 1..Len(v) : o[i] \in Nat
      BY <3>1, RateAssumption
    <3>3. o \in [1..Len(v) -> Nat]
      BY <3>1, <3>2
    <3>4. o \in Seq(Nat) /\ Len(o) = Len(v)
      BY <3>1, <3>3, SeqDef
    <3>. QED  BY <3>1, <3>4 DEF o
  <2>. QED  BY <2>1, <2>2
<1>. HIDE DEF r, q, u
<1>2. /\ Fresh(q) = {i \in 1..Len(w) : w[i] < Window}
      /\ Fresh(u) = {i \in 1..Len(r) : r[i] < Window}
  <2>1. \A i \in 1..Len(w) : w[i] \in Nat /\ (q[i] <= Window <=> w[i] < Window)
    BY <1>1, RateAssumption
  <2>2. \A i \in 1..Len(r) : r[i] \in Nat /\ (u[i] <= Window <=> r[i] < Window)
    BY <1>1, RateAssumption
  <2>. QED  BY <1>1, <2>1, <2>2 DEF Fresh
<1>3. Since(u, {i \in 1..Len(r) : r[i] < Window}) = Recent(u)
  BY <1>2 DEF Recent, Fresh
<1>4. CASE Fresh(q) = {}
  <2>1. Fresh(u) = {}
    <3>. SUFFICES ASSUME NEW i \in Fresh(u) PROVE FALSE
      OBVIOUS
    <3>1. i \in 1..Len(r) /\ r[i] < Window /\ Len(r) # 0
      BY <1>1, <1>2
    <3>2. PICK m \in Fresh(w) : /\ Len(r) = Len(w) - (m - 1)
                                /\ \A k \in 1..(Len(w) - (m - 1)) : r[k] = w[k + (m - 1)]
      BY <3>1, RecentIsSuffix DEF r
    <3>3. i + (m - 1) \in 1..Len(w) /\ w[i + (m - 1)] < Window
      BY <3>1, <3>2 DEF Fresh
    <3>. QED  BY <1>2, <1>4, <3>3
  <2>2. Recent(u) = <<>> /\ Recent(q) = <<>>
    BY <1>1, <1>4, <2>1, RecentIsSuffix
  <2>. QED  BY <1>1, <1>3, <2>2 DEF r, q, u
<1>5. CASE Fresh(q) # {}
  <2>1. PICK p \in Fresh(q) :
          /\ \A i \in Fresh(q) : p <= i
          /\ Len(Recent(q)) = Len(q) - (p - 1)
          /\ \A k \in 1..(Len(q) - (p - 1)) : Recent(q)[k] = q[k + (p - 1)]
    BY <1>1, <1>5, RecentIsSuffix
  <2>2. p \in 1..Len(w) /\ w[p] < Window /\ p \in Fresh(w)
    BY <1>2, RateAssumption DEF Fresh
  <2>3. PICK m \in Fresh(w) :
          /\ \A i \in Fresh(w) : m <= i
          /\ Len(r) = Len(w) - (m - 1)
          /\ \A k \in 1..(Len(w) - (m - 1)) : r[k] = w[k + (m - 1)]
    BY <2>2, RecentIsSuffix DEF r
  <2>4. m \in 1..Len(w) /\ m <= p
    BY <2>2, <2>3 DEF Fresh
  <2>5. \A k \in 1..Len(r) : u[k] = q[k + (m - 1)] /\ k + (m - 1) \in 1..Len(w)
    <3>. TAKE k \in 1..Len(r)
    <3>1. k \in 1..(Len(w) - (m - 1)) /\ k + (m - 1) \in 1..Len(w)
      BY <1>1, <2>3, <2>4
    <3>2. r[k] = w[k + (m - 1)]
      BY <2>3, <3>1
    <3>. QED  BY <1>1, <3>1, <3>2
  <2>6. \A i \in 1..Len(r) : i \in Fresh(u) <=> i + (m - 1) \in Fresh(q)
    BY <1>2, <2>3, <2>5
  <2>7. p - (m - 1) \in Fresh(u)
    <3>1. p - (m - 1) \in 1..Len(r) /\ p - (m - 1) + (m - 1) = p
      BY <2>2, <2>3, <2>4
    <3>. QED  BY <2>6, <3>1
  <2>8. PICK n \in Fresh(u) :
          /\ \A i \in Fresh(u) : n <= i
          /\ Len(Recent(u)) = Len(u) - (n - 1)
          /\ \A k \in 1..(Len(u) - (n - 1)) : Recent(u)[k] = u[k + (n - 1)]
    BY <1>1, <2>7, RecentIsSuffix
  <2>9. n + (m - 1) = p
    <3>1. n \in 1..Len(r) /\ n + (m - 1) \in Fresh(q)
      BY <1>2, <2>6
    <3>2. p <= n + (m - 1) /\ n <= p - (m - 1)
      BY <2>1, <2>7, <2>8, <3>1
    <3>. QED  BY <2>2, <2>4, <3>1, <3>2
  <2>10. n \in Nat /\ m \in Nat /\ p \in Nat /\ Len(w) \in Nat /\ Len(r) \in Nat
    BY <1>1, <1>2, <2>2, <2>4
  <2>11. Len(Recent(u)) = Len(Recent(q))
    <3>1. Len(Recent(u)) = (Len(w) - (m - 1)) - (n - 1)
      BY <1>1, <2>3, <2>8
    <3>2. Len(Recent(q)) = Len(w) - (p - 1)
      BY <1>1, <2>1
    <3>. QED  BY <2>9, <2>10, <3>1, <3>2
  <2>12. ASSUME NEW k \in 1..Len(Recent(u)) PROVE Recent(u)[k] = Recent(q)[k]
    <3>1. k + (n - 1) \in 1..Len(r) /\ k + (n - 1) + (m - 1) = k + (p - 1)
      BY <1>1, <1>2, <2>8, <2>9, <2>10
    <3>. QED  BY <1>1, <2>1, <2>5, <2>8, <2>11, <3>1
  <2>13. Recent(u) \in Seq(Nat) /\ Recent(q) \in Seq(Nat)
    BY <1>1, RecentIsSuffix
  <2>14. Recent(u) = Recent(q)
    BY <2>11, <2>12, <2>13, SeqEqual
  <2>15. Len(Recent(q)) <= Len(r)
    BY <1>1, <2>1, <2>3, <2>4, <2>10
  <2>. QED  BY <1>1, <1>3, <2>14, <2>15 DEF r, q, u
<1>. QED  BY <1>4, <1>5

\* A client's limit is never above max_requests, nor below 1.
LEMMA LimitBounded ==
  ASSUME NEW n \in Nat
  PROVE  Limit(n) \in 1..MaxRequests
<1>1. /\ 2^0 = 1 /\ 2^1 = 2 /\ 2^2 = 4 /\ 2^3 = 8 /\ 2^4 = 16 /\ 2^5 = 32
  OBVIOUS
<1>. DEFINE k == IF n < 5 THEN n ELSE 5
<1>2. k = 0 \/ k = 1 \/ k = 2 \/ k = 3 \/ k = 4 \/ k = 5
  OBVIOUS
<1>. HIDE DEF k
<1>3. 2^k \in {1, 2, 4, 8, 16, 32}
  BY <1>1, <1>2
<1>4. MaxRequests \div 2^k \in 0..MaxRequests
  BY <1>3, RateAssumption
<1>. QED  BY <1>4, RateAssumption DEF Limit, k

LEMMA RateStart == RateInit => RateInv
<1>1. <<>> \in Seq(Nat) /\ Recent(<<>>) = <<>>
  BY DEF Recent, Since
<1>. QED  BY <1>1, RateAssumption DEF RateInit, RateInv, RateBound

LEMMA RateTick ==
  ASSUME RateInv, Tick
  PROVE  RateInv'
<1>. USE DEF RateInv
<1>1. ASSUME NEW c \in Clients
      PROVE  /\ windows'[c] = Older(windows[c]) /\ windows'[c] \in Seq(Nat)
             /\ granted'[c] = Recent(windows'[c])
             /\ Len(granted'[c]) <= MaxRequests
  <2>1. /\ windows'[c] = Older(windows[c]) /\ windows[c] \in Seq(Nat)
        /\ granted[c] = Recent(windows[c]) /\ Len(granted[c]) <= MaxRequests
        /\ granted'[c] =
             Since(Older(granted[c]), {i \in 1..Len(granted[c]) : granted[c][i] < Window})
    BY DEF Tick, RateBound
  <2>2. /\ Older(windows[c]) \in Seq(Nat) /\ granted'[c] = Recent(Older(windows[c]))
        /\ Len(Recent(Older(windows[c]))) <= Len(granted[c])
    BY <2>1, RecentOlder
  <2>3. Len(Recent(Older(windows[c]))) \in Nat /\ Len(granted[c]) \in Nat
    BY <2>1, <2>2, RecentIsSuffix
  <2>. QED  BY <2>1, <2>2, <2>3, RateAssumption
<1>2. windows' = [c \in Clients |-> windows'[c]] /\ granted' = [c \in Clients |-> granted'[c]]
  BY DEF Tick
<1>. QED  BY <1>1, <1>2 DEF Tick, RateBound

LEMMA RateDeny ==
  ASSUME RateInv, NEW c \in Clients, Deny(c)
  PROVE  RateInv' /\ violations'[c] >= violations[c]
<1>. USE DEF RateInv
<1>1. /\ Recent(windows[c]) \in Seq(Nat) /\ Recent(Recent(windows[c])) = Recent(windows[c])
      /\ windows' = [windows EXCEPT ![c] = Recent(windows[c])]
      /\ violations' = [violations EXCEPT ![c] = @ + 1] /\ granted' = granted
  BY RecentIsSuffix, RecentOnce DEF Deny
<1>2. \A k \in Clients : Recent(windows'[k]) = Recent(windows[k])
  BY <1>1
<1>. QED  BY <1>1, <1>2 DEF RateBound

\* What a granted request does to the window, the violations and the history
\* of each client: a client that is evicted had no requests left.
LEMMA GrantEffect ==
  ASSUME RateInv, NEW c \in Clients, Grant(c), NEW k \in Clients
  PROVE  /\ windows'[k] \in Seq(Nat) /\ violations'[k] \in Nat
         /\ granted'[k] = IF k = c THEN Append(granted[c], 0) ELSE granted[k]
         /\ granted'[k] = Recent(windows'[k])
         /\ Len(granted'[k]) <= MaxRequests
         /\ violations'[k] < violations[k] =>
              \/ k # c /\ granted[k] = <<>>
              \/ k = c /\ Len(granted'[c]) < Limit(violations[c]) \div 2
<1>. USE DEF RateInv
<1>. DEFINE w    == Append(Recent(windows[c]), 0)
            ws   == [windows EXCEPT ![c] = w]
            n    == [violations EXCEPT ![c] = Decayed(@, Len(w))]
            keys == tracked \union {c}
            gone == IF Cardinality(keys) > MaxClients THEN Stale(ws, keys) ELSE {}
<1>1. /\ Len(Recent(windows[c])) < Limit(violations[c])
      /\ windows'[k] = IF k \in gone THEN <<>>
                       ELSE IF Cardinality(keys) > MaxClients THEN Recent(ws[k]) ELSE ws[k]
      /\ violations'[k] = IF k \in gone THEN 0 ELSE n[k]
      /\ granted'[k] = IF k = c THEN Append(granted[c], 0) ELSE granted[k]
  BY DEF Grant
<1>2. \A j \in gone : Recent(ws[j]) = <<>>
  BY DEF Stale
<1>. HIDE DEF gone, keys
<1>3. /\ Recent(windows[k]) \in Seq(Nat) /\ Recent(Recent(windows[k])) = Recent(windows[k])
      /\ granted[k] = Recent(windows[k]) /\ violations[k] \in Nat /\ windows[k] \in Seq(Nat)
      /\ Recent(<<>>) = <<>> /\ Len(granted[k]) <= MaxRequests
  <2>1. Recent(<<>>) = <<>>
    BY DEF Recent, Since
  <2>. QED  BY <2>1, RecentIsSuffix, RecentOnce DEF RateBound
<1>4. w \in Seq(Nat) /\ Recent(w) = w /\ w # <<>> /\ w = Append(granted[c], 0)
      /\ Len(w) = Len(granted[c]) + 1 /\ Len(granted[c]) \in Nat
  <2>1. Recent(windows[c]) \in Seq(Nat) /\ granted[c] = Recent(windows[c])
    BY RecentIsSuffix
  <2>2. Recent(w) = w
    BY RecentOnce
  <2>3. w = Append(granted[c], 0) /\ granted[c] \in Seq(Nat)
    BY <2>1
  <2>. HIDE DEF w
  <2>4. w \in Seq(Nat) /\ w # <<>> /\ Len(w) = Len(granted[c]) + 1 /\ Len(granted[c]) \in Nat
    <3>1. ASSUME NEW g \in Seq(Nat)
          PROVE  /\ Append(g, 0) \in Seq(Nat) /\ Append(g, 0) # <<>>
                 /\ Len(Append(g, 0)) = Len(g) + 1 /\ Len(g) \in Nat
      <4>1. Append(g, 0) \in Seq(Nat) /\ Len(Append(g, 0)) = Len(g) + 1 /\ Len(g) \in Nat
        OBVIOUS
      <4>2. Len(<<>>) = 0
        OBVIOUS
      <4>3. \A a : Len(a) = Len(g) + 1 => a # <<>>
        BY <4>1, <4>2
      <4>. QED  BY <4>1, <4>3
    <3>. QED  BY <2>3, <3>1
  <2>. QED  BY <2>2, <2>3, <2>4
<1>5. CASE k = c
  <2>1. ws[k] = w /\ n[k] = Decayed(violations[c], Len(w))
    BY <1>5
  <2>. HIDE DEF w, ws, n
  <2>2. k \notin gone
    BY <1>2, <1>4, <2>1
  <2>3. windows'[k] = w /\ violations'[k] = Decayed(violations[c], Len(w)) /\ granted'[k] = w
    BY <1>1, <1>4, <1>5, <2>1, <2>2
  <2>4. Limit(violations[c]) \in 1..MaxRequests
    BY <1>3, <1>5, LimitBounded
  <2>5. Len(w) <= MaxRequests
    BY <1>1, <1>3, <1>4, <1>5, <2>4, RateAssumption
  <2>6. /\ Decayed(violations[c], Len(w)) \in Nat
        /\ Decayed(violations[c], Len(w)) < violations[c] => Len(w) < Limit(violations[c]) \div 2
    BY <1>3, <1>5 DEF Decayed
  <2>. QED  BY <1>1, <1>4, <1>5, <2>3, <2>5, <2>6
<1>6. CASE k # c
  <2>1. ws[k] = windows[k] /\ n[k] = violations[k]
    BY <1>6
  <2>. HIDE DEF w, ws, n
  <2>2. k \in gone => granted[k] = <<>>
    BY <1>2, <1>3, <2>1
  <2>. QED  BY <1>1, <1>3, <1>6, <2>1, <2>2
<1>. QED  BY <1>5, <1>6

LEMMA RateGrant ==
  ASSUME RateInv, NEW c \in Clients, Grant(c)
  PROVE  RateInv'
<1>1. \A k \in Clients : /\ windows'[k] \in Seq(Nat) /\ violations'[k] \in Nat
                         /\ granted'[k] = Recent(windows'[k]) /\ Len(granted'[k]) <= MaxRequests
  BY GrantEffect
<1>2. /\ windows' = [k \in Clients |-> windows'[k]] /\ violations' = [k \in Clients |-> violations'[k]]
      /\ granted' = [k \in Clients |-> granted'[k]]
  BY DEF Grant, RateInv
<1>3. windows' \in [Clients -> Seq(Nat)] /\ violations' \in [Clients -> Nat]
  BY <1>1, <1>2
<1>4. granted' = [k \in Clients |-> Recent(windows'[k])]
  BY <1>1, <1>2
<1>5. RateBound'
  BY <1>1 DEF RateBound
<1>. QED  BY <1>3, <1>4, <1>5 DEF RateInv

LEMMA RateStep ==
  ASSUME RateInv, [RateNext]_rateVars
  PROVE  RateInv'
<1>1. CASE UNCHANGED rateVars
  BY <1>1 DEF rateVars, RateInv, RateBound
<1>. QED  BY <1>1, RateTick, RateDeny, RateGrant DEF RateNext

\* A violation is forgiven in no other step than a request granted well within
\* the limit, or the eviction of a client without requests in the window.
LEMMA RateForgives ==
  ASSUME RateInv, [RateNext]_rateVars, NEW c \in Clients, violations'[c] < violations[c]
  PROVE  \/ granted[c] = <<>>
         \/ granted'[c] # granted[c] /\ Len(granted'[c]) < Limit(violations[c]) \div 2
<1>1. CASE Tick \/ UNCHANGED rateVars
  BY <1>1 DEF Tick, rateVars, RateInv
<1>2. ASSUME NEW k \in Clients, Deny(k) PROVE FALSE
  BY <1>2 DEF Deny, RateInv
<1>3. ASSUME NEW k \in Clients, Grant(k)
      PROVE  \/ granted[c] = <<>>
             \/ granted'[c] # granted[c] /\ Len(granted'[c]) < Limit(violations[c]) \div 2
  <2>1. /\ granted'[c] = IF c = k THEN Append(granted[k], 0) ELSE granted[c]
        /\ \/ c # k /\ granted[c] = <<>>
           \/ c = k /\ Len(granted'[k]) < Limit(violations[k]) \div 2
    BY <1>3, GrantEffect
  <2>2. granted[k] \in Seq(Nat)
    BY RecentIsSuffix DEF RateInv
  <2>3. Append(granted[k], 0) # granted[k]
    BY <2>2
  <2>. QED  BY <2>1, <2>3
<1>. QED  BY <1>1, <1>2, <1>3 DEF RateNext

\* However requests of any number of clients, denials, violations and evictions
\* are interleaved, no client gets more than max_requests requests through
\* within a window (addon.py:65-118).
THEOREM RateIsBounded == RateSpec => []RateBound
<1>1. RateInv /\ [RateNext]_rateVars => RateInv'
  BY RateStep
<1>2. RateInv => RateBound
  BY DEF RateInv
<1>. QED  BY <1>1, <1>2, RateStart, PTL DEF RateSpec

\* A client's limit is never raised again before it was granted a request well
\* within its limit, or none for a whole window (addon.py:95-116).
THEOREM LimitsRiseOnlyWhenQuiet == RateSpec => ForgivenOnlyWhenQuiet
<1>1. RateInv /\ [RateNext]_rateVars => RateInv'
  BY RateStep
<1>2. RateInv /\ [RateNext]_rateVars =>
        [\A c \in Clients : violations'[c] < violations[c] =>
           \/ granted[c] = <<>>
           \/ granted'[c] # granted[c] /\ Len(granted'[c]) < Limit(violations[c]) \div 2]_rateVars
  BY RateForgives
<1>. QED  BY <1>1, <1>2, RateStart, PTL DEF RateSpec, ForgivenOnlyWhenQuiet

-----------------------------------------------------------------------------
(* The addon.                                                              *)

\* Where a flow is.
Phase == {"none", "announced", "upstream", "answered", "delivered", "open"}

\* A flow's record of what was injected names a credential.
AddonTyped ==
  /\ secret \in Secrets
  /\ flow \in [Slots -> [phase : Phase, host : Hosts, injected : Secrets \union {"none"},
                         refused : BOOLEAN]]

\* The last step delivered nothing that the settings do not excuse.
AddonInv == AddonTyped /\ NothingUnvetted /\ CredentialContained

\* Whether a part is among those that are delivered with a message.
Carries(m, p) == Contains(m.head, p) \/ (m.shape # "none" /\ m.body = p)

\* What the scanners object to.
Objected(known) == {"attack", "fails"} \union known

\* The least element of the places where a test holds is one of them.
LEMMA SelectInSeqHits ==
  ASSUME NEW n \in Nat, NEW found, Len(found) = n,
         NEW i, i = SelectInSeq(found, LAMBDA o : o # "clean")
  PROVE  \/ i = 0 /\ \A j \in 1..n : found[j] = "clean"
         \/ i \in 1..n /\ found[i] # "clean"
<1>. DEFINE I == {j \in 1..Len(found) : found[j] # "clean"}
<1>1. I \in SUBSET Nat
  OBVIOUS
<1>2. CASE I = {}
  <2>1. i = 0
    BY <1>2 DEF SelectInSeq
  <2>. QED  BY <1>2, <2>1
<1>3. CASE I # {}
  <2>1. i = Min(I)
    BY <1>3 DEF SelectInSeq
  <2>2. i \in I
    BY <1>1, <1>3, <2>1, MinIsLeast
  <2>. QED  BY <2>2
<1>. QED  BY <1>2, <1>3

\* A message that passes while it carries something that the scanners object to
\* does so in permissive mode, behind a part that could not be scanned; and so
\* does one that is not scanned to its end.
LEMMA PassesOnly ==
  ASSUME NEW m \in Messages, NEW known \in SUBSET Secrets, Passes(m, known)
  PROVE  /\ m.shape \in {"oversized", "streamed"} => ~FailClosed
         /\ \A p \in Objected(known) : Carries(m, p) =>
              ~FailClosed /\ (Carries(m, "fails") \/ m.shape \in {"oversized", "streamed"})
<1>. DEFINE sc    == Scanned(m)
            found == [j \in 1..Len(sc) |-> Outcome(sc[j], known)]
            i     == SelectInSeq(found, LAMBDA o : o # "clean")
<1>1. /\ m.head \in Seq(Part) /\ m.body \in Part
      /\ m.shape \in {"none", "whole", "oversized", "streamed"}
  BY DEF Messages
<1>2. /\ sc \in Seq(Part)
      /\ \A j \in 1..Len(m.head) : j \in 1..Len(sc) /\ sc[j] = m.head[j]
      /\ m.shape \in {"whole", "oversized"} =>
           Len(sc) = Len(m.head) + 1 /\ sc[Len(m.head) + 1] = m.body
      /\ m.shape \in {"none", "streamed"} => sc = m.head
  <2>1. CASE m.shape \in {"whole", "oversized"}
    <3>1. sc = Append(m.head, m.body)
      BY <2>1 DEF Scanned
    <3>. QED  BY <1>1, <2>1, <3>1
  <2>2. CASE m.shape \in {"none", "streamed"}
    <3>1. sc = m.head
      BY <2>2 DEF Scanned
    <3>. QED  BY <1>1, <2>2, <3>1
  <2>. QED  BY <1>1, <2>1, <2>2
<1>. HIDE DEF sc
<1>3. /\ \A j \in 1..Len(sc) : Carries(m, sc[j])
      /\ \A p : Carries(m, p) => (\E j \in 1..Len(sc) : sc[j] = p) \/ m.shape = "streamed"
  <2>1. Len(m.head) \in Nat /\ Len(sc) \in Nat
    BY <1>1, <1>2
  <2>2. ASSUME NEW j \in 1..Len(sc) PROVE Carries(m, sc[j])
    <3>1. CASE m.shape \in {"whole", "oversized"}
      <4>1. j \in 1..Len(m.head) \/ j = Len(m.head) + 1
        BY <1>2, <2>1, <3>1
      <4>. QED  BY <1>2, <3>1, <4>1 DEF Carries, Contains
    <3>2. CASE m.shape \in {"none", "streamed"}
      BY <1>2, <3>2 DEF Carries, Contains
    <3>. QED  BY <1>1, <3>1, <3>2
  <2>3. ASSUME NEW p, Carries(m, p), m.shape # "streamed"
        PROVE  \E j \in 1..Len(sc) : sc[j] = p
    <3>1. CASE Contains(m.head, p)
      BY <1>2, <3>1 DEF Contains
    <3>2. CASE m.shape # "none" /\ m.body = p
      <4>1. Len(m.head) + 1 \in 1..Len(sc) /\ sc[Len(m.head) + 1] = p
        BY <1>1, <1>2, <2>1, <2>3, <3>2
      <4>. QED  BY <4>1
    <3>. QED  BY <2>3, <3>1, <3>2 DEF Carries, Contains
  <2>. QED  BY <2>2, <2>3
<1>4. \A p \in Part : /\ p \in Objected(known) => Outcome(p, known) # "clean"
                      /\ Outcome(p, known) = "fails" => p = "fails"
  BY AddonAssumption DEF Objected, Outcome, Part
<1>5. Passes(m, known) = IF i # 0 THEN found[i] = "fails" /\ ~FailClosed
                         ELSE ~FailClosed \/ m.shape \in {"none", "whole"}
  BY DEF Passes, AllowedUnscanned, sc
<1>6. /\ Len(sc) \in Nat /\ Len(found) = Len(sc)
      /\ \A j \in 1..Len(sc) : found[j] = Outcome(sc[j], known) /\ sc[j] \in Part
  BY <1>2
<1>. HIDE DEF found
<1>7. \/ i = 0 /\ \A j \in 1..Len(sc) : found[j] = "clean"
      \/ i \in 1..Len(sc) /\ found[i] # "clean"
  BY <1>6, SelectInSeqHits
<1>. HIDE DEF i
<1>8. CASE i = 0
  <2>1. \A j \in 1..Len(sc) : sc[j] \notin Objected(known)
    BY <1>4, <1>6, <1>7, <1>8
  <2>. QED  BY <1>3, <1>5, <1>8, <2>1
<1>9. CASE i \in 1..Len(sc) /\ i # 0
  <2>1. ~FailClosed /\ sc[i] = "fails"
    BY <1>4, <1>5, <1>6, <1>9
  <2>. QED  BY <1>3, <1>9, <2>1
<1>. QED  BY <1>7, <1>8, <1>9

\* The parts that a delivery counts are those that the message carries, or clean.
LEMMA PartsCarried ==
  ASSUME NEW m \in Messages,
         NEW p \in ToSet(Append(m.head, IF m.shape = "none" THEN "clean" ELSE m.body))
  PROVE  p = "clean" \/ Carries(m, p)
<1>1. m.head \in Seq(Part) /\ Len(m.head) \in Nat
  BY DEF Messages
<1>. DEFINE b == IF m.shape = "none" THEN "clean" ELSE m.body
            t == Append(m.head, b)
<1>2. /\ DOMAIN t = 1..(Len(m.head) + 1) /\ t[Len(m.head) + 1] = b
      /\ \A j \in 1..Len(m.head) : t[j] = m.head[j]
  BY <1>1
<1>. HIDE DEF t
<1>3. PICK j \in DOMAIN t : p = t[j]
  BY DEF ToSet, t
<1>4. j \in 1..Len(m.head) \/ j = Len(m.head) + 1
  BY <1>1, <1>2
<1>. QED  BY <1>2, <1>3, <1>4 DEF Carries, Contains

\* The element that a nonempty sequence gets in its second place could be
\* appended as well.
LEMMA InsertSecond ==
  ASSUME NEW S, NEW s \in Seq(S), s # <<>>, NEW e \in S
  PROVE  /\ InsertAt(s, 2, e) \in Seq(S)
         /\ \A p : Contains(InsertAt(s, 2, e), p) <=> Contains(Append(s, e), p)
<1>. DEFINE n == Len(s)
            x == SubSeq(s, 1, 1)
            y == x \o <<e>>
            z == SubSeq(s, 2, n)
            h == InsertAt(s, 2, e)
            a == Append(s, e)
<1>1. n \in Nat /\ n >= 1
  OBVIOUS
<1>2. x \in Seq(S) /\ Len(x) = 1 /\ x[1] = s[1]
  BY <1>1
<1>3. z \in Seq(S) /\ Len(z) = n - 1 /\ \A j \in 1..(n - 1) : z[j] = s[j + 1]
  <2>1. /\ SubSeq(s, 1 + 1, Len(s)) \in Seq(S)
        /\ Len(SubSeq(s, 1 + 1, Len(s))) = Len(s) - 1
        /\ \A k \in 1..(Len(s) - 1) : SubSeq(s, 1 + 1, Len(s))[k] = s[k + 1]
    <3>1. 1 \in 0..Len(s)
      BY <1>1
    <3>. QED  BY <3>1, SuffixKeeps
  <2>. QED  BY <2>1
<1>4. h = y \o z
  BY DEF InsertAt
<1>. HIDE DEF x, z
<1>5. y \in Seq(S) /\ Len(y) = 2 /\ y[1] = s[1] /\ y[2] = e
  <2>1. <<e>> \in Seq(S) /\ Len(<<e>>) = 1 /\ <<e>>[1] = e
    OBVIOUS
  <2>. DEFINE o == <<e>>
  <2>. HIDE DEF o
  <2>2. o \in Seq(S) /\ Len(o) = 1 /\ o[1] = e
    BY <2>1 DEF o
  <2>3. /\ x \o o \in Seq(S) /\ Len(x \o o) = Len(x) + Len(o)
        /\ \A j \in 1..(Len(x) + Len(o)) : (x \o o)[j] = IF j <= Len(x) THEN x[j] ELSE o[j - Len(x)]
    BY <1>2, <2>2, ConcatProperties
  <2>4. x \o o \in Seq(S) /\ Len(x \o o) = 2 /\ (x \o o)[1] = s[1] /\ (x \o o)[2] = e
    BY <1>2, <2>2, <2>3
  <2>. QED  BY <2>4 DEF o
<1>. HIDE DEF y
<1>6. /\ y \o z \in Seq(S) /\ Len(y \o z) = Len(y) + Len(z)
      /\ \A j \in 1..(Len(y) + Len(z)) :
           (y \o z)[j] = IF j <= Len(y) THEN y[j] ELSE z[j - Len(y)]
  BY <1>3, <1>5, ConcatProperties
<1>. HIDE DEF h
<1>7. h \in Seq(S) /\ Len(h) = n + 1 /\ \A j \in 1..(n + 1) : h[j] = IF j <= 2 THEN y[j] ELSE z[j - 2]
  <2>1. Len(y) + Len(z) = n + 1
    BY <1>1, <1>3, <1>5
  <2>. QED  BY <1>4, <1>5, <1>6, <2>1
<1>8. h[1] = s[1] /\ h[2] = e /\ \A j \in 2..n : h[j + 1] = s[j]
  <2>1. h[1] = s[1] /\ h[2] = e
    BY <1>1, <1>5, <1>7
  <2>2. ASSUME NEW j \in 2..n PROVE h[j + 1] = s[j]
    <3>1. /\ j + 1 \in 1..(n + 1) /\ ~(j + 1 <= 2) /\ (j + 1) - 2 \in 1..(n - 1)
          /\ ((j + 1) - 2) + 1 = j
      BY <1>1
    <3>. QED  BY <1>3, <1>7, <3>1
  <2>. QED  BY <2>1, <2>2
<1>9. a \in Seq(S) /\ Len(a) = n + 1 /\ a[n + 1] = e /\ \A j \in 1..n : a[j] = s[j]
  BY <1>1
<1>. HIDE DEF a
<1>10. ASSUME NEW j \in 1..(n + 1) PROVE \E k \in 1..(n + 1) : h[k] = a[j]
  <2>1. j = n + 1 \/ j = 1 \/ j \in 2..n
    BY <1>1
  <2>2. CASE j \in 2..n
    <3>1. j + 1 \in 1..(n + 1) /\ j \in 1..n
      BY <1>1, <2>2
    <3>. QED  BY <1>8, <1>9, <2>2, <3>1
  <2>. QED  BY <1>1, <1>8, <1>9, <2>1, <2>2
<1>11. ASSUME NEW k \in 1..(n + 1) PROVE \E j \in 1..(n + 1) : a[j] = h[k]
  <2>1. k = 1 \/ k = 2 \/ (k - 1 \in 2..n /\ (k - 1) + 1 = k)
    BY <1>1
  <2>2. CASE k - 1 \in 2..n /\ (k - 1) + 1 = k
    <3>1. k - 1 \in 1..(n + 1) /\ k - 1 \in 1..n
      BY <1>1, <2>2
    <3>. QED  BY <1>8, <1>9, <2>2, <3>1
  <2>. QED  BY <1>1, <1>8, <1>9, <2>1, <2>2
<1>. QED  BY <1>7, <1>9, <1>10, <1>11 DEF h, a, Contains

\* The scans of a request see its credential header among the other parts.
LEMMA PresentedCarries ==
  ASSUME NEW m \in Requests
  PROVE  LET whole == IF m.own = "none" THEN m ELSE [m EXCEPT !.head = Append(m.head, m.own)]
         IN  /\ whole \in Messages /\ Presented(m) \in Messages
             /\ Presented(m).shape = whole.shape
             /\ \A p : Carries(whole, p) <=> Carries(Presented(m), p)
<1>1. /\ m \in Messages /\ m.head \in Seq(Part) /\ m.own \in Part \union {"none"}
      /\ m.head # <<>>
  BY MessageAssumption DEF Messages
<1>2. CASE m.own = "none"
  BY <1>1, <1>2 DEF Presented
<1>3. CASE m.own # "none"
  <2>. DEFINE h == InsertAt(m.head, 2, m.own)
              a == Append(m.head, m.own)
  <2>1. Presented(m) = [m EXCEPT !.head = h]
    BY <1>3 DEF Presented
  <2>2. /\ h \in Seq(Part)
        /\ \A p : Contains(h, p) <=> Contains(a, p)
    <3>1. m.own \in Part
      BY <1>1, <1>3
    <3>2. m.head \in Seq(Part) /\ m.head # <<>>
      BY <1>1
    <3>. QED  BY <3>1, <3>2, InsertSecond
  <2>3. a \in Seq(Part)
    BY <1>1, <1>3
  <2>. HIDE DEF h, a
  <2>4. ASSUME NEW q \in Seq(Part)
        PROVE  /\ [m EXCEPT !.head = q] \in Messages /\ [m EXCEPT !.head = q].head = q
               /\ [m EXCEPT !.head = q].shape = m.shape /\ [m EXCEPT !.head = q].body = m.body
    BY <1>1 DEF Messages
  <2>5. \A p : Carries([m EXCEPT !.head = a], p) <=> Carries([m EXCEPT !.head = h], p)
    BY <2>2, <2>3, <2>4 DEF Carries
  <2>. QED  BY <1>3, <2>1, <2>2, <2>3, <2>4, <2>5 DEF a
<1>. QED  BY <1>2, <1>3

\* What the settings do not excuse is not among the parts of a message that has
\* passed its scans, of which the delivered message carries no more.
LEMMA VettedDelivery ==
  ASSUME NEW s \in Slots, NEW m \in Messages, NEW scanned \in Messages,
         scanned.shape = m.shape, \A p : Carries(m, p) <=> Carries(scanned, p),
         NEW hook, NEW readable \in BOOLEAN, NEW known \in SUBSET Secrets, Passes(scanned, known),
         readable => secret \in known,
         secret \in Secrets, flow'[s].injected \in Secrets \union {"none"},
         hook = "request" => flow'[s].injected \in known \union {"none"},
         UNCHANGED <<settings, secret>>, Deliver(s, m, hook, readable, {})
  PROVE  NothingUnvetted' /\ CredentialContained'
<1>. DEFINE parts    == ToSet(Append(m.head, IF m.shape = "none" THEN "clean" ELSE m.body))
            injected == flow'[s].injected
<1>1. /\ last'.slipped = (parts \intersect {"attack", "fails"})
                     \union (IF m.shape \in {"oversized", "streamed"} THEN {"unscanned"} ELSE {})
                     \union (IF secret \in parts THEN {"secret"} ELSE {})
                     \union (IF injected \in parts THEN {"injected"} ELSE {})
      /\ last'.hook = hook
      /\ last'.but = (IF readable THEN {} ELSE {"unreadable"})
                       \union (IF injected \in {"none", secret} THEN {} ELSE {"replaced"})
  BY DEF Deliver
<1>2. \A p \in parts : p = "clean" \/ Carries(m, p)
  BY PartsCarried
<1>3. parts \subseteq Part /\ \A p \in Part : Carries(m, p) /\ p # "clean" => p \in parts
  <2>1. m.head \in Seq(Part) /\ m.body \in Part /\ Len(m.head) \in Nat
    BY DEF Messages
  <2>. DEFINE b == IF m.shape = "none" THEN "clean" ELSE m.body
              t == Append(m.head, b)
  <2>2. /\ b \in Part /\ DOMAIN t = 1..(Len(m.head) + 1) /\ t[Len(m.head) + 1] = b
        /\ \A j \in 1..Len(m.head) : t[j] = m.head[j]
    BY <2>1 DEF Part
  <2>. HIDE DEF t
  <2>3. parts = {t[j] : j \in DOMAIN t}
    BY DEF ToSet, t
  <2>. HIDE DEF parts
  <2>4. \A j \in DOMAIN t : t[j] \in Part
    <3>. TAKE j \in DOMAIN t
    <3>1. j \in 1..Len(m.head) \/ j = Len(m.head) + 1
      BY <2>1, <2>2
    <3>. QED  BY <2>1, <2>2, <3>1
  <2>5. \A p \in Part : Carries(m, p) /\ p # "clean" => \E j \in DOMAIN t : t[j] = p
    <3>1. Len(m.head) + 1 \in DOMAIN t /\ \A j \in 1..Len(m.head) : j \in DOMAIN t
      BY <2>1, <2>2
    <3>. QED  BY <2>1, <2>2, <3>1 DEF Carries, Contains
  <2>. QED  BY <2>3, <2>4, <2>5
<1>. HIDE DEF parts
<1>4. /\ m.shape \in {"oversized", "streamed"} => ~FailClosed
      /\ \A p \in Objected(known) \intersect parts :
           ~FailClosed /\ (Carries(scanned, "fails") \/ m.shape \in {"oversized", "streamed"})
  <2>1. "clean" \notin Objected(known)
    BY AddonAssumption DEF Objected
  <2>. QED  BY <1>2, <2>1, PassesOnly
<1>5. ASSUME NEW p \in Objected(known) \intersect parts
      PROVE  ~FailClosed /\ last'.slipped \intersect {"fails", "unscanned"} # {}
  <2>1. ~FailClosed /\ (Carries(m, "fails") \/ m.shape \in {"oversized", "streamed"})
    BY <1>4
  <2>2. Carries(m, "fails") => "fails" \in parts
    BY <1>3 DEF Part
  <2>. QED  BY <1>1, <2>1, <2>2
<1>6. NothingUnvetted'
  <2>. SUFFICES ASSUME last'.slipped \intersect {"attack", "fails", "unscanned"} # {}
       PROVE  ~FailClosed /\ last'.slipped \intersect {"fails", "unscanned"} # {}
    BY DEF NothingUnvetted, Unseen, FailClosed
  <2>1. CASE parts \intersect {"attack", "fails"} # {}
    BY <1>5, <2>1 DEF Objected
  <2>2. CASE parts \intersect {"attack", "fails"} = {}
    BY <1>1, <1>4, <2>2
  <2>. QED  BY <2>1, <2>2
<1>7. CredentialContained'
  <2>1. "secret" \in last'.slipped =>
          \/ ~FailClosed /\ last'.slipped \intersect {"fails", "unscanned"} # {}
          \/ "unreadable" \in last'.but
    <3>. SUFFICES ASSUME "secret" \in last'.slipped, readable
         PROVE  ~FailClosed /\ last'.slipped \intersect {"fails", "unscanned"} # {}
      BY <1>1
    <3>1. secret \in Objected(known) \intersect parts
      BY <1>1 DEF Objected
    <3>. QED  BY <1>5, <3>1
  <2>2. "injected" \in last'.slipped =>
          \/ ~FailClosed /\ last'.slipped \intersect {"fails", "unscanned"} # {}
          \/ last'.hook # "request" /\ last'.but \intersect {"unreadable", "replaced"} # {}
    <3>. SUFFICES ASSUME "injected" \in last'.slipped,
                         hook = "request" \/ (readable /\ injected \in {"none", secret})
         PROVE  ~FailClosed /\ last'.slipped \intersect {"fails", "unscanned"} # {}
      BY <1>1
    <3>1. injected \in parts /\ injected # "none"
      BY <1>1, <1>3, AddonAssumption DEF Part
    <3>2. injected \in Objected(known) \intersect parts
      BY <3>1 DEF Objected
    <3>. QED  BY <1>5, <3>2
  <2>. QED  BY <2>1, <2>2 DEF CredentialContained, Unseen, FailClosed
<1>. QED  BY <1>6, <1>7

\* A step that delivers nothing keeps the properties.
LEMMA NothingDelivered ==
  ASSUME last' = Nothing
  PROVE  NothingUnvetted' /\ CredentialContained'
  BY DEF Nothing, NothingUnvetted, CredentialContained

\* What passes the gates without a scan goes to an ignored host.
LEMMA IgnoredDelivery ==
  ASSUME NEW s, NEW m, NEW hook, NEW readable, Deliver(s, m, hook, readable, Ignored("ignored"))
  PROVE  NothingUnvetted' /\ CredentialContained'
<1>1. "ignored" \in last'.but
  BY DEF Deliver, Ignored
<1>. QED  BY <1>1 DEF NothingUnvetted, CredentialContained, Unseen

\* A blocked response delivers headers only.
LEMMA BlockedDelivery ==
  ASSUME NEW s \in Slots, NEW m \in Responses, NEW readable \in BOOLEAN, Block(s, m, readable)
  PROVE  NothingUnvetted' /\ CredentialContained'
<1>1. m \in Messages
  BY MessageAssumption
<1>2. [m EXCEPT !.shape = "none"].shape = "none"
  BY <1>1 DEF Messages
<1>. DEFINE w == [m EXCEPT !.shape = "none"]
<1>. HIDE DEF w
<1>3. w.shape = "none" /\ Deliver(s, w, "response", readable, {"blocked"})
  BY <1>2 DEF Block, w
<1>4. "blocked" \in last'.but /\ last'.hook = "response"
  BY <1>3 DEF Deliver
<1>5. "unscanned" \notin last'.slipped
  BY <1>3 DEF Deliver
<1>. QED  BY <1>4, <1>5 DEF NothingUnvetted, CredentialContained

LEMMA AddonStart == AddonInit => AddonInv
  BY DEF AddonInit, AddonInv, AddonTyped, NoFlow, Hosts, Phase, Nothing, NothingUnvetted, CredentialContained

LEMMA AddonTypedStep ==
  ASSUME AddonTyped, [AddonNext]_addonVars
  PROVE  AddonTyped'
<1>. USE DEF AddonTyped, Hosts, NoFlow, Phase
<1>1. ASSUME NEW s \in Slots, RequestHeaders(s) PROVE AddonTyped'
  BY <1>1 DEF RequestHeaders
<1>2. ASSUME NEW s \in Slots, End(s) \/ flow' = flow, UNCHANGED secret PROVE AddonTyped'
  <2>1. CASE flow' = [flow EXCEPT ![s] = NoFlow]
    BY <1>2, <2>1
  <2>2. CASE flow' = flow
    BY <1>2, <2>2
  <2>. QED  BY <1>2, <2>1, <2>2 DEF End
<1>3. ASSUME NEW s \in Slots, NEW phase \in Phase, flow' = [flow EXCEPT ![s].phase = phase],
             UNCHANGED secret
      PROVE  AddonTyped'
  BY <1>3
<1>4. ASSUME NEW s \in Slots, NEW host \in Hosts, NEW m, NEW readable,
             NEW injected \in Secrets \union {"none"},
             Forward(s, host, m, readable, injected), UNCHANGED secret
      PROVE  AddonTyped'
  BY <1>4 DEF Forward
<1>5. ASSUME NEW s \in Slots, Request(s) PROVE AddonTyped'
  <2>1. UNCHANGED secret
    BY <1>5 DEF Request
  <2>2. \A host \in Hosts : Injectable(host) \subseteq Secrets \union {"none"}
    BY DEF Injectable
  <2>3. \/ End(s)
        \/ \E host \in Hosts, m \in Requests, readable \in BOOLEAN,
              injected \in Secrets \union {"none"} : Forward(s, host, m, readable, injected)
    BY <1>5, <2>2 DEF Request, Vet
  <2>. QED  BY <1>2, <1>4, <2>1, <2>3
<1>6. ASSUME NEW s \in Slots, ResponseHeaders(s) \/ Response(s) \/ WebSocketMessage(s) \/ Close(s)
      PROVE  AddonTyped'
  <2>1. /\ UNCHANGED secret
        /\ \/ End(s) \/ flow' = flow
           \/ \E phase \in Phase : flow' = [flow EXCEPT ![s].phase = phase]
    BY <1>6 DEF ResponseHeaders, Move, Response, Block, WebSocketMessage, Close
  <2>. QED  BY <1>2, <1>3, <2>1
<1>7. ASSUME Replace \/ Wait \/ UNCHANGED addonVars PROVE AddonTyped'
  BY <1>7 DEF Replace, Wait, addonVars
<1>. QED  BY <1>1, <1>5, <1>6, <1>7 DEF AddonNext

LEMMA AddonStep ==
  ASSUME AddonInv, [AddonNext]_addonVars
  PROVE  AddonInv'
<1>1. AddonTyped /\ AddonTyped'
  BY AddonTypedStep DEF AddonInv, AddonTyped
<1>2. SUFFICES NothingUnvetted' /\ CredentialContained'
  BY <1>1 DEF AddonInv, AddonTyped
<1>3. \A s \in Slots : flow'[s].injected \in Secrets \union {"none"}
  BY <1>1 DEF AddonTyped
<1>4. ASSUME NEW extra \in SUBSET (Secrets \union {"none"}), NEW readable \in BOOLEAN
      PROVE  /\ Values(extra, readable) \subseteq Secrets
             /\ readable => secret \in Values(extra, readable)
             /\ extra \subseteq Values(extra, readable) \union {"none"}
  BY <1>1 DEF Values, AddonTyped
<1>5. ASSUME NEW s \in Slots, Request(s) PROVE NothingUnvetted' /\ CredentialContained'
  <2>1. UNCHANGED <<settings, secret>>
    BY <1>5 DEF Request
  <2>2. \/ End(s)
        \/ \E host \in Hosts, m \in Requests :
             \/ host = "ignored" /\ Forward(s, host, m, TRUE, "none")
             \/ /\ host # "ignored"
                /\ \E readable \in BOOLEAN, injected \in Injectable(host) :
                     /\ Passes(Presented(m), Values({injected}, readable))
                     /\ Forward(s, host, m, readable, injected)
    BY <1>5 DEF Request, Vet
  <2>3. CASE End(s)
    BY <2>3, NothingDelivered DEF End
  <2>4. ASSUME NEW host \in Hosts, NEW m \in Requests, host = "ignored",
               Forward(s, host, m, TRUE, "none")
        PROVE  NothingUnvetted' /\ CredentialContained'
    <3>1. Ignored(host) = Ignored("ignored")
      BY <2>4
    <3>. QED  BY <2>4, <3>1, IgnoredDelivery DEF Forward
  <2>5. ASSUME NEW host \in Hosts, NEW m \in Requests, host # "ignored",
               NEW readable \in BOOLEAN, NEW injected \in Injectable(host),
               Passes(Presented(m), Values({injected}, readable)),
               Forward(s, host, m, readable, injected)
        PROVE  NothingUnvetted' /\ CredentialContained'
    <3>. DEFINE whole == IF m.own = "none" THEN m ELSE [m EXCEPT !.head = Append(m.head, m.own)]
                known == Values({injected}, readable)
    <3>1. Deliver(s, whole, "request", readable, {}) /\ flow'[s].injected = injected
      <4>1. flow' = [flow EXCEPT ![s] = [flow[s] EXCEPT !.phase = "upstream", !.host = host,
                                                       !.injected = injected]]
        BY <2>5 DEF Forward
      <4>2. flow'[s].injected = injected
        BY <1>1, <4>1 DEF AddonTyped
      <4>3. Ignored(host) = {}
        BY <2>5 DEF Ignored
      <4>. QED  BY <2>5, <4>2, <4>3 DEF Forward
    <3>2. injected \in Secrets \union {"none"}
      BY <1>1 DEF Injectable, AddonTyped
    <3>3. known \subseteq Secrets /\ (readable => secret \in known) /\ injected \in known \union {"none"}
      BY <1>4, <3>2
    <3>4. /\ whole \in Messages /\ Presented(m) \in Messages
          /\ Presented(m).shape = whole.shape
          /\ \A p : Carries(whole, p) <=> Carries(Presented(m), p)
      BY PresentedCarries
    <3>. HIDE DEF whole, known
    <3>. QED  BY <1>1, <1>3, <2>1, <2>5, <3>1, <3>3, <3>4, VettedDelivery DEF AddonTyped, known
  <2>. QED  BY <2>2, <2>3, <2>4, <2>5
<1>6. ASSUME NEW s \in Slots, NEW m \in Responses \union Frames, NEW readable \in BOOLEAN,
             NEW hook, hook # "request", Passes(m, Values({}, readable)),
             Deliver(s, m, hook, readable, {}), UNCHANGED <<settings, secret>>
      PROVE  NothingUnvetted' /\ CredentialContained'
  <2>1. m \in Messages
    BY MessageAssumption
  <2>2. Values({}, readable) \subseteq Secrets /\ (readable => secret \in Values({}, readable))
    BY <1>4
  <2>. QED  BY <1>1, <1>3, <1>6, <2>1, <2>2, VettedDelivery DEF AddonTyped
<1>7. ASSUME NEW s \in Slots, Response(s) PROVE NothingUnvetted' /\ CredentialContained'
  <2>1. UNCHANGED <<settings, secret>>
    BY <1>7 DEF Response
  <2>2. \E m \in Responses, readable \in BOOLEAN :
          \/ Block(s, m, readable)
          \/ /\ flow[s].host = "ignored" \/ Passes(m, Values({}, readable))
             /\ Deliver(s, m, "response", readable, Ignored(flow[s].host))
    BY <1>7 DEF Response
  <2>3. ASSUME NEW m \in Responses, NEW readable \in BOOLEAN, Block(s, m, readable)
        PROVE  NothingUnvetted' /\ CredentialContained'
    BY <2>3, BlockedDelivery
  <2>4. ASSUME NEW m \in Responses, NEW readable \in BOOLEAN,
               flow[s].host = "ignored" \/ Passes(m, Values({}, readable)),
               Deliver(s, m, "response", readable, Ignored(flow[s].host))
        PROVE  NothingUnvetted' /\ CredentialContained'
    <3>1. CASE flow[s].host = "ignored"
      <4>1. Ignored(flow[s].host) = Ignored("ignored")
        BY <3>1
      <4>. QED  BY <2>4, <4>1, IgnoredDelivery
    <3>2. CASE flow[s].host # "ignored"
      <4>1. Ignored(flow[s].host) = {}
        BY <3>2 DEF Ignored
      <4>. QED  BY <1>6, <2>1, <2>4, <3>2, <4>1
    <3>. QED  BY <3>1, <3>2
  <2>. QED  BY <2>2, <2>3, <2>4
<1>8. ASSUME NEW s \in Slots, WebSocketMessage(s) PROVE NothingUnvetted' /\ CredentialContained'
  <2>1. UNCHANGED <<settings, secret>>
    BY <1>8 DEF WebSocketMessage
  <2>2. \/ last' = Nothing
        \/ \E m \in Frames, readable \in BOOLEAN :
             Passes(m, Values({}, readable)) /\ Deliver(s, m, "message", readable, {})
    BY <1>8 DEF WebSocketMessage
  <2>. QED  BY <1>6, <2>1, <2>2, NothingDelivered
<1>9. ASSUME \/ \E s \in Slots : RequestHeaders(s) \/ Close(s)
             \/ Replace \/ Wait
      PROVE  NothingUnvetted' /\ CredentialContained'
  BY <1>9, NothingDelivered DEF RequestHeaders, End, Close, Replace, Wait
<1>11. ASSUME NEW s \in Slots, ResponseHeaders(s) PROVE NothingUnvetted' /\ CredentialContained'
  <2>1. last' = Nothing \/ \E m \in Responses : Block(s, m, TRUE)
    BY <1>11 DEF ResponseHeaders, Move
  <2>. QED  BY <2>1, NothingDelivered, BlockedDelivery
<1>10. CASE UNCHANGED addonVars
  BY <1>10 DEF addonVars, AddonInv, AddonTyped, NothingUnvetted, CredentialContained, Unseen, FailClosed
<1>. QED  BY <1>5, <1>7, <1>8, <1>9, <1>10, <1>11 DEF AddonNext

\* Every flow takes its requests from the same tracker.
LEMMA AddonRates == [AddonNext]_addonVars => [RateNext]_rateVars
  BY DEF AddonNext, addonVars, RequestHeaders, Request, ResponseHeaders, Response,
         WebSocketMessage, Close, Replace, Wait, RateNext

LEMMA AddonInvariant == AddonSpec => []AddonInv
<1>1. AddonInv /\ [AddonNext]_addonVars => AddonInv'
  BY AddonStep
<1>. QED  BY <1>1, AddonStart, PTL DEF AddonSpec

\* Whatever parts the messages of any number of flows have, in whatever order the
\* scanners find or fail, nothing they object to is delivered in either direction
\* except to ignored hosts, in the headers of a blocked response and, in permissive
\* mode, next to what could not be scanned (addon.py, injector.py).
THEOREM NothingPassesUnvetted == AddonSpec => []NothingUnvetted
<1>1. AddonInv => NothingUnvetted
  BY DEF AddonInv
<1>. QED  BY <1>1, AddonInvariant, PTL

\* The credential of the vault leaves in no other place than the injected header,
\* and does not come back to the agent while the vault holds it and can be read,
\* however often other processes replace it, except in the headers of a response
\* that is blocked (injector.py, addon.py:1044-1058).
THEOREM CredentialStaysInside == AddonSpec => []CredentialContained
<1>1. AddonInv => CredentialContained
  BY DEF AddonInv
<1>. QED  BY <1>1, AddonInvariant, PTL

\* Nor do the flows of the proxy, which share one tracker, get more requests of a
\* client through (addon.py:65-118).
THEOREM AddonRateIsBounded == AddonSpec => []RateBound
<1>1. RateInv /\ [AddonNext]_addonVars => RateInv'
  BY AddonRates, RateStep
<1>2. AddonInit => RateInv
  BY RateStart DEF AddonInit
<1>3. RateInv => RateBound
  BY DEF RateInv
<1>. QED  BY <1>1, <1>2, <1>3, PTL DEF AddonSpec
=============================================================================

---------------------------- MODULE ProxyRunner -----------------------------
(***************************************************************************)
(* The life of the proxy: KatanaProxy of                                   *)
(* src/hermes_katana/proxy/runner.py.  An owner is a process with one      *)
(* KatanaProxy object: the CLI (which exits when its command is done), or  *)
(* an agent's runtime.  All of them share one PID file, and one mitmproxy  *)
(* process at a time is meant to run.  Inside an owner, the caller of      *)
(* start and stop and the watchdog threads exclude each other with a lock, *)
(* which no other owner sees; is_running and status take no lock at all.   *)
(*                                                                         *)
(* A PID is never reused, and a process whose port is taken ends           *)
(* sooner or later.                                                        *)
(***************************************************************************)
EXTENDS Integers, FiniteSets

CONSTANTS
  Owners,
  Ports,
  None,
  MaxSpawns,   \* bound: mitmproxy processes ever started
  MaxFaults,   \* bound: processes that die, starts and PID file writes that fail
  MaxMishaps   \* bound: kinds of mishaps that must not be exceeded by new calls

Pids == 1..MaxSpawns

ASSUME OwnerAssumption == Owners \intersect Pids = {}
ASSUME NoneAssumption  == None \notin Owners \union Pids \union [by : Owners, port : Ports]
ASSUME BoundAssumption == {MaxSpawns, MaxFaults, MaxMishaps} \subseteq Nat

\* The caller of start and stop in each owner, and the watchdogs: every start
\* that succeeds starts one, which goes by the PID it was started with.
Threads == Owners \union Pids

VARIABLES
  config,    \* the port each owner is configured with
  alive,     \* the mitmproxy processes that run
  born,      \* who started each process, and on which port
  pidfile,   \* the PID the file names, or None
  process,   \* _process of each owner
  stopping,  \* _watchdog_stop of each owner
  health,    \* "live": its thread serves, or is about to; "lost": so it does,
             \* and nothing refers to it
  pc, saw,   \* where each thread is, and the PID it read from the file
  checking   \* the dead PID that some is_running or status is about to remove

\* History variables: they record what happened and guard nothing.
VARIABLES
  asked,     \* the last call that began
  quiet,     \* the owner whose stop returned, if no start has begun since
  causes, faults

vars == <<config, alive, born, pidfile, process, stopping, health, pc, saw, checking,
          asked, quiet, causes, faults>>

Mishap == { "overlap",    \* an operation began while another owner was in one
            "late",       \* a watchdog restarted what was stopped or restarted already
            "stale",      \* a check removed a PID that it had not looked at
            "unnamed",    \* a process was started and not entered in the file
            "forgotten",  \* a dead process's PID was removed and nothing started
            "unserved",   \* a second health server was started over the first
            "unheard" }   \* a stop found the health server's thread not serving yet

\* Inside the owner's lock.  "want": a watchdog waits for it.
Inside == {"kill", "unlink", "spawn", "settle", "write", "endkill", "clean"}

Starting == {"spawn", "settle", "write"}

Of(t) == IF t \in Owners THEN t ELSE born[t].by

Belongs(t, o) == t = o \/ (t \in Pids /\ born[t] # None /\ born[t].by = o)

\* One of the owner's threads is at one of these places.
Within(o, labels) == \E t \in Threads : Belongs(t, o) /\ pc[t] \in labels

\* Nobody holds its lock.
Free(o) == ~Within(o, Inside)

\* Some other owner is in the middle of starting or stopping.
Overlap(o) == \E t \in Threads : ~Belongs(t, o) /\ pc[t] \in Inside

\* The bound on what comes from outside.
Calm == Cardinality(causes \ {"unserved"}) <= MaxMishaps

Goto(t, label) == pc' = [pc EXCEPT ![t] = label]

\* _pid_matches_proxy_process
Runs(p) == p \in alive

Init ==
  /\ config \in [Owners -> Ports]
  /\ alive = {} /\ born = [p \in Pids |-> None]
  /\ pidfile = None
  /\ process = [o \in Owners |-> None]
  /\ stopping = [o \in Owners |-> FALSE]
  /\ health = [o \in Owners |-> "none"]
  /\ pc = [t \in Threads |-> "idle"] /\ saw = [t \in Threads |-> None]
  /\ checking = None
  /\ asked = "none" /\ quiet = None /\ causes = {} /\ faults = 0

-----------------------------------------------------------------------------
(* start                                                                   *)

Begin(o, call) ==
  /\ asked' = call /\ quiet' = None
  /\ causes' = IF Overlap(o) THEN causes \union {"overlap"} ELSE causes

Start_Unchecked(o) ==   \* mutant: start does not look whether a proxy runs
  /\ Calm /\ pc[o] = "idle" /\ Free(o)
  /\ Begin(o, "start")
  /\ Goto(o, "spawn")
  /\ UNCHANGED <<config, alive, born, pidfile, process, stopping, health, saw, checking, faults>>

\* A proxy that runs on the port is left alone, one on another port is killed,
\* and a PID file that names no proxy is removed.
Start(o) ==
  /\ Calm /\ pc[o] = "idle" /\ Free(o)
  /\ Begin(o, "start")
  /\ IF Runs(pidfile)
     THEN IF born[pidfile].port = config[o] THEN UNCHANGED <<pc, saw>>
          ELSE Goto(o, "kill") /\ saw' = [saw EXCEPT ![o] = pidfile]
     ELSE /\ Goto(o, IF pidfile = None THEN "spawn" ELSE "unlink")
          /\ UNCHANGED saw
  /\ UNCHANGED <<config, alive, born, pidfile, process, stopping, health, checking, faults>>

Unlink(o) ==
  /\ pc[o] = "unlink"
  /\ pidfile' = None
  /\ Goto(o, "spawn")
  /\ UNCHANGED <<config, alive, born, process, stopping, health, saw, checking,
                 asked, quiet, causes, faults>>

\* _kill_process, for start and for stop: it looks again, and raises when the
\* process is gone.
Kill(o) ==
  /\ pc[o] \in {"kill", "endkill"}
  /\ IF Runs(saw[o])
     THEN /\ alive' = alive \ {saw[o]}
          /\ Goto(o, IF pc[o] = "kill" THEN "spawn" ELSE "clean")
     ELSE Goto(o, "idle") /\ UNCHANGED alive
  /\ saw' = [saw EXCEPT ![o] = None]
  /\ UNCHANGED <<config, born, pidfile, process, stopping, health, checking,
                 asked, quiet, causes, faults>>

-----------------------------------------------------------------------------
(* _start_proxy, called by start and by a watchdog.                        *)

Fail_EndsWatchdog(t) ==   \* mutant: the watchdog does not catch the exception
  /\ Goto(t, "idle")
  /\ causes' = IF pidfile = None THEN causes \union {"forgotten"} ELSE causes

\* It raises: the caller of start is told, a watchdog goes on watching.
Fail(t) ==
  /\ Goto(t, IF t \in Owners THEN "idle" ELSE "wait")
  /\ causes' = IF pidfile = None THEN causes \union {"forgotten"} ELSE causes

\* Popen.
Spawn(t) ==
  /\ pc[t] = "spawn"
  /\ \E p \in Pids :
       /\ born[p] = None /\ \A q \in Pids : q < p => born[q] # None
       /\ born' = [born EXCEPT ![p] = [by |-> Of(t), port |-> config[Of(t)]]]
       /\ alive' = alive \union {p}
       /\ process' = [process EXCEPT ![Of(t)] = p]
  /\ Goto(t, "settle")
  /\ UNCHANGED <<config, pidfile, stopping, health, saw, checking, asked, quiet, causes, faults>>

\* It is refused, or cannot be executed.
SpawnFails(t) ==
  /\ pc[t] = "spawn"
  /\ IF \A p \in Pids : born[p] # None THEN UNCHANGED faults
     ELSE faults < MaxFaults /\ faults' = faults + 1
  /\ Fail(t)
  /\ UNCHANGED <<config, alive, born, pidfile, process, stopping, health, saw, checking,
                 asked, quiet>>

\* A moment later it looks whether the process still runs.
Settle(t) ==
  /\ pc[t] = "settle"
  /\ IF Runs(process[Of(t)])
     THEN Goto(t, "write") /\ UNCHANGED <<process, causes>>
     ELSE Fail(t) /\ process' = [process EXCEPT ![Of(t)] = None]
  /\ UNCHANGED <<config, alive, born, pidfile, stopping, health, saw, checking,
                 asked, quiet, faults>>

\* The PID file, a new watchdog next to those that are there, a health server.
Write(t) ==
  LET o == Of(t)
  IN  /\ pc[t] = "write"
      /\ pidfile' = process[o]
      /\ stopping' = [stopping EXCEPT ![o] = FALSE]
      /\ pc' = [pc EXCEPT ![t] = IF t \in Owners THEN "idle" ELSE "wait", ![process[o]] = "wait"]
      /\ health' = [health EXCEPT ![o] = IF @ = "none" THEN "live" ELSE "lost"]
      /\ causes' = IF health[o] = "none" THEN causes ELSE causes \union {"unserved"}
      /\ UNCHANGED <<config, alive, born, process, saw, checking, asked, quiet, faults>>

WriteFails(t) ==
  /\ pc[t] = "write"
  /\ faults < MaxFaults /\ faults' = faults + 1
  /\ Goto(t, IF t \in Owners THEN "idle" ELSE "wait")
  /\ causes' = causes \union {"unnamed"}
  /\ UNCHANGED <<config, alive, born, pidfile, process, stopping, health, saw, checking,
                 asked, quiet>>

-----------------------------------------------------------------------------
(* stop                                                                    *)

\* The watchdogs that wait for their next look are woken and end.  The others
\* will see the event when they are back, if it is still set by then.
Woken(o) ==
  [t \in Threads |-> IF t \in Pids /\ Belongs(t, o) /\ pc[t] = "wait" THEN "idle" ELSE pc[t]]

\* The health server's thread binds the port on its own time: a stop that comes
\* before drops the reference to it, and it will serve.
StopHealth(o) ==
  \E served \in BOOLEAN :
    /\ health' = [health EXCEPT ![o] = IF @ = "live" THEN (IF served THEN "none" ELSE "lost") ELSE @]
    /\ causes' = causes \union (IF Overlap(o) THEN {"overlap"} ELSE {})
                      \union (IF health[o] = "live" /\ ~served THEN {"unheard"} ELSE {})

Stop_OwnProcess(o) ==   \* mutant: stop only ends the process it started itself
  /\ Calm /\ pc[o] = "idle" /\ Free(o)
  /\ asked' = "stop" /\ quiet' = None
  /\ stopping' = [stopping EXCEPT ![o] = TRUE]
  /\ StopHealth(o)
  /\ pc' = [Woken(o) EXCEPT ![o] = "clean"]
  /\ UNCHANGED <<config, alive, born, pidfile, process, saw, checking, faults>>

Stop(o) ==
  /\ Calm /\ pc[o] = "idle" /\ Free(o)
  /\ asked' = "stop" /\ quiet' = None
  /\ saw' = [saw EXCEPT ![o] = IF Runs(pidfile) THEN pidfile ELSE None]
  /\ stopping' = [stopping EXCEPT ![o] = TRUE]
  /\ StopHealth(o)
  /\ pc' = [Woken(o) EXCEPT ![o] = IF Runs(pidfile) THEN "endkill" ELSE "clean"]
  /\ UNCHANGED <<config, alive, born, pidfile, process, checking, faults>>

\* Its own process is ended, the PID file removed, and stop returns.
Clean(o) ==
  /\ pc[o] = "clean"
  /\ alive' = alive \ {process[o]}
  /\ process' = [process EXCEPT ![o] = None]
  /\ pidfile' = None
  /\ Goto(o, "idle")
  /\ quiet' = IF asked = "stop" THEN o ELSE quiet
  /\ UNCHANGED <<config, born, stopping, health, saw, checking, asked, causes, faults>>

-----------------------------------------------------------------------------
(* The watchdogs, and checks by anyone.                                    *)

\* The wait is over: either stop was called, or the PID file is read.
Look(w) ==
  /\ pc[w] = "wait"
  /\ IF stopping[Of(w)]
     THEN Goto(w, "idle") /\ UNCHANGED saw
     ELSE /\ pidfile # None /\ ~Runs(pidfile)
          /\ Goto(w, "want")
          /\ saw' = [saw EXCEPT ![w] = pidfile]
  /\ UNCHANGED <<config, alive, born, pidfile, process, stopping, health, checking,
                 asked, quiet, causes, faults>>

\* It gets the lock and restarts, whatever has happened meanwhile.
Restart(w) ==
  /\ pc[w] = "want" /\ Free(Of(w))
  /\ Goto(w, "spawn")
  /\ saw' = [saw EXCEPT ![w] = None]
  /\ causes' = causes \union (IF Overlap(Of(w)) THEN {"overlap"} ELSE {})
       \union (IF asked = "stop" \/ pidfile # saw[w] THEN {"late"} ELSE {})
  /\ UNCHANGED <<config, alive, born, pidfile, process, stopping, health, checking,
                 asked, quiet, faults>>

\* is_running and status, of any process, the health server included.
Check ==
  /\ Calm
  /\ checking = None
  /\ pidfile # None /\ ~Runs(pidfile)
  /\ checking' = pidfile
  /\ UNCHANGED <<config, alive, born, pidfile, process, stopping, health, pc, saw,
                 asked, quiet, causes, faults>>

CheckUnlinks ==
  /\ checking # None
  /\ checking' = None /\ pidfile' = None
  /\ causes' = causes \union (IF pidfile = checking THEN {"forgotten"} ELSE {})
       \union (IF pidfile \notin {None, checking} THEN {"stale"} ELSE {})
  /\ UNCHANGED <<config, alive, born, process, stopping, health, pc, saw,
                 asked, quiet, faults>>

-----------------------------------------------------------------------------
(* The environment.                                                        *)

\* mitmproxy dies, or finds its port taken by an older process.
Die(p) ==
  /\ p \in alive
  /\ \/ faults < MaxFaults /\ faults' = faults + 1
     \/ /\ \E q \in alive : q < p /\ born[q].port = born[p].port
        /\ UNCHANGED faults
  /\ alive' = alive \ {p}
  /\ UNCHANGED <<config, born, pidfile, process, stopping, health, pc, saw, checking,
                 asked, quiet, causes>>

\* The owner's process ends, with all its threads, and mitmproxy runs on.
\* Another one with its configuration may come.
Exit(o) ==
  /\ Calm
  /\ process' = [process EXCEPT ![o] = None]
  /\ stopping' = [stopping EXCEPT ![o] = FALSE]
  /\ health' = [health EXCEPT ![o] = "none"]
  /\ pc' = [t \in Threads |-> IF Belongs(t, o) THEN "idle" ELSE pc[t]]
  /\ saw' = [t \in Threads |-> IF Belongs(t, o) THEN None ELSE saw[t]]
  /\ causes' = causes
       \union (IF Within(o, {"settle", "write"}) THEN {"unnamed"} ELSE {})
       \union (IF Within(o, Starting) /\ pidfile = None THEN {"forgotten"} ELSE {})
  /\ UNCHANGED <<config, alive, born, pidfile, checking, asked, quiet, faults>>

Step(t) ==
  \/ t \in Owners /\ (Unlink(t) \/ Kill(t) \/ Clean(t))
  \/ t \in Pids /\ (Look(t) \/ Restart(t))
  \/ Spawn(t) \/ SpawnFails(t) \/ Settle(t) \/ Write(t) \/ WriteFails(t)

Next ==
  \/ \E o \in Owners : Start(o) \/ Stop(o) \/ Exit(o)
  \/ \E t \in Threads : Step(t)
  \/ \E p \in Pids : Die(p)
  \/ Check \/ CheckUnlinks

\* Every thread that can go on does; calls, checks and failures need not come.
Spec == Init /\ [][Next]_vars /\ \A t \in Threads : WF_vars(Step(t))

-----------------------------------------------------------------------------
(* Properties *)

Typed ==
  /\ config \in [Owners -> Ports]
  /\ alive \subseteq {p \in Pids : born[p] # None}
  /\ born \in [Pids -> [by : Owners, port : Ports] \union {None}]
  /\ pidfile \in Pids \union {None}
  /\ process \in [Owners -> Pids \union {None}]
  /\ stopping \in [Owners -> BOOLEAN]
  /\ health \in [Owners -> {"none", "live", "lost"}]
  /\ pc \in [Threads -> {"idle", "wait", "want"} \union Inside]
  /\ saw \in [Threads -> Pids \union {None}]
  /\ checking \in Pids \union {None}
  /\ asked \in {"none", "start", "stop"} /\ quiet \in Owners \union {None}
  /\ causes \subseteq Mishap /\ faults \in Nat

\* What a thread is going to use is there.
Prepared ==
  \A t \in Threads :
    /\ pc[t] \in {"settle", "write"} => process[Of(t)] # None
    /\ pc[t] \in {"kill", "endkill", "want"} => saw[t] # None

TypeOK == Typed /\ Prepared

\* A running proxy is named by the PID file, where any owner's stop finds it, or
\* is still being started: none gets lost - unless owners overlapped, a
\* watchdog came late, a stale check removed its PID, or it was never entered.
NamedOrStarting ==
  causes \intersect {"overlap", "late", "stale", "unnamed"} = {} =>
    \A p \in alive :
      p = pidfile \/ \E t \in Threads : pc[t] \in {"settle", "write"} /\ process[Of(t)] = p

\* After stop has returned, no proxy runs, no PID file and no health server of
\* that owner is left, and none comes back by itself, with the same exceptions
\* and, for the health server, unless stop came before its thread served.
StopLeavesNothing ==
  quiet # None /\ causes \subseteq {"forgotten", "unheard"} =>
    /\ alive = {} /\ pidfile = None
    /\ "unheard" \notin causes => health[quiet] = "none"

\* A proxy that died under watch is replaced, unless stop is called, the
\* watching process ends, or its PID is removed before the watchdog looks.
Restarted ==
  pidfile # None /\ ~Runs(pidfile) /\ pc[pidfile] # "idle" /\ asked = "start"
    ~> \/ alive # {} \/ asked = "stop"
       \/ pidfile # None /\ health[Of(pidfile)] = "none"
       \/ causes \intersect {"forgotten", "stale", "overlap"} # {}
       \/ \A q \in Pids : born[q] # None

=============================================================================

------------------------------ MODULE Dispatch ------------------------------
(***************************************************************************)
(* The tool-call gate: the hooks of src/hermes_katana/hermes_plugin.py     *)
(* driving the middleware chain of middleware/chain.py.  Hermes calls the  *)
(* hooks of concurrent tool calls from several threads; what the pre hook  *)
(* learned about a call travels to its post hook through _context_stash,   *)
(* and the post hook's output to the transform hook through                *)
(* _result_transform_stash.  Both are dictionaries in insertion order,     *)
(* modelled as sequences of call ids.                                      *)
(*                                                                         *)
(* The chain is Enforcers middlewares that may object to a call, and last  *)
(* the audit middleware that only records (create_default_chain).          *)
(***************************************************************************)
EXTENDS Integers, Sequences, SequencesExt

CONSTANTS
  Calls,      \* tool calls, each with its tool_call_id
  Tools,
  Tasks,      \* non-empty task ids
  NoTask,     \* the empty task id
  None,       \* no context: the call has not come, or was blocked
  Threads,    \* runtime keys: a thread and its asyncio task
  Enforcers,  \* number of middlewares before the audit middleware
  Limit,      \* entries a stash may hold (100 in the code)
  Keep,       \* entries an eviction leaves (50 in the code)
  MaxEvents   \* bound: session ends and registrations of the plugin

ASSUME TaskAssumption  == NoTask \notin Tasks
ASSUME ChainAssumption == Enforcers \in Nat
ASSUME StashAssumption == Limit \in Nat /\ Keep \in Nat /\ Keep < Limit
ASSUME BoundAssumption == MaxEvents \in Nat

VARIABLES
  plugin,   \* "on": initialized; "error": initialization failed; "off": neither
  pc,       \* where each call is
  ctx,      \* its tool, task id and runtime key, and the chain's decision
  stash,    \* _context_stash
  results,  \* _result_transform_stash
  log       \* what the audit trail holds about the contexts of each call

\* History variables: they record what happened and guard nothing.
VARIABLES
  verdicts,  \* what the middlewares, and the approver, said of a call let through
  popped,    \* the contexts that the hooks of each call took from the stash
  passes,    \* how often each call's result went through post-dispatch
  output,    \* what Hermes was given as the result of each call
  causes, events

vars == <<plugin, pc, ctx, stash, results, log, verdicts, popped, passes, output,
          causes, events>>
history == <<verdicts, popped, passes, output, causes, events>>

Mishap == { "similar",     \* contexts that _pop_context may confuse were stashed
            "cleared",     \* a session ended while calls were under way
            "evicted",     \* a stash overflowed
            "registered" } \* the plugin was registered again

\* "running": Hermes runs the tool, which may never come back.
Label == {"new", "ask", "blocked", "running", "posted", "returned"}

Decision == {"allow", "deny", "escalate"}

Context == [tool : Tools, task : Tasks \union {NoTask}, thread : Threads, decision : Decision]

UnderWay(c) == pc[c] \notin {"new", "blocked", "returned"}

Goto(c, label) == pc' = [pc EXCEPT ![c] = label]

Init ==
  /\ plugin \in {"on", "error"}
  /\ pc = [c \in Calls |-> "new"]
  /\ ctx = [c \in Calls |-> None]
  /\ stash = <<>> /\ results = <<>>
  /\ log = [c \in Calls |-> [pre |-> {}, short |-> 0, post |-> 0]]
  /\ verdicts = [c \in Calls |-> {}]
  /\ popped = [c \in Calls |-> {}]
  /\ passes = [c \in Calls |-> 0]
  /\ output = [c \in Calls |-> "none"]
  /\ causes = {} /\ events = 0

-----------------------------------------------------------------------------
(* The two stashes.                                                        *)

\* Enter c, and past Limit leave the Keep newest entries.
Put(s, c) ==
  LET t == Append(s, c)
  IN  IF Len(t) > Limit THEN SubSeq(t, Len(t) - Keep + 1, Len(t)) ELSE t

Overflow(s) == IF Len(s) + 1 > Limit THEN {"evicted"} ELSE {}

\* Contexts _pop_context may take for one another.
Similar(a, b) == a.tool = b.tool /\ (a.task = b.task \/ NoTask \in {a.task, b.task})

\* The four passes of _pop_context, from the strictest to the laxest.
Matches(d, c, thread, pass) ==
  LET sameTask == ctx[c].task # NoTask /\ ctx[d].task = ctx[c].task
  IN  /\ ctx[d].tool = ctx[c].tool
      /\ \/ pass = 1 /\ sameTask /\ ctx[d].thread = thread
         \/ pass = 2 /\ sameTask
         \/ pass = 3 /\ ctx[d].thread = thread
         \/ pass = 4

\* The places of the contexts that a pass of a hook of c in this thread accepts.
Hits(c, thread, pass) == {i \in 1..Len(stash) : Matches(stash[i], c, thread, pass)}

Passes(c, thread) == {pass \in 1..4 : Hits(c, thread, pass) # {}}

Found_LaxestFirst(c, thread) ==   \* mutant: the passes run from the laxest on
  IF Passes(c, thread) = {} THEN 0 ELSE Max(Hits(c, thread, Max(Passes(c, thread))))

\* The place of the context it gets: the newest one that the first pass to
\* find any accepts.  0: none, a fresh one is made.
Found(c, thread) ==
  IF Passes(c, thread) = {} THEN 0 ELSE Max(Hits(c, thread, Min(Passes(c, thread))))

Taken_Stays(place) == stash   \* mutant: the context is left in the stash

\* The stash without the context that was found.
Taken(place) == IF place = 0 THEN stash ELSE RemoveAt(stash, place)

-----------------------------------------------------------------------------
(* The pre hook.                                                           *)

\* No chain to ask: an initialization error blocks, its absence lets through,
\* and a chain that is gone when it is used, after the check, blocks again.
PreUnchecked(c) ==
  /\ pc[c] = "new" /\ plugin # "on"
  /\ \/ Goto(c, "blocked") /\ UNCHANGED ctx
     \/ /\ plugin = "off"
        /\ Goto(c, "running")
        /\ \E new \in Context : new.decision = "allow" /\ ctx' = [ctx EXCEPT ![c] = new]
  /\ UNCHANGED <<plugin, stash, results, log, history>>

\* What each middleware before the audit middleware does with a call.
Script == [1..Enforcers -> {"allow", "escalate", "deny", "raise"}]

\* execute_pre stops at the first middleware that denies, or fails.
Asked(script) == {i \in 1..Enforcers : \A j \in 1..(i - 1) : script[j] \notin {"deny", "raise"}}

Heard(script) == {script[i] : i \in Asked(script)}

Verdict_RaisePasses(script) ==   \* mutant: a middleware that raises is skipped
  IF "deny" \in Heard(script) THEN "deny"
  ELSE IF "escalate" \in Heard(script) THEN "escalate" ELSE "allow"

\* Its decision: a failure denies, a request for approval sticks.
Verdict(script) ==
  IF Heard(script) \intersect {"deny", "raise"} # {} THEN "deny"
  ELSE IF "escalate" \in Heard(script) THEN "escalate" ELSE "allow"

\* The context is stashed for the post hook and Hermes runs the tool.
Release(c, context) ==
  /\ Goto(c, "running")
  /\ stash' = Put(stash, c)
  /\ causes' = causes \union Overflow(stash)
       \union (IF \E i \in 1..Len(stash) : Similar(context, ctx[stash[i]]) THEN {"similar"}
               ELSE {})

\* The chain judges the call.  The audit middleware comes last and records the
\* decision, unless the chain is cut short: then it is notified and records that.
Pre(c) ==
  /\ pc[c] = "new" /\ plugin = "on"
  /\ \E script \in Script : \E new \in Context :
       /\ new.decision = Verdict(script)
       /\ IF new.decision = "deny"
          THEN /\ log' = [log EXCEPT ![c].short = @ + 1]
               /\ Goto(c, "blocked")
               /\ UNCHANGED <<ctx, stash, verdicts, causes>>
          ELSE /\ log' = [log EXCEPT ![c].pre = @ \union {new.decision}]
               /\ ctx' = [ctx EXCEPT ![c] = new]
               /\ verdicts' = [verdicts EXCEPT ![c] = Heard(script) \ {"allow"}]
               /\ IF new.decision = "allow" THEN Release(c, new)
                  ELSE Goto(c, "ask") /\ UNCHANGED <<stash, causes>>
  /\ UNCHANGED <<plugin, results, popped, passes, output, events>>

\* resolve_escalation: auto_approve and an approving human let the call through.
Approve(c) ==
  /\ pc[c] = "ask"
  /\ verdicts' = [verdicts EXCEPT ![c] = @ \union {"approved"}]
  /\ Release(c, ctx[c])
  /\ UNCHANGED <<plugin, ctx, results, log, popped, passes, output, events>>

\* Action block, no approver, a refusal or an error in asking.
Refuse(c) ==
  /\ pc[c] = "ask"
  /\ Goto(c, "blocked")
  /\ ctx' = [ctx EXCEPT ![c] = None]
  /\ verdicts' = [verdicts EXCEPT ![c] = {}]
  /\ UNCHANGED <<plugin, stash, results, log, popped, passes, output, causes, events>>

-----------------------------------------------------------------------------
(* The hooks after the tool has run.                                       *)

\* _process_tool_result: post-dispatch with the stashed context, or a new one
\* in its absence, which the audit trail then knows by a call id of its own.
Process(c, thread) ==
  LET place == Found(c, thread)
      found == IF place = 0 THEN {} ELSE {stash[place]}
  IN  /\ stash' = Taken(place)
      /\ popped' = [popped EXCEPT ![c] = @ \union found]
      /\ passes' = [passes EXCEPT ![c] = @ + 1]
      /\ log' = [d \in Calls |-> IF d \in found THEN [log[d] EXCEPT !.post = @ + 1] ELSE log[d]]

Post(c, thread) ==
  /\ pc[c] = "running"
  /\ Goto(c, "posted")
  /\ IF plugin = "on"
     THEN /\ Process(c, thread)
          /\ results' = Put(results, c)
          /\ causes' = causes \union Overflow(results)
     ELSE UNCHANGED <<stash, results, log, popped, passes, causes>>
  /\ UNCHANGED <<plugin, ctx, verdicts, output, events>>

Transform_Again(c, thread) ==   \* mutant: the post hook's output is not looked up
  /\ pc[c] = "posted"
  /\ Goto(c, "returned")
  /\ IF plugin = "on"
     THEN /\ output' = [output EXCEPT ![c] = "processed"]
          /\ Process(c, thread)
          /\ UNCHANGED results
     ELSE /\ output' = [output EXCEPT ![c] = "raw"]
          /\ UNCHANGED <<stash, results, log, popped, passes>>
  /\ UNCHANGED <<plugin, ctx, verdicts, causes, events>>

\* What the post hook made of the result, or else another post-dispatch.
Transform(c, thread) ==
  /\ pc[c] = "posted"
  /\ Goto(c, "returned")
  /\ IF plugin = "on"
     THEN /\ output' = [output EXCEPT ![c] = "processed"]
          /\ results' = RemoveFirst(results, c)
          /\ IF Contains(results, c)
             THEN UNCHANGED <<stash, log, popped, passes>>
             ELSE Process(c, thread)
     ELSE /\ output' = [output EXCEPT ![c] = "raw"]
          /\ UNCHANGED <<stash, results, log, popped, passes>>
  /\ UNCHANGED <<plugin, ctx, verdicts, causes, events>>

-----------------------------------------------------------------------------
(* Sessions and registration.                                              *)

\* on_session_end of any session clears the stashes of all of them.
SessionEnd ==
  /\ plugin = "on" /\ events < MaxEvents
  /\ events' = events + 1
  /\ stash' = <<>> /\ results' = <<>>
  /\ causes' = IF \E c \in Calls : UnderWay(c) THEN causes \union {"cleared"} ELSE causes
  /\ UNCHANGED <<plugin, pc, ctx, log, verdicts, popped, passes, output>>

\* register() drops the runtime first ...
RegisterBegin ==
  /\ plugin # "off" /\ events < MaxEvents
  /\ events' = events + 1
  /\ plugin' = "off"
  /\ causes' = causes \union {"registered"}
  /\ UNCHANGED <<pc, ctx, stash, results, log, verdicts, popped, passes, output>>

\* ... and takes its time to build a new one.
RegisterEnd ==
  /\ plugin = "off"
  /\ plugin' \in {"on", "error"}
  /\ UNCHANGED <<pc, ctx, stash, results, log, history>>

Next ==
  \/ \E c \in Calls :
       \/ PreUnchecked(c) \/ Pre(c) \/ Approve(c) \/ Refuse(c)
       \/ \E thread \in Threads : Post(c, thread) \/ Transform(c, thread)
  \/ SessionEnd \/ RegisterBegin \/ RegisterEnd

Spec == Init /\ [][Next]_vars

-----------------------------------------------------------------------------
(* Properties *)

TypeOK ==
  /\ plugin \in {"on", "error", "off"}
  /\ pc \in [Calls -> Label]
  /\ ctx \in [Calls -> Context \union {None}]
  /\ stash \in Seq(Calls) /\ Len(stash) <= Limit
  /\ results \in Seq(Calls) /\ Len(results) <= Limit
  /\ log \in [Calls -> [pre : SUBSET Decision, short : Nat, post : Nat]]
  /\ verdicts \in [Calls -> SUBSET {"deny", "raise", "escalate", "approved"}]
  /\ popped \in [Calls -> SUBSET Calls]
  /\ passes \in [Calls -> Nat]
  /\ output \in [Calls -> {"none", "raw", "processed"}]
  /\ causes \subseteq Mishap
  /\ events \in Nat

PastGate(c) == pc[c] \in {"running", "posted", "returned"}

\* The gate: a tool runs only when no middleware denied the call or failed on
\* it, an escalated call only with an approval, and in either case after the
\* audit trail was told the decision (chain.py:388-421, hermes_plugin.py:476-516).
\* The one exception is a call that finds the plugin between two registrations.
GateHolds ==
  \A c \in Calls : PastGate(c) =>
    \/ verdicts[c] = {} /\ log[c].pre = {} /\ "registered" \in causes
    \/ /\ verdicts[c] \intersect {"deny", "raise"} = {}
       /\ "escalate" \in verdicts[c] => "approved" \in verdicts[c]
       /\ log[c].pre = {IF "escalate" \in verdicts[c] THEN "escalate" ELSE "allow"}

\* A context serves one call: whatever is confused, evicted or cleared, no two
\* hooks get the same one, so no call is audited as completed twice.
ContextUsedOnce ==
  /\ \A c, d \in Calls : c # d => popped[c] \intersect popped[d] = {}
  /\ \A c \in Calls : log[c].post <= 1

\* The post hook gets the context of its own call and of no other, unless
\* similar contexts were in the stash together or the stash lost entries
\* (hermes_plugin.py:871-925) - even when it runs in another thread than the
\* pre hook, next to contexts of lost calls.
OwnContext ==
  causes = {} => \A c \in Calls :
    /\ popped[c] \subseteq {c}
    /\ pc[c] \in {"posted", "returned"} => popped[c] = {c}

\* Hermes never hands the model a result that skipped post-dispatch, and no
\* result goes through it twice unless the stashes lost entries.
ProcessedOnce ==
  \A c \in Calls : pc[c] = "returned" /\ "registered" \notin causes =>
    /\ output[c] = "processed"
    /\ causes \intersect {"cleared", "evicted"} = {} => passes[c] = 1

=============================================================================

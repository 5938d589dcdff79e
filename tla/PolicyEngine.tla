---------------------------- MODULE PolicyEngine ----------------------------
(***************************************************************************)
(* The policy engine of src/hermes_katana/policy/engine.py: threads        *)
(* evaluate tool calls against an ordered list of policies and share a     *)
(* cache of the results, while other threads change the policies.  The     *)
(* lock protects single accesses, not an evaluation: the cache is looked   *)
(* up, the policies are copied and the result is cached one after another. *)
(*                                                                         *)
(* A call is a cache key: a tool, its arguments and their taint.  Of a     *)
(* policy we keep its name, its priority, the calls it covers (pattern,    *)
(* conditions, enabled) and its action.  PolicyReload adds the files.      *)
(***************************************************************************)
EXTENDS Integers, Sequences

CONSTANTS
  Threads,   \* threads that evaluate calls
  Calls,     \* the distinct calls
  Unsafe,    \* calls command_safety_check denies whatever the policies say
  Policies,  \* records [name, priority, covers, action]
  CacheMax,  \* entries the cache may hold (512 in the code)
  Evicted,   \* oldest entries dropped when it is full (128 in the code)
  MaxEvents, \* bound: calls that change the engine, edits and faults
  None       \* no call, no action, no policy that matches

Action == {"allow", "deny", "escalate", "log_only"}

ASSUME CallAssumption   == Unsafe \subseteq Calls /\ None \notin Calls /\ None \notin Action
ASSUME PolicyAssumption ==
  \A p \in Policies : p.priority \in Nat /\ p.covers \subseteq Calls /\ p.action \in Action
ASSUME CacheAssumption  == CacheMax \in Nat /\ Evicted \in 1..CacheMax
ASSUME BoundAssumption  == MaxEvents \in Nat

VARIABLES
  policies,  \* _policies, before the stable sort by priority
  default,   \* _default_action
  cache,     \* _eval_cache: [call, action], oldest first
  pc,        \* where each thread is in evaluate()
  call,      \* the call it evaluates
  found,     \* the action of the first policy that matches, None if there is none
  answer     \* the action evaluate() returns

\* History variables: they record what happened and guard nothing.
VARIABLES
  valid,     \* the right answers at the moments since the evaluation began
  causes,    \* see Mishap
  events

engine  == <<policies, default, cache>>
threads == <<pc, call, found, answer>>
engineVars == <<engine, threads, valid, causes, events>>

Mishap == { "raced",     \* the cache holds a result of policies replaced meanwhile
            "uncleared", \* the policies changed and the cache was left alone
            "torn",      \* the default changed between matching and falling back on it
            "api" }      \* the engine was changed other than by a reload

-----------------------------------------------------------------------------

Hits(c, ps) == {i \in 1..Len(ps) : c \in ps[i].covers}

\* Highest priority first, and among equals the one added first: the list is
\* kept sorted by a stable sort.
Match(c, ps) ==
  IF Hits(c, ps) = {} THEN None
  ELSE ps[CHOOSE i \in Hits(c, ps) : \A j \in Hits(c, ps) :
            ps[i].priority > ps[j].priority \/ (ps[i].priority = ps[j].priority /\ i <= j)].action

\* What evaluating c comes to when nothing moves.
Decide(c, ps, d) ==
  IF c \in Unsafe THEN "deny" ELSE IF Match(c, ps) = None THEN d ELSE Match(c, ps)

Cached(c) == {i \in 1..Len(cache) : cache[i].call = c}

EngineInit ==
  /\ policies = <<>> /\ default = "escalate" /\ cache = <<>>
  /\ pc = [t \in Threads |-> "idle"] /\ call = [t \in Threads |-> None]
  /\ found = [t \in Threads |-> None] /\ answer = [t \in Threads |-> None]
  /\ valid = [t \in Threads |-> {}]
  /\ causes = {} /\ events = 0

Goto(t, label) == pc' = [pc EXCEPT ![t] = label]

-----------------------------------------------------------------------------
(* evaluate(): look up the cache, without the lock ...                     *)

Lookup(t, c) ==
  /\ pc[t] = "idle"
  /\ call' = [call EXCEPT ![t] = c]
  /\ valid' = [valid EXCEPT ![t] = {Decide(c, policies, default)}]
  /\ \/ /\ Cached(c) = {} /\ c \notin Unsafe
        /\ Goto(t, "match")
        /\ UNCHANGED <<found, answer>>
     \/ /\ Cached(c) = {} /\ c \in Unsafe
        /\ found' = [found EXCEPT ![t] = "deny"]
        /\ Goto(t, "put")
        /\ UNCHANGED answer
     \/ \E i \in Cached(c) :
          /\ answer' = [answer EXCEPT ![t] = cache[i].action]
          /\ Goto(t, "done")
          /\ UNCHANGED found
  /\ UNCHANGED <<engine, causes, events>>

\* ... copy the policies under the lock and match the copy without it ...
MatchPolicies(t) ==
  /\ pc[t] = "match"
  /\ found' = [found EXCEPT ![t] = Match(call[t], policies)]
  /\ Goto(t, "put")
  /\ UNCHANGED <<engine, call, answer, valid, causes, events>>

\* The cache with result a for call c: oldest entries make room, and an entry
\* for c that is still there is replaced where it is.
Enter(c, a) ==
  LET kept == IF Len(cache) >= CacheMax THEN SubSeq(cache, Evicted + 1, Len(cache)) ELSE cache
      new  == [call |-> c, action |-> a]
  IN  IF \E i \in 1..Len(kept) : kept[i].call = c
      THEN [i \in 1..Len(kept) |-> IF kept[i].call = c THEN new ELSE kept[i]]
      ELSE Append(kept, new)

\* ... and cache the result, in another critical section.
Put(t) ==
  LET result == IF found[t] = None THEN default ELSE found[t]
  IN  /\ pc[t] = "put"
      /\ cache' = Enter(call[t], result)
      /\ answer' = [answer EXCEPT ![t] = result]
      /\ causes' = IF result # Decide(call[t], policies, default)
                   THEN causes \union {"raced"} ELSE causes
      /\ Goto(t, "done")
      /\ found' = [found EXCEPT ![t] = None]
      /\ UNCHANGED <<policies, default, call, valid, events>>

Return(t) ==
  /\ pc[t] = "done"
  /\ Goto(t, "idle")
  /\ call' = [call EXCEPT ![t] = None]
  /\ answer' = [answer EXCEPT ![t] = None]
  /\ valid' = [valid EXCEPT ![t] = {}]
  /\ UNCHANGED <<engine, found, causes, events>>

Evaluate(t) == (\E c \in Calls : Lookup(t, c)) \/ MatchPolicies(t) \/ Put(t) \/ Return(t)

-----------------------------------------------------------------------------
(* Mutations.                                                              *)

\* ps and d become the policies and the default action.
Become(ps, d) ==
  /\ policies' = ps
  /\ default' = d
  /\ valid' = [t \in Threads |-> IF pc[t] \in {"match", "put"}
                                 THEN valid[t] \union {Decide(call[t], ps, d)} ELSE valid[t]]

\* invalidate_cache(), called with the lock held by what events the policies.
Invalidate(more) ==
  /\ cache' = <<>>
  /\ causes' = (causes \ {"raced", "uncleared"}) \union more

ReplaceAll_KeepsCache(ps, more) ==   \* mutant: invalidate_cache() is forgotten
  IF ps = <<>> THEN UNCHANGED <<engine, valid, causes>>
  ELSE Become(ps, default) /\ cache' = cache /\ causes' = causes \union more

\* replace_all() rejects an empty list.
ReplaceAll(ps, more) ==
  IF ps = <<>> THEN UNCHANGED <<engine, valid, causes>>
  ELSE Become(ps, default) /\ Invalidate(more)

Without(name) == SelectSeq(policies, LAMBDA p : p.name # name)

ApiCall ==
  /\ events < MaxEvents
  /\ events' = events + 1
  /\ UNCHANGED threads

\* add_policy(); load_policies() is a series of them.
Add(p) ==
  /\ ApiCall
  /\ Become(Append(Without(p.name), p), default)
  /\ Invalidate({"api"})

\* remove_policy() of a policy that is there; otherwise nothing happens.
Remove(name) ==
  /\ ApiCall
  /\ Without(name) # policies
  /\ Become(Without(name), default)
  /\ Invalidate({"api"})

\* clear() and the setter of default_action leave the cache alone.
Clear ==
  /\ ApiCall
  /\ Become(<<>>, default)
  /\ causes' = causes \union {"api", "uncleared"}
  /\ UNCHANGED cache

SetDefault(d) ==
  /\ ApiCall
  /\ Become(policies, d)
  /\ causes' = causes \union {"uncleared"}
       \union (IF \E t \in Threads : pc[t] = "put" /\ found[t] = None THEN {"torn"} ELSE {})
  /\ UNCHANGED cache

Mutate ==
  \/ \E p \in Policies : Add(p) \/ Remove(p.name)
  \/ Clear
  \/ \E d \in Action : SetDefault(d)

-----------------------------------------------------------------------------
(* Properties *)

EngineTypeOK ==
  /\ policies \in Seq(Policies)
  /\ default \in Action
  /\ cache \in Seq([call : Calls, action : Action]) /\ Len(cache) <= CacheMax
  /\ pc \in [Threads -> {"idle", "match", "put", "done"}]
  /\ call \in [Threads -> Calls \union {None}]
  /\ found \in [Threads -> Action \union {None}]
  /\ answer \in [Threads -> Action \union {None}]
  /\ valid \in [Threads -> SUBSET Action]
  /\ events \in Nat

\* evaluate() answers with what the policies said at some moment of the
\* evaluation, whether the answer was cached or computed and whatever changed
\* meanwhile - unless the cache holds a result that raced with a replacement of
\* the policies, or that clear() or a new default left there.  The next change
\* that invalidates the cache makes both good (engine.py:877-956, 1074-1077).
AnswersCurrent ==
  [][causes \intersect {"raced", "uncleared", "torn"} = {} =>
       \A t \in Threads : pc[t] # "done" /\ pc'[t] = "done" => answer'[t] \in valid'[t]]_engineVars

=============================================================================

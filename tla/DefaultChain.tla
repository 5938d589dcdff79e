---------------------------- MODULE DefaultChain ----------------------------
(***************************************************************************)
(* The middlewares of the default chain, src/hermes_katana/middleware/     *)
(* integration.py and taint_middleware.py, at work on concurrent calls:    *)
(* their order, what each leaves for the next, and the state that calls    *)
(* share without a lock, the MCP baselines and the multi-turn detectors.   *)
(*                                                                         *)
(* What scanner and classifier think of a text is an input:                *)
(*   "clean"                                                               *)
(*   "doubtful"    the classifier flags it, a softener would allow it      *)
(*   "suspect"     both object, a softener would allow it                  *)
(*   "documented"  the classifier objects, a softener would allow it       *)
(*   "listed"      the classifier objects; on its own, the list of known   *)
(*                 false positives has it                                  *)
(*   "subtle"      only the classifier objects                             *)
(*   "hostile"     both object                                             *)
(*   "contact"     both object, to a lone address                          *)
(*   "credential"  only the scanner objects, to a secret                   *)
(*   "marked"      only the scanner finds something, no secret, and too    *)
(*                 little to stop an argument                              *)
(***************************************************************************)
EXTENDS Naturals, FiniteSets, Sequences, SequencesExt

CONSTANTS
  Threads,    \* each handles one call at a time
  Configs,    \* the configurations to check
  Own,        \* parts of arguments that the agent has from elsewhere than tools
  Offers,     \* the tool registrations that occur as an argument
  Names,      \* the names of their tools
  Sessions,
  Outputs,    \* the outputs of tools that occur
  EscalationWindow,  \* escalation_window
  None

ASSUME WindowAssumption == EscalationWindow \in Nat /\ EscalationWindow >= 3

\* An offer is a registration or a list of them; a definition has a name and a version.
ASSUME OfferAssumption ==
  \A o \in Offers :
    /\ o # None /\ o.defs \in Seq(ToSet(o.defs))
    /\ \A d \in ToSet(o.defs) :
         d.name \in Names /\ d.version # None /\ d = [name |-> d.name, version |-> d.version]

ASSUME ConfigAssumption == \A c \in Configs : c.late \in {"none", "allow", "escalate", "deny"}

ASSUME OwnAssumption == \A p \in Own : p.from # "tool"

VARIABLES
  config,     \* late: the decision of classifier_timeout_decision, or "none" without timeout;
              \* strict: route_mode; soften: similarity_soften of the scanner;
              \* enforce: enforce_output_findings; bounds: calls of each aspect
  slot,       \* the call of each thread
  baselines,  \* _baselines of the MCP middleware
  detectors,  \* the multi-turn detectors ever made, each with its turns
  current,    \* the number of the one in _detectors, 0 if there is none
  context,    \* what the agent has heard from tools, as parts for its arguments
  calls,      \* the calls of each aspect so far
  said,       \* history: the turns of each session
  silent,     \* history: the definitions that got in without anyone being asked
  confused    \* history: names that registrations raced for, or that a list defined twice

vars == <<config, slot, baselines, detectors, current, context, calls, said, silent, confused>>

\* A call under way: how far it is, its session, decision and data; what the MCP
\* and the multi-turn middleware found; and what kept anybody from judging the call as it is.
Idle == [data |-> {}, offer |-> None, turn |-> "none", pc |-> "idle", session |-> None,
         decision |-> "allow", base |-> [n \in Names |-> None], detector |-> 0, place |-> 0, due |-> FALSE,
         out |-> {}, but |-> {}]

Init ==
  /\ config \in Configs
  /\ slot = [t \in Threads |-> Idle]
  /\ baselines = [n \in Names |-> None]
  /\ detectors = <<>> /\ current = 0
  /\ context = {}
  /\ calls = [a \in {"data", "offer", "turn"} |-> 0]
  /\ said = [s \in Sessions |-> <<>>]
  /\ silent = {} /\ confused = {}

\* The worse of two decisions: an escalation sticks, a denial wins.
Worse(d, e) ==
  IF "deny" \in {d, e} THEN "deny" ELSE IF "escalate" \in {d, e} THEN "escalate" ELSE "allow"

\* The next step of a call, or its end with a denial.
Proceed(t, call) == slot' = [slot EXCEPT ![t] = IF call.decision = "deny" THEN Idle ELSE call]

-----------------------------------------------------------------------------
(* Arguments: sequences of parts with their true origin, their label and   *)
(* their text.                                                             *)

Part(from, label, text) == [from |-> from, label |-> label, text |-> text]

Labelled(arg) == {i \in DOMAIN arg : arg[i].label # "none"}

\* tainted_fields keeps one value of an argument, the last one; an argument
\* without any counts as the user's.
Untrusted(arg) == Labelled(arg) # {} /\ arg[Max(Labelled(arg))].label = "tool"

Texts(arg) == {arg[i].text : i \in 1..Len(arg)}

Excused_Blindly(arg, text) ==   \* mutant: the origin is not looked at
  text \in {"doubtful", "suspect", "documented"} \/ (text = "listed" /\ Len(arg) = 1)

\* The softeners only excuse text of a trusted origin, the list whatever it has.
Excused(arg, text) ==
  \/ text \in {"doubtful", "suspect", "documented"} /\ ~Untrusted(arg)
  \/ text = "listed" /\ Len(arg) = 1

\* A call's arguments: one with one or two parts, or two of one part.
ArgumentLists ==
  LET parts == Own \union context
  IN {<< <<p>> >> : p \in parts} \union {<< <<p, q>> >> : p, q \in parts}
       \union {<< <<p>>, <<q>> >> : p, q \in parts}

-----------------------------------------------------------------------------
(* Pre-dispatch up to the scanner: nothing that calls share.               *)

Blocked(arg) ==
  \E text \in Texts(arg) \ {"clean", "doubtful", "credential", "marked"} : ~Excused(arg, text)

\* Scabbard's decision when the classifier times out on the arguments in late;
\* among the arguments it flags, the one of the highest confidence decides.
Scabbard(args, late, worst) ==
  LET seen    == DOMAIN args \ late
      flagged == {a \in seen : "doubtful" \in Texts(args[a])}
  IN IF (\E a \in seen : Blocked(args[a])) \/ (late # {} /\ config.late = "deny") THEN "deny"
     ELSE IF late # {}
     THEN IF config.strict \/ config.late = "escalate" \/ flagged # {} THEN "escalate" ELSE "allow"
     ELSE IF flagged = {} \/ Excused(args[worst], "doubtful") THEN "allow" ELSE "escalate"

\* The scanner's: one argument that it may not excuse condemns all.
Scan(args) ==
  IF \E a \in DOMAIN args :
       \/ Texts(args[a]) \intersect {"hostile", "contact", "credential"} # {}
       \/ "suspect" \in Texts(args[a]) /\ ~(config.soften /\ Excused(args[a], "suspect"))
  THEN "deny" ELSE "allow"

\* What kept the two from judging the arguments as they are.
Hindrances(args, late, worst) ==
  LET Parts(a)   == ToSet(args[a])
      If(c, why) == IF c THEN {why} ELSE {}
  IN UNION { If(late # {} /\ config.late = "allow", "late"),
             If(\E a \in DOMAIN args : ~Untrusted(args[a]) /\ \E p \in Parts(a) : p.label = "tool",
                "mixed"),
             If(\E a \in DOMAIN args : \E p \in Parts(a) : p.from = "tool" /\ p.label = "none",
                "unregistered"),
             If(\E a \in DOMAIN args \ {worst} : "doubtful" \in Texts(args[a]), "outranked") }

\* A call uses data, speaks for the user or registers tools.
Ready(t, aspect) == slot[t].pc = "idle" /\ calls[aspect] < config.bounds[aspect]

Begin(t, call, aspect) ==
  /\ calls' = [calls EXCEPT ![aspect] = @ + 1]
  /\ Proceed(t, call)
  /\ UNCHANGED <<config, baselines, detectors, current, context, said, silent, confused>>

\* Calls that use data share nothing but the context, and none begins before
\* another is through: it would only find less.
UseData(t) ==
  /\ Ready(t, "data")
  /\ \A u \in Threads : slot[u].data = {}
  /\ \E args \in ArgumentLists : \E worst \in DOMAIN args :
     \E late \in IF config.late = "none" THEN {{}} ELSE SUBSET DOMAIN args :
       /\ "doubtful" \in Texts(args[worst]) \/ worst = 1
       /\ Begin(t, [Idle EXCEPT
               !.pc = "policy",
               !.decision = Worse(Scabbard(args, late, worst), Scan(args)),
               !.data = UNION {ToSet(args[a]) : a \in DOMAIN args},
               !.but = Hindrances(args, late, worst)], "data")

Register(t) ==
  /\ Ready(t, "offer")
  /\ \E offer \in Offers : Begin(t, [Idle EXCEPT !.pc = "look", !.offer = offer], "offer")

Speak(t) ==
  /\ Ready(t, "turn")
  /\ \E s \in Sessions, turn \in {"calm", "hostile"} :
       Begin(t, [Idle EXCEPT !.pc = "detector", !.session = s, !.turn = turn], "turn")

-----------------------------------------------------------------------------
(* The MCP middleware.  An offer is one registration or a list of them; a  *)
(* definition has a name and a version.                                    *)

Drift(call) == \E d \in ToSet(call.offer.defs) : call.base[d.name] \notin {None, d.version}

\* It compares with the baselines ...
LookUp(t) ==
  /\ slot[t].pc = "look"
  /\ Proceed(t, [slot[t] EXCEPT !.pc = "record", !.base = baselines])
  /\ UNCHANGED <<config, baselines, detectors, current, context, calls, said, silent, confused>>

\* The version that a call offers first for a name, or None.
Offered(call, n) ==
  LET named == {i \in DOMAIN call.offer.defs : call.offer.defs[i].name = n}
  IN IF named = {} THEN None ELSE call.offer.defs[Min(named)].version

Remembered_Latest(call, n) ==   \* mutant: every registration becomes the baseline
  IF Offered(call, n) = None THEN baselines[n] ELSE Offered(call, n)

\* ... and makes what had no baseline, for a list what has none now, one.
Remembered(call, n) ==
  LET new == IF call.offer.kind = "list" THEN baselines[n] = None ELSE call.base[n] = None
  IN IF new /\ Offered(call, n) # None THEN Offered(call, n) ELSE baselines[n]

\* A name with more versions than the comparison could tell apart.
Confused(call, n) ==
  LET versions == {d.version : d \in {e \in ToSet(call.offer.defs) : e.name = n}}
  IN /\ call.base[n] = None /\ versions # {}
     /\ \E v, u \in versions \union ({baselines[n]} \ {None}) : v # u

Record(t) ==
  LET call == slot[t]
  IN /\ call.pc = "record"
     /\ baselines' = [n \in Names |-> Remembered(call, n)]
     /\ confused' = confused \union {n \in Names : Confused(call, n)}
     /\ Proceed(t, [call EXCEPT !.pc = "policy", !.decision = IF Drift(call) THEN "deny" ELSE @])
     /\ UNCHANGED <<config, detectors, current, context, calls, said, silent>>

-----------------------------------------------------------------------------
(* The multi-turn middleware.  Hermes' plugin gives the context no session *)
(* id, so all sessions have one detector, "default".  A turn is "calm" or  *)
(* scores the highest risk.                                                *)

FindDetector(t) ==
  /\ slot[t].pc = "detector"
  /\ Proceed(t, [slot[t] EXCEPT !.pc = "feed", !.detector = current])
  /\ UNCHANGED <<config, baselines, detectors, current, context, calls, said, silent, confused>>

\* A call that found none makes one, in the place of one made since.
AddTurn(t) ==
  LET call == slot[t]
      s    == call.session
      turn == [kind |-> call.turn, session |-> s]
      d    == IF call.detector = 0 THEN Len(detectors) + 1 ELSE call.detector
      calm == Len(said[s]) >= 2 /\ "hostile" \notin ToSet(said[s])
  IN /\ call.pc = "feed"
     /\ IF call.detector = 0
        THEN detectors' = Append(detectors, <<turn>>) /\ current' = d
        ELSE detectors' = [detectors EXCEPT ![d] = Append(@, turn)] /\ UNCHANGED current
     /\ said' = [said EXCEPT ![s] = Append(@, call.turn)]
     /\ Proceed(t, [call EXCEPT !.pc = "assess", !.detector = d, !.place = Len(detectors'[d]),
                                !.due = calm /\ call.turn = "hostile"])
     /\ UNCHANGED <<config, baselines, context, calls, silent, confused>>

\* The turns that _detect_escalation looks at.
Window(turns) ==
  SubSeq(turns, IF Len(turns) > EscalationWindow THEN Len(turns) - EscalationWindow + 1 ELSE 1,
         Len(turns))

\* From calm to hostile, and by half of the scale from the first half of the
\* window to the second: only that reaches warn_threshold.
Steep(window) ==
  LET half      == Len(window) \div 2
      rest      == Len(window) - half
      Risk(a,b) == Cardinality({i \in a..b : window[i].kind = "hostile"})
  IN /\ window[1].kind = "calm" /\ Last(window).kind = "hostile"
     /\ 2 * (Risk(half + 1, Len(window)) * half - Risk(1, half) * rest) >= half * rest

Rises_FullWindow(window) ==   \* mutant: only a full window is looked at
  Len(window) >= EscalationWindow /\ Steep(window)

Rises(window) == Len(window) >= 3 /\ Steep(window)

Assess(t) ==
  LET call   == slot[t]
      turns  == detectors[call.detector]
      mine   == {i \in 1..Len(turns) : turns[i].session = call.session}
      but    == UNION { IF mine # 1..Len(turns) THEN {"shared"} ELSE {},
                        IF Len(turns) > call.place THEN {"overtaken"} ELSE {},
                        IF Cardinality(mine) < Len(said[call.session]) THEN {"lost"} ELSE {} }
  IN /\ call.pc = "assess"
     /\ Proceed(t, [call EXCEPT !.pc = "policy", !.but = but,
                                !.decision = IF Rises(Window(turns)) THEN "escalate" ELSE @])
     /\ UNCHANGED <<config, baselines, detectors, current, context, calls, said, silent, confused>>

-----------------------------------------------------------------------------
(* The other middlewares before the tool, which keep no state, the policy  *)
(* last among them; an escalated call may be refused.                      *)

Policy(t) ==
  LET call == slot[t]
  IN /\ call.pc = "policy"
     /\ \E d \in {"allow", "escalate", "deny"} :
          LET decision == Worse(call.decision, d)
          IN /\ Proceed(t, [call EXCEPT !.pc = "running", !.decision = decision])
             /\ silent' = IF decision = "allow" /\ call.offer # None
                          THEN silent \union ToSet(call.offer.defs) ELSE silent
     /\ UNCHANGED <<config, baselines, detectors, current, context, calls, said, confused>>

-----------------------------------------------------------------------------
(* Post-dispatch: the middlewares in reverse.                              *)

\* What happens to an output is a record of its text, its label, what the
\* scanner said of it, and the mishaps it meets.
Scanned(o) ==
  LET finds == o.text \in {"credential", "marked", "contact", "suspect", "hostile"}
  IN IF "scan" \in o.fails THEN o
     ELSE [o EXCEPT !.scanner = IF finds THEN "finds" ELSE "clean",
                    !.text = IF @ = "credential" \/ (finds /\ config.enforce) THEN "redacted" ELSE @]

\* A lone address is excused, and what a softener would allow if the scanner has
\* seen it and found nothing.
Classified(o) ==
  LET blocks == \/ o.text \in {"listed", "subtle", "hostile", "suspect"}
                \/ o.text = "documented" /\ o.scanner # "clean"
      objects == IF "late" \in o.fails THEN config.late = "deny" ELSE blocks
  IN [o EXCEPT !.text = IF objects /\ "classifier" \notin o.fails THEN "redacted" ELSE @]

Registered(o) == IF "tracker" \in o.fails THEN o ELSE [o EXCEPT !.label = "tool", !.tracked = o.text]

Post_Forward(o) == Scanned(Classified(Registered(o)))   \* mutant: in the order of pre-dispatch

Post(o) == Registered(Classified(Scanned(o)))

\* The tool answers and the agent gets what post-dispatch leaves of it.
Deliver(t) ==
  /\ slot[t].pc = "running" /\ slot[t].data # {}
  /\ \E text \in Outputs, fails \in SUBSET {"scan", "classifier", "late", "tracker"} :
       LET o == Post([label |-> "none", text |-> text, fails |-> fails, scanner |-> "unknown",
                      tracked |-> "none"])
       IN /\ "late" \in fails => config.late # "none" /\ "classifier" \notin fails
          /\ slot' = [slot EXCEPT ![t].pc = "delivered", ![t].out = o]
          /\ context' = IF o.text = "redacted" THEN context
                        ELSE context \union {Part("tool", o.label, o.text)}
  /\ UNCHANGED <<config, baselines, detectors, current, calls, said, silent, confused>>

End(t) ==
  /\ slot[t].pc = "delivered" \/ (slot[t].pc = "running" /\ (slot[t].data = {} \/ slot[t].decision = "escalate"))
  /\ slot' = [slot EXCEPT ![t] = Idle]
  /\ UNCHANGED <<config, baselines, detectors, current, context, calls, said, silent, confused>>

Next ==
  \E t \in Threads :
    \/ UseData(t) \/ Register(t) \/ Speak(t)
    \/ LookUp(t) \/ Record(t) \/ FindDetector(t) \/ AddTurn(t) \/ Assess(t) \/ Policy(t)
    \/ Deliver(t) \/ End(t)

Spec == Init /\ [][Next]_vars

-----------------------------------------------------------------------------
(* Properties *)

Unasked(t) == slot[t].pc = "running" /\ slot[t].decision = "allow"

\* No definition of an MCP tool gets in unasked next to another one of the same
\* name, unless the two came at once (integration.py:1586-1608).
DriftNoticed ==
  \A d, e \in silent : d.name = e.name /\ d # e => d.name \in confused

\* The first hostile turn of a session after two calm ones does not pass
\* unasked, unless other sessions or parallel calls of its own put turns in
\* the detector or lost it turns (integration.py:1662-1687, multiturn.py:323-374).
EscalationNoticed == \A t \in Threads : Unasked(t) /\ slot[t].due => slot[t].but # {}

\* No argument gets past classifier and scanner unasked that they would object
\* to, and what they would excuse only if it does not come from a tool, unless
\* its label is lost or behind another, or a flag of the user's text outranks it.
\* What the list of known false positives has is excused from anywhere.
ArgumentsVetted ==
  \A t \in Threads : Unasked(t) =>
    \A p \in slot[t].data :
      /\ p.text \notin {"hostile", "contact", "credential"}
      /\ p.text = "subtle" => "late" \in slot[t].but
      /\ p.text \in {"documented", "doubtful", "suspect"} /\ p.from = "tool" =>
           slot[t].but \intersect {"late", "mixed", "unregistered", "outranked"} # {}

\* No secret reaches the agent that the scanner sees, and nothing that the
\* classifier objects to, a lone address and documentation apart - unless the
\* judge failed.  What else the scanner finds is only kept back on demand
\* (enforce_output_findings), and what reaches the agent is what the tracker
\* knows, as a tool's.
OutputsVetted ==
  \A t \in Threads : slot[t].pc = "delivered" =>
    LET o == slot[t].out
        unjudged == {"classifier", "late"} \intersect o.fails # {}
    IN /\ o.text = "credential" => "scan" \in o.fails
       /\ o.text \in {"listed", "subtle", "suspect", "hostile"} => unjudged
       /\ o.text \in {"marked", "contact", "suspect", "hostile"} /\ config.enforce => "scan" \in o.fails
       /\ o.text = "documented" => unjudged \/ o.scanner = "clean"
       /\ "tracker" \in o.fails \/ (o.label = "tool" /\ o.tracked = o.text)

=============================================================================

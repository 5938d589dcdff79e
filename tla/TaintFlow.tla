------------------------------ MODULE TaintFlow ------------------------------
(***************************************************************************)
(* Which data may flow to which tool: the labels, trust and risk of        *)
(* src/hermes_katana/taint/labels.py, the rules and the analysis of        *)
(* flow.py, and the check of a call's arguments in                         *)
(* middleware/taint_middleware.py.  A source is its label and its trust;   *)
(* one tool stands for every tool that the rules treat alike.              *)
(***************************************************************************)
EXTENDS Naturals, FiniteSets

Untrusted == {"WEB_CONTENT", "MCP", "MCP_TOOL_DESCRIPTION", "MCP_TOOL_RESULT",
              "MCP_RESOURCE", "MCP_PROMPT", "UNKNOWN"}
Conditional == {"TOOL_OUTPUT", "FILE_CONTENT", "MEMORY", "AGENT_DELEGATED", "CROSS_SESSION"}
Trusted == {"USER", "SYSTEM"}
Labels == Untrusted \union Conditional \union Trusted \union {"AGENT"}

Source == [label : Labels, trust : {"TRUSTED", "UNTRUSTED", "CONDITIONAL"}]

\* The trust that the factories of Source give a label.
DefaultTrust(l) ==
  IF l \in Trusted THEN "TRUSTED" ELSE IF l \in Untrusted THEN "UNTRUSTED" ELSE "CONDITIONAL"

LabelRisk(l) ==
  CASE l \in {"UNKNOWN", "MCP_TOOL_DESCRIPTION"}     -> 9
    [] l \in Untrusted \ {"UNKNOWN", "MCP_TOOL_DESCRIPTION"} -> 8
    [] l \in {"AGENT_DELEGATED", "CROSS_SESSION"}    -> 6
    [] l \in {"TOOL_OUTPUT", "FILE_CONTENT", "MEMORY"} -> 5
    [] l = "AGENT"    -> 4
    [] l \in Trusted  -> 0

SourceRisk(s) ==
  CASE s.trust = "TRUSTED"     -> 0
    [] s.trust = "UNTRUSTED"   -> IF LabelRisk(s.label) > 7 THEN LabelRisk(s.label) ELSE 7
    [] s.trust = "CONDITIONAL" -> LabelRisk(s.label)

-----------------------------------------------------------------------------

Critical  == {"terminal", "send_message", "skill_manage"}
Messaging == {"send_message"}
Skills    == {"skill_manage", "skill_view"}
Tools     == Critical \union Messaging \union Skills \union {"delegate_task", "read_file"}

\* The default rules.  All rules of one priority treat a tool alike.
Rule == [priority : Nat, labels : SUBSET Labels, tools : SUBSET Tools, decision : STRING]
Rules ==
  { [priority |-> 110, labels |-> {"MCP", "MCP_TOOL_DESCRIPTION", "MCP_TOOL_RESULT"}, tools |-> Skills, decision |-> "DENY"],
    [priority |-> 105, labels |-> {"MEMORY", "CROSS_SESSION"}, tools |-> Messaging, decision |-> "DENY"],
    [priority |-> 100, labels |-> Untrusted, tools |-> Critical, decision |-> "DENY"],
    [priority |-> 95,  labels |-> Untrusted \union {"TOOL_OUTPUT"}, tools |-> {"delegate_task"}, decision |-> "ASK_USER"],
    [priority |-> 50,  labels |-> Conditional, tools |-> Critical, decision |-> "ASK_USER"],
    [priority |-> 25,  labels |-> {"AGENT"}, tools |-> Critical, decision |-> "QUARANTINE"],
    [priority |-> 10,  labels |-> Trusted, tools |-> Tools, decision |-> "ALLOW"] }

LabelsOf(sources) == {s.label : s \in sources}

Matching(sources, tool) == {r \in Rules : tool \in r.tools /\ r.labels \intersect LabelsOf(sources) # {}}

RuleDecision_LastMatch(sources, tool) ==   \* mutant: the rules in the wrong order
  LET matched == Matching(sources, tool)
  IN IF matched = {} THEN "ASK_USER"
     ELSE (CHOOSE r \in matched : \A q \in matched : q.priority >= r.priority).decision

\* The first rule by priority; without one, the default asks the user.
RuleDecision(sources, tool) ==
  LET matched == Matching(sources, tool)
  IN IF matched = {} THEN "ASK_USER"
     ELSE (CHOOSE r \in matched : \A q \in matched : q.priority <= r.priority).decision

AllTrusted(sources) == \A s \in sources : s.trust = "TRUSTED"

\* FlowAnalyzer.analyze(): trusted data need not be asked about, and data
\* without sources is clean.
Analyze(sources, tool) ==
  LET d == RuleDecision(sources, tool)
  IN IF sources = {} \/ (d = "ASK_USER" /\ AllTrusted(sources)) THEN "ALLOW" ELSE d

-----------------------------------------------------------------------------
(* The check of a call *)

Rank(d) == CASE d = "ALLOW" -> 0 [] d = "QUARANTINE" -> 1 [] d = "ASK_USER" -> 2 [] d = "DENY" -> 3

Decisions == {"ALLOW", "QUARANTINE", "ASK_USER", "DENY"}

\* What the middleware concludes from the decisions about the tainted values of
\* all arguments: a denial beats a question, and a quarantine is an approval.
Conclude_AskFirst(decisions) ==   \* mutant: a question beats a denial
  CASE "ASK_USER" \in decisions -> "ESCALATE"
    [] "ASK_USER" \notin decisions /\ "DENY" \in decisions -> "DENY"
    [] OTHER -> "ALLOW"

Conclude(decisions) ==
  CASE "DENY" \in decisions -> "DENY"
    [] "DENY" \notin decisions /\ "ASK_USER" \in decisions -> "ESCALATE"
    [] OTHER -> "ALLOW"

\* The level that a field reports to the policy engine.
Level(sources) == IF sources = {} THEN 0
                  ELSE CHOOSE n \in {SourceRisk(s) : s \in sources} : \A s \in sources : SourceRisk(s) <= n

=============================================================================

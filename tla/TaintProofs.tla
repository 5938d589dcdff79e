----------------------------- MODULE TaintProofs -----------------------------
(***************************************************************************)
(* Proofs about taint tracking, for any variables, sources and readers,    *)
(* texts of any length and any number of operations.                       *)
(***************************************************************************)
EXTENDS Taint, SequenceTheorems, TLAPS

-----------------------------------------------------------------------------
(* The rules.                                                              *)

\* What the rules say of a critical tool is stricter the higher their priority.
LEMMA CriticalRules ==
  ASSUME NEW tool \in Critical
  PROVE  /\ \A r \in Rules : tool \in r.tools =>
              /\ r.priority \in {110, 105, 100, 50, 25, 10}
              /\ r.priority >= 100 => r.decision = "DENY"
              /\ r.priority = 50 => r.decision = "ASK_USER"
              /\ r.priority = 25 => r.decision = "QUARANTINE" /\ r.labels = {"AGENT"}
              /\ r.priority = 10 => r.decision = "ALLOW"
         /\ \E r \in Rules : r.priority = 100 /\ r.labels = Untrusted /\ tool \in r.tools
         /\ \E r \in Rules : r.labels = Conditional /\ tool \in r.tools
         /\ \E r \in Rules : r.labels = {"AGENT"} /\ tool \in r.tools
         /\ \E r \in Rules : r.labels = Trusted /\ tool \in r.tools
<1>1. tool \notin {"delegate_task"} /\ tool \in Tools
  BY DEF Critical, Tools
<1>. QED  BY <1>1 DEF Rules

\* The decision on a critical tool is that of one of the matching rules of highest priority.
LEMMA TopRule ==
  ASSUME NEW sources, NEW tool \in Critical, Matching(sources, tool) # {}
  PROVE  \E r \in Matching(sources, tool) :
           /\ RuleDecision(sources, tool) = r.decision
           /\ \A q \in Matching(sources, tool) : q.priority <= r.priority
<1>. DEFINE matched == Matching(sources, tool)
<1>1. \A r \in matched : r.priority \in {110, 105, 100, 50, 25, 10}
  BY CriticalRules DEF Matching
<1>2. \E r \in matched : \A q \in matched : q.priority <= r.priority
  BY <1>1
<1>. QED  BY <1>2 DEF RuleDecision

\* Data with an untrusted label is denied to a critical tool.
LEMMA UntrustedDenied ==
  ASSUME NEW sources, NEW s \in sources, s.label \in Untrusted, NEW tool \in Critical
  PROVE  Analyze(sources, tool) = "DENY"
<1>1. PICK r \in Rules : r.priority = 100 /\ r.labels = Untrusted /\ tool \in r.tools
  BY CriticalRules
<1>2. r \in Matching(sources, tool)
  BY <1>1 DEF Matching, LabelsOf
<1>3. PICK q \in Matching(sources, tool) :
        /\ RuleDecision(sources, tool) = q.decision
        /\ \A p \in Matching(sources, tool) : p.priority <= q.priority
  BY <1>2, TopRule
<1>4. q.priority >= 100 /\ q \in Rules /\ tool \in q.tools
  BY <1>1, <1>2, <1>3, CriticalRules DEF Matching
<1>5. RuleDecision(sources, tool) = "DENY"
  BY <1>3, <1>4, CriticalRules
<1>. QED  BY <1>5 DEF Analyze

\* More sources make the decision on a critical tool no laxer, if no agent is trusted.
LEMMA MoreIsStricter ==
  ASSUME NEW S \in SUBSET Source, NEW T \in SUBSET Source, S \subseteq T, NEW tool \in Critical,
         \A s \in T : s.label = "AGENT" => s.trust # "TRUSTED"
  PROVE  Rank(Analyze(S, tool)) <= Rank(Analyze(T, tool))
<1>1. ASSUME NEW U \in SUBSET Source, U # {}
      PROVE  Matching(U, tool) # {}
  <2>1. PICK s \in U : s.label \in Labels
    BY <1>1 DEF Source
  <2>2. \E r \in Rules : tool \in r.tools /\ s.label \in r.labels
    BY <2>1, CriticalRules DEF Labels
  <2>. QED  BY <2>1, <2>2 DEF Matching, LabelsOf
<1>2. CASE S = {}
  <2>1. Analyze(S, tool) = "ALLOW"
    BY <1>2 DEF Analyze
  <2>2. CASE T = {}
    BY <2>1, <2>2, <1>2 DEF Rank
  <2>3. CASE T # {}
    <3>1. Matching(T, tool) # {}
      BY <1>1, <2>3
    <3>2. PICK q \in Matching(T, tool) : RuleDecision(T, tool) = q.decision
      BY <3>1, TopRule
    <3>3. q.decision \in {"DENY", "ASK_USER", "QUARANTINE", "ALLOW"}
      BY CriticalRules DEF Matching
    <3>. QED  BY <2>1, <3>2, <3>3 DEF Analyze, Rank
  <2>. QED  BY <2>2, <2>3
<1>3. CASE S # {}
  <2>1. Matching(S, tool) # {} /\ Matching(T, tool) # {} /\ T # {}
    BY <1>1, <1>3
  <2>2. Matching(S, tool) \subseteq Matching(T, tool)
    BY DEF Matching, LabelsOf
  <2>3. PICK r \in Matching(S, tool) : RuleDecision(S, tool) = r.decision
    BY <2>1, TopRule
  <2>4. PICK q \in Matching(T, tool) :
          /\ RuleDecision(T, tool) = q.decision
          /\ \A p \in Matching(T, tool) : p.priority <= q.priority
    BY <2>1, TopRule
  <2>5. r.priority <= q.priority
    BY <2>2, <2>4
  <2>6. /\ r \in Rules /\ tool \in r.tools /\ q \in Rules /\ tool \in q.tools
        /\ r.labels \intersect LabelsOf(S) # {}
    BY DEF Matching
  <2>7. Rank(r.decision) <= Rank(q.decision) /\ q.decision \in Decisions /\ r.decision \in Decisions
    BY <2>5, <2>6, CriticalRules DEF Rank, Decisions
  <2>8. r.decision = "QUARANTINE" => ~AllTrusted(T)
    <3>1. ASSUME r.decision = "QUARANTINE" PROVE r.labels = {"AGENT"}
      BY <3>1, <2>6, CriticalRules
    <3>2. ASSUME r.labels = {"AGENT"} PROVE \E s \in T : s.label = "AGENT"
      BY <3>2, <2>6 DEF LabelsOf
    <3>. QED  BY <3>1, <3>2 DEF AllTrusted
  <2>9. AllTrusted(T) => AllTrusted(S)
    BY DEF AllTrusted
  <2>. QED  BY <1>3, <2>1, <2>3, <2>4, <2>7, <2>8, <2>9 DEF Analyze, Rank, Decisions
<1>. QED  BY <1>2, <1>3

-----------------------------------------------------------------------------
(* Values.                                                                 *)

Kinds == {"plain", "str", "bytes", "wrapped"}

Mishaps == {"ignored", "byte", "moved", "unlisted", "merged", "codec", "json", "unwrapped",
            "sliced", "shifted", "overwritten", "boxed", "spaces"}

\* Sources by index.
Entries == UNION {[D -> SUBSET Sources] : D \in SUBSET (Nat \ {0})}

CharTaints == [map : Entries, default : SUBSET Sources]

Values == [kind : Kinds, origins : Seq(SUBSET Sources), ct : CharTaints, sources : SUBSET Sources,
           readers : ReaderSet, allowed : SUBSET Readers, lost : SUBSET Mishaps]

\* A value of Python's own types carries nothing.
Bare(v) == v.kind = "plain" => v.sources = {} /\ v.readers = {}

\* The sources recorded for each character contain its origins.
Accounted(v) ==
  \A i \in 1..Len(v.origins) :
    v.origins[i] \subseteq IF v.kind = "str" THEN Get(v.ct, i) ELSE v.sources

\* Unless it lost metadata on its way, a value accounts for its characters and keeps
\* out who must not read it.
Sound(v) == v.lost = {} => Accounted(v) /\ May(v.readers) \subseteq v.allowed

GoodValues == {v \in Values : Bare(v) /\ Sound(v)}

LEMMA EntriesTyped ==
  ASSUME NEW m \in Entries
  PROVE  DOMAIN m \subseteq Nat \ {0} /\ \A i \in DOMAIN m : m[i] \in SUBSET Sources
BY DEF Entries

\* The readers of a combination are those that may read both.
LEMMA BothMay ==
  ASSUME NEW l \in ReaderSet, NEW r \in ReaderSet
  PROVE  /\ ReaderIntersection(l, r) \in ReaderSet
         /\ May(ReaderIntersection(l, r)) = May(l) \intersect May(r)
<1>1. CASE l = {} \/ r = {}
  BY <1>1 DEF ReaderIntersection, May, ReaderSet
<1>2. CASE l # {} /\ r # {} /\ l \intersect r = {}
  <2>1. ReaderIntersection(l, r) = {NoReaders}
    BY <1>2 DEF ReaderIntersection
  <2>. QED  BY <2>1, <1>2, ValuesAssumption DEF May, ReaderSet
<1>3. CASE l # {} /\ r # {} /\ l \intersect r # {}
  <2>1. ReaderIntersection(l, r) = l \intersect r
    BY <1>3 DEF ReaderIntersection
  <2>. QED  BY <2>1, <1>3 DEF May, ReaderSet
<1>. QED  BY <1>1, <1>2, <1>3

\* A uniform map says the same of every character.
LEMMA UniformSays ==
  ASSUME NEW S \in SUBSET Sources
  PROVE  /\ Uniform(S) \in CharTaints /\ AllSources(Uniform(S)) = S
         /\ \A i : Get(Uniform(S), i) = S
<1>1. [i \in {} |-> {}] \in Entries
  <2>1. [i \in {} |-> {}] \in [{} -> SUBSET Sources]
    OBVIOUS
  <2>. QED  BY <2>1 DEF Entries
<1>2. Uniform(S) \in CharTaints
  BY <1>1 DEF Uniform, CharTaints
<1>3. AllSources(Uniform(S)) = S
  BY DEF AllSources, Uniform
<1>. QED  BY <1>2, <1>3 DEF Get, Uniform

LEMMA MapSays ==
  ASSUME NEW ct \in CharTaints
  PROVE  /\ AllSources(ct) \in SUBSET Sources
         /\ \A i : Get(ct, i) \subseteq AllSources(ct) /\ Get(ct, i) \in SUBSET Sources
<1>1. ct.map \in Entries /\ ct.default \in SUBSET Sources
  BY DEF CharTaints
<1>2. \A i \in DOMAIN ct.map : ct.map[i] \in SUBSET Sources
  BY <1>1, EntriesTyped
<1>. QED  BY <1>1, <1>2 DEF AllSources, Get

\* The taint of a part is that of its characters.
LEMMA SliceSays ==
  ASSUME NEW ct \in CharTaints, NEW n \in Nat, NEW idx \in Seq(1..n)
  PROVE  /\ Slice(ct, idx) \in CharTaints
         /\ \A k \in 1..Len(idx) : Get(Slice(ct, idx), k) = Get(ct, idx[k])
<1>. DEFINE D == {j \in 1..Len(idx) : Get(ct, idx[j]) # ct.default}
            m == [k \in D |-> Get(ct, idx[k])]
<1>1. Slice(ct, idx) = [map |-> m, default |-> ct.default]
  BY DEF Slice
<1>2. D \in SUBSET (Nat \ {0}) /\ \A k \in D : Get(ct, idx[k]) \in SUBSET Sources
  BY MapSays
<1>3. m \in Entries
  <2>1. m \in [D -> SUBSET Sources]
    BY <1>2
  <2>. QED  BY <2>1, <1>2 DEF Entries
<1>4. Slice(ct, idx) \in CharTaints
  BY <1>1, <1>3 DEF CharTaints
<1>5. ASSUME NEW k \in 1..Len(idx) PROVE Get(Slice(ct, idx), k) = Get(ct, idx[k])
  <2>1. CASE k \in D
    BY <2>1, <1>1 DEF Get
  <2>2. CASE k \notin D
    <3>1. Get([map |-> m, default |-> ct.default], k) = ct.default
      BY <2>2 DEF Get
    <3>. QED  BY <3>1, <2>2, <1>1
  <2>. QED  BY <2>1, <2>2
<1>. QED  BY <1>4, <1>5

\* The taint of a concatenation covers that of both parts.
LEMMA ConcatSays ==
  ASSUME NEW ct \in CharTaints, NEW other \in CharTaints, NEW len \in Nat
  PROVE  /\ Concat(ct, other, len) \in CharTaints
         /\ \A i \in 1..len : Get(ct, i) \subseteq Get(Concat(ct, other, len), i)
         /\ \A j \in Nat \ {0} : Get(other, j) \subseteq Get(Concat(ct, other, len), j + len)
<1>. DEFINE default == ct.default \union other.default
            shifted == {i + len : i \in DOMAIN other.map}
            both    == DOMAIN ct.map \union shifted
            Entry(i) == IF i \in shifted THEN other.map[i - len] \union ct.default
                                         ELSE ct.map[i] \union other.default
            merged  == [i \in both |-> Entry(i)]
            D       == {j \in both : merged[j] # default}
            m       == [i \in D |-> merged[i]]
            result  == [map |-> m, default |-> default]
<1>1. Concat(ct, other, len) = result
  BY DEF Concat
<1>2. /\ ct.default \in SUBSET Sources /\ other.default \in SUBSET Sources
      /\ DOMAIN ct.map \subseteq Nat \ {0} /\ DOMAIN other.map \subseteq Nat \ {0}
      /\ \A i \in DOMAIN ct.map : ct.map[i] \in SUBSET Sources
      /\ \A i \in DOMAIN other.map : other.map[i] \in SUBSET Sources
  BY EntriesTyped DEF CharTaints
<1>3. \A i \in shifted : i \in Nat \ {0} /\ i > len /\ i - len \in DOMAIN other.map
  BY <1>2
<1>4. both \subseteq Nat \ {0} /\ \A i \in both : Entry(i) \in SUBSET Sources
  BY <1>2, <1>3
<1>. HIDE DEF shifted
<1>5. m \in Entries
  <2>1. D \in SUBSET (Nat \ {0})
    BY <1>4
  <2>2. m \in [D -> SUBSET Sources]
    BY <1>4
  <2>. QED  BY <2>1, <2>2 DEF Entries
<1>6. result \in CharTaints
  BY <1>2, <1>5 DEF CharTaints
<1>7. \A i : Get(result, i) = IF i \in both THEN Entry(i) ELSE default
  <2>1. ASSUME NEW i \in D PROVE Get(result, i) = Entry(i)
    BY <2>1 DEF Get
  <2>2. ASSUME NEW i, i \notin D PROVE Get(result, i) = default /\ (i \in both => Entry(i) = default)
    BY <2>2 DEF Get
  <2>3. \A i \in D : i \in both
    OBVIOUS
  <2>. QED  BY <2>1, <2>2, <2>3
<1>. HIDE DEF result
<1>8. ASSUME NEW i \in 1..len PROVE Get(ct, i) \subseteq Get(result, i)
  <2>1. i \notin shifted
    BY <1>3
  <2>. QED  BY <2>1, <1>7 DEF Get
<1>9. ASSUME NEW j \in Nat \ {0} PROVE Get(other, j) \subseteq Get(result, j + len)
  <2>1. CASE j \in DOMAIN other.map
    <3>1. j + len \in shifted /\ (j + len) - len = j
      BY <2>1 DEF shifted
    <3>. QED  BY <3>1, <2>1, <1>7 DEF Get
  <2>2. CASE j \notin DOMAIN other.map
    <3>1. j + len \notin shifted
      BY <2>2, <1>2 DEF shifted
    <3>. QED  BY <3>1, <2>2, <1>7 DEF Get
  <2>. QED  BY <2>1, <2>2
<1>. QED  BY <1>1, <1>6, <1>8, <1>9

-----------------------------------------------------------------------------
(* The operations on values.                                               *)

LEMMA Fields ==
  ASSUME NEW v \in Values
  PROVE  /\ v.kind \in Kinds /\ v.origins \in Seq(SUBSET Sources) /\ Len(v.origins) \in Nat
         /\ \A i \in 1..Len(v.origins) : v.origins[i] \in SUBSET Sources
         /\ v.ct \in CharTaints /\ v.sources \in SUBSET Sources /\ v.readers \in ReaderSet
         /\ v.allowed \in SUBSET Readers /\ v.lost \in SUBSET Mishaps
         /\ Effective(v) \in SUBSET Sources /\ v.sources \subseteq Effective(v)
         /\ Stems(v) \in SUBSET Sources
<1>1. /\ v.kind \in Kinds /\ v.origins \in Seq(SUBSET Sources)
      /\ v.ct \in CharTaints /\ v.sources \in SUBSET Sources /\ v.readers \in ReaderSet
      /\ v.allowed \in SUBSET Readers /\ v.lost \in SUBSET Mishaps
  BY DEF Values
<1>2. Len(v.origins) \in Nat /\ \A i \in 1..Len(v.origins) : v.origins[i] \in SUBSET Sources
  BY <1>1
<1>3. Effective(v) \in SUBSET Sources /\ v.sources \subseteq Effective(v)
  BY <1>1, MapSays DEF Effective
<1>4. Stems(v) \in SUBSET Sources
  BY <1>2 DEF Stems
<1>. QED  BY <1>1, <1>2, <1>3, <1>4

\* A value that accounts for its characters accounts for all of them together.
LEMMA StemsAccounted ==
  ASSUME NEW v \in Values, Accounted(v)
  PROVE  /\ Stems(v) \subseteq Effective(v)
         /\ \A i \in 1..Len(v.origins) : v.origins[i] \subseteq Effective(v)
<1>1. ASSUME NEW i \in 1..Len(v.origins) PROVE v.origins[i] \subseteq Effective(v)
  <2>1. CASE v.kind = "str"
    <3>1. Get(v.ct, i) \subseteq AllSources(v.ct)
      BY Fields, MapSays
    <3>. QED  BY <3>1, <2>1 DEF Accounted, Effective
  <2>2. CASE v.kind # "str"
    BY <2>2 DEF Accounted, Effective
  <2>. QED  BY <2>1, <2>2
<1>. QED  BY <1>1 DEF Stems

LEMMA GoodStems ==
  ASSUME NEW v \in GoodValues, v.lost = {}
  PROVE  Stems(v) \subseteq Effective(v) /\ May(v.readers) \subseteq v.allowed
BY StemsAccounted DEF GoodValues, Sound

\* A text of which all characters are recorded alike.
LEMMA UniformGood ==
  ASSUME NEW S \in SUBSET Sources, NEW O \in SUBSET Sources, NEW kind \in Kinds \ {"plain"},
         NEW readers \in ReaderSet, NEW allowed \in SUBSET Readers, NEW lost \in SUBSET Mishaps,
         lost = {} => O \subseteq S /\ May(readers) \subseteq allowed
  PROVE  Value(kind, <<O>>, Uniform(S), S, readers, allowed, lost) \in GoodValues
<1>. DEFINE v == Value(kind, <<O>>, Uniform(S), S, readers, allowed, lost)
<1>1. v \in Values /\ v.kind = kind
  BY UniformSays DEF Value, Values
<1>2. v.lost = {} => Accounted(v)
  BY UniformSays DEF Accounted, Value
<1>. QED  BY <1>1, <1>2 DEF GoodValues, Bare, Sound, Value

LEMMA PlainTyped ==
  ASSUME NEW origins \in Seq(SUBSET Sources), NEW allowed \in SUBSET Readers, NEW lost \in SUBSET Mishaps
  PROVE  /\ Plain(origins, allowed, lost) \in Values /\ Bare(Plain(origins, allowed, lost))
         /\ Plain(origins, allowed, lost).kind = "plain"
         /\ Plain(origins, allowed, lost).lost = lost
         /\ Plain(origins, allowed, lost).origins = origins
         /\ Plain(origins, allowed, lost).allowed = allowed
<1>1. {} \in SUBSET Sources /\ {} \in ReaderSet /\ Uniform({}) \in CharTaints
  BY UniformSays DEF ReaderSet
<1>. QED  BY <1>1 DEF Plain, Value, Values, Bare, Kinds

LEMMA PlainGood ==
  ASSUME NEW origins \in Seq(SUBSET Sources), NEW allowed \in SUBSET Readers, NEW lost \in SUBSET Mishaps,
         lost = {} => allowed = Readers /\ \A i \in 1..Len(origins) : origins[i] = {}
  PROVE  Plain(origins, allowed, lost) \in GoodValues
<1>. DEFINE v == Plain(origins, allowed, lost)
<1>1. lost = {} => Accounted(v) /\ May(v.readers) \subseteq v.allowed
  BY DEF Accounted, Plain, Value, May
<1>. QED  BY <1>1, PlainTyped DEF GoodValues, Sound

LEMMA RegisteredGood ==
  ASSUME NEW s \in Sources, NEW readers \in SUBSET Readers
  PROVE  Registered(s, readers) \in GoodValues
<1>1. readers \in ReaderSet /\ May(readers) \in SUBSET Readers /\ {s} \in SUBSET Sources
  BY DEF ReaderSet, May
<1>. QED  BY <1>1, UniformGood DEF Registered, Kinds

LEMMA AnnotatedGood ==
  ASSUME NEW i \in 1..2, NEW s \in Sources, NEW sources \in SUBSET {s}
  PROVE  Annotated(i, s, sources) \in GoodValues
<1>. DEFINE o == [k \in 1..2 |-> IF k = i THEN {s} ELSE {}]
            m == [k \in {i} |-> {s}]
            c == [map |-> m, default |-> {}]
            v == Annotated(i, s, sources)
<1>1. o \in Seq(SUBSET Sources) /\ Len(o) = 2
  BY DEF o
<1>2. m \in Entries
  <2>1. m \in [{i} -> SUBSET Sources] /\ {i} \in SUBSET (Nat \ {0})
    OBVIOUS
  <2>. QED  BY <2>1 DEF Entries
<1>3. c \in CharTaints /\ \A k \in 1..2 : o[k] \subseteq Get(c, k)
  BY <1>2 DEF CharTaints, Get
<1>4. v = Value("str", o, c, sources, {}, Readers, {})
  BY DEF Annotated
<1>. HIDE DEF o, c, v
<1>5. v \in Values /\ v.kind = "str"
  BY <1>1, <1>3, <1>4 DEF Value, Values, Kinds, ReaderSet
<1>6. v.origins = o /\ v.ct = c /\ v.readers = {} /\ v.allowed = Readers
  BY <1>4 DEF Value
<1>7. Accounted(v) /\ May(v.readers) \subseteq v.allowed
  BY <1>1, <1>3, <1>5, <1>6 DEF Accounted, May
<1>. QED  BY <1>5, <1>7 DEF v, GoodValues, Bare, Sound

LEMMA BlendGood ==
  ASSUME NEW a \in GoodValues, NEW b \in GoodValues
  PROVE  Blend(a, b) \in GoodValues /\ Ignoring(a, b) \in GoodValues
<1>1. a \in Values /\ b \in Values
  BY DEF GoodValues
<1>2. /\ Effective(a) \union Effective(b) \in SUBSET Sources
      /\ Stems(a) \union Stems(b) \in SUBSET Sources
      /\ ReaderIntersection(a.readers, b.readers) \in ReaderSet /\ a.readers \in ReaderSet
      /\ a.allowed \intersect b.allowed \in SUBSET Readers
      /\ a.lost \union b.lost \in SUBSET Mishaps
      /\ a.lost \union b.lost \union {"ignored"} \in SUBSET Mishaps
  BY <1>1, Fields, BothMay DEF Mishaps
<1>3. a.lost \union b.lost = {} =>
        /\ Stems(a) \union Stems(b) \subseteq Effective(a) \union Effective(b)
        /\ May(ReaderIntersection(a.readers, b.readers)) \subseteq a.allowed \intersect b.allowed
  BY <1>1, GoodStems, Fields, BothMay
<1>. QED  BY <1>1, <1>2, <1>3, Fields, UniformGood DEF Blend, Ignoring, Mixed, Kinds

LEMMA CodedGood ==
  ASSUME NEW a \in GoodValues, NEW b \in GoodValues
  PROVE  Coded(a, b) \in GoodValues
<1>. DEFINE sources == a.sources \union b.sources
            readers == a.readers \union b.readers
            allowed == a.allowed \intersect b.allowed
            both    == ReaderIntersection(a.readers, b.readers)
            widened == May(IF sources = {} THEN {} ELSE readers) # May(both)
            lost    == a.lost \union b.lost \union Unlisted(a) \union Unlisted(b)
                         \union (IF widened THEN {"codec"} ELSE {})
            O       == Stems(a) \union Stems(b)
<1>1. a \in Values /\ b \in Values
  BY DEF GoodValues
<1>2. /\ sources \in SUBSET Sources /\ O \in SUBSET Sources /\ readers \in ReaderSet
      /\ allowed \in SUBSET Readers /\ lost \in SUBSET Mishaps
  BY <1>1, Fields DEF Mishaps, Unlisted, ReaderSet
<1>3. ASSUME lost = {}
      PROVE  /\ O \subseteq sources /\ ~widened /\ May(both) \subseteq allowed
  <2>1. a.lost = {} /\ b.lost = {} /\ Unlisted(a) = {} /\ Unlisted(b) = {} /\ ~widened
    BY <1>3
  <2>2. Effective(a) = a.sources /\ Effective(b) = b.sources
    BY <2>1 DEF Unlisted
  <2>. QED  BY <2>1, <2>2, <1>1, GoodStems, Fields, BothMay
<1>4. Coded(a, b) = IF sources = {} THEN Plain(<<O>>, allowed, lost)
                    ELSE Value("str", <<O>>, Uniform(sources), sources, readers, allowed, lost)
  BY DEF Coded, Mixed
<1>. HIDE DEF lost, O, allowed, both
<1>5. CASE sources = {}
  <2>1. lost = {} => allowed = Readers /\ O = {}
    BY <1>2, <1>3, <1>5 DEF May
  <2>2. <<O>> \in Seq(SUBSET Sources) /\ Len(<<O>>) = 1 /\ \A i \in 1..1 : <<O>>[i] = O
    BY <1>2
  <2>. QED  BY <2>1, <2>2, <1>2, <1>4, <1>5, PlainGood
<1>6. CASE sources # {}
  BY <1>2, <1>3, <1>4, <1>6, UniformGood DEF Kinds
<1>. QED  BY <1>5, <1>6

LEMMA DumpedGood ==
  ASSUME NEW a \in GoodValues
  PROVE  Dumped(a) \in GoodValues
<1>1. a \in Values
  BY DEF GoodValues
<1>. DEFINE lost == a.lost \union (IF a.readers = {} THEN {} ELSE {"json"})
<1>2. /\ Stems(a) \union Stems(a) \in SUBSET Sources /\ Effective(a) \in SUBSET Sources
      /\ lost \in SUBSET Mishaps /\ {} \in ReaderSet /\ a.allowed \in SUBSET Readers
  BY <1>1, Fields DEF Mishaps, ReaderSet
<1>3. lost = {} => Stems(a) \union Stems(a) \subseteq Effective(a) /\ May({}) \subseteq a.allowed
  BY GoodStems
<1>. QED  BY <1>2, <1>3, UniformGood DEF Dumped, Mixed, Kinds

\* Add's guard: the operands are of one kind, or one of them is plain.
LEMMA PlusGood ==
  ASSUME NEW a \in GoodValues, NEW b \in GoodValues,
         a.kind = b.kind \/ "plain" \in {a.kind, b.kind},
         a.kind \in {"str", "bytes"} \/ b.kind \in {"str", "bytes"},
         "wrapped" \notin {a.kind, b.kind}
  PROVE  Plus(a, b) \in GoodValues
<1>. DEFINE kind == IF Tainted(a) THEN a.kind ELSE b.kind
            o    == a.origins \o b.origins
            c    == IF "bytes" \in {a.kind, b.kind} THEN Uniform(a.sources \union b.sources)
                                                    ELSE Concat(a.ct, b.ct, Len(a.origins))
            S    == Effective(a) \union Effective(b)
            v    == Plus(a, b)
<1>1. a \in Values /\ b \in Values
  BY DEF GoodValues
<1>2. /\ v.kind = kind /\ v.origins = o /\ v.ct = c /\ v.sources = S
      /\ v.readers = ReaderIntersection(a.readers, b.readers)
      /\ v.allowed = a.allowed \intersect b.allowed /\ v.lost = a.lost \union b.lost
  BY DEF Plus, Value
<1>3. v = Value(kind, o, c, S, ReaderIntersection(a.readers, b.readers),
                a.allowed \intersect b.allowed, a.lost \union b.lost)
  BY DEF Plus
<1>4. /\ kind \in {"str", "bytes"} /\ (kind = "bytes" <=> "bytes" \in {a.kind, b.kind})
      /\ kind = "str" => a.kind \in {"str", "plain"} /\ b.kind \in {"str", "plain"}
      /\ kind = "bytes" => a.kind # "str" /\ b.kind # "str"
  BY <1>1, Fields DEF Tainted, Kinds
<1>. HIDE DEF kind, v
<1>5. /\ o \in Seq(SUBSET Sources) /\ Len(o) = Len(a.origins) + Len(b.origins)
      /\ Len(a.origins) \in Nat /\ Len(b.origins) \in Nat
      /\ \A i \in 1..Len(a.origins) : o[i] = a.origins[i]
      /\ \A j \in 1..Len(b.origins) : o[j + Len(a.origins)] = b.origins[j]
  <2>1. a.origins \in Seq(SUBSET Sources) /\ b.origins \in Seq(SUBSET Sources)
    BY <1>1, Fields
  <2>. DEFINE p == a.origins
              q == b.origins
  <2>. HIDE DEF p, q
  <2>2. p \in Seq(SUBSET Sources) /\ q \in Seq(SUBSET Sources) /\ o = p \o q
    BY <2>1 DEF p, q
  <2>3. /\ p \o q \in Seq(SUBSET Sources) /\ Len(p \o q) = Len(p) + Len(q)
        /\ \A i \in 1..(Len(p) + Len(q)) : (p \o q)[i] = IF i <= Len(p) THEN p[i] ELSE q[i - Len(p)]
    BY <2>2, ConcatProperties
  <2>4. Len(p) \in Nat /\ Len(q) \in Nat
    BY <2>2
  <2>5. \A i \in 1..Len(p) : i \in 1..(Len(p) + Len(q)) /\ i <= Len(p)
    BY <2>4
  <2>6. \A j \in 1..Len(q) : /\ j + Len(p) \in 1..(Len(p) + Len(q)) /\ ~(j + Len(p) <= Len(p))
                            /\ (j + Len(p)) - Len(p) = j
    BY <2>4
  <2>. QED  BY <2>2, <2>3, <2>4, <2>5, <2>6 DEF p, q
<1>10. ASSUME NEW i \in 1..Len(o), i \notin 1..Len(a.origins)
       PROVE  \E j \in 1..Len(b.origins) : i = j + Len(a.origins)
  <2>1. \A m, n \in Nat : \A k \in 1..(m + n) : k \notin 1..m => k - m \in 1..n /\ (k - m) + m = k
    OBVIOUS
  <2>2. i - Len(a.origins) \in 1..Len(b.origins) /\ (i - Len(a.origins)) + Len(a.origins) = i
    BY <2>1, <1>5, <1>10
  <2>. QED  BY <2>2
<1>. HIDE DEF o
<1>6. S \in SUBSET Sources
  BY <1>1, Fields
<1>7. c \in CharTaints
  <2>1. a.sources \union b.sources \in SUBSET Sources /\ a.ct \in CharTaints /\ b.ct \in CharTaints
    BY <1>1, Fields
  <2>. QED  BY <2>1, <1>5, UniformSays, ConcatSays
<1>8. v \in Values
  <2>1. /\ ReaderIntersection(a.readers, b.readers) \in ReaderSet
        /\ a.allowed \intersect b.allowed \in SUBSET Readers /\ a.lost \union b.lost \in SUBSET Mishaps
    BY <1>1, Fields, BothMay
  <2>. HIDE DEF S, c
  <2>. QED  BY <2>1, <1>3, <1>4, <1>5, <1>6, <1>7 DEF Value, Values, Kinds
<1>9. ASSUME v.lost = {} PROVE Accounted(v) /\ May(v.readers) \subseteq v.allowed
  <2>1. a.lost = {} /\ b.lost = {}
    BY <1>2, <1>9
  <2>2. /\ Accounted(a) /\ Accounted(b) /\ May(a.readers) \subseteq a.allowed
        /\ May(b.readers) \subseteq b.allowed
    BY <2>1 DEF GoodValues, Sound
  <2>3. May(v.readers) \subseteq v.allowed
    BY <1>1, <1>2, <2>2, Fields, BothMay
  <2>4. ASSUME kind = "bytes", NEW i \in 1..Len(o) PROVE o[i] \subseteq S
    <3>1. \A k \in 1..Len(a.origins) : a.origins[k] \subseteq Effective(a)
      BY <1>1, <2>2, StemsAccounted
    <3>2. \A k \in 1..Len(b.origins) : b.origins[k] \subseteq Effective(b)
      BY <1>1, <2>2, StemsAccounted
    <3>3. CASE i \in 1..Len(a.origins)
      BY <3>1, <3>3, <1>5
    <3>4. CASE i \notin 1..Len(a.origins)
      <4>1. PICK j \in 1..Len(b.origins) : i = j + Len(a.origins)
        BY <3>4, <1>10
      <4>2. o[i] = b.origins[j]
        BY <4>1, <1>5
      <4>. QED  BY <4>2, <3>2
    <3>. QED  BY <3>3, <3>4
  <2>5. ASSUME kind = "str", NEW i \in 1..Len(o) PROVE o[i] \subseteq Get(c, i)
    <3>1. c = Concat(a.ct, b.ct, Len(a.origins))
      BY <1>4, <2>5
    <3>2. a.ct \in CharTaints /\ b.ct \in CharTaints /\ Len(a.origins) \in Nat
      BY <1>1, Fields
    <3>3. ASSUME NEW w \in {a, b}, NEW k \in 1..Len(w.origins)
          PROVE  w.origins[k] \subseteq Get(w.ct, k)
      <4>1. w.kind \in {"str", "plain"} /\ Accounted(w) /\ Bare(w)
        BY <1>4, <2>2, <2>5 DEF GoodValues
      <4>. QED  BY <4>1, <3>3 DEF Accounted, Bare
    <3>4. CASE i \in 1..Len(a.origins)
      BY <3>1, <3>2, <3>3, <3>4, <1>5, ConcatSays
    <3>5. CASE i \notin 1..Len(a.origins)
      <4>1. PICK j \in 1..Len(b.origins) : i = j + Len(a.origins)
        BY <3>5, <1>10
      <4>3. j \in Nat \ {0}
        BY <1>5
      <4>4. Get(b.ct, j) \subseteq Get(Concat(a.ct, b.ct, Len(a.origins)), j + Len(a.origins))
        BY <3>2, <4>3, ConcatSays
      <4>2. Get(b.ct, j) \subseteq Get(c, i) /\ o[i] = b.origins[j]
        BY <3>1, <4>1, <4>4, <1>5
      <4>. QED  BY <4>2, <3>3
    <3>. QED  BY <3>4, <3>5
  <2>6. Accounted(v)
    BY <1>2, <1>4, <2>4, <2>5 DEF Accounted
  <2>. QED  BY <2>3, <2>6
<1>. QED  BY <1>2, <1>4, <1>8, <1>9 DEF v, GoodValues, Bare, Sound

\* A part of a value is good, also one whose taint was looked up elsewhere.
LEMMA PartAsGood ==
  ASSUME NEW a \in GoodValues, a.kind \in {"str", "bytes"}, NEW idx \in Seq(1..Len(a.origins)),
         NEW at \in Seq(1..Len(a.origins)), Len(at) = Len(idx)
  PROVE  PartAs(a, idx, at) \in GoodValues
<1>. DEFINE o == [k \in 1..Len(idx) |-> a.origins[idx[k]]]
            c == IF a.kind = "str" THEN Slice(a.ct, at) ELSE a.ct
            S == IF a.kind = "str" THEN AllSources(c) ELSE a.sources
            adrift == a.kind = "str" /\ \E k \in 1..Len(idx) : Get(a.ct, at[k]) # Get(a.ct, idx[k])
            lost == IF adrift THEN a.lost \union {"spaces"} ELSE a.lost
            v == PartAs(a, idx, at)
<1>1. a \in Values /\ Bare(a) /\ Sound(a)
  BY DEF GoodValues
<1>2. v = [a EXCEPT !.origins = o, !.ct = c, !.sources = S, !.lost = lost]
  BY DEF PartAs
<1>3. /\ \A k \in 1..Len(idx) : idx[k] \in 1..Len(a.origins) /\ a.origins[idx[k]] \in SUBSET Sources
      /\ Len(idx) \in Nat
  BY <1>1, Fields
<1>4. o \in Seq(SUBSET Sources) /\ Len(o) = Len(idx)
  BY <1>3
<1>5. c \in CharTaints
  BY <1>1, Fields, SliceSays
<1>6. S \in SUBSET Sources
  BY <1>1, <1>5, Fields, MapSays
<1>10. lost \in SUBSET Mishaps
  BY <1>1, Fields DEF Mishaps
<1>11. lost = {} => a.lost = {} /\ ~adrift
  OBVIOUS
<1>. HIDE DEF o, c, S, v, lost
<1>7. v \in Values
  BY <1>1, <1>2, <1>4, <1>5, <1>6, <1>10 DEF Values
<1>8. /\ v.kind = a.kind /\ v.origins = o /\ v.ct = c /\ v.sources = S /\ v.readers = a.readers
      /\ v.allowed = a.allowed /\ v.lost = lost
  BY <1>1, <1>2 DEF Values
<1>9. ASSUME v.lost = {} PROVE Accounted(v) /\ May(v.readers) \subseteq v.allowed
  <2>1. Accounted(a) /\ May(a.readers) \subseteq a.allowed
    BY <1>1, <1>8, <1>9, <1>11 DEF Sound
  <2>2. ASSUME NEW k \in 1..Len(idx)
        PROVE  o[k] \subseteq IF a.kind = "str" THEN Get(c, k) ELSE S
    <3>1. o[k] = a.origins[idx[k]] /\ idx[k] \in 1..Len(a.origins)
      BY <1>3 DEF o
    <3>2. a.kind = "str" => Get(c, k) = Get(a.ct, at[k])
      BY <1>1, Fields, SliceSays DEF c
    <3>3. a.kind = "str" => Get(a.ct, at[k]) = Get(a.ct, idx[k])
      BY <1>8, <1>9, <1>11
    <3>. QED  BY <3>1, <3>2, <3>3, <2>1 DEF Accounted, S
  <2>3. Accounted(v)
    BY <2>2, <1>4, <1>8 DEF Accounted
  <2>. QED  BY <2>1, <2>3, <1>8
<1>. QED  BY <1>7, <1>8, <1>9 DEF v, GoodValues, Bare, Sound

LEMMA PartGood ==
  ASSUME NEW a \in GoodValues, a.kind \in {"str", "bytes"}, NEW idx \in Seq(1..Len(a.origins))
  PROVE  Part(a, idx) \in GoodValues
BY PartAsGood DEF Part

LEMMA AtGood ==
  ASSUME NEW a \in GoodValues, a.kind \in {"str", "bytes"}, NEW i \in 1..Len(a.origins)
  PROVE  At(a, i) \in GoodValues
<1>1. a \in Values /\ Bare(a) /\ Sound(a)
  BY DEF GoodValues
<1>2. a.origins[i] \in SUBSET Sources
  BY <1>1, Fields
<1>3. CASE a.kind = "bytes"
  <2>1. <<a.origins[i]>> \in Seq(SUBSET Sources) /\ a.lost \union {"byte"} \in SUBSET Mishaps
    BY <1>1, <1>2, Fields DEF Mishaps
  <2>2. At(a, i) = Plain(<<a.origins[i]>>, a.allowed, a.lost \union {"byte"})
    BY <1>3 DEF At
  <2>. QED  BY <2>1, <2>2, <1>1, Fields, PlainGood
<1>4. CASE a.kind = "str"
  <2>. DEFINE S == Get(a.ct, i)
              O == a.origins[i]
              w == [a EXCEPT !.origins = <<O>>, !.ct = Uniform(S), !.sources = S]
  <2>1. At(a, i) = w
    BY <1>4 DEF At
  <2>2. S \in SUBSET Sources
    BY <1>1, Fields, MapSays
  <2>3. a.lost = {} => O \subseteq S /\ May(a.readers) \subseteq a.allowed
    BY <1>1, <1>4 DEF Sound, Accounted
  <2>4. /\ Uniform(S) \in CharTaints /\ Get(Uniform(S), 1) = S
        /\ <<O>> \in Seq(SUBSET Sources) /\ Len(<<O>>) = 1 /\ <<O>>[1] = O
    BY <1>2, <2>2, UniformSays
  <2>. DEFINE o == <<O>>
              c == Uniform(S)
  <2>. HIDE DEF o, c, S, O
  <2>5. w = [a EXCEPT !.origins = o, !.ct = c, !.sources = S]
    BY DEF o, c, S, O
  <2>6. c \in CharTaints /\ o \in Seq(SUBSET Sources) /\ Len(o) = 1 /\ o[1] = O /\ Get(c, 1) = S
    BY <2>4 DEF o, c
  <2>. HIDE DEF w
  <2>7. w \in Values
    BY <1>1, <2>2, <2>5, <2>6 DEF Values
  <2>8. /\ w.kind = "str" /\ w.origins = o /\ w.ct = c /\ w.readers = a.readers
        /\ w.allowed = a.allowed /\ w.lost = a.lost
    BY <1>1, <1>4, <2>5 DEF Values
  <2>9. ASSUME w.lost = {} PROVE Accounted(w) /\ May(w.readers) \subseteq w.allowed
    <3>1. O \subseteq S /\ May(a.readers) \subseteq a.allowed
      BY <2>3, <2>8, <2>9
    <3>2. \A k \in 1..Len(w.origins) : k = 1
      <4>1. Len(w.origins) = 1
        BY <2>6, <2>8
      <4>2. \A k \in 1..1 : k = 1
        OBVIOUS
      <4>. QED  BY <4>1, <4>2
    <3>3. w.origins[1] \subseteq Get(w.ct, 1)
      BY <3>1, <2>6, <2>8
    <3>. QED  BY <3>1, <3>2, <3>3, <2>8 DEF Accounted
  <2>. QED  BY <2>1, <2>7, <2>8, <2>9 DEF w, GoodValues, Bare, Sound
<1>. QED  BY <1>3, <1>4

\* An operation that keeps the number of characters.
LEMMA SameLengthGood ==
  ASSUME NEW a \in GoodValues, a.kind = "str", NEW origins \in Seq(SUBSET Sources)
  PROVE  SameLength(a, origins) \in GoodValues
<1>. DEFINE v == SameLength(a, origins)
            S == Effective(a)
            lost == IF origins = a.origins THEN a.lost ELSE a.lost \union {"moved"}
<1>1. a \in Values /\ Sound(a)
  BY DEF GoodValues
<1>2. v = [a EXCEPT !.origins = origins, !.sources = S, !.lost = lost]
  BY DEF SameLength
<1>3. S \in SUBSET Sources /\ lost \in SUBSET Mishaps
  BY <1>1, Fields DEF Mishaps
<1>4. lost = {} => origins = a.origins /\ a.lost = {}
  OBVIOUS
<1>. HIDE DEF v, S, lost
<1>5. v \in Values
  BY <1>1, <1>2, <1>3 DEF Values
<1>6. /\ v.kind = "str" /\ v.origins = origins /\ v.ct = a.ct /\ v.readers = a.readers
      /\ v.allowed = a.allowed /\ v.lost = lost
  BY <1>1, <1>2 DEF Values
<1>7. v.lost = {} => Accounted(v) /\ May(v.readers) \subseteq v.allowed
  BY <1>1, <1>4, <1>6 DEF Sound, Accounted
<1>. QED  BY <1>5, <1>6, <1>7 DEF v, GoodValues, Bare, Sound

LEMMA RecodedGood ==
  ASSUME NEW a \in GoodValues, a.kind \in {"str", "bytes"}
  PROVE  Recoded(a) \in GoodValues
<1>. DEFINE v == Recoded(a)
            kind == IF a.kind = "str" THEN "bytes" ELSE "str"
            lost == a.lost \union Unlisted(a)
            c == Uniform(a.sources)
<1>1. a \in Values /\ Sound(a)
  BY DEF GoodValues
<1>2. v = [a EXCEPT !.kind = kind, !.ct = c, !.lost = lost]
  BY DEF Recoded
<1>3. lost \in SUBSET Mishaps /\ c \in CharTaints /\ kind \in Kinds \ {"plain"} /\ a.sources \in SUBSET Sources
  BY <1>1, Fields, UniformSays DEF Mishaps, Unlisted, Kinds
<1>4. lost = {} => a.lost = {} /\ Effective(a) = a.sources
  BY DEF Unlisted
<1>5. \A i : Get(c, i) = a.sources
  BY <1>3, UniformSays
<1>. HIDE DEF v, kind, lost, c
<1>6. v \in Values
  BY <1>1, <1>2, <1>3 DEF Values
<1>7. /\ v.kind = kind /\ v.origins = a.origins /\ v.ct = c /\ v.sources = a.sources
      /\ v.readers = a.readers /\ v.allowed = a.allowed /\ v.lost = lost
  BY <1>1, <1>2 DEF Values
<1>8. ASSUME v.lost = {} PROVE Accounted(v) /\ May(v.readers) \subseteq v.allowed
  <2>1. Accounted(a) /\ May(a.readers) \subseteq a.allowed /\ Effective(a) = a.sources
    BY <1>1, <1>4, <1>7, <1>8 DEF Sound
  <2>2. \A i \in 1..Len(a.origins) : a.origins[i] \subseteq a.sources
    BY <1>1, <2>1, StemsAccounted
  <2>. QED  BY <2>1, <2>2, <1>5, <1>7 DEF Accounted
<1>. QED  BY <1>3, <1>6, <1>7, <1>8 DEF v, GoodValues, Bare, Sound

LEMMA MergedGood ==
  ASSUME NEW a \in GoodValues, a.kind = "str", NEW b \in GoodValues
  PROVE  Merged(a, b) \in GoodValues
<1>. DEFINE v == Merged(a, b)
            o == [i \in 1..Len(a.origins) |-> a.origins[i] \union Stems(b)]
            S == Effective(a) \union Effective(b)
            r == ReaderIntersection(a.readers, b.readers)
            allowed == a.allowed \intersect b.allowed
            lost == a.lost \union b.lost \union {"merged"}
<1>1. a \in Values /\ b \in Values
  BY DEF GoodValues
<1>2. v = [a EXCEPT !.origins = o, !.sources = S, !.readers = r, !.allowed = allowed, !.lost = lost]
  BY DEF Merged
<1>3. \A i \in 1..Len(a.origins) : a.origins[i] \union Stems(b) \in SUBSET Sources
  BY <1>1, Fields
<1>4. o \in Seq(SUBSET Sources)
  BY <1>1, <1>3, Fields
<1>5. /\ S \in SUBSET Sources /\ r \in ReaderSet /\ allowed \in SUBSET Readers
      /\ lost \in SUBSET Mishaps /\ lost # {}
  BY <1>1, Fields, BothMay DEF Mishaps
<1>. HIDE DEF v, o, S, r, allowed, lost
<1>6. v \in Values /\ v.kind = "str" /\ v.lost = lost
  BY <1>1, <1>2, <1>4, <1>5 DEF Values
<1>. QED  BY <1>5, <1>6 DEF v, GoodValues, Bare, Sound

-----------------------------------------------------------------------------
(* The list.                                                               *)

\* The sources recorded for index i, and all that are recorded for some index.
Entry(taint, out, i) == IF i \in DOMAIN taint THEN taint[i] ELSE out.sources

Recorded(taint) == UNION {taint[k] : k \in DOMAIN taint}

\* An item at index i: a tainted one accounts for itself, a plain one is accounted for by the
\* entry at its index, or once items have moved by some entry that is still there.
ItemGood(v, i, taint, out, gone) ==
  /\ v \in Values /\ Bare(v)
  /\ v.kind # "plain" => Sound(v)
  /\ v.kind = "plain" /\ v.lost = {} =>
       /\ May(out.readers) \subseteq v.allowed
       /\ "shifted" \notin gone => Stems(v) \subseteq Entry(taint, out, i)
       /\ "overwritten" \notin gone => Stems(v) \subseteq out.sources \union Recorded(taint)

ListGood(its, taint, out, gone) ==
  /\ its \in Seq(Values) /\ taint \in Entries
  /\ out.sources \in SUBSET Sources /\ out.readers \in ReaderSet
  /\ gone \in SUBSET {"shifted", "overwritten"}
  /\ \A i \in 1..Len(its) : ItemGood(its[i], i, taint, out, gone)

\* The inductive invariant.
TaintInv == val \in [Vars -> GoodValues] /\ ListGood(items, itemTaint, outer, listLost)

\* A value of a variable fits anywhere in the list.
LEMMA GoodFits ==
  ASSUME NEW v \in GoodValues, NEW i, NEW taint, NEW out, out.readers \in ReaderSet, NEW gone
  PROVE  ItemGood(v, i, taint, out, gone)
<1>1. v \in Values /\ Bare(v) /\ Sound(v)
  BY DEF GoodValues
<1>2. ASSUME v.kind = "plain", v.lost = {}
      PROVE  Stems(v) = {} /\ May(out.readers) \subseteq v.allowed
  <2>1. v.sources = {} /\ v.readers = {}
    BY <1>1, <1>2 DEF Bare
  <2>2. Stems(v) = {}
    BY <1>2, <2>1, GoodStems DEF Effective
  <2>3. Readers \subseteq v.allowed
    BY <1>2, <2>1, GoodStems DEF May
  <2>. QED  BY <2>2, <2>3 DEF May, ReaderSet
<1>. QED  BY <1>1, <1>2 DEF ItemGood

\* An item stays accounted for when it gets another index and the entries change.
LEMMA ItemMoves ==
  ASSUME NEW v, NEW i, NEW j, NEW taint, NEW taint2, NEW out, NEW gone, NEW gone2,
         ItemGood(v, i, taint, out, gone), gone \subseteq gone2,
         "shifted" \notin gone2 => Entry(taint2, out, j) = Entry(taint, out, i),
         "shifted" \in gone2 /\ "overwritten" \notin gone2 => Recorded(taint) \subseteq Recorded(taint2)
  PROVE  ItemGood(v, j, taint2, out, gone2)
<1>1. /\ Entry(taint, out, i) \subseteq out.sources \union Recorded(taint)
      /\ Entry(taint2, out, j) \subseteq out.sources \union Recorded(taint2)
  BY DEF Entry, Recorded
<1>. QED  BY <1>1 DEF ItemGood

\* What SetTaint does to the entries.
LEMMA EntrySet ==
  ASSUME itemTaint \in Entries, NEW i \in Nat \ {0}, NEW S \in SUBSET Sources, SetTaint(i, S)
  PROVE  /\ itemTaint' \in Entries
         /\ \A out : Entry(itemTaint', out, i) = S
         /\ S \subseteq Recorded(itemTaint')
         /\ \A out, j : j # i => Entry(itemTaint', out, j) = Entry(itemTaint, out, j)
         /\ i \notin DOMAIN itemTaint => Recorded(itemTaint) \subseteq Recorded(itemTaint')
<1>. DEFINE D == DOMAIN itemTaint \union {i}
<1>1. D \in SUBSET (Nat \ {0}) /\ \A k \in DOMAIN itemTaint : itemTaint[k] \in SUBSET Sources
  BY EntriesTyped
<1>2. /\ itemTaint' \in [D -> SUBSET Sources] /\ DOMAIN itemTaint' = D /\ itemTaint'[i] = S
      /\ \A k \in DOMAIN itemTaint \ {i} : itemTaint'[k] = itemTaint[k]
  BY <1>1 DEF SetTaint
<1>3. itemTaint' \in Entries
  BY <1>1, <1>2 DEF Entries
<1>4. /\ \A out : Entry(itemTaint', out, i) = S
      /\ \A out, j : j # i => Entry(itemTaint', out, j) = Entry(itemTaint, out, j)
  BY <1>2 DEF Entry
<1>5. S \subseteq Recorded(itemTaint')
  BY <1>2 DEF Recorded
<1>6. i \notin DOMAIN itemTaint => Recorded(itemTaint) \subseteq Recorded(itemTaint')
  BY <1>2 DEF Recorded
<1>. QED  BY <1>3, <1>4, <1>5, <1>6

\* A sequence with e before what was at index i.
WithItem(q, i, e) == SubSeq(q, 1, i - 1) \o <<e>> \o SubSeq(q, i, Len(q))

LEMMA Inserted ==
  ASSUME NEW S, NEW q \in Seq(S), NEW i \in 1..(Len(q) + 1), NEW e \in S
  PROVE  /\ WithItem(q, i, e) \in Seq(S)
         /\ Len(WithItem(q, i, e)) = Len(q) + 1 /\ WithItem(q, i, e)[i] = e
         /\ \A k \in 1..(i - 1) : WithItem(q, i, e)[k] = q[k]
         /\ \A k \in i..Len(q) : WithItem(q, i, e)[k + 1] = q[k]
<1>. DEFINE n == Len(q)
            a == SubSeq(q, 1, i - 1)
            b == SubSeq(q, i, n)
            c == a \o <<e>>
            r == c \o b
<1>1. n \in Nat /\ i \in 1..(n + 1) /\ \A k \in 1..n : q[k] \in S
  OBVIOUS
<1>2. a \in Seq(S) /\ Len(a) = i - 1 /\ \A k \in 1..(i - 1) : a[k] = q[k]
  <2>1. 1 \in Int /\ i - 1 \in Int /\ \A k \in 1..(i - 1) : q[k] \in S
    BY <1>1
  <2>2. /\ a \in Seq(S) /\ Len(a) = IF 1 <= i - 1 THEN (i - 1) - 1 + 1 ELSE 0
        /\ \A k \in 1..((i - 1) - 1 + 1) : a[k] = q[1 + k - 1]
    BY <2>1, SubSeqProperties
  <2>3. (i - 1) - 1 + 1 = i - 1 /\ (IF 1 <= i - 1 THEN (i - 1) - 1 + 1 ELSE 0) = i - 1
        /\ \A k \in 1..(i - 1) : 1 + k - 1 = k
    BY <1>1
  <2>. HIDE DEF a
  <2>. QED  BY <2>2, <2>3
<1>3. b \in Seq(S) /\ Len(b) = n - i + 1 /\ \A k \in 1..(n - i + 1) : b[k] = q[i + k - 1]
  <2>1. i \in Int /\ n \in Int /\ \A k \in i..n : q[k] \in S
    BY <1>1
  <2>2. /\ b \in Seq(S) /\ Len(b) = IF i <= n THEN n - i + 1 ELSE 0
        /\ \A k \in 1..(n - i + 1) : b[k] = q[i + k - 1]
    BY <2>1, SubSeqProperties
  <2>3. (IF i <= n THEN n - i + 1 ELSE 0) = n - i + 1
    BY <1>1
  <2>. HIDE DEF b
  <2>. QED  BY <2>2, <2>3
<1>. HIDE DEF n, a, b
<1>4. c \in Seq(S) /\ Len(c) = i /\ c[i] = e /\ \A k \in 1..(i - 1) : c[k] = q[k]
  <2>1. c = Append(a, e)
    BY <1>2
  <2>2. /\ Append(a, e) \in Seq(S) /\ Len(Append(a, e)) = Len(a) + 1 /\ Append(a, e)[Len(a) + 1] = e
        /\ \A k \in 1..Len(a) : Append(a, e)[k] = a[k]
    BY <1>2
  <2>3. Len(a) + 1 = i
    BY <1>1, <1>2
  <2>. HIDE DEF c
  <2>. QED  BY <2>1, <2>2, <2>3, <1>2
<1>. HIDE DEF c
<1>5. /\ r \in Seq(S) /\ Len(r) = Len(c) + Len(b)
      /\ \A k \in 1..(Len(c) + Len(b)) : r[k] = IF k <= Len(c) THEN c[k] ELSE b[k - Len(c)]
  BY <1>3, <1>4, ConcatProperties
<1>. HIDE DEF r
<1>6. Len(r) = n + 1 /\ \A k \in 1..(n + 1) : r[k] = IF k <= i THEN c[k] ELSE b[k - i]
  <2>1. Len(c) + Len(b) = n + 1
    BY <1>1, <1>3, <1>4
  <2>. QED  BY <2>1, <1>4, <1>5
<1>7. r[i] = e
  <2>1. i \in 1..(n + 1) /\ i <= i
    BY <1>1
  <2>. QED  BY <2>1, <1>4, <1>6
<1>8. ASSUME NEW k \in 1..(i - 1) PROVE r[k] = q[k]
  <2>1. k \in 1..(n + 1) /\ k <= i
    BY <1>1
  <2>. QED  BY <2>1, <1>4, <1>6
<1>9. ASSUME NEW k \in i..n PROVE r[k + 1] = q[k]
  <2>1. k + 1 \in 1..(n + 1) /\ ~(k + 1 <= i) /\ (k + 1) - i \in 1..(n - i + 1)
        /\ i + ((k + 1) - i) - 1 = k
    BY <1>1
  <2>. QED  BY <2>1, <1>3, <1>6
<1>10. WithItem(q, i, e) = r
  BY DEF WithItem, r, c, a, b, n
<1>. QED  BY <1>5, <1>6, <1>7, <1>8, <1>9, <1>10 DEF n

\* A sequence without its item at index i.
LEMMA Deleted ==
  ASSUME NEW S, NEW q \in Seq(S), NEW i \in 1..Len(q)
  PROVE  LET r == SubSeq(q, 1, i - 1) \o SubSeq(q, i + 1, Len(q))
         IN  /\ r \in Seq(S) /\ Len(r) = Len(q) - 1
             /\ \A k \in 1..(i - 1) : r[k] = q[k]
             /\ \A k \in i..(Len(q) - 1) : r[k] = q[k + 1]
<1>. DEFINE n == Len(q)
            a == SubSeq(q, 1, i - 1)
            b == SubSeq(q, i + 1, n)
            r == a \o b
<1>1. n \in Nat /\ i \in 1..n /\ \A k \in 1..n : q[k] \in S
  OBVIOUS
<1>2. a \in Seq(S) /\ Len(a) = i - 1 /\ \A k \in 1..(i - 1) : a[k] = q[k]
  <2>1. 1 \in Int /\ i - 1 \in Int /\ \A k \in 1..(i - 1) : q[k] \in S
    BY <1>1
  <2>2. /\ a \in Seq(S) /\ Len(a) = IF 1 <= i - 1 THEN (i - 1) - 1 + 1 ELSE 0
        /\ \A k \in 1..((i - 1) - 1 + 1) : a[k] = q[1 + k - 1]
    BY <2>1, SubSeqProperties
  <2>3. (i - 1) - 1 + 1 = i - 1 /\ (IF 1 <= i - 1 THEN (i - 1) - 1 + 1 ELSE 0) = i - 1
        /\ \A k \in 1..(i - 1) : 1 + k - 1 = k
    BY <1>1
  <2>. HIDE DEF a
  <2>. QED  BY <2>2, <2>3
<1>3. b \in Seq(S) /\ Len(b) = n - i /\ \A k \in 1..(n - i) : b[k] = q[i + k]
  <2>1. i + 1 \in Int /\ n \in Int /\ \A k \in (i + 1)..n : q[k] \in S
    BY <1>1
  <2>2. /\ b \in Seq(S) /\ Len(b) = IF i + 1 <= n THEN n - (i + 1) + 1 ELSE 0
        /\ \A k \in 1..(n - (i + 1) + 1) : b[k] = q[(i + 1) + k - 1]
    BY <2>1, SubSeqProperties
  <2>3. n - (i + 1) + 1 = n - i /\ (IF i + 1 <= n THEN n - (i + 1) + 1 ELSE 0) = n - i
        /\ \A k \in 1..(n - i) : (i + 1) + k - 1 = i + k
    BY <1>1
  <2>. HIDE DEF b
  <2>. QED  BY <2>2, <2>3
<1>. HIDE DEF n, a, b
<1>4. /\ r \in Seq(S) /\ Len(r) = Len(a) + Len(b)
      /\ \A k \in 1..(Len(a) + Len(b)) : r[k] = IF k <= Len(a) THEN a[k] ELSE b[k - Len(a)]
  BY <1>2, <1>3, ConcatProperties
<1>. HIDE DEF r
<1>5. Len(r) = n - 1 /\ \A k \in 1..(n - 1) : r[k] = IF k <= i - 1 THEN a[k] ELSE b[k - (i - 1)]
  <2>1. Len(a) + Len(b) = n - 1
    BY <1>1, <1>2, <1>3
  <2>. QED  BY <2>1, <1>2, <1>4
<1>6. ASSUME NEW k \in 1..(i - 1) PROVE r[k] = q[k]
  <2>1. k \in 1..(n - 1) /\ k <= i - 1
    BY <1>1
  <2>. QED  BY <2>1, <1>2, <1>5
<1>7. ASSUME NEW k \in i..(n - 1) PROVE r[k] = q[k + 1]
  <2>1. k \in 1..(n - 1) /\ ~(k <= i - 1) /\ k - (i - 1) \in 1..(n - i) /\ i + (k - (i - 1)) = k + 1
    BY <1>1
  <2>. QED  BY <2>1, <1>3, <1>5
<1>. QED  BY <1>4, <1>5, <1>6, <1>7 DEF r, a, b, n

-----------------------------------------------------------------------------
(* The steps.                                                              *)

LEMMA AssignGood ==
  ASSUME TaintInv, NEW x \in Vars, NEW v \in GoodValues, Assign(x, v)
  PROVE  TaintInv'
<1>1. val' = [val EXCEPT ![x] = v] /\ items' = items /\ itemTaint' = itemTaint
      /\ outer' = outer /\ listLost' = listLost
  BY DEF Assign, list
<1>2. val' \in [Vars -> GoodValues]
  BY <1>1 DEF TaintInv
<1>3. ListGood(items, itemTaint, outer, listLost)'
  BY <1>1 DEF TaintInv
<1>. QED  BY <1>2, <1>3 DEF TaintInv, GoodValues, Values, Bare, Sound, Accounted

\* The operations on one value, or none.
LEMMA UnaryStep ==
  ASSUME TaintInv, NEW x \in Vars, NEW y \in Vars,
         \/ Register(x) \/ Annotate(x) \/ Literal(x)
         \/ TakePart(x, y) \/ SplitPart(x, y) \/ TakeOne(x, y) \/ Transform(x, y) \/ Recode(x, y)
         \/ Dump(x, y) \/ Unwrap(x, y)
  PROVE  TaintInv'
<1>. DEFINE a == val[y]
<1>1. a \in GoodValues /\ a \in Values
  BY DEF TaintInv, GoodValues
<1>2. CASE Register(x)
  BY <1>2, RegisteredGood, AssignGood DEF Register
<1>3. CASE Annotate(x)
  <2>1. PICK s \in Sources, listed \in BOOLEAN, i \in 1..2 :
          Assign(x, Annotated(i, s, IF listed THEN {s} ELSE {}))
    BY <1>3 DEF Annotate
  <2>2. (IF listed THEN {s} ELSE {}) \in SUBSET {s}
    OBVIOUS
  <2>. QED  BY <2>1, <2>2, AnnotatedGood, AssignGood
<1>4. CASE Literal(x)
  <2>1. <<{}>> \in Seq(SUBSET Sources) /\ Len(<<{}>>) = 1 /\ <<{}>>[1] = {} /\ {} \in SUBSET Mishaps
        /\ \A i \in 1..1 : i = 1
    OBVIOUS
  <2>2. Plain(<<{}>>, Readers, {}) \in GoodValues
    BY <2>1, PlainGood
  <2>. QED  BY <1>4, <2>2, AssignGood DEF Literal
<1>5. CASE TakePart(x, y)
  <2>1. Len(a.origins) \in Nat /\ a.kind \in {"str", "bytes"}
    BY <1>1, <1>5, Fields DEF TakePart
  <2>2. PICK i \in 1..Len(a.origins), j \in 0..Len(a.origins) :
          \/ Assign(x, Part(a, [k \in 1..(IF j < i THEN 0 ELSE j - i + 1) |-> i + k - 1]))
          \/ Assign(x, Part(a, [k \in 1..j |-> j - k + 1]))
    BY <1>5 DEF TakePart
  <2>3. [k \in 1..(IF j < i THEN 0 ELSE j - i + 1) |-> i + k - 1] \in Seq(1..Len(a.origins))
    <3>. DEFINE n == IF j < i THEN 0 ELSE j - i + 1
    <3>1. n \in Nat /\ \A k \in 1..n : i + k - 1 \in 1..Len(a.origins)
      BY <2>1
    <3>. HIDE DEF n
    <3>. QED  BY <3>1
  <2>4. [k \in 1..j |-> j - k + 1] \in Seq(1..Len(a.origins))
    <3>1. j \in Nat /\ \A k \in 1..j : j - k + 1 \in 1..Len(a.origins)
      BY <2>1
    <3>. QED  BY <3>1
  <2>. QED  BY <2>1, <2>2, <2>3, <2>4, <1>1, PartGood, AssignGood
<1>6. CASE TakeOne(x, y)
  BY <1>1, <1>6, AtGood, AssignGood DEF TakeOne
<1>7. CASE Transform(x, y)
  <2>1. /\ a.kind = "str"
        /\ \/ Assign(x, SameLength(a, a.origins))
           \/ Assign(x, SameLength(a, [i \in 1..Len(a.origins) |-> a.origins[1]]))
    BY <1>7 DEF Transform
  <2>2. a.origins \in Seq(SUBSET Sources) /\ Len(a.origins) \in Nat /\ a.origins # <<>>
    BY <1>1, <1>7, Fields DEF Transform
  <2>3. a.origins[1] \in SUBSET Sources
    BY <2>2
  <2>4. [i \in 1..Len(a.origins) |-> a.origins[1]] \in Seq(SUBSET Sources)
    BY <2>2, <2>3
  <2>. QED  BY <2>1, <2>2, <2>4, <1>1, SameLengthGood, AssignGood
<1>8. CASE Recode(x, y)
  BY <1>1, <1>8, RecodedGood, AssignGood DEF Recode
<1>9. CASE Dump(x, y)
  BY <1>1, <1>9, DumpedGood, AssignGood DEF Dump
<1>10. CASE Unwrap(x, y)
  <2>1. a.lost \union {"unwrapped"} \in SUBSET Mishaps /\ a.lost \union {"unwrapped"} # {}
    BY <1>1, Fields DEF Mishaps
  <2>2. Plain(a.origins, a.allowed, a.lost \union {"unwrapped"}) \in GoodValues
    BY <1>1, <2>1, Fields, PlainGood
  <2>. QED  BY <1>10, <2>2, AssignGood DEF Unwrap
<1>11. CASE SplitPart(x, y)
  <2>1. Len(a.origins) \in Nat /\ a.kind = "str"
    BY <1>1, <1>11, Fields DEF SplitPart
  <2>2. PICK i \in 1..Len(a.origins), j \in 1..Len(a.origins) : \E d \in 1..i - 1 :
          /\ i <= j
          /\ Assign(x, PartAs(a, [k \in 1..j - i + 1 |-> i + k - 1], [k \in 1..j - i + 1 |-> i + k - 1 - d]))
    BY <1>11 DEF SplitPart
  <2>6. PICK d \in 1..i - 1 :
          /\ i <= j
          /\ Assign(x, PartAs(a, [k \in 1..j - i + 1 |-> i + k - 1], [k \in 1..j - i + 1 |-> i + k - 1 - d]))
    BY <2>2
  <2>. DEFINE idx == [k \in 1..j - i + 1 |-> i + k - 1]
              at  == [k \in 1..j - i + 1 |-> i + k - 1 - d]
  <2>3. /\ j - i + 1 \in Nat
        /\ \A k \in 1..j - i + 1 : i + k - 1 \in 1..Len(a.origins) /\ i + k - 1 - d \in 1..Len(a.origins)
    BY <2>1, <2>6
  <2>4. idx \in Seq(1..Len(a.origins)) /\ at \in Seq(1..Len(a.origins)) /\ Len(at) = Len(idx)
    BY <2>3
  <2>5. Assign(x, PartAs(a, idx, at))
    BY <2>6
  <2>. HIDE DEF idx, at
  <2>. QED  BY <2>1, <2>4, <2>5, <1>1, PartAsGood, AssignGood
<1>. QED  BY <1>2, <1>3, <1>4, <1>5, <1>6, <1>7, <1>8, <1>9, <1>10, <1>11

\* The operations on two values.
LEMMA BinaryStep ==
  ASSUME TaintInv, NEW x \in Vars, NEW y \in Vars, NEW z \in Vars,
         Add(x, y, z) \/ Combine(x, y, z) \/ FormatBytes(x, y, z) \/ Merge(x, y, z) \/ Encode(x, y, z)
  PROVE  TaintInv'
<1>1. val[y] \in GoodValues /\ val[z] \in GoodValues
  BY DEF TaintInv
<1>2. CASE Add(x, y, z)
  BY <1>1, <1>2, PlusGood, AssignGood DEF Add
<1>3. CASE Combine(x, y, z)
  BY <1>1, <1>3, BlendGood, AssignGood DEF Combine
<1>4. CASE FormatBytes(x, y, z)
  BY <1>1, <1>4, BlendGood, AssignGood DEF FormatBytes
<1>5. CASE Merge(x, y, z)
  BY <1>1, <1>5, MergedGood, AssignGood DEF Merge
<1>6. CASE Encode(x, y, z)
  BY <1>1, <1>6, CodedGood, AssignGood DEF Encode
<1>. QED  BY <1>2, <1>3, <1>4, <1>5, <1>6

LEMMA ItemStep ==
  ASSUME TaintInv, NEW x \in Vars, GetItem(x) \/ SliceList(x)
  PROVE  TaintInv'
<1>1. /\ items \in Seq(Values) /\ itemTaint \in Entries
      /\ outer.sources \in SUBSET Sources /\ outer.readers \in ReaderSet
      /\ listLost \in SUBSET {"shifted", "overwritten"}
      /\ \A i \in 1..Len(items) : ItemGood(items[i], i, itemTaint, outer, listLost)
  BY DEF TaintInv, ListGood
<1>2. CASE GetItem(x)
  <2>1. PICK i \in 1..Len(items) : Assign(x, Item(i))
    BY <1>2 DEF GetItem
  <2>. DEFINE w == items[i]
  <2>2. ItemGood(w, i, itemTaint, outer, listLost) /\ w \in Values
    BY <1>1 DEF ItemGood
  <2>3. CASE Recognised(w)
    <3>1. w \in GoodValues
      BY <2>2, <2>3 DEF ItemGood, Recognised, GoodValues
    <3>. QED  BY <2>1, <2>3, <3>1, AssignGood DEF Item
  <2>4. CASE ~Recognised(w)
    <3>. DEFINE S    == Entry(itemTaint, outer, i)
                lost == w.lost \union listLost \union Boxed(w, S)
                c    == Uniform(S \union w.sources)
                v    == Value("wrapped", w.origins, c, S, outer.readers, w.allowed, lost)
    <3>1. Item(i) = v
      BY <2>4 DEF Item, ItemSources, Entry
    <3>2. S \in SUBSET Sources
      BY <1>1, EntriesTyped DEF Entry
    <3>3. lost \in SUBSET Mishaps /\ c \in CharTaints
      BY <1>1, <2>2, <3>2, Fields, UniformSays DEF Mishaps, Boxed
    <3>8. w.kind \in {"plain", "bytes"}
      BY <2>2, <2>4, Fields DEF Recognised, Kinds
    <3>9. ASSUME lost = {}, w.kind = "bytes"
          PROVE  Stems(w) \subseteq S /\ May(outer.readers) \subseteq w.allowed
      <4>1. w.lost = {} /\ w.sources \subseteq S /\ May(outer.readers) \subseteq May(w.readers)
        BY <3>9 DEF Boxed
      <4>2. w \in GoodValues
        BY <2>2, <3>9 DEF ItemGood, GoodValues
      <4>. QED  BY <3>9, <4>1, <4>2, GoodStems DEF Effective
    <3>4. lost = {} => Stems(w) \subseteq S /\ May(outer.readers) \subseteq w.allowed
      BY <2>2, <3>8, <3>9 DEF ItemGood
    <3>. HIDE DEF S, lost, c
    <3>5. v \in Values /\ v.kind = "wrapped"
      BY <1>1, <2>2, <3>2, <3>3, Fields DEF Value, Values, Kinds
    <3>6. v.lost = {} => Accounted(v) /\ May(v.readers) \subseteq v.allowed
      BY <3>4 DEF Accounted, Value, Stems
    <3>7. v \in GoodValues
      BY <3>5, <3>6 DEF GoodValues, Bare, Sound
    <3>. QED  BY <2>1, <3>1, <3>7, AssignGood
  <2>. QED  BY <2>3, <2>4
<1>3. CASE SliceList(x)
  <2>1. PICK i \in 1..Len(items) :
          Assign(x, IF Tainted(items[i]) THEN items[i]
                    ELSE Plain(items[i].origins, items[i].allowed, items[i].lost \union {"sliced"}))
    BY <1>3 DEF SliceList
  <2>2. items[i] \in Values /\ ItemGood(items[i], i, itemTaint, outer, listLost)
    BY <1>1
  <2>5. Tainted(items[i]) => items[i] \in GoodValues
    BY <2>2 DEF ItemGood, Tainted, GoodValues
  <2>3. items[i].lost \union {"sliced"} \in SUBSET Mishaps /\ items[i].lost \union {"sliced"} # {}
    BY <2>2, Fields DEF Mishaps
  <2>4. Plain(items[i].origins, items[i].allowed, items[i].lost \union {"sliced"}) \in GoodValues
    BY <2>2, <2>3, Fields, PlainGood
  <2>. QED  BY <2>1, <2>4, <2>5, AssignGood
<1>. QED  BY <1>2, <1>3

\* The steps on the list itself.
LEMMA ListStep ==
  ASSUME TaintInv, val' = val, ListGood(items', itemTaint', outer', listLost')
  PROVE  TaintInv'
<1>1. ListGood(items, itemTaint, outer, listLost)'
  BY DEF ListGood, ItemGood, Entry, Recorded
<1>2. val' \in [Vars -> GoodValues]
  BY DEF TaintInv
<1>. QED  BY <1>1, <1>2 DEF TaintInv, GoodValues, Values, Bare, Sound, Accounted

\* A plain item that stems from s.
LEMMA PlainItem ==
  ASSUME NEW s \in Sources, NEW readers \in ReaderSet
  PROVE  LET v == Plain(<<{s}>>, May(readers), {})
         IN  /\ v \in Values /\ Bare(v) /\ v.kind = "plain" /\ Stems(v) = {s}
             /\ v.allowed = May(readers)
<1>. DEFINE o == <<{s}>>
            m == May(readers)
            v == Plain(o, m, {})
<1>1. o \in Seq(SUBSET Sources) /\ Len(o) = 1 /\ o[1] = {s} /\ {} \in SUBSET Mishaps
      /\ m \in SUBSET Readers
  BY DEF May
<1>. HIDE DEF o, m, v
<1>2. Plain(o, m, {}) = v
  BY DEF v
<1>3. v \in Values /\ Bare(v) /\ v.kind = "plain" /\ v.origins = o /\ v.allowed = m
  BY <1>1, <1>2, PlainTyped
<1>4. 1..1 = {1}
  OBVIOUS
<1>5. Stems(v) = {s}
  BY <1>1, <1>3, <1>4 DEF Stems
<1>. QED  BY <1>3, <1>5 DEF v, o, m

LEMMA NewListStep ==
  ASSUME TaintInv, NewList
  PROVE  TaintInv'
<1>1. PICK n \in 0..MaxLen, s \in Sources, readers \in SUBSET Readers :
        /\ items' = [i \in 1..n |-> Plain(<<{s}>>, May(readers), {})]
        /\ outer' = [sources |-> {s}, readers |-> readers]
  BY DEF NewList
<1>2. val' = val /\ itemTaint' = [i \in {} |-> {}] /\ listLost' = {}
  BY DEF NewList
<1>. DEFINE v == Plain(<<{s}>>, May(readers), {})
<1>3. readers \in ReaderSet
  BY DEF ReaderSet
<1>4. v \in Values /\ Bare(v) /\ v.kind = "plain" /\ Stems(v) = {s} /\ v.allowed = May(readers)
  BY <1>3, PlainItem
<1>. HIDE DEF v
<1>5. items' \in Seq(Values) /\ Len(items') = n /\ \A i \in 1..n : items'[i] = v
  <2>1. n \in Nat /\ items' = [i \in 1..n |-> v]
    BY <1>1, TaintAssumption DEF v
  <2>. QED  BY <2>1, <1>4
<1>6. itemTaint' \in Entries /\ DOMAIN itemTaint' = {}
  <2>1. itemTaint' \in [{} -> SUBSET Sources] /\ {} \in SUBSET (Nat \ {0})
    BY <1>2
  <2>. QED  BY <2>1 DEF Entries
<1>7. ASSUME NEW i \in 1..n PROVE ItemGood(v, i, itemTaint', outer', listLost')
  <2>1. Entry(itemTaint', outer', i) = {s} /\ outer'.sources = {s} /\ outer'.readers = readers
    BY <1>1, <1>6 DEF Entry
  <2>. QED  BY <2>1, <1>4 DEF ItemGood
<1>8. ListGood(items', itemTaint', outer', listLost')
  BY <1>1, <1>2, <1>3, <1>5, <1>6, <1>7 DEF ListGood
<1>. QED  BY <1>2, <1>8, ListStep

LEMMA AppendTaintedStep ==
  ASSUME TaintInv, AppendTainted
  PROVE  TaintInv'
<1>. DEFINE n == Len(items) + 1
<1>1. PICK s \in Sources :
        /\ items' = Append(items, Plain(<<{s}>>, May(outer.readers), {}))
        /\ SetTaint(n, {s})
  BY DEF AppendTainted
<1>2. val' = val /\ outer' = outer /\ listLost' = listLost \union Overwritten(n)
  BY DEF AppendTainted
<1>3. ListGood(items, itemTaint, outer, listLost)
  BY DEF TaintInv
<1>. DEFINE v == Plain(<<{s}>>, May(outer.readers), {})
<1>4. v \in Values /\ Bare(v) /\ v.kind = "plain" /\ Stems(v) = {s} /\ v.allowed = May(outer.readers)
  BY <1>3, PlainItem DEF ListGood
<1>. HIDE DEF v
<1>5. Len(items) \in Nat /\ items \in Seq(Values)
  BY <1>3 DEF ListGood
<1>6. /\ items' \in Seq(Values) /\ Len(items') = n /\ items'[n] = v
      /\ \A i \in 1..Len(items) : items'[i] = items[i]
  <2>1. items' = Append(items, v)
    BY <1>1 DEF v
  <2>. QED  BY <2>1, <1>4, <1>5
<1>7. /\ itemTaint' \in Entries
      /\ Entry(itemTaint', outer, n) = {s} /\ {s} \subseteq Recorded(itemTaint')
      /\ \A j : j # n => Entry(itemTaint', outer, j) = Entry(itemTaint, outer, j)
      /\ n \notin DOMAIN itemTaint => Recorded(itemTaint) \subseteq Recorded(itemTaint')
  <2>1. itemTaint \in Entries /\ n \in Nat \ {0} /\ {s} \in SUBSET Sources /\ SetTaint(n, {s})
    BY <1>1, <1>3, <1>5 DEF ListGood
  <2>. HIDE DEF n
  <2>. QED  BY <2>1, EntrySet
<1>8. /\ listLost' \in SUBSET {"shifted", "overwritten"} /\ listLost \subseteq listLost'
      /\ "shifted" \in listLost' /\ "overwritten" \notin listLost' =>
           Recorded(itemTaint) \subseteq Recorded(itemTaint')
  <2>1. "shifted" \in listLost' => "shifted" \in listLost
    BY <1>2 DEF Overwritten
  <2>. QED  BY <2>1, <1>2, <1>3, <1>7 DEF Overwritten, ListGood
<1>9. ASSUME NEW i \in 1..Len(items') PROVE ItemGood(items'[i], i, itemTaint', outer, listLost')
  <2>1. CASE i = n
    BY <2>1, <1>4, <1>6, <1>7 DEF ItemGood
  <2>2. CASE i # n
    <3>1. i \in 1..Len(items) /\ items'[i] = items[i]
      BY <2>2, <1>5, <1>6
    <3>2. ItemGood(items[i], i, itemTaint, outer, listLost)
      BY <3>1, <1>3 DEF ListGood
    <3>3. Entry(itemTaint', outer, i) = Entry(itemTaint, outer, i)
      BY <2>2, <1>7
    <3>. QED  BY <3>1, <3>2, <3>3, <1>8, ItemMoves
  <2>. QED  BY <2>1, <2>2
<1>10. ListGood(items', itemTaint', outer', listLost')
  BY <1>2, <1>3, <1>6, <1>7, <1>8, <1>9 DEF ListGood
<1>. QED  BY <1>2, <1>10, ListStep

LEMMA SetItemStep ==
  ASSUME TaintInv, NEW x \in Vars, SetItem(x)
  PROVE  TaintInv'
<1>. DEFINE v == val[x]
<1>1. PICK i \in 1..Len(items) :
        /\ items' = [items EXCEPT ![i] = v]
        /\ IF Recognised(v)
           THEN SetTaint(i, Effective(v)) /\ listLost' = listLost \union Overwritten(i)
           ELSE itemTaint' = itemTaint /\ listLost' = listLost
  BY DEF SetItem
<1>2. val' = val /\ outer' = outer
  BY DEF SetItem
<1>3. ListGood(items, itemTaint, outer, listLost) /\ v \in GoodValues /\ v \in Values
  BY DEF TaintInv, GoodValues
<1>4. Len(items) \in Nat /\ items \in Seq(Values) /\ i \in Nat \ {0}
  BY <1>3 DEF ListGood
<1>5. /\ items' \in Seq(Values) /\ Len(items') = Len(items) /\ items'[i] = v
      /\ \A k \in 1..Len(items) \ {i} : items'[k] = items[k]
  BY <1>1, <1>3, <1>4
<1>6. /\ itemTaint' \in Entries
      /\ \A j : j # i => Entry(itemTaint', outer, j) = Entry(itemTaint, outer, j)
      /\ listLost' \in SUBSET {"shifted", "overwritten"} /\ listLost \subseteq listLost'
      /\ "shifted" \in listLost' /\ "overwritten" \notin listLost' =>
           Recorded(itemTaint) \subseteq Recorded(itemTaint')
  <2>1. CASE Recognised(v)
    <3>1. itemTaint \in Entries /\ Effective(v) \in SUBSET Sources /\ SetTaint(i, Effective(v))
          /\ listLost' = listLost \union Overwritten(i)
      BY <1>1, <1>3, <2>1, Fields DEF ListGood
    <3>2. /\ itemTaint' \in Entries
          /\ \A j : j # i => Entry(itemTaint', outer, j) = Entry(itemTaint, outer, j)
          /\ i \notin DOMAIN itemTaint => Recorded(itemTaint) \subseteq Recorded(itemTaint')
      BY <3>1, <1>4, EntrySet
    <3>3. "shifted" \in listLost' => "shifted" \in listLost
      BY <3>1 DEF Overwritten
    <3>. QED  BY <3>1, <3>2, <3>3, <1>3 DEF Overwritten, ListGood
  <2>2. CASE ~Recognised(v)
    BY <1>1, <1>3, <2>2 DEF ListGood
  <2>. QED  BY <2>1, <2>2
<1>. HIDE DEF v
<1>7. ASSUME NEW k \in 1..Len(items') PROVE ItemGood(items'[k], k, itemTaint', outer, listLost')
  <2>1. CASE k = i
    BY <2>1, <1>3, <1>5, GoodFits DEF ListGood
  <2>2. CASE k # i
    <3>1. k \in 1..Len(items) /\ items'[k] = items[k]
      BY <2>2, <1>5
    <3>2. ItemGood(items[k], k, itemTaint, outer, listLost)
      BY <3>1, <1>3 DEF ListGood
    <3>3. Entry(itemTaint', outer, k) = Entry(itemTaint, outer, k)
      BY <2>2, <1>6
    <3>. QED  BY <3>1, <3>2, <3>3, <1>6, ItemMoves
  <2>. QED  BY <2>1, <2>2
<1>8. ListGood(items', itemTaint', outer', listLost')
  BY <1>2, <1>3, <1>5, <1>6, <1>7 DEF ListGood
<1>. QED  BY <1>2, <1>8, ListStep

LEMMA InsertItemStep ==
  ASSUME TaintInv, NEW x \in Vars, InsertItem(x)
  PROVE  TaintInv'
<1>. DEFINE v == val[x]
            n == Len(items)
<1>1. PICK i \in 1..(n + 1) :
        /\ items' = SubSeq(items, 1, i - 1) \o <<v>> \o SubSeq(items, i, Len(items))
        /\ IF Recognised(v) THEN SetTaint(i, Effective(v)) ELSE itemTaint' = itemTaint
        /\ listLost' = listLost \union Shifted(i, i)
                         \union (IF Recognised(v) /\ i \in DOMAIN itemTaint THEN {"overwritten"} ELSE {})
  BY DEF InsertItem
<1>2. val' = val /\ outer' = outer
  BY DEF InsertItem
<1>3. ListGood(items, itemTaint, outer, listLost) /\ v \in GoodValues /\ v \in Values
  BY DEF TaintInv, GoodValues
<1>4. n \in Nat /\ items \in Seq(Values) /\ i \in Nat \ {0}
  BY <1>3 DEF ListGood
<1>5. /\ items' \in Seq(Values) /\ Len(items') = n + 1 /\ items'[i] = v
      /\ \A k \in 1..(i - 1) : items'[k] = items[k]
      /\ \A k \in i..n : items'[k + 1] = items[k]
  <2>1. v \in Values /\ i \in 1..(Len(items) + 1)
    BY <1>3
  <2>2. items' = WithItem(items, i, v)
    BY <1>1 DEF WithItem
  <2>. HIDE DEF v
  <2>. QED  BY <2>1, <2>2, <1>4, Inserted
<1>6. /\ itemTaint' \in Entries
      /\ \A j : j # i => Entry(itemTaint', outer, j) = Entry(itemTaint, outer, j)
      /\ listLost' \in SUBSET {"shifted", "overwritten"} /\ listLost \subseteq listLost'
      /\ "overwritten" \notin listLost' => Recorded(itemTaint) \subseteq Recorded(itemTaint')
  <2>1. CASE Recognised(v)
    <3>1. itemTaint \in Entries /\ Effective(v) \in SUBSET Sources /\ SetTaint(i, Effective(v))
      BY <1>1, <1>3, <2>1, Fields DEF ListGood
    <3>2. /\ itemTaint' \in Entries
          /\ \A j : j # i => Entry(itemTaint', outer, j) = Entry(itemTaint, outer, j)
          /\ i \notin DOMAIN itemTaint => Recorded(itemTaint) \subseteq Recorded(itemTaint')
      BY <3>1, <1>4, EntrySet
    <3>3. "overwritten" \notin listLost' => i \notin DOMAIN itemTaint
      BY <1>1, <2>1
    <3>. QED  BY <3>2, <3>3, <1>1, <1>3 DEF Shifted, ListGood
  <2>2. CASE ~Recognised(v)
    BY <1>1, <1>3, <2>2 DEF Shifted, ListGood
  <2>. QED  BY <2>1, <2>2
<1>7. "shifted" \notin listLost' => i > n \/ \A k \in DOMAIN itemTaint : k < i
  <2>1. ASSUME "shifted" \notin listLost', i <= n, NEW k \in DOMAIN itemTaint, k >= i PROVE FALSE
    BY <1>1, <2>1 DEF Shifted
  <2>2. DOMAIN itemTaint \subseteq Nat \ {0}
    BY <1>3, EntriesTyped DEF ListGood
  <2>. QED  BY <2>1, <2>2, <1>4
<1>. HIDE DEF v, n
<1>8. ASSUME NEW k \in 1..(n + 1) PROVE ItemGood(items'[k], k, itemTaint', outer, listLost')
  <2>1. CASE k = i
    BY <2>1, <1>3, <1>5, GoodFits DEF ListGood
  <2>2. CASE k \in 1..(i - 1)
    <3>1. k \in 1..n /\ k # i /\ items'[k] = items[k]
      BY <2>2, <1>4, <1>5
    <3>2. ItemGood(items[k], k, itemTaint, outer, listLost)
      BY <3>1, <1>3 DEF ListGood, n
    <3>3. Entry(itemTaint', outer, k) = Entry(itemTaint, outer, k)
      BY <3>1, <1>6
    <3>. QED  BY <3>1, <3>2, <3>3, <1>6, ItemMoves
  <2>3. CASE k > i
    <3>. DEFINE j == k - 1
    <3>1. j \in i..n /\ j + 1 = k /\ j \in 1..n /\ k # i /\ i <= n
      BY <2>3, <1>4
    <3>2. items'[k] = items[j]
      BY <3>1, <1>5
    <3>3. ItemGood(items[j], j, itemTaint, outer, listLost)
      BY <3>1, <1>3 DEF ListGood, n
    <3>4. ASSUME "shifted" \notin listLost'
          PROVE  Entry(itemTaint', outer, k) = Entry(itemTaint, outer, j)
      <4>1. j \notin DOMAIN itemTaint /\ k \notin DOMAIN itemTaint
        BY <3>1, <3>4, <1>4, <1>7
      <4>2. Entry(itemTaint', outer, k) = Entry(itemTaint, outer, k)
        BY <3>1, <1>6
      <4>. QED  BY <4>1, <4>2 DEF Entry
    <3>. HIDE DEF j
    <3>. QED  BY <3>2, <3>3, <3>4, <1>6, ItemMoves
  <2>. QED  BY <2>1, <2>2, <2>3, <1>4
<1>9. ListGood(items', itemTaint', outer', listLost')
  BY <1>2, <1>3, <1>5, <1>6, <1>8 DEF ListGood
<1>. QED  BY <1>2, <1>9, ListStep

LEMMA DeleteItemStep ==
  ASSUME TaintInv, DeleteItem
  PROVE  TaintInv'
<1>. DEFINE n == Len(items)
<1>1. PICK i \in 1..n :
        /\ items' = SubSeq(items, 1, i - 1) \o SubSeq(items, i + 1, Len(items))
        /\ listLost' = listLost \union Shifted(i, i + 1)
  BY DEF DeleteItem
<1>2. val' = val /\ itemTaint' = itemTaint /\ outer' = outer
  BY DEF DeleteItem
<1>3. ListGood(items, itemTaint, outer, listLost)
  BY DEF TaintInv
<1>4. n \in Nat /\ items \in Seq(Values) /\ i \in Nat \ {0}
  BY <1>3 DEF ListGood
<1>5. /\ items' \in Seq(Values) /\ Len(items') = n - 1
      /\ \A k \in 1..(i - 1) : items'[k] = items[k]
      /\ \A k \in i..(n - 1) : items'[k] = items[k + 1]
  BY <1>1, <1>4, Deleted
<1>6. listLost' \in SUBSET {"shifted", "overwritten"} /\ listLost \subseteq listLost'
  BY <1>1, <1>3 DEF Shifted, ListGood
<1>7. "shifted" \notin listLost' => i + 1 > n \/ \A k \in DOMAIN itemTaint : k < i
  <2>1. ASSUME "shifted" \notin listLost', i + 1 <= n, NEW k \in DOMAIN itemTaint, k >= i PROVE FALSE
    BY <1>1, <2>1 DEF Shifted
  <2>2. DOMAIN itemTaint \subseteq Nat \ {0}
    BY <1>3, EntriesTyped DEF ListGood
  <2>. QED  BY <2>1, <2>2, <1>4
<1>. HIDE DEF n
<1>8. ASSUME NEW k \in 1..(n - 1) PROVE ItemGood(items'[k], k, itemTaint, outer, listLost')
  <2>1. CASE k < i
    <3>1. k \in 1..n /\ items'[k] = items[k]
      BY <2>1, <1>4, <1>5
    <3>2. ItemGood(items[k], k, itemTaint, outer, listLost)
      BY <3>1, <1>3 DEF ListGood, n
    <3>. QED  BY <3>1, <3>2, <1>6, ItemMoves
  <2>2. CASE k >= i
    <3>1. k \in i..(n - 1) /\ k + 1 \in 1..n /\ i + 1 <= n
      BY <2>2, <1>4
    <3>2. items'[k] = items[k + 1]
      BY <3>1, <1>5
    <3>3. ItemGood(items[k + 1], k + 1, itemTaint, outer, listLost)
      BY <3>1, <1>3 DEF ListGood, n
    <3>4. ASSUME "shifted" \notin listLost'
          PROVE  Entry(itemTaint, outer, k) = Entry(itemTaint, outer, k + 1)
      <4>1. k \notin DOMAIN itemTaint /\ k + 1 \notin DOMAIN itemTaint
        BY <3>1, <3>4, <1>4, <1>7
      <4>. QED  BY <4>1 DEF Entry
    <3>. QED  BY <3>2, <3>3, <3>4, <1>6, ItemMoves
  <2>. QED  BY <2>1, <2>2, <1>4
<1>9. ListGood(items', itemTaint', outer', listLost')
  BY <1>2, <1>3, <1>5, <1>6, <1>8 DEF ListGood
<1>. QED  BY <1>2, <1>9, ListStep

LEMMA TaintInit == Init => TaintInv
<1>. SUFFICES ASSUME Init PROVE TaintInv
  OBVIOUS
<1>1. Empty \in GoodValues
  <2>1. <<>> \in Seq(SUBSET Sources) /\ {} \in SUBSET Mishaps /\ 1..Len(<<>>) = {}
    OBVIOUS
  <2>. QED  BY <2>1, PlainGood DEF Empty
<1>2. val \in [Vars -> GoodValues]
  BY <1>1 DEF Init
<1>3. itemTaint \in Entries
  <2>1. itemTaint \in [{} -> SUBSET Sources]
    BY DEF Init
  <2>. QED  BY <2>1 DEF Entries
<1>4. items \in Seq(Values) /\ Len(items) = 0 /\ outer.sources = {} /\ outer.readers = {} /\ listLost = {}
  BY DEF Init
<1>5. ListGood(items, itemTaint, outer, listLost)
  BY <1>3, <1>4 DEF ListGood, ReaderSet
<1>. QED  BY <1>2, <1>5 DEF TaintInv

LEMMA TaintStep == TaintInv /\ [Next]_vars => TaintInv'
<1>. SUFFICES ASSUME TaintInv, [Next]_vars PROVE TaintInv'
  OBVIOUS
<1>1. ASSUME NEW x \in Vars, NEW y \in Vars, NEW z \in Vars,
             \/ Add(x, y, z) \/ Combine(x, y, z) \/ FormatBytes(x, y, z) \/ Merge(x, y, z)
             \/ Encode(x, y, z)
      PROVE  TaintInv'
  BY <1>1, BinaryStep
<1>2. ASSUME NEW x \in Vars, NEW y \in Vars,
             \/ Register(x) \/ Annotate(x) \/ Literal(x)
             \/ TakePart(x, y) \/ SplitPart(x, y) \/ TakeOne(x, y) \/ Transform(x, y) \/ Recode(x, y)
             \/ Dump(x, y) \/ Unwrap(x, y)
      PROVE  TaintInv'
  BY <1>2, UnaryStep
<1>3. ASSUME NEW x \in Vars, SetItem(x) \/ InsertItem(x) \/ GetItem(x) \/ SliceList(x)
      PROVE  TaintInv'
  BY <1>3, SetItemStep, InsertItemStep, ItemStep
<1>4. CASE NewList \/ AppendTainted \/ DeleteItem
  BY <1>4, NewListStep, AppendTaintedStep, DeleteItemStep
<1>5. CASE UNCHANGED vars
  <2>1. val' = val /\ items' = items /\ itemTaint' = itemTaint /\ outer' = outer /\ listLost' = listLost
    BY <1>5 DEF vars
  <2>2. ListGood(items', itemTaint', outer', listLost')
    BY <2>1 DEF TaintInv
  <2>. QED  BY <2>1, <2>2, ListStep
<1>. QED  BY <1>1, <1>2, <1>3, <1>4, <1>5 DEF Next

LEMMA TaintAlways == Spec => []TaintInv
BY TaintInit, TaintStep, PTL DEF Spec

-----------------------------------------------------------------------------
(* The theorems.                                                           *)

\* However a value was computed, every character's true origin is recorded for that character and
\* for the value, unless an operation that loses metadata was on its way (value.py:232-247).
THEOREM OriginsAreKept == Spec => []NothingLaundered
<1>1. TaintInv => NothingLaundered
  <2>. SUFFICES ASSUME TaintInv, NEW x \in Vars, val[x].lost = {}, NEW i \in 1..Len(val[x].origins)
                PROVE  /\ val[x].origins[i] \subseteq Effective(val[x])
                       /\ val[x].kind = "str" => val[x].origins[i] \subseteq Get(val[x].ct, i)
    BY DEF NothingLaundered
  <2>1. val[x] \in Values /\ Accounted(val[x])
    BY DEF TaintInv, GoodValues, Sound
  <2>. QED  BY <2>1, StemsAccounted DEF Accounted
<1>. QED  BY TaintAlways, <1>1, PTL

\* No computation lets a principal read what it may not read (value.py:284-304).
THEOREM ReadersOnlyNarrow == Spec => []ReadersNarrow
<1>1. TaintInv => ReadersNarrow
  BY DEF TaintInv, GoodValues, Sound, ReadersNarrow
<1>. QED  BY TaintAlways, <1>1, PTL

\* A list as a whole accounts for all its items, in whatever order they were appended, inserted,
\* set and deleted, until the entry of another item is overwritten (value.py:1018-1063).
THEOREM ListsAccountForItems == Spec => []ListAccountsForItems
<1>1. TaintInv => ListAccountsForItems
  <2>. SUFFICES ASSUME TaintInv, "overwritten" \notin listLost, NEW i \in 1..Len(items), items[i].lost = {}
                PROVE  Stems(items[i]) \subseteq ListSources
    BY DEF ListAccountsForItems
  <2>1. ItemGood(items[i], i, itemTaint, outer, listLost)
    BY DEF TaintInv, ListGood
  <2>2. CASE items[i].kind = "plain"
    BY <2>1, <2>2 DEF ItemGood, ListSources, Recorded
  <2>3. CASE items[i].kind # "plain"
    <3>2. items[i] \in Values /\ Accounted(items[i])
      BY <2>1, <2>3 DEF ItemGood, Sound
    <3>1. Stems(items[i]) \subseteq Effective(items[i])
      BY <3>2, StemsAccounted
    <3>. QED  BY <3>1 DEF ListSources, Collected, Effective
  <2>. QED  BY <2>2, <2>3
<1>. QED  BY TaintAlways, <1>1, PTL

\* A call of a critical tool with data of untrusted origin in any argument is denied, whatever the
\* data went through (flow.py:152-304, taint_middleware.py:56-108).
THEOREM UntrustedIsKeptOut == Spec => []UntrustedNeverReachesCritical
<1>1. TaintInv => UntrustedNeverReachesCritical
  <2>. SUFFICES ASSUME TaintInv, NEW args \in SUBSET Vars, NEW tool \in Critical, NEW x \in args,
                       val[x].lost = {}, Seen(x), NEW s \in Stems(val[x]), s.label \in Untrusted
                PROVE  PreDispatch(args, tool) = "DENY"
    BY DEF UntrustedNeverReachesCritical
  <2>1. s \in Collected(val[x])
    BY GoodStems DEF TaintInv, Collected, Effective
  <2>2. Analyze(Collected(val[x]), tool) = "DENY"
    BY <2>1, UntrustedDenied
  <2>3. "DENY" \in {Analyze(Collected(val[y]), tool) : y \in {y \in args : Seen(y)}}
    BY <2>2
  <2>. QED  BY <2>3 DEF PreDispatch, Conclude
<1>. QED  BY TaintAlways, <1>1, PTL

\* Mixing data never makes a critical tool easier to reach, if no source labels an agent's words as
\* trusted; none of the factories of Source does (labels.py:229-368).  With one that did, the agent's
\* data alone would be quarantined, and with a trusted memory be allowed (flow.py:426-432).
THEOREM MixingDoesNotRelax ==
  ASSUME \A s \in Sources : s.label = "AGENT" => s.trust # "TRUSTED"
  PROVE  Spec => []MixingNeverRelaxes
<1>1. TaintInv => MixingNeverRelaxes
  <2>. SUFFICES ASSUME TaintInv, NEW x \in Vars, NEW y \in Vars, NEW tool \in Critical
                PROVE  Rank(Analyze(Effective(val[x]), tool))
                         <= Rank(Analyze(Effective(val[x]) \union Effective(val[y]), tool))
    BY DEF MixingNeverRelaxes
  <2>1. Effective(val[x]) \in SUBSET Sources /\ Effective(val[y]) \in SUBSET Sources
    BY Fields DEF TaintInv, GoodValues
  <2>. QED  BY <2>1, MoreIsStricter, ValuesAssumption
<1>. QED  BY TaintAlways, <1>1, PTL

=============================================================================

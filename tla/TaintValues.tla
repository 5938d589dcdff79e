----------------------------- MODULE TaintValues -----------------------------
(***************************************************************************)
(* The values of src/hermes_katana/taint/value.py and the operations on    *)
(* them.  Characters are not told apart except by where they come from, so *)
(* a text is the sequence of its characters' origins: the sources that     *)
(* each of them really stems from; a run of characters that are alike is   *)
(* one.  Everything else in a value is what the code records about it.     *)
(***************************************************************************)
EXTENDS Naturals, Sequences, TaintFlow

CONSTANTS
  Sources,    \* the sources in use
  Readers,    \* principals
  NoReaders   \* the sentinel that stands for "nobody"

ASSUME ValuesAssumption == Sources \subseteq Source /\ NoReaders \notin Readers

-----------------------------------------------------------------------------
(* Readers *)

ReaderSet == SUBSET (Readers \union {NoReaders})

\* Who may read a value with these readers: no restriction means everybody.
May(readers) == IF readers = {} THEN Readers ELSE readers \intersect Readers

ReaderIntersection_Plain(left, right) ==   \* mutant: disjoint restrictions become public
  IF left = {} THEN right ELSE IF right = {} THEN left ELSE left \intersect right

ReaderIntersection(left, right) ==
  CASE left = {}  -> right
    [] left # {} /\ right = {} -> left
    [] left # {} /\ right # {} -> IF left \intersect right = {} THEN {NoReaders} ELSE left \intersect right

-----------------------------------------------------------------------------
(* CharTaint: sources by index, with a default for the rest *)

Uniform(S) == [map |-> [i \in {} |-> {}], default |-> S]

Get(ct, i) == IF i \in DOMAIN ct.map THEN ct.map[i] ELSE ct.default

AllSources(ct) == ct.default \union UNION {ct.map[i] : i \in DOMAIN ct.map}

\* The taint of the characters at the indices idx, in that order.
Slice(ct, idx) ==
  [map     |-> [k \in {j \in 1..Len(idx) : Get(ct, idx[j]) # ct.default} |-> Get(ct, idx[k])],
   default |-> ct.default]

Concat_Unshifted(ct, other, len) ==   \* mutant: the entries of other keep their index
  LET default == ct.default \union other.default
      merged  == [i \in DOMAIN ct.map \union DOMAIN other.map |->
                    IF i \in DOMAIN other.map THEN other.map[i] \union ct.default
                                              ELSE ct.map[i] \union other.default]
  IN [map |-> [i \in {j \in DOMAIN merged : merged[j] # default} |-> merged[i]], default |-> default]

\* A map of len characters followed by another.  An entry that equals the new
\* default is left out.
Concat(ct, other, len) ==
  LET default == ct.default \union other.default
      shifted == {i + len : i \in DOMAIN other.map}
      merged  == [i \in DOMAIN ct.map \union shifted |->
                    IF i \in shifted THEN other.map[i - len] \union ct.default
                                     ELSE ct.map[i] \union other.default]
  IN [map |-> [i \in {j \in DOMAIN merged : merged[j] # default} |-> merged[i]], default |-> default]

-----------------------------------------------------------------------------
(* Values *)

\* kind is "plain" for Python's own types, "str" and "bytes" for TaintedStr and
\* TaintedBytes, "wrapped" for any other TaintedValue.  allowed are the
\* principals that may really read it, and lost the operations on its way that
\* are known to lose metadata.
Value(kind, origins, ct, sources, readers, allowed, lost) ==
  [lost |-> lost, sources |-> sources, readers |-> readers, kind |-> kind,
   origins |-> origins, allowed |-> allowed, ct |-> ct]

Tainted(v) == v.kind # "plain"

\* What containers and the middleware take for tainted: TaintedBytes is a
\* subclass of bytes only, which their type checks do not name.
Recognised(v) == v.kind \in {"str", "wrapped"}

Plain(origins, allowed, lost) == Value("plain", origins, Uniform({}), {}, {}, allowed, lost)

\* tracker.register(): a text from one source.
Registered(s, readers) == Value("str", <<{s}>>, Uniform({s}), {s}, readers, May(readers), {})

\* TaintedStr() with a CharTaint of the caller's, which says that character i of two
\* stems from s and the other from none; sources need not say so too.
Annotated(i, s, sources) ==
  Value("str", [k \in 1..2 |-> IF k = i THEN {s} ELSE {}],
        [map |-> [k \in {i} |-> {s}], default |-> {}], sources, {}, Readers, {})

Effective(v) == IF v.kind = "str" THEN v.sources \union AllSources(v.ct) ELSE v.sources

\* collect_sources(): also those of a value inside the wrapper.
Collected(v) == v.sources \union AllSources(v.ct)

Stems(v) == UNION {v.origins[i] : i \in 1..Len(v.origins)}

\* A text whose characters may all stem from a and from b.
Mixed(a, b) == <<Stems(a) \union Stems(b)>>

\* join(), format(), % and derive(): recorded with the metadata of both.
Blend_SourcesOnly(a, b) ==   \* mutant: the union of the sources, the readers of self
  LET sources == Effective(a) \union Effective(b)
  IN Value("str", Mixed(a, b), Uniform(sources), sources,
           a.readers, a.allowed \intersect b.allowed, a.lost \union b.lost)

Blend(a, b) ==
  LET sources == Effective(a) \union Effective(b)
  IN Value("str", Mixed(a, b), Uniform(sources), sources,
           ReaderIntersection(a.readers, b.readers), a.allowed \intersect b.allowed, a.lost \union b.lost)

\* replace(), and format() and % with bytes, a mapping or a nested container:
\* the metadata of the second operand are not recorded.
Ignoring(a, b) ==
  Value("str", Mixed(a, b), Uniform(Effective(a)), Effective(a),
        a.readers, a.allowed \intersect b.allowed, a.lost \union b.lost \union {"ignored"})

\* a + b for two texts or two byte strings, one of which is tainted.
Plus(a, b) ==
  Value(IF Tainted(a) THEN a.kind ELSE b.kind,
        a.origins \o b.origins,
        IF "bytes" \in {a.kind, b.kind} THEN Uniform(a.sources \union b.sources)
                                        ELSE Concat(a.ct, b.ct, Len(a.origins)),
        Effective(a) \union Effective(b),
        ReaderIntersection(a.readers, b.readers),
        a.allowed \intersect b.allowed,
        a.lost \union b.lost)

\* The characters of a at the indices idx, with the taint recorded for those at
\* the indices at.
PartAs(a, idx, at) ==
  LET ct     == IF a.kind = "str" THEN Slice(a.ct, at) ELSE a.ct
      adrift == a.kind = "str" /\ \E k \in 1..Len(idx) : Get(a.ct, at[k]) # Get(a.ct, idx[k])
  IN [a EXCEPT !.origins = [k \in 1..Len(idx) |-> a.origins[idx[k]]],
               !.ct = ct, !.sources = IF a.kind = "str" THEN AllSources(ct) ELSE @,
               !.lost = IF adrift THEN @ \union {"spaces"} ELSE @]

\* Slicing, strip, split, partition, removeprefix.
Part(a, idx) == PartAs(a, idx, idx)

\* A single character by its index.  A single byte is a plain number.
At(a, i) ==
  IF a.kind = "bytes" THEN Plain(<<a.origins[i]>>, a.allowed, a.lost \union {"byte"})
  ELSE [a EXCEPT !.origins = <<@[i]>>, !.ct = Uniform(Get(a.ct, i)), !.sources = Get(a.ct, i)]

\* upper(), translate() and the like with a result of the same length, whose
\* i-th character stems from the i-th of a unless translate() moved it.
SameLength(a, origins) ==
  [a EXCEPT !.origins = origins, !.sources = Effective(a),
            !.lost = IF origins = a.origins THEN @ ELSE @ \union {"moved"}]

\* The operations that copy .sources only lose what the map alone says.
Unlisted(v) == IF Effective(v) = v.sources THEN {} ELSE {"unlisted"}

\* encode() and decode().
Recoded(a) ==
  [a EXCEPT !.kind = IF a.kind = "str" THEN "bytes" ELSE "str",
            !.ct = Uniform(a.sources), !.lost = @ \union Unlisted(a)]

\* merge_metadata(): the text of a, declared to depend on b as well.  The taint
\* of the characters is not touched.
Merged(a, b) ==
  [a EXCEPT !.origins = [i \in 1..Len(a.origins) |-> a.origins[i] \union Stems(b)],
            !.sources = Effective(a) \union Effective(b),
            !.readers = ReaderIntersection(a.readers, b.readers),
            !.allowed = @ \intersect b.allowed,
            !.lost = @ \union b.lost \union {"merged"}]

\* A hooked codec, or json.dumps(), applied to a, or to a and b in a list
\* (codecs.py): readers are united, and a result without sources is plain.
Coded(a, b) ==
  LET sources == a.sources \union b.sources
      readers == a.readers \union b.readers
      allowed == a.allowed \intersect b.allowed
      widened == May(IF sources = {} THEN {} ELSE readers) # May(ReaderIntersection(a.readers, b.readers))
      lost    == a.lost \union b.lost \union Unlisted(a) \union Unlisted(b) \union (IF widened THEN {"codec"} ELSE {})
  IN IF sources = {} THEN Plain(Mixed(a, b), allowed, lost)
     ELSE Value("str", Mixed(a, b), Uniform(sources), sources, readers, allowed, lost)

\* taint_aware_json_dumps() records the sources and no readers.
Dumped(a) ==
  Value("str", Mixed(a, a), Uniform(Effective(a)), Effective(a), {}, a.allowed,
        a.lost \union (IF a.readers = {} THEN {} ELSE {"json"}))

=============================================================================

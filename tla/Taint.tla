-------------------------------- MODULE Taint --------------------------------
(***************************************************************************)
(* An agent computes with tainted values: variables that hold texts and    *)
(* byte strings, and one TaintedList.  Each step is one operation of       *)
(* src/hermes_katana/taint/value.py, tracker.py or codecs.py; what the     *)
(* middleware would say to a call is a function of the state.              *)
(***************************************************************************)
EXTENDS TaintValues

CONSTANTS
  Vars,       \* the agent's variables
  MaxLen,     \* bound: characters of a text, items of the list
  MaxSteps    \* bound: operations

ASSUME TaintAssumption == MaxLen \in Nat /\ MaxSteps \in Nat

VARIABLES
  val,        \* the value of each variable
  items,      \* TaintedList.value
  itemTaint,  \* TaintedList._item_taint: sources by index
  outer       \* the list's own sources and readers

\* History: what happened to the list, and the operations so far.
VARIABLES listLost, steps

vars == <<val, items, itemTaint, outer, listLost, steps>>

list == <<items, itemTaint, outer, listLost>>

Empty == Plain(<<>>, Readers, {})

Init ==
  /\ val = [x \in Vars |-> Empty]
  /\ items = <<>> /\ itemTaint = [i \in {} |-> {}]
  /\ outer = [sources |-> {}, readers |-> {}]
  /\ listLost = {} /\ steps = 0

Step == steps < MaxSteps /\ steps' = steps + 1

Assign(x, v) ==
  /\ Step
  /\ val' = [val EXCEPT ![x] = v]
  /\ UNCHANGED list

-----------------------------------------------------------------------------
(* Texts *)

\* The registrar's functions and tracker.register().
Register(x) ==
  \E s \in Sources, readers \in SUBSET Readers : Assign(x, Registered(s, readers))

Annotate(x) ==
  \E s \in Sources, listed \in BOOLEAN, i \in 1..2 :
    Assign(x, Annotated(i, s, IF listed THEN {s} ELSE {}))

Literal(x) == Assign(x, Plain(<<{}>>, Readers, {}))

Add(x, y, z) ==
  LET a == val[y]  b == val[z]
  IN /\ a.kind = b.kind \/ "plain" \in {a.kind, b.kind}
     /\ a.kind \in {"str", "bytes"} \/ b.kind \in {"str", "bytes"}
     /\ "wrapped" \notin {a.kind, b.kind}
     /\ Len(a.origins) + Len(b.origins) <= MaxLen
     /\ Assign(x, Plus(a, b))

\* A slice from i with a step of one or minus one.
TakePart(x, y) ==
  /\ val[y].kind \in {"str", "bytes"}
  /\ \E i \in 1..Len(val[y].origins), j \in 0..Len(val[y].origins) :
       \/ Assign(x, Part(val[y], [k \in 1..(IF j < i THEN 0 ELSE j - i + 1) |-> i + k - 1]))
       \/ j > 1 /\ Assign(x, Part(val[y], [k \in 1..j |-> j - k + 1]))

\* A later part of split() of a text with a space that str.split() knows and the
\* search for the part does not: the part's taint is read d characters early.
SplitPart(x, y) ==
  /\ val[y].kind = "str"
  /\ \E i, j \in 1..Len(val[y].origins) : \E d \in 1..i - 1 :
       /\ i <= j
       /\ Assign(x, PartAs(val[y], [k \in 1..j - i + 1 |-> i + k - 1],
                                  [k \in 1..j - i + 1 |-> i + k - 1 - d]))

TakeOne(x, y) ==
  /\ val[y].kind \in {"str", "bytes"}
  /\ \E i \in 1..Len(val[y].origins) : Assign(x, At(val[y], i))

Transform(x, y) ==
  /\ val[y].kind = "str" /\ val[y].origins # <<>>
  /\ \/ Assign(x, SameLength(val[y], val[y].origins))
     \/ Assign(x, SameLength(val[y], [i \in 1..Len(val[y].origins) |-> val[y].origins[1]]))

\* join(), format(), %, derive(), and rsplit() or center() with y = z.
Combine(x, y, z) ==
  /\ val[y].kind = "str" /\ val[z].kind \in {"str", "plain", "wrapped"}
  /\ Assign(x, Blend(val[y], val[z])) \/ Assign(x, Ignoring(val[y], val[z]))

FormatBytes(x, y, z) ==
  /\ val[y].kind = "str" /\ val[z].kind = "bytes"
  /\ Assign(x, Ignoring(val[y], val[z]))

Recode(x, y) ==
  /\ val[y].kind \in {"str", "bytes"}
  /\ Assign(x, Recoded(val[y]))

Merge(x, y, z) ==
  /\ val[y].kind = "str" /\ Tainted(val[z])
  /\ Assign(x, Merged(val[y], val[z]))

Encode(x, y, z) ==
  /\ Tainted(val[y]) \/ Tainted(val[z])
  /\ Assign(x, Coded(val[y], val[z]))

Dump(x, y) == Tainted(val[y]) /\ Assign(x, Dumped(val[y]))

\* unwrap(), and f-strings, which CPython assembles without asking the value.
Unwrap(x, y) ==
  /\ Tainted(val[y])
  /\ Assign(x, Plain(val[y].origins, val[y].allowed, val[y].lost \union {"unwrapped"}))

-----------------------------------------------------------------------------
(* The list *)

ItemSources(i) == IF i \in DOMAIN itemTaint THEN itemTaint[i] ELSE outer.sources

SetTaint(i, S) == itemTaint' = [k \in DOMAIN itemTaint \union {i} |-> IF k = i THEN S ELSE itemTaint[k]]

\* After items have moved, the entry at an index may be that of another item.
Overwritten(i) == IF i \in DOMAIN itemTaint /\ "shifted" \in listLost THEN {"overwritten"} ELSE {}

\* The items from first on move, while there are entries from i on.
Shifted(i, first) ==
  IF first <= Len(items) /\ \E k \in DOMAIN itemTaint : k >= i THEN {"shifted"} ELSE {}

\* TaintedList(value): a list of n plain items from one source.
NewList ==
  /\ Step /\ items = <<>>
  /\ \E n \in 0..MaxLen, s \in Sources, readers \in SUBSET Readers :
       /\ items' = [i \in 1..n |-> Plain(<<{s}>>, May(readers), {})]
       /\ outer' = [sources |-> {s}, readers |-> readers]
  /\ itemTaint' = [i \in {} |-> {}] /\ listLost' = {}
  /\ UNCHANGED val

AppendTainted_LastIndex ==   \* mutant: the entry goes to the item before
  /\ Step /\ Len(items) < MaxLen
  /\ \E s \in Sources :
       /\ items' = Append(items, Plain(<<{s}>>, May(outer.readers), {}))
       /\ SetTaint(Len(items), {s})
  /\ listLost' = listLost \union Overwritten(Len(items))
  /\ UNCHANGED <<val, outer>>

\* append_tainted(): a plain item with sources of its own.
AppendTainted ==
  /\ Step /\ Len(items) < MaxLen
  /\ \E s \in Sources :
       /\ items' = Append(items, Plain(<<{s}>>, May(outer.readers), {}))
       /\ SetTaint(Len(items) + 1, {s})
  /\ listLost' = listLost \union Overwritten(Len(items) + 1)
  /\ UNCHANGED <<val, outer>>

\* lst[i] = x: plain values and bytes leave the entry alone.
SetItem(x) ==
  /\ Step
  /\ \E i \in 1..Len(items) :
       /\ items' = [items EXCEPT ![i] = val[x]]
       /\ IF Recognised(val[x])
          THEN /\ SetTaint(i, Effective(val[x]))
               /\ listLost' = listLost \union Overwritten(i)
          ELSE UNCHANGED <<itemTaint, listLost>>
  /\ UNCHANGED <<val, outer>>

InsertItem(x) ==
  /\ Step /\ Len(items) < MaxLen
  /\ \E i \in 1..Len(items) + 1 :
       /\ items' = SubSeq(items, 1, i - 1) \o <<val[x]>> \o SubSeq(items, i, Len(items))
       /\ IF Recognised(val[x]) THEN SetTaint(i, Effective(val[x])) ELSE UNCHANGED itemTaint
       /\ listLost' = listLost \union Shifted(i, i)
                        \union (IF Recognised(val[x]) /\ i \in DOMAIN itemTaint THEN {"overwritten"} ELSE {})
  /\ UNCHANGED <<val, outer>>

\* del lst[i]: the entries of the items behind it stay where they were.
DeleteItem ==
  /\ Step
  /\ \E i \in 1..Len(items) :
       /\ items' = SubSeq(items, 1, i - 1) \o SubSeq(items, i + 1, Len(items))
       /\ listLost' = listLost \union Shifted(i, i + 1)
  /\ UNCHANGED <<val, itemTaint, outer>>

\* Bytes in a wrapper that does not say what the bytes do.
Boxed(v, S) ==
  IF v.kind = "bytes" /\ ~(v.sources \subseteq S /\ May(outer.readers) \subseteq May(v.readers))
  THEN {"boxed"} ELSE {}

\* x = lst[i]: plain values and bytes are wrapped with the entry at their index.
Item(i) ==
  IF Recognised(items[i]) THEN items[i]
  ELSE LET S == ItemSources(i)
       IN Value("wrapped", items[i].origins, Uniform(S \union items[i].sources), S, outer.readers,
                items[i].allowed, items[i].lost \union listLost \union Boxed(items[i], S))

GetItem(x) == \E i \in 1..Len(items) : Assign(x, Item(i))

\* x = lst[i:j] is a plain list: plain items come without their sources.
SliceList(x) ==
  \E i \in 1..Len(items) :
    Assign(x, IF Tainted(items[i]) THEN items[i]
              ELSE Plain(items[i].origins, items[i].allowed, items[i].lost \union {"sliced"}))

-----------------------------------------------------------------------------

Next ==
  \/ \E x \in Vars :
       \/ Register(x) \/ Annotate(x) \/ Literal(x)
       \/ SetItem(x) \/ InsertItem(x) \/ GetItem(x) \/ SliceList(x)
       \/ \E y \in Vars :
            \/ TakePart(x, y) \/ SplitPart(x, y) \/ TakeOne(x, y) \/ Transform(x, y) \/ Recode(x, y)
            \/ Dump(x, y) \/ Unwrap(x, y)
            \/ \E z \in Vars :
                 Add(x, y, z) \/ Combine(x, y, z) \/ FormatBytes(x, y, z) \/ Merge(x, y, z) \/ Encode(x, y, z)
  \/ NewList \/ AppendTainted \/ DeleteItem

Spec == Init /\ [][Next]_vars

-----------------------------------------------------------------------------
(* A call *)

\* collect_sources() of the list: its own sources, all entries, and what the
\* items carry.
ListSources ==
  outer.sources \union (UNION {itemTaint[i] : i \in DOMAIN itemTaint})
                \union (UNION {Collected(items[i]) : i \in 1..Len(items)})

\* _find_tainted(): bytes are not looked at.
Seen(x) == Recognised(val[x])

\* pre_dispatch with the values of args as arguments.  A value with readers makes it
\* raise (a Reader has no name), and the chain denies the call.
PreDispatch_FirstOnly(args, tool) ==   \* mutant: only one argument is checked
  LET seen == {x \in args : Seen(x)}
  IN IF seen = {} THEN "ALLOW" ELSE Conclude({Analyze(Collected(val[CHOOSE x \in seen : TRUE]), tool)})

PreDispatch(args, tool) ==
  IF \E x \in args : Seen(x) /\ val[x].readers # {} THEN "DENY"
  ELSE Conclude({Analyze(Collected(val[x]), tool) : x \in {x \in args : Seen(x)}})

-----------------------------------------------------------------------------
(* Properties *)

\* However a value was computed, every character's true origin is in the sources
\* recorded for that character and for the value, unless one of the operations
\* in lost was on its way.
NothingLaundered ==
  \A x \in Vars : val[x].lost = {} =>
    \A i \in 1..Len(val[x].origins) :
      /\ val[x].origins[i] \subseteq Effective(val[x])
      /\ val[x].kind = "str" => val[x].origins[i] \subseteq Get(val[x].ct, i)

\* No computation lets a principal read what it may not read: a value is never
\* less restricted than the values it was made of.
ReadersNarrow ==
  \A x \in Vars : val[x].lost = {} => May(val[x].readers) \subseteq val[x].allowed

\* The list taken as a whole accounts for the origins of all its items, also after
\* items were moved and removed, until an entry of another item is overwritten.
ListAccountsForItems ==
  "overwritten" \notin listLost =>
    \A i \in 1..Len(items) : items[i].lost = {} => Stems(items[i]) \subseteq ListSources

\* A call of a critical tool with data of untrusted origin in any argument is
\* denied, whatever the other arguments are and whatever the data went
\* through, unless an operation in lost was on its way or it is bytes.
UntrustedNeverReachesCritical ==
  \A args \in SUBSET Vars, tool \in Critical :
    (\E x \in args : /\ val[x].lost = {} /\ Seen(x)
                     /\ \E s \in Stems(val[x]) : s.label \in Untrusted)
      => PreDispatch(args, tool) = "DENY"

\* Mixing data never makes a critical tool easier to reach: the decision on a
\* mixture is at least as strict as that on each part.
MixingNeverRelaxes ==
  \A x, y \in Vars, tool \in Critical :
    Rank(Analyze(Effective(val[x]), tool)) <= Rank(Analyze(Effective(val[x]) \union Effective(val[y]), tool))

=============================================================================

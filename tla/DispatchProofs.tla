--------------------------- MODULE DispatchProofs ---------------------------
(***************************************************************************)
(* Machine-checked proofs about Dispatch, for every number of calls,       *)
(* middlewares and threads and stashes of every size.                      *)
(***************************************************************************)
EXTENDS Dispatch, SequenceTheorems, WellFoundedInduction, TLAPS

-----------------------------------------------------------------------------
(* The inductive invariant, in two parts.                                  *)

Typed ==
  /\ plugin \in {"on", "error", "off"}
  /\ pc \in [Calls -> Label]
  /\ log \in [Calls -> [pre : SUBSET Decision, short : Nat, post : Nat]]
  /\ verdicts \in [Calls -> SUBSET {"deny", "raise", "escalate", "approved"}]
  /\ popped \in [Calls -> SUBSET Calls]

\* A call in front of the chain has left no trace, one that waits for an
\* approval was escalated and recorded so.
BeforeGate ==
  \A c \in Calls :
    /\ pc[c] = "new" => verdicts[c] = {} /\ log[c].pre = {}
    /\ pc[c] = "ask" => verdicts[c] = {"escalate"} /\ log[c].pre = {"escalate"}

\* The plugin is without a chain only while it is registered again.
GapIsKnown == plugin = "off" => "registered" \in causes

GateInv == Typed /\ BeforeGate /\ GapIsKnown /\ GateHolds

\* The stash holds contexts of calls past the gate, each once, and none that a
\* hook has taken before.
StashSound ==
  /\ stash \in Seq(Calls)
  /\ \A i, j \in 1..Len(stash) : stash[i] = stash[j] => i = j
  /\ \A i \in 1..Len(stash) :
       /\ PastGate(stash[i]) /\ log[stash[i]].post = 0
       /\ \A c \in Calls : stash[i] \notin popped[c]

\* What was taken, or completed, was past the gate.
TakenSound ==
  /\ \A c \in Calls : \A d \in popped[c] : PastGate(d)
  /\ \A c \in Calls : ~PastGate(c) => log[c].post = 0

StashInv == Typed /\ StashSound /\ TakenSound /\ ContextUsedOnce

-----------------------------------------------------------------------------
(* The verdict of the chain and the sequences of the stash.                *)

\* Every nonempty set of natural numbers has a least element ...
LEMMA LeastNat ==
  ASSUME NEW S \in SUBSET Nat, S # {}
  PROVE  \E x \in S : \A y \in S : x <= y
<1>1. PICK x \in S : \A y \in S : <<y, x>> \notin OpToRel(<, Nat)
  BY WFMin, NatLessThanWellFounded
<1>2. ASSUME NEW y \in S PROVE ~(y < x)
  BY <1>1 DEF OpToRel
<1>. QED  BY <1>2

\* ... and if it is bounded a greatest.
LEMMA GreatestNat ==
  ASSUME NEW S \in SUBSET Nat, S # {}, NEW b \in Nat, \A x \in S : x <= b
  PROVE  \E x \in S : \A y \in S : y <= x
<1>1. PICK m \in {b - x : x \in S} : \A y \in {b - x : x \in S} : m <= y
  <2>1. \A x \in S : b - x \in Nat /\ b - x \in {b - y : y \in S}
    OBVIOUS
  <2>. QED  BY <2>1, LeastNat
<1>2. PICK x \in S : m = b - x
  OBVIOUS
<1>3. ASSUME NEW y \in S PROVE y <= x
  <2>1. b - x <= b - y /\ x \in Nat /\ y \in Nat
    BY <1>1, <1>2
  <2>. QED  BY <2>1
<1>. QED  BY <1>3

\* The operator that picks it.
LEMMA MinIsLeast ==
  ASSUME NEW S \in SUBSET Nat, S # {}
  PROVE  Min(S) \in S /\ \A x \in S : Min(S) <= x
<1>1. \E x \in S : \A y \in S : x <= y
  BY LeastNat
<1>. QED  BY <1>1 DEF Min

\* A call that the chain lets through heard no denial and no failure, and it
\* is escalated exactly if a middleware asked for an approval.
LEMMA VerdictSound ==
  ASSUME NEW script \in Script, Verdict(script) # "deny"
  PROVE  /\ Heard(script) \subseteq {"allow", "escalate"}
         /\ Verdict(script) = IF "escalate" \in Heard(script) THEN "escalate" ELSE "allow"
<1>1. Heard(script) \subseteq {"allow", "escalate", "deny", "raise"}
  <2>1. Asked(script) \subseteq 1..Enforcers
    BY DEF Asked
  <2>. QED  BY <2>1 DEF Heard, Script
<1>. QED  BY <1>1 DEF Verdict

\* Without its i-th element a sequence keeps the others in their order.
LEMMA RemoveAtKeeps ==
  ASSUME NEW S, NEW s \in Seq(S), NEW i \in 1..Len(s)
  PROVE  /\ RemoveAt(s, i) \in Seq(S)
         /\ Len(RemoveAt(s, i)) = Len(s) - 1
         /\ \A j \in 1..(Len(s) - 1) : RemoveAt(s, i)[j] = IF j < i THEN s[j] ELSE s[j + 1]
<1>. DEFINE a == SubSeq(s, 1, i - 1)
            b == SubSeq(s, i + 1, Len(s))
<1>1. a \in Seq(S) /\ Len(a) = i - 1 /\ \A j \in 1..(i - 1) : a[j] = s[j]
  OBVIOUS
<1>2. b \in Seq(S) /\ Len(b) = Len(s) - i /\ \A j \in 1..(Len(s) - i) : b[j] = s[j + i]
  OBVIOUS
<1>. HIDE DEF a, b
<1>3. /\ a \o b \in Seq(S) /\ Len(a \o b) = Len(a) + Len(b)
      /\ \A j \in 1..(Len(a) + Len(b)) :
           (a \o b)[j] = IF j <= Len(a) THEN a[j] ELSE b[j - Len(a)]
  BY <1>1, <1>2, ConcatProperties
<1>4. \A j \in 1..(Len(s) - 1) : (a \o b)[j] = IF j < i THEN s[j] ELSE s[j + 1]
  <2>. TAKE j \in 1..(Len(s) - 1)
  <2>1. (a \o b)[j] = IF j <= i - 1 THEN a[j] ELSE b[j - (i - 1)]
    BY <1>1, <1>2, <1>3
  <2>2. CASE j < i
    BY <2>1, <2>2, <1>1
  <2>3. CASE ~(j < i)
    <3>1. j - (i - 1) \in 1..(Len(s) - i) /\ j - (i - 1) + i = j + 1 /\ ~(j <= i - 1)
      BY <2>3
    <3>2. b[j - (i - 1)] = s[j + 1]
      BY <3>1, <1>2
    <3>. QED  BY <2>1, <2>3, <3>1, <3>2
  <2>. QED  BY <2>2, <2>3
<1>5. Len(a) + Len(b) = Len(s) - 1
  BY <1>1, <1>2
<1>. QED  BY <1>3, <1>4, <1>5 DEF RemoveAt, a, b

\* Without its i-th element a sequence of distinct elements holds the others, once.
LEMMA RemoveAtDistinct ==
  ASSUME NEW S, NEW s \in Seq(S), \A j, k \in 1..Len(s) : s[j] = s[k] => j = k,
         NEW i \in 1..Len(s)
  PROVE  /\ RemoveAt(s, i) \in Seq(S)
         /\ \A j \in 1..Len(RemoveAt(s, i)) :
              \E k \in 1..Len(s) : k # i /\ RemoveAt(s, i)[j] = s[k]
         /\ \A j, k \in 1..Len(RemoveAt(s, i)) : RemoveAt(s, i)[j] = RemoveAt(s, i)[k] => j = k
<1>. DEFINE r == RemoveAt(s, i)
<1>1. /\ r \in Seq(S) /\ Len(r) = Len(s) - 1
      /\ \A j \in 1..(Len(s) - 1) : r[j] = IF j < i THEN s[j] ELSE s[j + 1]
  BY RemoveAtKeeps
<1>. HIDE DEF r
<1>. DEFINE old(j) == IF j < i THEN j ELSE j + 1
<1>2. \A j \in 1..(Len(s) - 1) : old(j) \in 1..Len(s) /\ old(j) # i
  OBVIOUS
<1>3. \A j \in 1..(Len(s) - 1) : r[j] = s[old(j)]
  BY <1>1
<1>4. \A j, k \in 1..(Len(s) - 1) : old(j) = old(k) => j = k
  OBVIOUS
<1>. HIDE DEF old
<1>5. 1..Len(r) = 1..(Len(s) - 1)
  BY <1>1
<1>6. \A j \in 1..Len(r) : \E k \in 1..Len(s) : k # i /\ r[j] = s[k]
  BY <1>2, <1>3, <1>5
<1>7. \A j, k \in 1..Len(r) : r[j] = r[k] => j = k
  <2>. SUFFICES ASSUME NEW j \in 1..(Len(s) - 1), NEW k \in 1..(Len(s) - 1), r[j] = r[k]
       PROVE  j = k
    BY <1>5
  <2>1. s[old(j)] = s[old(k)] /\ old(j) \in 1..Len(s) /\ old(k) \in 1..Len(s)
    BY <1>2, <1>3
  <2>. QED  BY <2>1, <1>4
<1>. QED  BY <1>1, <1>6, <1>7 DEF r

\* Without its first n elements a sequence keeps the others in their order.
LEMMA SuffixKeeps ==
  ASSUME NEW S, NEW s \in Seq(S), NEW n \in 0..Len(s)
  PROVE  /\ SubSeq(s, n + 1, Len(s)) \in Seq(S)
         /\ Len(SubSeq(s, n + 1, Len(s))) = Len(s) - n
         /\ \A k \in 1..(Len(s) - n) : SubSeq(s, n + 1, Len(s))[k] = s[k + n]
<1>1. n + 1 \in Int /\ Len(s) \in Int /\ \A i \in (n + 1)..Len(s) : s[i] \in S
  OBVIOUS
<1>2. /\ SubSeq(s, n + 1, Len(s)) \in Seq(S)
      /\ Len(SubSeq(s, n + 1, Len(s))) = IF n + 1 <= Len(s) THEN Len(s) - (n + 1) + 1 ELSE 0
      /\ \A k \in 1..(Len(s) - (n + 1) + 1) : SubSeq(s, n + 1, Len(s))[k] = s[n + 1 + k - 1]
  BY <1>1, SubSeqProperties
<1>3. Len(s) - (n + 1) + 1 = Len(s) - n
  OBVIOUS
<1>4. \A k \in 1..(Len(s) - n) : n + 1 + k - 1 = k + n
  OBVIOUS
<1>5. (IF n + 1 <= Len(s) THEN Len(s) - (n + 1) + 1 ELSE 0) = Len(s) - n
  OBVIOUS
<1>. DEFINE u == SubSeq(s, n + 1, Len(s))
<1>. HIDE DEF u
<1>6. u \in Seq(S) /\ Len(u) = Len(s) - n
  BY <1>2, <1>5 DEF u
<1>7. \A k \in 1..(Len(s) - n) : u[k] = s[n + 1 + k - 1]
  BY <1>2, <1>3 DEF u
<1>. QED  BY <1>4, <1>6, <1>7 DEF u

\* What enters a full stash displaces its oldest entries.
LEMMA PutKeeps ==
  ASSUME NEW s \in Seq(Calls), NEW c \in Calls
  PROVE  /\ Put(s, c) \in Seq(Calls)
         /\ \E n \in 0..(Len(s) + 1) :
              /\ Len(Put(s, c)) = Len(s) + 1 - n
              /\ \A k \in 1..(Len(s) + 1 - n) : Put(s, c)[k] = Append(s, c)[k + n]
<1>. DEFINE t == Append(s, c)
            n == Len(t) - Keep
<1>1. t \in Seq(Calls) /\ Len(t) = Len(s) + 1
  OBVIOUS
<1>. HIDE DEF t
<1>2. CASE Len(t) > Limit
  <2>1. n \in 0..(Len(s) + 1) /\ Keep = Len(s) + 1 - n
    BY <1>1, <1>2, StashAssumption
  <2>2. /\ SubSeq(t, n + 1, Len(t)) \in Seq(Calls) /\ Len(SubSeq(t, n + 1, Len(t))) = Len(t) - n
        /\ \A k \in 1..(Len(t) - n) : SubSeq(t, n + 1, Len(t))[k] = t[k + n]
    BY <1>1, <2>1, SuffixKeeps, SMTT(30)
  <2>3. Put(s, c) = SubSeq(t, n + 1, Len(t))
    BY <1>2 DEF Put, t
  <2>4. Len(t) - n = Len(s) + 1 - n
    BY <1>1, <2>1
  <2>. HIDE DEF n
  <2>. QED  BY <2>1, <2>2, <2>3, <2>4 DEF t
<1>3. CASE ~(Len(t) > Limit)
  <2>1. Put(s, c) = t
    BY <1>3 DEF Put, t
  <2>2. 0 \in 0..(Len(s) + 1) /\ \A k \in 1..(Len(s) + 1) : t[k] = t[k + 0]
    BY <1>1
  <2>. QED  BY <2>1, <2>2, <1>1 DEF t
<1>. QED  BY <1>2, <1>3

\* The place a hook finds is a place of the stash.
LEMMA FoundInStash ==
  ASSUME stash \in Seq(Calls), NEW c \in Calls, NEW thread \in Threads
  PROVE  Found(c, thread) \in 0..Len(stash)
<1>. SUFFICES ASSUME Passes(c, thread) # {}
     PROVE  Found(c, thread) \in 1..Len(stash)
  BY DEF Found
<1>1. Min(Passes(c, thread)) \in Passes(c, thread)
  <2>1. \E x \in Passes(c, thread) : \A y \in Passes(c, thread) : x <= y
    BY LeastNat DEF Passes
  <2>. QED  BY <2>1 DEF Min
<1>. DEFINE hits == Hits(c, thread, Min(Passes(c, thread)))
<1>2. hits # {} /\ hits \subseteq 1..Len(stash)
  BY <1>1 DEF Passes, Hits
<1>3. Max(hits) \in hits
  <2>1. \E x \in hits : \A y \in hits : y <= x
    <3>1. hits \in SUBSET Nat /\ Len(stash) \in Nat /\ \A x \in hits : x <= Len(stash)
      BY <1>2
    <3>. QED  BY <3>1, <1>2, GreatestNat
  <2>2. \E x \in hits : \A y \in hits : x >= y
    BY <2>1, <1>2
  <2>. QED  BY <2>2 DEF Max
<1>. QED  BY <1>2, <1>3 DEF Found

-----------------------------------------------------------------------------
(* The gate.                                                               *)

LEMMA GateInit == Init => GateInv
  BY DEF Init, GateInv, Typed, BeforeGate, GapIsKnown, GateHolds, PastGate, Label

\* A step that leaves verdicts and recorded decisions alone and moves no call
\* to the front of the gate keeps the gate, if it brings no call past it.
LEMMA GateUndisturbed ==
  ASSUME GateInv, Typed', UNCHANGED verdicts, causes \subseteq causes',
         plugin' = "off" => "registered" \in causes',
         \A c \in Calls : /\ log'[c].pre = log[c].pre
                          /\ pc'[c] = pc[c] \/ (PastGate(c) /\ pc'[c] \in {"posted", "returned"})
  PROVE  GateInv'
<1>1. BeforeGate'
  BY DEF GateInv, BeforeGate
<1>2. GateHolds'
  <2>. SUFFICES ASSUME NEW c \in Calls, PastGate(c)'
       PROVE  \/ verdicts'[c] = {} /\ log'[c].pre = {} /\ "registered" \in causes'
              \/ /\ verdicts'[c] \intersect {"deny", "raise"} = {}
                 /\ "escalate" \in verdicts'[c] => "approved" \in verdicts'[c]
                 /\ log'[c].pre = {IF "escalate" \in verdicts'[c] THEN "escalate" ELSE "allow"}
    BY DEF GateHolds
  <2>1. PastGate(c)
    BY DEF PastGate
  <2>. QED  BY <2>1 DEF GateInv, GateHolds
<1>. QED  BY <1>1, <1>2 DEF GateInv, GapIsKnown

\* The record that post-dispatch adds to leaves the recorded decisions alone.
LEMMA ProcessKeeps ==
  ASSUME Typed, NEW c \in Calls, NEW thread \in Threads, Process(c, thread)
  PROVE  /\ log' \in [Calls -> [pre : SUBSET Decision, short : Nat, post : Nat]]
         /\ \A d \in Calls : log'[d].pre = log[d].pre
  BY DEF Typed, Process

\* The verdict of the chain, a human's approval or the absence of the chain:
\* the actions at the gate keep it.
LEMMA GatePreUnchecked ==
  ASSUME GateInv, NEW c \in Calls, PreUnchecked(c), Typed'
  PROVE  GateInv'
<1>. USE DEF GateInv, Typed
<1>1. /\ pc[c] = "new" /\ pc' = [pc EXCEPT ![c] = pc'[c]] /\ pc'[c] \in {"blocked", "running"}
      /\ pc'[c] = "running" => plugin = "off"
      /\ UNCHANGED <<plugin, log, verdicts, causes>>
  BY DEF PreUnchecked, Goto, history
<1>2. BeforeGate' /\ GapIsKnown'
  BY <1>1 DEF BeforeGate, GapIsKnown
<1>3. GateHolds'
  BY <1>1 DEF BeforeGate, GapIsKnown, GateHolds, PastGate
<1>. QED  BY <1>2, <1>3

LEMMA GatePre ==
  ASSUME GateInv, NEW c \in Calls, Pre(c), Typed'
  PROVE  GateInv'
<1>. USE DEF GateInv, Typed
<1>1. PICK script \in Script, new \in Context :
        /\ new.decision = Verdict(script)
        /\ IF new.decision = "deny"
           THEN Goto(c, "blocked") /\ log' = [log EXCEPT ![c].short = @ + 1]
                /\ UNCHANGED <<verdicts, causes>>
           ELSE /\ log' = [log EXCEPT ![c].pre = @ \union {new.decision}]
                /\ verdicts' = [verdicts EXCEPT ![c] = Heard(script) \ {"allow"}]
                /\ IF new.decision = "allow" THEN Release(c, new)
                   ELSE Goto(c, "ask") /\ UNCHANGED causes
  BY DEF Pre
<1>2. pc[c] = "new" /\ verdicts[c] = {} /\ log[c].pre = {} /\ UNCHANGED plugin
  BY DEF Pre, BeforeGate
<1>3. CASE new.decision = "deny"
  <2>1. /\ pc' = [pc EXCEPT ![c] = "blocked"] /\ UNCHANGED <<verdicts, causes>>
        /\ \A d \in Calls : log'[d].pre = log[d].pre
    BY <1>1, <1>3 DEF Goto
  <2>. QED  BY <1>2, <2>1 DEF BeforeGate, GapIsKnown, GateHolds, PastGate
<1>4. CASE new.decision # "deny"
  <2>1. /\ Heard(script) \subseteq {"allow", "escalate"}
        /\ new.decision = IF "escalate" \in Heard(script) THEN "escalate" ELSE "allow"
    BY <1>1, <1>4, VerdictSound
  <2>2. /\ verdicts'[c] = IF new.decision = "escalate" THEN {"escalate"} ELSE {}
        /\ log'[c].pre = {new.decision}
        /\ \A d \in Calls \ {c} : verdicts'[d] = verdicts[d] /\ log'[d] = log[d]
    <3>1. verdicts'[c] = Heard(script) \ {"allow"} /\ log'[c].pre = log[c].pre \union {new.decision}
      BY <1>1, <1>4
    <3>2. \A d \in Calls \ {c} : verdicts'[d] = verdicts[d] /\ log'[d] = log[d]
      BY <1>1, <1>4
    <3>. QED  BY <1>2, <2>1, <3>1, <3>2
  <2>3. /\ pc' = [pc EXCEPT ![c] = IF new.decision = "allow" THEN "running" ELSE "ask"]
        /\ causes \subseteq causes'
    BY <1>1, <1>4 DEF Goto, Release
  <2>4. BeforeGate' /\ GapIsKnown'
    BY <1>2, <2>1, <2>2, <2>3 DEF BeforeGate, GapIsKnown
  <2>5. GateHolds'
    <3>. SUFFICES ASSUME NEW d \in Calls, PastGate(d)'
         PROVE  \/ verdicts'[d] = {} /\ log'[d].pre = {} /\ "registered" \in causes'
                \/ /\ verdicts'[d] \intersect {"deny", "raise"} = {}
                   /\ "escalate" \in verdicts'[d] => "approved" \in verdicts'[d]
                   /\ log'[d].pre = {IF "escalate" \in verdicts'[d] THEN "escalate" ELSE "allow"}
      BY DEF GateHolds
    <3>1. CASE d = c
      BY <3>1, <2>1, <2>2, <2>3 DEF PastGate
    <3>2. CASE d # c
      BY <3>2, <2>2, <2>3 DEF PastGate, GateHolds
    <3>. QED  BY <3>1, <3>2
  <2>. QED  BY <2>4, <2>5
<1>. QED  BY <1>3, <1>4

LEMMA GateApprove ==
  ASSUME GateInv, NEW c \in Calls, Approve(c), Typed'
  PROVE  GateInv'
<1>. USE DEF GateInv, Typed
<1>1. /\ pc[c] = "ask" /\ pc' = [pc EXCEPT ![c] = "running"]
      /\ verdicts' = [verdicts EXCEPT ![c] = @ \union {"approved"}]
      /\ UNCHANGED <<plugin, log>> /\ causes \subseteq causes'
  BY DEF Approve, Release, Goto
<1>2. verdicts'[c] = {"escalate", "approved"} /\ log'[c].pre = {"escalate"}
  BY <1>1 DEF BeforeGate
<1>3. BeforeGate' /\ GapIsKnown'
  BY <1>1 DEF BeforeGate, GapIsKnown
<1>4. GateHolds'
  BY <1>1, <1>2 DEF GateHolds, PastGate
<1>. QED  BY <1>3, <1>4

LEMMA GateRefuse ==
  ASSUME GateInv, NEW c \in Calls, Refuse(c), Typed'
  PROVE  GateInv'
<1>. USE DEF GateInv, Typed
<1>1. /\ pc' = [pc EXCEPT ![c] = "blocked"] /\ verdicts' = [verdicts EXCEPT ![c] = {}]
      /\ UNCHANGED <<plugin, log, causes>>
  BY DEF Refuse, Goto
<1>. QED  BY <1>1 DEF BeforeGate, GapIsKnown, GateHolds, PastGate

\* The records that the chain makes are well typed.
LEMMA LogUpdates ==
  ASSUME NEW l \in [Calls -> [pre : SUBSET Decision, short : Nat, post : Nat]], NEW c \in Calls
  PROVE  /\ [l EXCEPT ![c].short = @ + 1] \in
              [Calls -> [pre : SUBSET Decision, short : Nat, post : Nat]]
         /\ \A d \in Decision : [l EXCEPT ![c].pre = @ \union {d}] \in
              [Calls -> [pre : SUBSET Decision, short : Nat, post : Nat]]
         /\ \A e \in Calls : [l EXCEPT ![c].short = @ + 1][e].post = l[e].post
         /\ \A d \in Decision : \A e \in Calls :
              [l EXCEPT ![c].pre = @ \union {d}][e].post = l[e].post
  OBVIOUS

\* The parts of the state that the two invariants are about stay well typed.
LEMMA TypedStep ==
  ASSUME Typed, stash \in Seq(Calls), [Next]_vars
  PROVE  Typed'
<1>. USE DEF Typed
<1>1. ASSUME NEW c \in Calls, PreUnchecked(c) PROVE Typed'
  BY <1>1 DEF PreUnchecked, Goto, Label, history
<1>2. ASSUME NEW c \in Calls, Pre(c) PROVE Typed'
  <2>1. PICK script \in Script, new \in Context :
          IF new.decision = "deny"
          THEN Goto(c, "blocked") /\ log' = [log EXCEPT ![c].short = @ + 1] /\ UNCHANGED verdicts
          ELSE /\ log' = [log EXCEPT ![c].pre = @ \union {new.decision}]
               /\ verdicts' = [verdicts EXCEPT ![c] = Heard(script) \ {"allow"}]
               /\ Goto(c, "running") \/ Goto(c, "ask")
    BY <1>2 DEF Pre, Release
  <2>2. UNCHANGED <<plugin, popped>>
    BY <1>2 DEF Pre
  <2>3. Heard(script) \subseteq {"allow", "escalate", "deny", "raise"}
    BY DEF Heard, Script, Asked
  <2>4. new.decision \in Decision
    BY DEF Context
  <2>5. CASE new.decision = "deny"
    <3>1. /\ pc' = [pc EXCEPT ![c] = "blocked"] /\ UNCHANGED verdicts
          /\ log' = [log EXCEPT ![c].short = @ + 1]
      BY <2>1, <2>5 DEF Goto
    <3>2. log' \in [Calls -> [pre : SUBSET Decision, short : Nat, post : Nat]]
      BY <3>1, LogUpdates
    <3>3. pc' \in [Calls -> Label]
      BY <3>1 DEF Label
    <3>. QED  BY <2>2, <3>1, <3>2, <3>3
  <2>6. CASE new.decision # "deny"
    <3>1. /\ log' = [log EXCEPT ![c].pre = @ \union {new.decision}]
          /\ verdicts' = [verdicts EXCEPT ![c] = Heard(script) \ {"allow"}]
          /\ pc' = [pc EXCEPT ![c] = "running"] \/ pc' = [pc EXCEPT ![c] = "ask"]
      BY <2>1, <2>6 DEF Goto
    <3>2. verdicts' \in [Calls -> SUBSET {"deny", "raise", "escalate", "approved"}]
      BY <2>3, <3>1
    <3>3. log' \in [Calls -> [pre : SUBSET Decision, short : Nat, post : Nat]]
      BY <2>4, <3>1, LogUpdates
    <3>4. pc' \in [Calls -> Label]
      BY <3>1 DEF Label
    <3>. QED  BY <2>2, <3>2, <3>3, <3>4
  <2>. QED  BY <2>5, <2>6
<1>3. ASSUME NEW c \in Calls, Approve(c) PROVE Typed'
  BY <1>3 DEF Approve, Release, Goto, Label
<1>4. ASSUME NEW c \in Calls, Refuse(c) PROVE Typed'
  BY <1>4 DEF Refuse, Goto, Label
<1>5. ASSUME NEW c \in Calls, NEW thread \in Threads, Process(c, thread)
      PROVE  popped' \in [Calls -> SUBSET Calls]
  BY <1>5, FoundInStash DEF Process
<1>6. ASSUME NEW c \in Calls, NEW thread \in Threads, Post(c, thread) PROVE Typed'
  BY <1>5, <1>6, ProcessKeeps DEF Post, Goto, Label
<1>7. ASSUME NEW c \in Calls, NEW thread \in Threads, Transform(c, thread) PROVE Typed'
  BY <1>5, <1>7, ProcessKeeps DEF Transform, Goto, Label
<1>8. ASSUME SessionEnd PROVE Typed'
  BY <1>8 DEF SessionEnd
<1>9. ASSUME RegisterBegin \/ RegisterEnd PROVE Typed'
  BY <1>9 DEF RegisterBegin, RegisterEnd, history
<1>10. ASSUME UNCHANGED vars PROVE Typed'
  BY <1>10 DEF vars
<1>. QED  BY <1>1, <1>2, <1>3, <1>4, <1>6, <1>7, <1>8, <1>9, <1>10 DEF Next

LEMMA GateStep ==
  ASSUME GateInv, stash \in Seq(Calls), [Next]_vars
  PROVE  GateInv'
<1>1. Typed'
  BY TypedStep DEF GateInv
<1>2. ASSUME NEW c \in Calls, PreUnchecked(c) \/ Pre(c) \/ Approve(c) \/ Refuse(c)
      PROVE  GateInv'
  BY <1>1, <1>2, GatePreUnchecked, GatePre, GateApprove, GateRefuse
<1>3. ASSUME NEW c \in Calls, NEW thread \in Threads, Post(c, thread)
      PROVE  GateInv'
  <2>1. /\ pc[c] = "running" /\ pc' = [pc EXCEPT ![c] = "posted"]
        /\ UNCHANGED <<verdicts, plugin>> /\ causes \subseteq causes'
    BY <1>3 DEF Post, Goto
  <2>2. \A d \in Calls : log'[d].pre = log[d].pre
    BY <1>3, ProcessKeeps DEF Post, GateInv
  <2>. QED  BY <1>1, <2>1, <2>2, GateUndisturbed DEF PastGate, GateInv, Typed, GapIsKnown
<1>4. ASSUME NEW c \in Calls, NEW thread \in Threads, Transform(c, thread)
      PROVE  GateInv'
  <2>1. /\ pc[c] = "posted" /\ pc' = [pc EXCEPT ![c] = "returned"]
        /\ UNCHANGED <<verdicts, plugin, causes>>
    BY <1>4 DEF Transform, Goto
  <2>2. \A d \in Calls : log'[d].pre = log[d].pre
    BY <1>4, ProcessKeeps DEF Transform, GateInv
  <2>. QED  BY <1>1, <2>1, <2>2, GateUndisturbed DEF PastGate, GateInv, Typed, GapIsKnown
<1>5. ASSUME SessionEnd \/ RegisterBegin \/ RegisterEnd \/ UNCHANGED vars
      PROVE  GateInv'
  <2>1. /\ UNCHANGED <<pc, verdicts, log>> /\ causes \subseteq causes'
        /\ plugin' = "off" => "registered" \in causes'
    BY <1>5 DEF SessionEnd, RegisterBegin, RegisterEnd, history, vars, GateInv, GapIsKnown
  <2>. QED  BY <1>1, <2>1, GateUndisturbed
<1>. QED  BY <1>2, <1>3, <1>4, <1>5 DEF Next

-----------------------------------------------------------------------------
(* The stash.                                                              *)

LEMMA StashInit == Init => StashInv
<1>. SUFFICES ASSUME Init PROVE StashInv
  OBVIOUS
<1>1. Typed /\ TakenSound /\ ContextUsedOnce
  BY DEF Init, Typed, TakenSound, ContextUsedOnce, Label
<1>2. StashSound
  BY DEF Init, StashSound
<1>. QED  BY <1>1, <1>2 DEF StashInv

\* What StashSound says, element by element.
LEMMA StashParts ==
  ASSUME StashSound
  PROVE  /\ stash \in Seq(Calls) /\ Len(stash) \in Nat
         /\ \A i, j \in 1..Len(stash) : stash[i] = stash[j] => i = j
         /\ \A i \in 1..Len(stash) :
              /\ stash[i] \in Calls /\ PastGate(stash[i]) /\ log[stash[i]].post = 0
              /\ \A c \in Calls : stash[i] \notin popped[c]
  BY DEF StashSound

\* A call that passes the gate enters the stash for the first time.
LEMMA StashRelease ==
  ASSUME StashInv, Typed', NEW c \in Calls, NEW context, ~PastGate(c), Release(c, context),
         UNCHANGED popped, \A d \in Calls : log'[d].post = log[d].post
  PROVE  StashInv'
<1>. USE DEF StashInv, Typed
<1>1. /\ pc' = [pc EXCEPT ![c] = "running"] /\ stash' = Put(stash, c)
  BY DEF Release, Goto
<1>. DEFINE Past(d) == pc'[d] \in {"running", "posted", "returned"}
<1>2. /\ \A d \in Calls : Past(d) <=> PastGate(d) \/ d = c
      /\ \A d \in Calls : PastGate(d)' <=> Past(d)
  BY <1>1 DEF PastGate
<1>. HIDE DEF Past
<1>3. log[c].post = 0 /\ \A d \in Calls : c \notin popped[d]
  BY DEF TakenSound
<1>. DEFINE t == Append(stash, c)
<1>4. /\ t \in Seq(Calls) /\ Len(t) = Len(stash) + 1 /\ t[Len(stash) + 1] = c
      /\ \A i \in 1..Len(stash) : t[i] = stash[i]
  BY DEF StashSound
<1>. HIDE DEF t
<1>5. \A i, j \in 1..Len(t) : t[i] = t[j] => i = j
  <2>. SUFFICES ASSUME NEW i \in 1..Len(t), NEW j \in 1..Len(t), t[i] = t[j] PROVE i = j
    OBVIOUS
  <2>1. \A k \in 1..Len(stash) : stash[k] # c
    BY DEF StashSound
  <2>2. \A k \in 1..Len(t) : k = Len(stash) + 1 \/ k \in 1..Len(stash)
    BY <1>4 DEF StashSound
  <2>. QED  BY <2>1, <2>2, <1>4 DEF StashSound
<1>6. \A i \in 1..Len(t) : /\ Past(t[i]) /\ log'[t[i]].post = 0 /\ t[i] \in Calls
                           /\ \A d \in Calls : t[i] \notin popped'[d]
  <2>. TAKE i \in 1..Len(t)
  <2>1. i = Len(stash) + 1 \/ i \in 1..Len(stash)
    BY <1>4, StashParts
  <2>2. CASE i = Len(stash) + 1
    BY <2>2, <1>2, <1>3, <1>4
  <2>3. CASE i \in 1..Len(stash)
    <3>1. t[i] = stash[i]
      BY <2>3, <1>4
    <3>. QED  BY <2>3, <3>1, <1>2, StashParts
  <2>. QED  BY <2>1, <2>2, <2>3
<1>7. PICK n \in 0..(Len(stash) + 1) :
        /\ stash' \in Seq(Calls) /\ Len(stash') = Len(stash) + 1 - n
        /\ \A k \in 1..(Len(stash) + 1 - n) : stash'[k] = t[k + n]
  <2>1. stash \in Seq(Calls)
    BY StashParts
  <2>2. /\ Put(stash, c) \in Seq(Calls)
        /\ \E n \in 0..(Len(stash) + 1) :
             /\ Len(Put(stash, c)) = Len(stash) + 1 - n
             /\ \A k \in 1..(Len(stash) + 1 - n) : Put(stash, c)[k] = Append(stash, c)[k + n]
    BY <2>1, PutKeeps
  <2>. QED  BY <1>1, <2>2 DEF t
<1>8. \A k \in 1..Len(stash') : stash'[k] = t[k + n] /\ k + n \in 1..Len(t)
  <2>. TAKE k \in 1..Len(stash')
  <2>1. k \in 1..(Len(stash) + 1 - n)
    BY <1>7
  <2>2. Len(stash) \in Nat
    BY StashParts
  <2>3. k + n \in 1..(Len(stash) + 1)
    BY <2>1, <2>2
  <2>. QED  BY <2>1, <2>3, <1>4, <1>7
<1>9. StashSound'
  <2>1. \A i, j \in 1..Len(stash') : stash'[i] = stash'[j] => i = j
    <3>. TAKE i, j \in 1..Len(stash')
    <3>. HAVE stash'[i] = stash'[j]
    <3>1. i + n = j + n
      BY <1>5, <1>8
    <3>. QED  BY <3>1, <1>7
  <2>2. ASSUME NEW k \in 1..Len(stash')
        PROVE  /\ Past(stash'[k]) /\ log'[stash'[k]].post = 0
               /\ \A d \in Calls : stash'[k] \notin popped'[d]
    <3>1. stash'[k] = t[k + n] /\ k + n \in 1..Len(t)
      BY <1>8
    <3>. QED  BY <3>1, <1>6
  <2>. QED  BY <2>1, <2>2, <1>7 DEF StashSound, PastGate, Past
<1>10. TakenSound' /\ ContextUsedOnce'
  BY <1>2 DEF TakenSound, ContextUsedOnce
<1>. QED  BY <1>9, <1>10

\* Calls may move on past the gate.
LEMMA StashUndisturbed ==
  ASSUME StashInv, Typed', UNCHANGED <<stash, popped>>,
         \A d \in Calls : log'[d].post = log[d].post,
         \A d \in Calls : PastGate(d) => PastGate(d)'
  PROVE  StashInv'
<1>. USE DEF StashInv
<1>1. StashSound'
  <2>1. ASSUME NEW i \in 1..Len(stash)
        PROVE  /\ stash[i] \in Calls /\ PastGate(stash[i]) /\ log[stash[i]].post = 0
               /\ \A c \in Calls : stash[i] \notin popped[c]
    BY StashParts
  <2>. DEFINE Past(d) == pc'[d] \in {"running", "posted", "returned"}
  <2>2. \A d \in Calls : PastGate(d) => Past(d)
    BY DEF PastGate
  <2>3. \A i \in 1..Len(stash) : /\ Past(stash[i]) /\ log'[stash[i]].post = 0
                                 /\ \A c \in Calls : stash[i] \notin popped[c]
    BY <2>1, <2>2
  <2>. QED  BY <2>3 DEF StashSound, PastGate
<1>2. TakenSound'
  BY DEF TakenSound, Typed
<1>3. ContextUsedOnce'
  BY DEF ContextUsedOnce
<1>. QED  BY <1>1, <1>2, <1>3

\* A hook takes the context of at most one call, which no hook has had before.
LEMMA StashProcess ==
  ASSUME StashInv, Typed', NEW c \in Calls, NEW thread \in Threads, Process(c, thread),
         \A d \in Calls : PastGate(d)' <=> PastGate(d)
  PROVE  StashInv'
<1>. USE DEF StashInv, Typed
<1>. DEFINE place == Found(c, thread)
            Past(d) == pc'[d] \in {"running", "posted", "returned"}
<1>0. \A d \in Calls : (PastGate(d)' <=> Past(d)) /\ (Past(d) <=> PastGate(d))
  BY DEF PastGate
<1>. HIDE DEF Past
<1>1. place \in 0..Len(stash)
  BY FoundInStash DEF StashSound
<1>2. CASE place = 0
  <2>1. UNCHANGED <<stash, popped, log>>
    BY <1>2 DEF Process, Taken
  <2>. QED  BY <2>1 DEF StashSound, TakenSound, ContextUsedOnce
<1>3. CASE place # 0
  <2>. DEFINE d == stash[place]
  <2>1. place \in 1..Len(stash) /\ d \in Calls
    BY <1>1, <1>3, SMTT(30) DEF StashSound
  <2>2. /\ stash' = RemoveAt(stash, place)
        /\ popped' = [popped EXCEPT ![c] = @ \union {d}]
        /\ log' = [e \in Calls |-> IF e \in {d} THEN [log[e] EXCEPT !.post = @ + 1] ELSE log[e]]
    BY <1>3 DEF Process, Taken
  <2>. HIDE DEF place
  <2>3. /\ PastGate(d) /\ log[d].post = 0 /\ \A e \in Calls : d \notin popped[e]
    BY <2>1 DEF StashSound
  <2>. HIDE DEF d
  <2>4. /\ \A e \in Calls : log'[e].post = IF e = d THEN 1 ELSE log[e].post
        /\ \A e \in Calls : popped'[e] = IF e = c THEN popped[c] \union {d} ELSE popped[e]
    BY <2>1, <2>2, <2>3
  <2>5. TakenSound'
    BY <2>3, <2>4 DEF TakenSound
  <2>6. ContextUsedOnce'
    <3>1. \A e, f \in Calls : e # f => popped'[e] \intersect popped'[f] = {}
      <4>. SUFFICES ASSUME NEW e \in Calls, NEW f \in Calls, e # f,
                           NEW x \in popped'[e], x \in popped'[f]
           PROVE  FALSE
        OBVIOUS
      <4>1. x # d
        BY <2>3, <2>4
      <4>2. x \in popped[e] /\ x \in popped[f]
        BY <2>4, <4>1
      <4>. QED  BY <4>2 DEF ContextUsedOnce
    <3>2. \A e \in Calls : log'[e].post <= 1
      BY <2>4 DEF ContextUsedOnce
    <3>. QED  BY <3>1, <3>2 DEF ContextUsedOnce
  <2>7. StashSound'
    <3>1. /\ stash' \in Seq(Calls)
          /\ \A j \in 1..Len(stash') : \E k \in 1..Len(stash) : k # place /\ stash'[j] = stash[k]
          /\ \A j, k \in 1..Len(stash') : stash'[j] = stash'[k] => j = k
      <4>1. stash \in Seq(Calls) /\ \A j, k \in 1..Len(stash) : stash[j] = stash[k] => j = k
        BY DEF StashSound
      <4>. DEFINE r == RemoveAt(stash, place)
      <4>2. /\ r \in Seq(Calls)
            /\ \A j \in 1..Len(r) : \E k \in 1..Len(stash) : k # place /\ r[j] = stash[k]
            /\ \A j, k \in 1..Len(r) : r[j] = r[k] => j = k
        BY <4>1, <2>1, RemoveAtDistinct
      <4>. HIDE DEF r
      <4>3. stash' = r
        BY <2>2 DEF r
      <4>. QED  BY <4>2, <4>3
    <3>2. \A k \in 1..Len(stash) : k # place => stash[k] # d
      BY <2>1 DEF StashSound, d
    <3>3. \A j \in 1..Len(stash') : stash'[j] \in Calls
      BY <3>1
    <3>4. ASSUME NEW j \in 1..Len(stash')
          PROVE  /\ Past(stash'[j]) /\ log'[stash'[j]].post = 0
                 /\ \A e \in Calls : stash'[j] \notin popped'[e]
      <4>1. PICK k \in 1..Len(stash) : k # place /\ stash'[j] = stash[k]
        BY <3>1
      <4>2. /\ stash[k] \in Calls /\ stash[k] # d /\ PastGate(stash[k])
            /\ log[stash[k]].post = 0 /\ \A e \in Calls : stash[k] \notin popped[e]
        BY <3>2, <4>1, StashParts
      <4>. QED  BY <1>0, <2>4, <4>1, <4>2
    <3>. QED  BY <1>0, <3>1, <3>4 DEF StashSound, PastGate, Past
  <2>. QED  BY <2>5, <2>6, <2>7
<1>. QED  BY <1>2, <1>3

LEMMA StashStep ==
  ASSUME StashInv, [Next]_vars
  PROVE  StashInv'
<1>. USE DEF StashInv
<1>1. Typed' /\ stash \in Seq(Calls)
  BY TypedStep, StashParts
<1>2. ASSUME NEW c \in Calls, PreUnchecked(c) PROVE StashInv'
  <2>1. /\ pc[c] = "new" /\ pc' = [pc EXCEPT ![c] = pc'[c]] /\ pc'[c] \in {"blocked", "running"}
        /\ UNCHANGED <<stash, popped, log>>
    BY <1>2 DEF PreUnchecked, Goto, history, Typed
  <2>2. \A d \in Calls : PastGate(d) => PastGate(d)'
    BY <2>1 DEF PastGate, Typed
  <2>. QED  BY <1>1, <2>1, <2>2, StashUndisturbed
<1>3. ASSUME NEW c \in Calls, Pre(c) PROVE StashInv'
  <2>1. PICK script \in Script, new \in Context :
          IF new.decision = "deny"
          THEN /\ log' = [log EXCEPT ![c].short = @ + 1] /\ Goto(c, "blocked")
               /\ UNCHANGED stash
          ELSE /\ log' = [log EXCEPT ![c].pre = @ \union {new.decision}]
               /\ Release(c, new) \/ (Goto(c, "ask") /\ UNCHANGED stash)
    BY <1>3 DEF Pre
  <2>2. pc[c] = "new" /\ ~PastGate(c) /\ UNCHANGED popped
    BY <1>3 DEF Pre, PastGate
  <2>3. \A d \in Calls : log'[d].post = log[d].post
    <3>1. \/ log' = [log EXCEPT ![c].short = @ + 1]
          \/ log' = [log EXCEPT ![c].pre = @ \union {new.decision}]
      BY <2>1
    <3>2. new.decision \in Decision
      BY DEF Context
    <3>3. log \in [Calls -> [pre : SUBSET Decision, short : Nat, post : Nat]]
      BY DEF Typed
    <3>4. CASE log' = [log EXCEPT ![c].short = @ + 1]
      BY <3>3, <3>4, LogUpdates
    <3>5. CASE log' = [log EXCEPT ![c].pre = @ \union {new.decision}]
      BY <3>2, <3>3, <3>5
    <3>. QED  BY <3>1, <3>4, <3>5
  <2>4. CASE Release(c, new)
    BY <1>1, <2>2, <2>3, <2>4, StashRelease
  <2>5. CASE (Goto(c, "blocked") \/ Goto(c, "ask")) /\ UNCHANGED stash
    <3>1. \A d \in Calls : PastGate(d) => PastGate(d)'
      BY <2>2, <2>5 DEF PastGate, Goto, Typed
    <3>. QED  BY <1>1, <2>2, <2>3, <2>5, <3>1, StashUndisturbed
  <2>. QED  BY <2>1, <2>4, <2>5
<1>4. ASSUME NEW c \in Calls, Approve(c) PROVE StashInv'
  <2>1. ~PastGate(c) /\ Release(c, ctx[c]) /\ UNCHANGED <<popped, log>>
    BY <1>4 DEF Approve, PastGate
  <2>. QED  BY <1>1, <2>1, StashRelease
<1>5. ASSUME NEW c \in Calls, Refuse(c) PROVE StashInv'
  <2>1. /\ pc[c] = "ask" /\ pc' = [pc EXCEPT ![c] = "blocked"]
        /\ UNCHANGED <<stash, popped, log>>
    BY <1>5 DEF Refuse, Goto
  <2>2. \A d \in Calls : PastGate(d) => PastGate(d)'
    BY <2>1 DEF PastGate, Typed
  <2>. QED  BY <1>1, <2>1, <2>2, StashUndisturbed
<1>6. ASSUME NEW c \in Calls, NEW thread \in Threads, Post(c, thread) \/ Transform(c, thread)
      PROVE  StashInv'
  <2>1. \/ pc[c] = "running" /\ pc' = [pc EXCEPT ![c] = "posted"]
        \/ pc[c] = "posted" /\ pc' = [pc EXCEPT ![c] = "returned"]
    BY <1>6 DEF Post, Transform, Goto
  <2>2. \A d \in Calls : PastGate(d)' <=> PastGate(d)
    BY <2>1 DEF PastGate, Typed
  <2>3. Process(c, thread) \/ UNCHANGED <<stash, log, popped>>
    BY <1>6 DEF Post, Transform
  <2>. QED  BY <1>1, <2>2, <2>3, StashProcess, StashUndisturbed
<1>7. ASSUME SessionEnd PROVE StashInv'
  <2>1. UNCHANGED <<pc, popped, log>> /\ stash' = <<>>
    BY <1>7 DEF SessionEnd
  <2>2. StashSound'
    BY <2>1 DEF StashSound
  <2>3. TakenSound' /\ ContextUsedOnce'
    BY <2>1 DEF TakenSound, ContextUsedOnce, PastGate
  <2>. QED  BY <1>1, <2>2, <2>3
<1>8. ASSUME RegisterBegin \/ RegisterEnd \/ UNCHANGED vars PROVE StashInv'
  <2>1. UNCHANGED <<pc, popped, log, stash>>
    BY <1>8 DEF RegisterBegin, RegisterEnd, history, vars
  <2>2. \A d \in Calls : PastGate(d) => PastGate(d)'
    BY <2>1 DEF PastGate
  <2>. QED  BY <1>1, <2>1, <2>2, StashUndisturbed
<1>. QED  BY <1>2, <1>3, <1>4, <1>5, <1>6, <1>7, <1>8 DEF Next

-----------------------------------------------------------------------------
(* Results.                                                                *)

\* A plugin that was never registered again is ready, or blocks every call.
Initialized ==
  "registered" \notin causes =>
    /\ plugin # "off"
    /\ plugin = "error" => \A c \in Calls : pc[c] \in {"new", "blocked"}

\* Post-dispatch runs once the tool has returned, and while no stash loses
\* entries the transform hook finds its output.
ResultOnce(c) ==
  /\ pc[c] = "returned" => output[c] = "processed"
  /\ pc[c] \in {"new", "ask", "blocked", "running"} => passes[c] = 0
  /\ causes \intersect {"cleared", "evicted"} = {} =>
       /\ pc[c] \in {"posted", "returned"} => passes[c] = 1
       /\ pc[c] = "posted" => Contains(results, c)

ResultInv ==
  /\ results \in Seq(Calls)
  /\ passes \in [Calls -> Nat]
  /\ output \in [Calls -> {"none", "raw", "processed"}]
  /\ Initialized
  /\ "registered" \notin causes => \A c \in Calls : ResultOnce(c)

\* A stash that does not overflow keeps all its entries.
LEMMA PutAll ==
  ASSUME NEW s \in Seq(Calls), NEW c \in Calls, Overflow(s) = {}
  PROVE  Put(s, c) = Append(s, c)
  BY DEF Overflow, Put

\* What enters a stash that does not overflow is in it, with all the others.
LEMMA PutContains ==
  ASSUME NEW s \in Seq(Calls), NEW c \in Calls, Overflow(s) = {}
  PROVE  /\ Contains(Put(s, c), c)
         /\ \A d \in Calls : Contains(s, d) => Contains(Put(s, c), d)
<1>1. /\ Len(Append(s, c)) = Len(s) + 1 /\ Append(s, c)[Len(s) + 1] = c
      /\ \A i \in 1..Len(s) : Append(s, c)[i] = s[i]
  OBVIOUS
<1>. QED  BY <1>1, PutAll DEF Contains

\* What the transform hook takes from the results leaves the others there.
LEMMA RemoveFirstContains ==
  ASSUME NEW s \in Seq(Calls), NEW c \in Calls
  PROVE  /\ RemoveFirst(s, c) \in Seq(Calls)
         /\ \A d \in Calls \ {c} : Contains(s, d) => Contains(RemoveFirst(s, c), d)
<1>1. CASE ~Contains(s, c)
  BY <1>1 DEF RemoveFirst, Contains
<1>2. CASE Contains(s, c)
  <2>. DEFINE places == {i \in 1..Len(s) : s[i] = c}
              place == Min(places)
              r == RemoveAt(s, place)
  <2>1. place \in places
    <3>1. places \in SUBSET Nat /\ places # {}
      BY <1>2 DEF Contains
    <3>2. \E i \in places : \A j \in places : i <= j
      BY <3>1, LeastNat
    <3>. QED  BY <3>2 DEF Min
  <2>2. RemoveFirst(s, c) = r
    BY <1>2, <2>1 DEF RemoveFirst, SelectInSeq, Contains
  <2>. HIDE DEF place
  <2>3. /\ r \in Seq(Calls) /\ Len(r) = Len(s) - 1
        /\ \A j \in 1..(Len(s) - 1) : r[j] = IF j < place THEN s[j] ELSE s[j + 1]
    BY <2>1, RemoveAtKeeps
  <2>. HIDE DEF r
  <2>4. ASSUME NEW d \in Calls \ {c}, Contains(s, d) PROVE Contains(r, d)
    <3>1. PICK i \in 1..Len(s) : s[i] = d
      BY <2>4 DEF Contains
    <3>2. i # place /\ s[place] = c /\ place \in 1..Len(s)
      BY <2>1, <2>4, <3>1
    <3>3. CASE i < place
      <4>1. i \in 1..Len(r) /\ r[i] = d
        BY <2>3, <3>1, <3>2, <3>3
      <4>. QED  BY <4>1 DEF Contains
    <3>4. CASE i > place
      <4>1. i - 1 \in 1..(Len(s) - 1) /\ ~(i - 1 < place) /\ (i - 1) + 1 = i
        BY <3>2, <3>4
      <4>2. i - 1 \in 1..Len(r) /\ r[i - 1] = d
        BY <2>3, <3>1, <4>1
      <4>. QED  BY <4>2 DEF Contains
    <3>. QED  BY <3>2, <3>3, <3>4
  <2>. QED  BY <2>2, <2>3, <2>4
<1>. QED  BY <1>1, <1>2

LEMMA ResultInit == Init => ResultInv
  BY DEF Init, ResultInv, Initialized, ResultOnce

LEMMA ResultStep ==
  ASSUME ResultInv, Typed, stash \in Seq(Calls), [Next]_vars
  PROVE  ResultInv'
<1>. USE DEF ResultInv, Initialized, ResultOnce, Typed
<1>1. ASSUME NEW c \in Calls, PreUnchecked(c) PROVE ResultInv'
  <2>1. /\ pc[c] = "new" /\ pc' = [pc EXCEPT ![c] = pc'[c]] /\ pc'[c] \in {"blocked", "running"}
        /\ pc'[c] = "running" => plugin = "off"
        /\ UNCHANGED <<plugin, results, passes, output, causes>>
    BY <1>1 DEF PreUnchecked, Goto, history
  <2>. QED  BY <2>1
<1>2. ASSUME NEW c \in Calls, Pre(c) \/ Approve(c) \/ Refuse(c) PROVE ResultInv'
  <2>1. /\ pc[c] \in {"new", "ask"}
        /\ pc[c] = "new" => plugin = "on"
        /\ pc' = [pc EXCEPT ![c] = pc'[c]] /\ pc'[c] \in {"blocked", "running", "ask"}
        /\ UNCHANGED <<plugin, results, passes, output>> /\ causes \subseteq causes'
    BY <1>2 DEF Pre, Approve, Refuse, Release, Goto
  <2>. QED  BY <2>1
<1>3. ASSUME NEW c \in Calls, NEW thread \in Threads, Post(c, thread) PROVE ResultInv'
  <2>1. /\ pc[c] = "running" /\ pc' = [pc EXCEPT ![c] = "posted"] /\ UNCHANGED <<plugin, output>>
    BY <1>3 DEF Post, Goto
  <2>2. CASE plugin = "on"
    <3>1. /\ passes' = [passes EXCEPT ![c] = @ + 1] /\ results' = Put(results, c)
          /\ causes' = causes \union Overflow(results)
      BY <1>3, <2>2 DEF Post, Process
    <3>2. results' \in Seq(Calls)
      BY <3>1, PutKeeps
    <3>3. "evicted" \notin causes' =>
            Contains(results', c) /\ \A d \in Calls : Contains(results, d) => Contains(results', d)
      <4>1. "evicted" \notin causes' => Overflow(results) = {}
        BY <3>1 DEF Overflow
      <4>. QED  BY <3>1, <4>1, PutContains
    <3>. QED  BY <2>1, <2>2, <3>1, <3>2, <3>3
  <2>3. CASE plugin # "on"
    BY <1>3, <2>1, <2>3 DEF Post
  <2>. QED  BY <2>2, <2>3
<1>4. ASSUME NEW c \in Calls, NEW thread \in Threads, Transform(c, thread) PROVE ResultInv'
  <2>1. /\ pc[c] = "posted" /\ pc' = [pc EXCEPT ![c] = "returned"] /\ UNCHANGED <<plugin, causes>>
    BY <1>4 DEF Transform, Goto
  <2>2. CASE plugin = "on"
    <3>1. /\ output' = [output EXCEPT ![c] = "processed"] /\ results' = RemoveFirst(results, c)
          /\ Contains(results, c) => UNCHANGED passes
          /\ passes' = passes \/ passes' = [passes EXCEPT ![c] = @ + 1]
      BY <1>4, <2>2 DEF Transform, Process
    <3>2. /\ results' \in Seq(Calls)
          /\ \A d \in Calls \ {c} : Contains(results, d) => Contains(results', d)
      BY <3>1, RemoveFirstContains
    <3>. QED  BY <2>1, <2>2, <3>1, <3>2
  <2>3. CASE plugin # "on"
    BY <1>4, <2>1, <2>3 DEF Transform
  <2>. QED  BY <2>2, <2>3
<1>5. ASSUME SessionEnd PROVE ResultInv'
  <2>1. /\ results' = <<>> /\ UNCHANGED <<plugin, pc, passes, output>>
        /\ causes' = IF \E c \in Calls : UnderWay(c) THEN causes \union {"cleared"} ELSE causes
    BY <1>5 DEF SessionEnd
  <2>2. CASE \E c \in Calls : UnderWay(c)
    <3>1. causes' = causes \union {"cleared"} /\ results' \in Seq(Calls)
      BY <2>1, <2>2
    <3>2. causes' \intersect {"cleared", "evicted"} # {}
      BY <3>1
    <3>. HIDE <2>2
    <3>. QED  BY <2>1, <3>1, <3>2
  <2>3. CASE \A c \in Calls : pc[c] \in {"new", "blocked", "returned"}
    BY <2>1, <2>3 DEF UnderWay
  <2>. QED  BY <2>2, <2>3 DEF UnderWay
<1>6. ASSUME RegisterBegin \/ RegisterEnd \/ UNCHANGED vars PROVE ResultInv'
  BY <1>6 DEF RegisterBegin, RegisterEnd, history, vars
<1>. QED  BY <1>1, <1>2, <1>3, <1>4, <1>5, <1>6 DEF Next

-----------------------------------------------------------------------------
(* Every hook its own context.                                             *)

\* A running call's context waits in the stash, and its post hook takes it.
OwnTaken(c) ==
  /\ pc[c] \in {"new", "ask", "blocked"} => popped[c] = {}
  /\ pc[c] = "running" => popped[c] = {} /\ \E i \in 1..Len(stash) : stash[i] = c
  /\ pc[c] \in {"posted", "returned"} => popped[c] = {c}

\* Nothing else is in the stash, and nothing there can be confused.
StashClear ==
  /\ \A i \in 1..Len(stash) : pc[stash[i]] = "running"
  /\ \A i, j \in 1..Len(stash) : i # j => ~Similar(ctx[stash[i]], ctx[stash[j]])

OwnInv ==
  /\ ctx \in [Calls -> Context \union {None}]
  /\ causes = {} => (\A c \in Calls : OwnTaken(c)) /\ StashClear

\* Where nothing can be confused with its context, a hook finds its own.
LEMMA OwnFound ==
  ASSUME stash \in Seq(Calls), NEW c \in Calls, NEW thread \in Threads,
         NEW p \in 1..Len(stash), stash[p] = c,
         \A i \in 1..Len(stash) : i # p => ~Similar(ctx[stash[i]], ctx[c])
  PROVE  Found(c, thread) = p
<1>. DEFINE first == Min(Passes(c, thread))
            hits == Hits(c, thread, first)
<1>1. 4 \in Passes(c, thread) /\ (ctx[c].task # NoTask => 2 \in Passes(c, thread))
  <2>1. Matches(c, c, thread, 4) /\ (ctx[c].task # NoTask => Matches(c, c, thread, 2))
    BY DEF Matches
  <2>. QED  BY <2>1 DEF Passes, Hits
<1>2. /\ first \in Passes(c, thread) /\ first \in 1..4
      /\ ctx[c].task # NoTask => first \in {1, 2}
  <2>1. Passes(c, thread) \in SUBSET Nat /\ Passes(c, thread) \subseteq 1..4
    BY DEF Passes
  <2>2. first \in Passes(c, thread) /\ \A x \in Passes(c, thread) : first <= x
    BY <1>1, <2>1, MinIsLeast
  <2>. HIDE DEF first
  <2>. QED  BY <1>1, <2>1, <2>2
<1>. HIDE DEF first
<1>3. hits # {}
  BY <1>2 DEF Passes
<1>4. \A i \in hits : i \in 1..Len(stash) /\ Similar(ctx[stash[i]], ctx[c])
  BY <1>2 DEF Hits, Matches, Similar
<1>5. hits = {p}
  BY <1>3, <1>4
<1>6. Max(hits) = p
  <2>1. p \in Nat
    OBVIOUS
  <2>. HIDE DEF hits
  <2>. QED  BY <1>5, <2>1 DEF Max
<1>. QED  BY <1>1, <1>6 DEF Found, first

\* A call that passes the gate enters the stash next to nothing it can be
\* confused with.
LEMMA OwnRelease ==
  ASSUME OwnInv, StashInv, Typed', NEW c \in Calls, NEW context \in Context \union {None},
         pc[c] \in {"new", "ask"}, Release(c, context), UNCHANGED popped,
         ctx' = [ctx EXCEPT ![c] = context]
  PROVE  OwnInv'
<1>. USE DEF OwnInv, Typed
<1>. SUFFICES ASSUME causes' = {} PROVE (\A d \in Calls : OwnTaken(d)') /\ StashClear'
  OBVIOUS
<1>1. /\ causes = {} /\ Overflow(stash) = {}
      /\ \A i \in 1..Len(stash) : ~Similar(context, ctx[stash[i]])
      /\ stash' = Put(stash, c) /\ pc' = [pc EXCEPT ![c] = "running"]
  BY DEF Release, Goto
<1>2. /\ stash \in Seq(Calls) /\ Len(stash) \in Nat /\ \A i \in 1..Len(stash) : stash[i] \in Calls
      /\ (\A d \in Calls : OwnTaken(d)) /\ StashClear
  BY <1>1, StashParts DEF StashInv
<1>3. stash' = Append(stash, c)
  BY <1>1, <1>2, PutAll
<1>4. /\ Len(stash') = Len(stash) + 1 /\ stash'[Len(stash) + 1] = c
      /\ \A i \in 1..Len(stash) : stash'[i] = stash[i]
  BY <1>2, <1>3
<1>. HIDE DEF OwnInv, Typed
<1>5. \A i \in 1..Len(stash') : i \in 1..Len(stash) \/ i = Len(stash) + 1
  BY <1>2, <1>4
<1>6. \A i \in 1..Len(stash) : stash[i] # c /\ ctx'[stash[i]] = ctx[stash[i]]
  BY <1>2 DEF StashClear, OwnInv
<1>7. ctx'[c] = context
  BY DEF OwnInv
<1>8. StashClear'
  <2>1. ASSUME NEW i \in 1..Len(stash') PROVE pc'[stash'[i]] = "running"
    <3>1. pc \in [Calls -> Label]
      BY DEF StashInv, Typed
    <3>2. CASE i \in 1..Len(stash)
      <4>1. pc[stash[i]] = "running" /\ stash[i] \in Calls \ {c}
        BY <1>2, <1>6, <3>2 DEF StashClear
      <4>. QED  BY <1>1, <1>4, <3>1, <3>2, <4>1
    <3>3. CASE i = Len(stash) + 1
      BY <1>1, <1>4, <3>1, <3>3
    <3>. QED  BY <1>5, <3>2, <3>3
  <2>2. ASSUME NEW i \in 1..Len(stash'), NEW j \in 1..Len(stash'), i # j
        PROVE  ~Similar(ctx'[stash'[i]], ctx'[stash'[j]])
    <3>1. CASE i \in 1..Len(stash) /\ j \in 1..Len(stash)
      BY <2>2, <3>1, <1>2, <1>4, <1>6 DEF StashClear
    <3>2. CASE i = Len(stash) + 1 /\ j \in 1..Len(stash)
      BY <3>2, <1>1, <1>4, <1>6, <1>7
    <3>3. CASE j = Len(stash) + 1 /\ i \in 1..Len(stash)
      BY <3>3, <1>1, <1>4, <1>6, <1>7 DEF Similar
    <3>. QED  BY <2>2, <3>1, <3>2, <3>3, <1>5
  <2>. QED  BY <2>1, <2>2 DEF StashClear
<1>9. ASSUME NEW d \in Calls PROVE OwnTaken(d)'
  <2>1. CASE d = c
    <3>1. Len(stash) + 1 \in 1..Len(stash')
      BY <1>2, <1>4
    <3>2. pc'[c] = "running" /\ popped'[c] = {}
      BY <1>1, <1>2 DEF OwnTaken, Typed
    <3>. QED  BY <2>1, <3>1, <3>2, <1>4 DEF OwnTaken
  <2>2. CASE d # c
    <3>1. \A i \in 1..Len(stash) : i \in 1..Len(stash') /\ stash'[i] = stash[i]
      BY <1>2, <1>4
    <3>2. pc'[d] = pc[d] /\ popped'[d] = popped[d] /\ OwnTaken(d)
      BY <2>2, <1>1, <1>2 DEF Typed
    <3>. QED  BY <3>1, <3>2 DEF OwnTaken
  <2>. QED  BY <2>1, <2>2
<1>. QED  BY <1>8, <1>9

\* The post hook takes the call's own context and no other.
LEMMA OwnPost ==
  ASSUME OwnInv, StashInv, Typed', NEW c \in Calls, NEW thread \in Threads,
         pc[c] = "running", pc' = [pc EXCEPT ![c] = "posted"], Process(c, thread),
         causes \subseteq causes', UNCHANGED ctx
  PROVE  OwnInv'
<1>. SUFFICES ASSUME causes' = {} PROVE (\A d \in Calls : OwnTaken(d)') /\ StashClear'
  BY DEF OwnInv
<1>1. /\ stash \in Seq(Calls) /\ Len(stash) \in Nat
      /\ \A i \in 1..Len(stash) : stash[i] \in Calls
      /\ \A i, j \in 1..Len(stash) : stash[i] = stash[j] => i = j
      /\ (\A d \in Calls : OwnTaken(d)) /\ StashClear
  BY StashParts DEF StashInv, OwnInv
<1>2. PICK p \in 1..Len(stash) : stash[p] = c
  BY <1>1 DEF OwnTaken
<1>3. Found(c, thread) = p
  <2>1. \A i \in 1..Len(stash) : i # p => ~Similar(ctx[stash[i]], ctx[c])
    BY <1>1, <1>2 DEF StashClear
  <2>. QED  BY <1>1, <1>2, <2>1, OwnFound
<1>4. /\ stash' = RemoveAt(stash, p) /\ popped' = [popped EXCEPT ![c] = @ \union {c}]
  <2>1. p # 0
    OBVIOUS
  <2>. QED  BY <1>2, <1>3, <2>1 DEF Process, Taken
<1>. DEFINE r == RemoveAt(stash, p)
<1>5. /\ r \in Seq(Calls) /\ Len(r) = Len(stash) - 1
      /\ \A j \in 1..(Len(stash) - 1) : r[j] = IF j < p THEN stash[j] ELSE stash[j + 1]
  BY <1>1, RemoveAtKeeps
<1>. HIDE DEF r
<1>. DEFINE old(j) == IF j < p THEN j ELSE j + 1
<1>6. /\ \A j \in 1..Len(r) : old(j) \in 1..Len(stash) /\ old(j) # p /\ r[j] = stash[old(j)]
      /\ \A j, k \in 1..Len(r) : j # k => old(j) # old(k)
  BY <1>1, <1>5
<1>7. \A i \in 1..Len(stash) : i # p => \E j \in 1..Len(r) : r[j] = stash[i]
  <2>. TAKE i \in 1..Len(stash)
  <2>. HAVE i # p
  <2>1. CASE i < p
    <3>1. i \in 1..Len(r) /\ r[i] = stash[i]
      BY <2>1, <1>1, <1>5
    <3>. QED  BY <3>1
  <2>2. CASE i > p
    <3>1. i - 1 \in 1..(Len(stash) - 1) /\ ~(i - 1 < p) /\ (i - 1) + 1 = i
      BY <2>2, <1>1
    <3>2. i - 1 \in 1..Len(r) /\ r[i - 1] = stash[i]
      BY <3>1, <1>5
    <3>. QED  BY <3>2
  <2>. QED  BY <2>1, <2>2
<1>. HIDE DEF old
<1>8. \A j \in 1..Len(r) : r[j] \in Calls /\ r[j] # c
  BY <1>1, <1>2, <1>6
<1>9. \A j \in 1..Len(r) : pc'[r[j]] = "running"
  <2>1. \A j \in 1..Len(r) : pc[r[j]] = "running"
    BY <1>1, <1>6 DEF StashClear
  <2>. QED  BY <1>8, <2>1 DEF StashInv, Typed
<1>10. \A j, k \in 1..Len(r) : j # k => ~Similar(ctx[r[j]], ctx[r[k]])
  <2>. TAKE j, k \in 1..Len(r)
  <2>. HAVE j # k
  <2>1. /\ old(j) \in 1..Len(stash) /\ old(k) \in 1..Len(stash) /\ old(j) # old(k)
        /\ r[j] = stash[old(j)] /\ r[k] = stash[old(k)]
    BY <1>6
  <2>. QED  BY <1>1, <2>1 DEF StashClear
<1>11. StashClear'
  BY <1>4, <1>9, <1>10 DEF StashClear, r
<1>12. ASSUME NEW d \in Calls PROVE OwnTaken(d)'
  <2>1. CASE d = c
    <3>1. pc'[c] = "posted" /\ popped'[c] = {c}
      <4>1. popped[c] = {}
        BY <1>1 DEF OwnTaken
      <4>. QED  BY <1>4, <4>1 DEF StashInv, Typed
    <3>. QED  BY <2>1, <3>1 DEF OwnTaken
  <2>2. CASE d # c
    <3>1. pc'[d] = pc[d] /\ popped'[d] = popped[d] /\ OwnTaken(d)
      BY <2>2, <1>1, <1>4 DEF StashInv, Typed
    <3>2. pc[d] = "running" => \E i \in 1..Len(r) : r[i] = d
      BY <2>2, <1>1, <1>2, <1>7, <3>1 DEF OwnTaken
    <3>. QED  BY <3>1, <3>2, <1>4 DEF OwnTaken, r
  <2>. QED  BY <2>1, <2>2
<1>. QED  BY <1>11, <1>12

\* Calls that are not running may change their place and their context.
LEMMA OwnUndisturbed ==
  ASSUME OwnInv, StashInv, Typed', UNCHANGED <<stash, popped>>, causes \subseteq causes',
         ctx' \in [Calls -> Context \union {None}],
         \A d \in Calls : \/ pc'[d] = pc[d] /\ ctx'[d] = ctx[d]
                          \/ pc[d] \in {"new", "ask"} /\ pc'[d] \in {"ask", "blocked"}
                          \/ pc[d] = "posted" /\ pc'[d] = "returned"
  PROVE  OwnInv'
<1>. SUFFICES ASSUME causes' = {} PROVE (\A d \in Calls : OwnTaken(d)') /\ StashClear'
  BY DEF OwnInv
<1>1. /\ stash \in Seq(Calls) /\ \A i \in 1..Len(stash) : stash[i] \in Calls
      /\ (\A d \in Calls : OwnTaken(d)) /\ StashClear
  BY StashParts DEF StashInv, OwnInv
<1>2. \A i \in 1..Len(stash) : pc'[stash[i]] = "running" /\ ctx'[stash[i]] = ctx[stash[i]]
  BY <1>1 DEF StashClear
<1>3. StashClear'
  BY <1>1, <1>2 DEF StashClear
<1>4. ASSUME NEW d \in Calls PROVE OwnTaken(d)'
  BY <1>1 DEF OwnTaken
<1>. QED  BY <1>3, <1>4

LEMMA OwnInit == Init => OwnInv
  BY DEF Init, OwnInv, OwnTaken, StashClear

LEMMA OwnStep ==
  ASSUME OwnInv, StashInv, ResultInv, [Next]_vars
  PROVE  OwnInv'
<1>1. Typed' /\ Typed /\ stash \in Seq(Calls) /\ ctx \in [Calls -> Context \union {None}]
  BY TypedStep, StashParts DEF StashInv, OwnInv
<1>2. causes = {} => /\ plugin # "off"
                     /\ plugin = "error" => \A c \in Calls : pc[c] \in {"new", "blocked"}
                     /\ \A c \in Calls : pc[c] = "posted" => Contains(results, c)
  BY DEF ResultInv, Initialized, ResultOnce
<1>3. ASSUME NEW c \in Calls, PreUnchecked(c) PROVE OwnInv'
  <2>1. /\ pc[c] = "new" /\ UNCHANGED <<stash, popped, causes>>
        /\ \/ pc' = [pc EXCEPT ![c] = "blocked"] /\ UNCHANGED ctx
           \/ plugin = "off" /\ \E new \in Context : ctx' = [ctx EXCEPT ![c] = new]
    BY <1>3 DEF PreUnchecked, Goto, history
  <2>2. CASE plugin = "off"
    BY <1>1, <1>2, <2>1, <2>2 DEF OwnInv
  <2>3. CASE plugin # "off"
    BY <1>1, <2>1, <2>3, OwnUndisturbed DEF Typed
  <2>. QED  BY <2>2, <2>3
<1>4. ASSUME NEW c \in Calls, Pre(c) PROVE OwnInv'
  <2>1. pc[c] = "new" /\ UNCHANGED popped
    BY <1>4 DEF Pre
  <2>2. PICK new \in Context :
          \/ Goto(c, "blocked") /\ UNCHANGED <<ctx, stash, causes>>
          \/ ctx' = [ctx EXCEPT ![c] = new] /\ Release(c, new)
          \/ ctx' = [ctx EXCEPT ![c] = new] /\ Goto(c, "ask") /\ UNCHANGED <<stash, causes>>
    BY <1>4 DEF Pre
  <2>3. CASE ctx' = [ctx EXCEPT ![c] = new] /\ Release(c, new)
    BY <1>1, <2>1, <2>3, OwnRelease
  <2>4. CASE /\ pc' = [pc EXCEPT ![c] = "blocked"] \/ pc' = [pc EXCEPT ![c] = "ask"]
             /\ ctx' = ctx \/ ctx' = [ctx EXCEPT ![c] = new]
             /\ UNCHANGED <<stash, causes>>
    <3>1. /\ ctx' \in [Calls -> Context \union {None}] /\ causes \subseteq causes'
          /\ \A d \in Calls : \/ pc'[d] = pc[d] /\ ctx'[d] = ctx[d]
                              \/ pc[d] \in {"new", "ask"} /\ pc'[d] \in {"ask", "blocked"}
      <4>1. ctx' \in [Calls -> Context \union {None}]
        BY <1>1, <2>4
      <4>2. \A d \in Calls \ {c} : pc'[d] = pc[d] /\ ctx'[d] = ctx[d]
        BY <1>1, <2>4 DEF Typed
      <4>3. pc'[c] \in {"ask", "blocked"}
        BY <1>1, <2>4 DEF Typed
      <4>. QED  BY <2>1, <2>4, <4>1, <4>2, <4>3
    <3>. QED  BY <1>1, <2>1, <2>4, <3>1, OwnUndisturbed
  <2>. QED  BY <2>2, <2>3, <2>4 DEF Goto
<1>5. ASSUME NEW c \in Calls, Approve(c) PROVE OwnInv'
  <2>1. /\ pc[c] = "ask" /\ Release(c, ctx[c]) /\ UNCHANGED <<popped, ctx>>
        /\ ctx[c] \in Context \union {None} /\ ctx' = [ctx EXCEPT ![c] = ctx[c]]
    BY <1>1, <1>5 DEF Approve
  <2>. QED  BY <1>1, <2>1, OwnRelease
<1>6. ASSUME NEW c \in Calls, Refuse(c) PROVE OwnInv'
  <2>1. /\ pc[c] = "ask" /\ pc' = [pc EXCEPT ![c] = "blocked"]
        /\ ctx' = [ctx EXCEPT ![c] = None] /\ UNCHANGED <<stash, popped, causes>>
    BY <1>6 DEF Refuse, Goto
  <2>2. /\ ctx' \in [Calls -> Context \union {None}] /\ causes \subseteq causes'
        /\ \A d \in Calls : \/ pc'[d] = pc[d] /\ ctx'[d] = ctx[d]
                            \/ pc[d] \in {"new", "ask"} /\ pc'[d] \in {"ask", "blocked"}
    BY <1>1, <2>1 DEF Typed
  <2>. QED  BY <1>1, <2>1, <2>2, OwnUndisturbed
<1>7. ASSUME NEW c \in Calls, NEW thread \in Threads, Post(c, thread) PROVE OwnInv'
  <2>1. /\ pc[c] = "running" /\ pc' = [pc EXCEPT ![c] = "posted"]
        /\ causes \subseteq causes' /\ UNCHANGED ctx
    BY <1>7 DEF Post, Goto
  <2>2. CASE plugin = "on"
    <3>1. Process(c, thread)
      BY <1>7, <2>2 DEF Post
    <3>. QED  BY <1>1, <2>1, <3>1, OwnPost
  <2>3. CASE plugin # "on"
    BY <1>1, <1>2, <2>1, <2>3 DEF Typed, OwnInv
  <2>. QED  BY <2>2, <2>3
<1>8. ASSUME NEW c \in Calls, NEW thread \in Threads, Transform(c, thread) PROVE OwnInv'
  <2>1. /\ pc[c] = "posted" /\ pc' = [pc EXCEPT ![c] = "returned"] /\ UNCHANGED <<ctx, causes>>
    BY <1>8 DEF Transform, Goto
  <2>2. CASE causes = {}
    <3>1. UNCHANGED <<stash, popped>>
      BY <1>2, <1>8, <2>1, <2>2 DEF Transform
    <3>2. \A d \in Calls : \/ pc'[d] = pc[d] /\ ctx'[d] = ctx[d]
                           \/ pc[d] = "posted" /\ pc'[d] = "returned"
      BY <1>1, <2>1 DEF Typed
    <3>. QED  BY <1>1, <2>1, <3>1, <3>2, OwnUndisturbed
  <2>3. CASE causes # {}
    BY <2>1, <2>3 DEF OwnInv
  <2>. QED  BY <2>2, <2>3
<1>9. ASSUME SessionEnd PROVE OwnInv'
  <2>1. /\ stash' = <<>> /\ UNCHANGED <<plugin, pc, ctx, popped>>
        /\ causes' = IF \E c \in Calls : UnderWay(c) THEN causes \union {"cleared"} ELSE causes
    BY <1>9 DEF SessionEnd
  <2>2. CASE \E c \in Calls : UnderWay(c)
    BY <2>1, <2>2 DEF OwnInv
  <2>3. CASE \A c \in Calls : pc[c] # "running"
    BY <1>1, <2>1, <2>3 DEF OwnInv, OwnTaken, StashClear
  <2>. QED  BY <2>2, <2>3 DEF UnderWay
<1>10. ASSUME RegisterBegin \/ RegisterEnd \/ UNCHANGED vars PROVE OwnInv'
  <2>1. UNCHANGED <<pc, ctx, stash, popped>> /\ causes \subseteq causes'
    BY <1>10 DEF RegisterBegin, RegisterEnd, history, vars
  <2>. QED  BY <1>1, <2>1, OwnUndisturbed
<1>. QED  BY <1>3, <1>4, <1>5, <1>6, <1>7, <1>8, <1>9, <1>10 DEF Next

-----------------------------------------------------------------------------
(* The theorems.                                                           *)

LEMMA StashInvariant == Spec => []StashInv
<1>1. StashInv /\ [Next]_vars => StashInv'
  BY StashStep
<1>. QED  BY <1>1, StashInit, PTL DEF Spec

\* The gate holds for any number of concurrent calls and of middlewares, with
\* denials, failures and approvals in any combination, sessions ending and the
\* plugin being registered at any moment: a tool runs only undenied, approved
\* if escalated, and after the audit trail was told (chain.py:388-421,
\* hermes_plugin.py:476-516).
THEOREM GateAlwaysHolds == Spec => []GateHolds
<1>1. GateInv /\ StashInv /\ [Next]_vars => GateInv'
  BY GateStep, StashParts DEF StashInv
<1>2. GateInv => GateHolds
  BY DEF GateInv
<1>. QED  BY <1>1, <1>2, GateInit, StashInvariant, PTL DEF Spec

\* However contexts are confused, evicted or cleared, no two hooks ever get the
\* same one and no call is completed twice in the audit trail, for stashes of
\* every size (hermes_plugin.py:871-925).
THEOREM ContextsUsedOnce == Spec => []ContextUsedOnce
<1>1. StashInv => ContextUsedOnce
  BY DEF StashInv
<1>. QED  BY <1>1, StashInvariant, PTL

LEMMA ResultInvariant == Spec => []ResultInv
<1>1. StashInv /\ ResultInv /\ [Next]_vars => ResultInv'
  BY ResultStep, StashParts DEF StashInv
<1>. QED  BY <1>1, ResultInit, StashInvariant, PTL DEF Spec

\* No result reaches the model without post-dispatch while the plugin is
\* registered only once, and none goes through it twice unless a session ended
\* or a stash overflowed, for stashes of every size (hermes_plugin.py:536-661).
THEOREM ResultsProcessedOnce == Spec => []ProcessedOnce
<1>1. ResultInv => ProcessedOnce
  BY DEF ResultInv, ResultOnce, ProcessedOnce
<1>. QED  BY <1>1, ResultInvariant, PTL

\* A post hook gets the context of its own call, from whatever thread and next
\* to the contexts of any number of calls that never came back, unless contexts
\* that look alike were stashed or a stash lost entries (hermes_plugin.py:871-925).
THEOREM HooksGetOwnContext == Spec => []OwnContext
<1>1. OwnInv /\ StashInv /\ ResultInv /\ [Next]_vars => OwnInv'
  BY OwnStep
<1>2. OwnInv /\ StashInv => OwnContext
  <2>. SUFFICES ASSUME OwnInv, StashInv, causes = {}, NEW c \in Calls
       PROVE  popped[c] \subseteq {c} /\ (pc[c] \in {"posted", "returned"} => popped[c] = {c})
    BY DEF OwnContext
  <2>1. OwnTaken(c) /\ pc[c] \in Label
    BY DEF OwnInv, StashInv, Typed
  <2>. QED  BY <2>1 DEF OwnTaken, Label
<1>. QED  BY <1>1, <1>2, OwnInit, StashInvariant, ResultInvariant, PTL DEF Spec
=============================================================================

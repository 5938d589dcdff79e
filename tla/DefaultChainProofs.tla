------------------------- MODULE DefaultChainProofs -------------------------
(***************************************************************************)
(* Proofs about the default chain, for any threads, configurations, texts, *)
(* tools and numbers of calls.                                             *)
(***************************************************************************)
EXTENDS DefaultChain, SequenceTheorems, FiniteSetTheorems, WellFoundedInduction, TLAPS

-----------------------------------------------------------------------------
(* The inductive invariant.                                                *)

\* A part of an argument that got past the judges, and what kept them from
\* judging it as it is.
VettedPart(p, but) ==
  /\ p.text \notin {"hostile", "contact", "credential"}
  /\ p.text = "subtle" => "late" \in but
  /\ p.text \in {"documented", "doubtful", "suspect"} /\ p.from = "tool" =>
       but \intersect {"late", "mixed", "unregistered", "outranked"} # {}

\* An output that the agent may get.
VettedOutput(o, cfg) ==
  LET unjudged == {"classifier", "late"} \intersect o.fails # {}
  IN /\ o.text = "credential" => "scan" \in o.fails
     /\ o.text \in {"listed", "subtle", "suspect", "hostile"} => unjudged
     /\ o.text \in {"marked", "contact", "suspect", "hostile"} /\ cfg.enforce => "scan" \in o.fails
     /\ o.text = "documented" => unjudged \/ o.scanner = "clean"
     /\ "tracker" \in o.fails \/ (o.label = "tool" /\ o.tracked = o.text)

\* Definition d is the baseline of its name, in baselines bs with names cs confused.
Known(d, bs, cs) ==
  /\ d.name \in Names /\ d.version # None /\ d = [name |-> d.name, version |-> d.version]
  /\ d.name \notin cs => bs[d.name] = d.version

\* Baselines found earlier still hold.
StillThere(base, bs, cs) == \A n \in Names \ cs : base[n] # None => bs[n] = base[n]

Decision == {"allow", "escalate", "deny"}

Early == {"look", "record", "detector", "feed", "assess"}

\* A call, by how far it is.
CallSound(c, bs, cs, cfg) ==
  /\ DOMAIN c = DOMAIN Idle /\ c.decision \in Decision
  /\ c.pc \in {"look", "record"} => c.offer \in Offers
  /\ c.pc \in {"detector", "feed", "assess"} => c.offer = None
  /\ c.pc \in Early => c.data = {}
  /\ c.pc = "record" => StillThere(c.base, bs, cs)
  /\ c.pc = "policy" /\ c.offer # None =>
       c.offer \in Offers /\ \A d \in ToSet(c.offer.defs) : Known(d, bs, cs)
  /\ c.pc \in {"policy", "running"} /\ c.decision = "allow" => \A p \in c.data : VettedPart(p, c.but)
  /\ c.pc = "delivered" => VettedOutput(c.out, cfg)

CallsSound ==
  /\ DOMAIN slot = Threads
  /\ \A t \in Threads : CallSound(slot[t], baselines, confused, config)

ChainInv ==
  /\ config \in Configs
  /\ CallsSound
  /\ \A d \in silent : Known(d, baselines, confused)
  /\ \A p \in Own \union context : p.from = "tool" => p.label \in {"tool", "none"}

-----------------------------------------------------------------------------
(* The judges.                                                             *)

\* Every nonempty set of natural numbers has a least element.
LEMMA LeastNat ==
  ASSUME NEW S \in SUBSET Nat, S # {}
  PROVE  \E x \in S : \A y \in S : x <= y
<1>1. PICK x \in S : \A y \in S : <<y, x>> \notin OpToRel(<, Nat)
  BY WFMin, NatLessThanWellFounded
<1>2. ASSUME NEW y \in S PROVE ~(y < x)
  BY <1>1 DEF OpToRel
<1>. QED  BY <1>2

\* An argument is a sequence of parts.
LEMMA ArgumentsAreParts ==
  ASSUME NEW args \in ArgumentLists, NEW a \in DOMAIN args
  PROVE  /\ DOMAIN args[a] = 1..Len(args[a])
         /\ ToSet(args[a]) \subseteq Own \union context
<1>. DEFINE parts == Own \union context
<1>1. CASE args \in {<< <<p>> >> : p \in parts}
  <2>1. PICK p \in parts : args = << <<p>> >>
    BY <1>1
  <2>2. args[a] = <<p>>
    BY <2>1
  <2>. QED  BY <2>2 DEF ToSet
<1>2. CASE args \in {<< <<p, q>> >> : p, q \in parts}
  <2>1. PICK p \in parts, q \in parts : args = << <<p, q>> >>
    BY <1>2
  <2>2. args[a] = <<p, q>>
    BY <2>1
  <2>. QED  BY <2>2 DEF ToSet
<1>3. CASE args \in {<< <<p>>, <<q>> >> : p, q \in parts}
  <2>1. PICK p \in parts, q \in parts : args = << <<p>>, <<q>> >>
    BY <1>3
  <2>2. args[a] = <<p>> \/ args[a] = <<q>>
    BY <2>1
  <2>. QED  BY <2>2 DEF ToSet
<1>. QED  BY <1>1, <1>2, <1>3 DEF ArgumentLists

\* What a call with these arguments contains, if classifier and scanner allow it.
LEMMA ArgumentsJudged ==
  ASSUME ChainInv, NEW args \in ArgumentLists, NEW worst \in DOMAIN args,
         NEW late \in SUBSET DOMAIN args, config.late = "none" => late = {},
         Worse(Scabbard(args, late, worst), Scan(args)) = "allow",
         NEW a \in DOMAIN args, NEW p \in ToSet(args[a])
  PROVE  VettedPart(p, Hindrances(args, late, worst))
<1>. DEFINE but == Hindrances(args, late, worst)
<1>1. Scabbard(args, late, worst) = "allow" /\ Scan(args) = "allow"
  BY DEF Worse, Scabbard, Scan
<1>2. p.text \in Texts(args[a]) /\ (p.from = "tool" => p.label \in {"tool", "none"})
  BY ArgumentsAreParts DEF Texts, ToSet, ChainInv
<1>3. late # {} => config.late = "allow"
  BY <1>1, ConfigAssumption DEF Scabbard, ChainInv
<1>4. late # {} => "late" \in but
  BY <1>3 DEF Hindrances
<1>5. p.text \notin {"hostile", "contact", "credential"}
  BY <1>1, <1>2 DEF Scan
<1>6. a \notin late => ~Blocked(args[a])
  BY <1>1 DEF Scabbard
<1>7. p.text = "subtle" => "late" \in but
  BY <1>2, <1>4, <1>6 DEF Blocked, Excused
<1>8. ASSUME p.text \in {"documented", "doubtful", "suspect"}, p.from = "tool"
      PROVE  but \intersect {"late", "mixed", "unregistered", "outranked"} # {}
  <2>1. CASE ~Untrusted(args[a])
    <3>1. p.label = "tool" => "mixed" \in but
      BY <2>1 DEF Hindrances
    <3>2. p.label = "none" => "unregistered" \in but
      BY <1>8 DEF Hindrances
    <3>. QED  BY <1>2, <1>8, <3>1, <3>2
  <2>2. CASE Untrusted(args[a]) /\ p.text \in {"documented", "suspect"}
    <3>1. Blocked(args[a])
      BY <1>2, <2>2 DEF Blocked, Excused
    <3>. QED  BY <3>1, <1>4, <1>6
  <2>3. CASE Untrusted(args[a]) /\ p.text = "doubtful" /\ late = {}
    <3>1. Excused(args[worst], "doubtful")
      BY <1>1, <1>2, <2>3 DEF Scabbard
    <3>2. a # worst
      BY <3>1, <2>3 DEF Excused
    <3>3. "outranked" \in but
      BY <3>2, <1>2, <2>3 DEF Hindrances
    <3>. QED  BY <3>3
  <2>. QED  BY <2>1, <2>2, <2>3, <1>4, <1>8
<1>. QED  BY <1>5, <1>7, <1>8 DEF VettedPart

\* What post-dispatch leaves of an output may reach the agent.
LEMMA OutputsJudged ==
  ASSUME NEW text, NEW fails, "late" \in fails => config.late # "none"
  PROVE  LET o == Post([text |-> text, label |-> "none", scanner |-> "unknown", tracked |-> "none",
                        fails |-> fails])
         IN  VettedOutput(o, config) /\ o.label \in {"tool", "none"}
<1>. DEFINE in  == [text |-> text, label |-> "none", scanner |-> "unknown", tracked |-> "none",
                    fails |-> fails]
            mid == Scanned(in)
            out == Classified(mid)
<1>1. /\ mid = [text |-> mid.text, label |-> "none", scanner |-> mid.scanner, tracked |-> "none",
                fails |-> fails]
      /\ "scan" \in fails \/ mid.text # "credential"
      /\ mid.text \in {"marked", "contact", "suspect", "hostile"} /\ config.enforce => "scan" \in fails
  BY DEF Scanned
<1>. HIDE DEF mid
<1>2. /\ out = [text |-> out.text, label |-> "none", scanner |-> mid.scanner, tracked |-> "none",
                fails |-> fails]
      /\ out.text \in {mid.text, "redacted"}
      /\ out.text \in {"listed", "subtle", "suspect", "hostile"} => {"classifier", "late"} \intersect fails # {}
      /\ out.text = "documented" =>
           {"classifier", "late"} \intersect fails # {} \/ mid.scanner = "clean"
  BY <1>1 DEF Classified
<1>. HIDE DEF out
<1>3. /\ Registered(out).text = out.text /\ Registered(out).fails = fails
      /\ Registered(out).scanner = mid.scanner /\ Registered(out).label \in {"tool", "none"}
      /\ "tracker" \in fails \/ (Registered(out).label = "tool" /\ Registered(out).tracked = out.text)
  BY <1>2 DEF Registered
<1>4. Post(in) = Registered(out)
  BY DEF Post, mid, out
<1>5. VettedOutput(Registered(out), config)
  BY <1>1, <1>2, <1>3 DEF VettedOutput
<1>. QED  BY <1>3, <1>4, <1>5

-----------------------------------------------------------------------------
(* The MCP middleware's record.                                            *)

\* The version offered first is one of those offered.
LEMMA OfferedIsOffered ==
  ASSUME NEW call, call.offer \in Offers, NEW n
  PROVE  /\ Offered(call, n) # None =>
              \E d \in ToSet(call.offer.defs) : d.name = n /\ d.version = Offered(call, n)
         /\ (\E d \in ToSet(call.offer.defs) : d.name = n) => Offered(call, n) # None
<1>. DEFINE defs  == call.offer.defs
            named == {i \in DOMAIN defs : defs[i].name = n}
<1>1. defs \in Seq(ToSet(defs)) /\ \A d \in ToSet(defs) : d.version # None
  BY OfferAssumption
<1>2. DOMAIN defs = 1..Len(defs) /\ named \in SUBSET Nat
  BY <1>1
<1>3. CASE named = {}
  <2>1. Offered(call, n) = None
    BY <1>3 DEF Offered
  <2>. QED  BY <2>1, <1>3 DEF ToSet
<1>4. CASE named # {}
  <2>1. \E i \in named : \A j \in named : i <= j
    BY <1>2, <1>4, LeastNat
  <2>2. Min(named) \in named
    BY <2>1 DEF Min
  <2>3. Offered(call, n) = defs[Min(named)].version
    BY <1>4 DEF Offered
  <2>4. defs[Min(named)] \in ToSet(defs) /\ defs[Min(named)].name = n
    BY <2>2 DEF ToSet
  <2>. QED  BY <2>3, <2>4, <1>1
<1>. QED  BY <1>3, <1>4

\* A name that is not confused keeps its baseline; and after a record that found no drift
\* the baseline is what was offered.
LEMMA Recorded ==
  ASSUME ChainInv, NEW call, call.offer \in Offers, StillThere(call.base, baselines, confused),
         NEW n \in Names \ confused, ~Confused(call, n)
  PROVE  /\ baselines[n] # None => Remembered(call, n) = baselines[n]
         /\ ~Drift(call) => \A d \in ToSet(call.offer.defs) : d.name = n => Remembered(call, n) = d.version
<1>. DEFINE defs == call.offer.defs
            versions == {d.version : d \in {e \in ToSet(defs) : e.name = n}}
            first == Offered(call, n)
<1>1. /\ first # None => first \in versions
      /\ (\E d \in ToSet(defs) : d.name = n) => first # None
  BY OfferedIsOffered
<1>2. \A v \in versions : v # None
  BY OfferAssumption
<1>3. call.base[n] # None \/ versions = {}
        \/ \A v, u \in versions \union ({baselines[n]} \ {None}) : v = u
  BY DEF Confused
<1>4. call.base[n] # None => baselines[n] = call.base[n]
  BY DEF StillThere
<1>5. /\ call.offer.kind = "list" => Remembered(call, n) = IF baselines[n] = None /\ first # None
                                                          THEN first ELSE baselines[n]
      /\ call.offer.kind # "list" => Remembered(call, n) = IF call.base[n] = None /\ first # None
                                                           THEN first ELSE baselines[n]
  BY DEF Remembered
<1>. HIDE DEF first
<1>6. baselines[n] # None => Remembered(call, n) = baselines[n]
  BY <1>1, <1>3, <1>4, <1>5
<1>7. ASSUME ~Drift(call), NEW d \in ToSet(defs), d.name = n
      PROVE  Remembered(call, n) = d.version
  <2>1. d.version \in versions /\ d.version # None /\ first # None
    BY <1>1, <1>2, <1>7
  <2>2. call.base[n] \in {None, d.version}
    BY <1>7 DEF Drift
  <2>3. CASE call.base[n] # None
    BY <2>1, <2>2, <2>3, <1>4, <1>5
  <2>4. CASE call.base[n] = None
    <3>1. first = d.version /\ (baselines[n] # None => baselines[n] = d.version)
      BY <2>1, <2>4, <1>1, <1>3
    <3>. QED  BY <3>1, <2>1, <2>4, <1>5
  <2>. QED  BY <2>3, <2>4
<1>. QED  BY <1>6, <1>7

-----------------------------------------------------------------------------
(* The steps.                                                              *)

\* What holds of a call goes on to hold if the baselines change as Record changes them.
Grown(bs, cs, bs2, cs2) ==
  /\ cs \subseteq cs2
  /\ \A n \in Names \ cs2 : bs[n] # None => bs2[n] = bs[n]

LEMMA KnownStays ==
  ASSUME NEW bs, NEW cs, NEW bs2, NEW cs2, Grown(bs, cs, bs2, cs2),
         NEW d, Known(d, bs, cs)
  PROVE  Known(d, bs2, cs2)
BY DEF Known, Grown

LEMMA CallStays ==
  ASSUME NEW bs, NEW cs, NEW bs2, NEW cs2, Grown(bs, cs, bs2, cs2),
         NEW cfg, NEW c, CallSound(c, bs, cs, cfg)
  PROVE  CallSound(c, bs2, cs2, cfg)
<1>1. StillThere(c.base, bs, cs) => StillThere(c.base, bs2, cs2)
  BY DEF StillThere, Grown
<1>2. ASSUME c.pc = "policy", c.offer # None, NEW d \in ToSet(c.offer.defs)
      PROVE  Known(d, bs2, cs2)
  <2>1. Known(d, bs, cs)
    BY <1>2 DEF CallSound
  <2>. QED  BY <2>1, KnownStays
<1>. QED  BY <1>1, <1>2 DEF CallSound

LEMMA IdleSound ==
  ASSUME NEW bs, NEW cs, NEW cfg
  PROVE  CallSound(Idle, bs, cs, cfg)
BY DEF CallSound, Idle, Early, Decision

\* The calls of the other threads stay sound, and so does this one if its next step is.
LEMMA SlotSound ==
  ASSUME ChainInv, NEW t \in Threads, config' = config,
         DOMAIN slot' = Threads, \A u \in Threads \ {t} : slot'[u] = slot[u],
         Grown(baselines, confused, baselines', confused'),
         CallSound(slot'[t], baselines', confused', config)
  PROVE  CallsSound'
<1>1. ASSUME NEW u \in Threads \ {t} PROVE CallSound(slot[u], baselines', confused', config)
  <2>1. CallSound(slot[u], baselines, confused, config)
    BY DEF ChainInv, CallsSound
  <2>. QED  BY <2>1, CallStays
<1>2. \A u \in Threads : CallSound(slot'[u], baselines', confused', config')
  BY <1>1
<1>. QED  BY <1>2 DEF CallsSound

LEMMA ProceedSound ==
  ASSUME ChainInv, NEW t \in Threads, NEW call, Proceed(t, call), config' = config,
         Grown(baselines, confused, baselines', confused'),
         call.decision # "deny" => CallSound(call, baselines', confused', config)
  PROVE  CallsSound'
<1>1. /\ DOMAIN slot' = Threads /\ \A u \in Threads \ {t} : slot'[u] = slot[u]
      /\ slot'[t] = IF call.decision = "deny" THEN Idle ELSE call
  BY DEF ChainInv, CallsSound, Proceed
<1>2. CallSound(slot'[t], baselines', confused', config)
  BY <1>1, IdleSound
<1>. QED  BY <1>1, <1>2, SlotSound

\* The steps that touch nothing but their slot and what no invariant is about.
LEMMA OwnStep ==
  ASSUME ChainInv, CallsSound', UNCHANGED <<config, baselines, confused, silent, context>>
  PROVE  ChainInv'
BY DEF ChainInv

LEMMA Unmoved ==
  ASSUME UNCHANGED <<baselines, confused>>
  PROVE  Grown(baselines, confused, baselines', confused')
BY DEF Grown

LEMMA BeginStep ==
  ASSUME ChainInv, NEW t \in Threads, NEW call, NEW aspect, Begin(t, call, aspect),
         call.decision # "deny" => CallSound(call, baselines, confused, config)
  PROVE  ChainInv'
BY ProceedSound, OwnStep, Unmoved DEF Begin

LEMMA UseDataStep ==
  ASSUME ChainInv, NEW t \in Threads, UseData(t)
  PROVE  ChainInv'
<1>1. PICK args \in ArgumentLists : \E worst \in DOMAIN args :
        \E late \in IF config.late = "none" THEN {{}} ELSE SUBSET DOMAIN args :
          Begin(t, [Idle EXCEPT
               !.pc = "policy",
               !.decision = Worse(Scabbard(args, late, worst), Scan(args)),
               !.data = UNION {ToSet(args[a]) : a \in DOMAIN args},
               !.but = Hindrances(args, late, worst)], "data")
  BY DEF UseData
<1>2. PICK worst \in DOMAIN args, late \in SUBSET DOMAIN args :
        /\ config.late = "none" => late = {}
        /\ Begin(t, [Idle EXCEPT
               !.pc = "policy",
               !.decision = Worse(Scabbard(args, late, worst), Scan(args)),
               !.data = UNION {ToSet(args[a]) : a \in DOMAIN args},
               !.but = Hindrances(args, late, worst)], "data")
  BY <1>1
<1>. DEFINE decision == Worse(Scabbard(args, late, worst), Scan(args))
            data     == UNION {ToSet(args[a]) : a \in DOMAIN args}
            but      == Hindrances(args, late, worst)
            call     == [Idle EXCEPT !.pc = "policy", !.decision = decision, !.data = data, !.but = but]
<1>3. decision = "allow" => \A p \in data : VettedPart(p, but)
  BY <1>2, ArgumentsJudged
<1>6. decision \in Decision
  BY DEF Worse, Decision
<1>4. Begin(t, call, "data")
  BY <1>2
<1>. HIDE DEF decision, data, but
<1>5. CallSound(call, baselines, confused, config)
  BY <1>3, <1>6 DEF CallSound, Idle, Early, Decision
<1>. HIDE DEF call
<1>. QED  BY <1>4, <1>5, BeginStep

LEMMA RegisterStep ==
  ASSUME ChainInv, NEW t \in Threads, Register(t)
  PROVE  ChainInv'
<1>1. PICK offer \in Offers : Begin(t, [Idle EXCEPT !.pc = "look", !.offer = offer], "offer")
  BY DEF Register
<1>2. CallSound([Idle EXCEPT !.pc = "look", !.offer = offer], baselines, confused, config)
  BY DEF CallSound, Idle, Early, Decision
<1>. QED  BY <1>1, <1>2, BeginStep

LEMMA SpeakStep ==
  ASSUME ChainInv, NEW t \in Threads, Speak(t)
  PROVE  ChainInv'
<1>1. PICK s \in Sessions, turn \in {"calm", "hostile"} :
        Begin(t, [Idle EXCEPT !.pc = "detector", !.session = s, !.turn = turn], "turn")
  BY DEF Speak
<1>2. CallSound([Idle EXCEPT !.pc = "detector", !.session = s, !.turn = turn],
                baselines, confused, config)
  BY DEF CallSound, Idle, Early, Decision
<1>. QED  BY <1>1, <1>2, BeginStep

\* The steps of the multi-turn middleware, and the look at the baselines.
LEMMA EarlyStep ==
  ASSUME ChainInv, NEW t \in Threads, LookUp(t) \/ FindDetector(t) \/ AddTurn(t) \/ Assess(t)
  PROVE  ChainInv'
<1>1. CallSound(slot[t], baselines, confused, config)
  BY DEF ChainInv, CallsSound
<1>2. CASE LookUp(t)
  <2>. DEFINE call == [slot[t] EXCEPT !.pc = "record", !.base = baselines]
  <2>1. CallSound(call, baselines, confused, config)
    BY <1>1, <1>2 DEF CallSound, LookUp, StillThere, Idle, Early
  <2>2. Proceed(t, call)
    BY <1>2 DEF LookUp
  <2>. HIDE DEF call
  <2>. QED  BY <1>2, <2>1, <2>2, ProceedSound, OwnStep, Unmoved DEF LookUp
<1>3. CASE FindDetector(t)
  <2>. DEFINE call == [slot[t] EXCEPT !.pc = "feed", !.detector = current]
  <2>1. CallSound(call, baselines, confused, config)
    BY <1>1, <1>3 DEF CallSound, FindDetector, Idle, Early
  <2>2. Proceed(t, call)
    BY <1>3 DEF FindDetector
  <2>. HIDE DEF call
  <2>. QED  BY <1>3, <2>1, <2>2, ProceedSound, OwnStep, Unmoved DEF FindDetector
<1>4. CASE AddTurn(t)
  <2>1. PICK d, place, due :
          Proceed(t, [slot[t] EXCEPT !.pc = "assess", !.detector = d, !.place = place, !.due = due])
    BY <1>4 DEF AddTurn
  <2>. DEFINE call == [slot[t] EXCEPT !.pc = "assess", !.detector = d, !.place = place, !.due = due]
  <2>2. slot[t].pc = "feed" /\ UNCHANGED <<config, baselines, confused, silent, context>>
    BY <1>4 DEF AddTurn
  <2>3. CallSound(call, baselines, confused, config)
    BY <1>1, <2>2 DEF CallSound, Idle, Early, Decision
  <2>4. Proceed(t, call)
    BY <2>1
  <2>. HIDE DEF call
  <2>. QED  BY <2>2, <2>3, <2>4, ProceedSound, OwnStep, Unmoved
<1>5. CASE Assess(t)
  <2>1. PICK but, decision :
          /\ decision \in Decision
          /\ Proceed(t, [slot[t] EXCEPT !.pc = "policy", !.but = but, !.decision = decision])
    BY <1>1, <1>5 DEF Assess, CallSound, Decision
  <2>. DEFINE call == [slot[t] EXCEPT !.pc = "policy", !.but = but, !.decision = decision]
  <2>2. slot[t].pc = "assess" /\ UNCHANGED <<config, baselines, confused, silent, context>>
    BY <1>5 DEF Assess
  <2>3. CallSound(call, baselines, confused, config)
    BY <1>1, <2>1, <2>2 DEF CallSound, Idle, Early, Decision
  <2>4. Proceed(t, call)
    BY <2>1
  <2>. HIDE DEF call
  <2>. QED  BY <2>2, <2>3, <2>4, ProceedSound, OwnStep, Unmoved
<1>. QED  BY <1>2, <1>3, <1>4, <1>5

LEMMA RecordStep ==
  ASSUME ChainInv, NEW t \in Threads, Record(t)
  PROVE  ChainInv'
<1>. DEFINE c    == slot[t]
            call == [c EXCEPT !.pc = "policy", !.decision = IF Drift(c) THEN "deny" ELSE @]
<1>1. /\ c.pc = "record" /\ Proceed(t, call)
      /\ baselines' = [n \in Names |-> Remembered(c, n)]
      /\ confused' = confused \union {n \in Names : Confused(c, n)}
      /\ UNCHANGED <<config, context, silent>>
  BY DEF Record
<1>2. CallSound(c, baselines, confused, config)
  BY DEF ChainInv, CallsSound
<1>3. c.offer \in Offers /\ StillThere(c.base, baselines, confused) /\ c.data = {}
  BY <1>1, <1>2 DEF CallSound, Early
<1>4. ASSUME NEW n \in Names \ confused'
      PROVE  /\ n \in Names \ confused /\ baselines'[n] = Remembered(c, n)
             /\ baselines[n] # None => Remembered(c, n) = baselines[n]
             /\ ~Drift(c) => \A d \in ToSet(c.offer.defs) : d.name = n => Remembered(c, n) = d.version
  <2>1. n \in Names \ confused /\ ~Confused(c, n) /\ baselines'[n] = Remembered(c, n)
    BY <1>1
  <2>. QED  BY <2>1, <1>3, Recorded
<1>5. Grown(baselines, confused, baselines', confused')
  BY <1>1, <1>4 DEF Grown
<1>6. ASSUME ~Drift(c), NEW d \in ToSet(c.offer.defs)
      PROVE  Known(d, baselines', confused')
  BY <1>3, <1>4, <1>6, OfferAssumption DEF Known
<1>7. call.decision # "deny" => CallSound(call, baselines', confused', config)
  <2>1. /\ DOMAIN call = DOMAIN Idle /\ call.pc = "policy" /\ call.offer = c.offer
        /\ call.data = {} /\ (Drift(c) => call.decision = "deny") /\ call.decision \in Decision
    BY <1>2, <1>3 DEF CallSound, Idle, Decision
  <2>. HIDE DEF call
  <2>. QED  BY <2>1, <1>3, <1>6 DEF CallSound, Early
<1>. HIDE DEF call
<1>8. CallsSound'
  BY <1>1, <1>5, <1>7, ProceedSound
<1>9. \A d \in silent : Known(d, baselines', confused')
  <2>. SUFFICES ASSUME NEW d \in silent PROVE Known(d, baselines', confused')
    OBVIOUS
  <2>1. Known(d, baselines, confused)
    BY DEF ChainInv
  <2>. QED  BY <2>1, <1>5, KnownStays
<1>. QED  BY <1>1, <1>8, <1>9 DEF ChainInv

LEMMA PolicyStep ==
  ASSUME ChainInv, NEW t \in Threads, Policy(t)
  PROVE  ChainInv'
<1>1. CallSound(slot[t], baselines, confused, config)
  BY DEF ChainInv, CallsSound
<1>2. PICK d \in {"allow", "escalate", "deny"} :
        /\ Proceed(t, [slot[t] EXCEPT !.pc = "running", !.decision = Worse(slot[t].decision, d)])
        /\ silent' = IF Worse(slot[t].decision, d) = "allow" /\ slot[t].offer # None
                     THEN silent \union ToSet(slot[t].offer.defs) ELSE silent
  BY DEF Policy
<1>3. slot[t].pc = "policy" /\ UNCHANGED <<config, baselines, confused, context>>
  BY DEF Policy
<1>4. /\ Worse(slot[t].decision, d) \in Decision
      /\ Worse(slot[t].decision, d) = "allow" => slot[t].decision = "allow"
  BY <1>1 DEF Worse, CallSound, Decision
<1>. DEFINE call == [slot[t] EXCEPT !.pc = "running", !.decision = Worse(slot[t].decision, d)]
<1>5. CallSound(call, baselines, confused, config)
  <2>1. /\ DOMAIN call = DOMAIN Idle /\ call.pc = "running" /\ call.data = slot[t].data
        /\ call.but = slot[t].but /\ call.decision = Worse(slot[t].decision, d)
    BY <1>1 DEF CallSound, Idle
  <2>. HIDE DEF call
  <2>. QED  BY <1>1, <1>3, <1>4, <2>1 DEF CallSound, Early
<1>6. \A e \in silent' : Known(e, baselines, confused)
  BY <1>1, <1>2, <1>3 DEF CallSound, ChainInv
<1>7. Proceed(t, call)
  BY <1>2
<1>. HIDE DEF call
<1>8. CallsSound'
  BY <1>3, <1>5, <1>7, ProceedSound, Unmoved
<1>. QED  BY <1>3, <1>6, <1>8 DEF ChainInv

LEMMA DeliverStep ==
  ASSUME ChainInv, NEW t \in Threads, Deliver(t)
  PROVE  ChainInv'
<1>1. CallSound(slot[t], baselines, confused, config) /\ DOMAIN slot = Threads
  BY DEF ChainInv, CallsSound
<1>2. PICK text, fails :
        LET o == Post([text |-> text, label |-> "none", scanner |-> "unknown", tracked |-> "none",
                       fails |-> fails])
        IN /\ "late" \in fails => config.late # "none"
           /\ slot' = [slot EXCEPT ![t].pc = "delivered", ![t].out = o]
           /\ context' = IF o.text = "redacted" THEN context
                         ELSE context \union {Part("tool", o.label, o.text)}
  BY DEF Deliver
<1>. DEFINE o == Post([text |-> text, label |-> "none", scanner |-> "unknown", tracked |-> "none",
                       fails |-> fails])
<1>3. VettedOutput(o, config) /\ o.label \in {"tool", "none"}
  BY <1>2, OutputsJudged
<1>4. /\ slot' = [slot EXCEPT ![t].pc = "delivered", ![t].out = o]
      /\ context' \subseteq context \union {Part("tool", o.label, o.text)}
      /\ UNCHANGED <<config, baselines, confused, silent>>
  BY <1>2 DEF Deliver
<1>. HIDE DEF o
<1>5. /\ DOMAIN slot' = Threads /\ \A u \in Threads \ {t} : slot'[u] = slot[u]
      /\ slot'[t].pc = "delivered" /\ slot'[t].out = o /\ slot'[t].decision = slot[t].decision
      /\ DOMAIN slot'[t] = DOMAIN Idle
  BY <1>1, <1>4 DEF CallSound, Idle
<1>6. CallSound(slot'[t], baselines', confused', config)
  BY <1>1, <1>3, <1>5 DEF CallSound, Early
<1>7. CallsSound'
  BY <1>4, <1>5, <1>6, SlotSound, Unmoved
<1>8. \A p \in Own \union context' : p.from = "tool" => p.label \in {"tool", "none"}
  BY <1>3, <1>4 DEF ChainInv, Part
<1>. QED  BY <1>4, <1>7, <1>8 DEF ChainInv

LEMMA EndStep ==
  ASSUME ChainInv, NEW t \in Threads, End(t)
  PROVE  ChainInv'
<1>1. /\ DOMAIN slot' = Threads /\ slot'[t] = Idle /\ \A u \in Threads \ {t} : slot'[u] = slot[u]
      /\ UNCHANGED <<config, baselines, confused, silent, context>>
  BY DEF End, ChainInv, CallsSound
<1>2. CallSound(slot'[t], baselines', confused', config)
  BY <1>1, IdleSound
<1>3. CallsSound'
  BY <1>1, <1>2, SlotSound, Unmoved
<1>. QED  BY <1>1, <1>3, OwnStep

LEMMA ChainInit == Init => ChainInv
<1>. SUFFICES ASSUME Init PROVE ChainInv
  OBVIOUS
<1>1. CallsSound
  BY IdleSound DEF Init, CallsSound
<1>2. \A p \in Own \union context : p.from = "tool" => p.label \in {"tool", "none"}
  BY OwnAssumption DEF Init
<1>. QED  BY <1>1, <1>2 DEF Init, ChainInv

LEMMA ChainStep == ChainInv /\ [Next]_vars => ChainInv'
<1>. SUFFICES ASSUME ChainInv, [Next]_vars PROVE ChainInv'
  OBVIOUS
<1>1. CASE Next
  BY <1>1, UseDataStep, RegisterStep, SpeakStep, EarlyStep, RecordStep, PolicyStep, DeliverStep, EndStep
     DEF Next
<1>2. CASE UNCHANGED vars
  BY <1>2 DEF vars, ChainInv, CallsSound
<1>. QED  BY <1>1, <1>2

-----------------------------------------------------------------------------
(* The detectors: a second invariant, for the turns in them.               *)

Turn == [session : Sessions, kind : {"calm", "hostile"}]

TurnsTyped ==
  /\ detectors \in Seq(Seq(Turn)) /\ current \in 0..Len(detectors)
  /\ said \in [Sessions -> Seq({"calm", "hostile"})]

\* Every hostile turn in detectors ds is one of its session's turns sd.
HostileSaid(ds, sd) ==
  \A d \in 1..Len(ds) : \A i \in 1..Len(ds[d]) :
    ds[d][i].kind = "hostile" => "hostile" \in ToSet(sd[ds[d][i].session])

\* A call that waits for its assessment has put its turn in a detector, and if
\* it is due, behind nothing but calm turns of its session.
TurnSound(c, ds, sd) ==
  /\ c.pc \in {"look", "record", "detector", "feed"} => ~c.due
  /\ c.pc \in {"detector", "feed", "assess"} => c.session \in Sessions /\ c.turn \in {"calm", "hostile"}
  /\ c.pc = "feed" => c.detector \in 0..Len(ds)
  /\ c.pc = "assess" => c.detector \in 1..Len(ds) /\ c.place \in 1..Len(ds[c.detector])
  /\ c.pc = "assess" /\ c.due =>
       /\ Len(sd[c.session]) >= 3 /\ ds[c.detector][c.place].kind = "hostile"
       /\ \A i \in 1..(c.place - 1) :
            ds[c.detector][i].session = c.session => ds[c.detector][i].kind = "calm"
  /\ c.pc \in {"policy", "running"} /\ c.decision = "allow" /\ c.due => c.but # {}

TurnInv ==
  /\ TurnsTyped /\ HostileSaid(detectors, said)
  /\ \A t \in Threads : TurnSound(slot[t], detectors, said)

\* What an append does to a sequence and its elements.
LEMMA AppendGrows ==
  ASSUME NEW S, NEW q \in Seq(S), NEW e \in S
  PROVE  /\ Append(q, e) \in Seq(S) /\ Len(Append(q, e)) = Len(q) + 1 /\ Len(q) \in Nat
         /\ Append(q, e)[Len(q) + 1] = e
         /\ \A i \in 1..Len(q) : Append(q, e)[i] = q[i]
         /\ e \in ToSet(Append(q, e)) /\ ToSet(q) \subseteq ToSet(Append(q, e))
<1>1. /\ Append(q, e) \in Seq(S) /\ Len(Append(q, e)) = Len(q) + 1 /\ Len(q) \in Nat
      /\ Append(q, e)[Len(q) + 1] = e /\ DOMAIN q = 1..Len(q)
      /\ DOMAIN Append(q, e) = 1..(Len(q) + 1)
      /\ \A i \in 1..Len(q) : Append(q, e)[i] = q[i]
  OBVIOUS
<1>. DEFINE a == Append(q, e)
<1>. HIDE DEF a
<1>2. e \in ToSet(a)
  <2>1. Len(q) + 1 \in DOMAIN a /\ a[Len(q) + 1] = e
    BY <1>1 DEF a
  <2>. QED  BY <2>1 DEF ToSet
<1>3. ToSet(q) \subseteq ToSet(a)
  <2>1. \A i \in DOMAIN q : i \in DOMAIN a /\ a[i] = q[i]
    BY <1>1 DEF a
  <2>. QED  BY <2>1 DEF ToSet
<1>. QED  BY <1>1, <1>2, <1>3 DEF a

\* Detectors and sessions only ever get more turns.
TurnsGrown(ds, sd, ds2, sd2) ==
  /\ Len(ds) <= Len(ds2)
  /\ \A d \in 1..Len(ds) : /\ Len(ds[d]) <= Len(ds2[d])
                           /\ \A i \in 1..Len(ds[d]) : ds2[d][i] = ds[d][i]
  /\ \A s \in Sessions : Len(sd[s]) <= Len(sd2[s])

LEMMA TurnStays ==
  ASSUME NEW ds \in Seq(Seq(Turn)), NEW ds2 \in Seq(Seq(Turn)),
         NEW sd \in [Sessions -> Seq({"calm", "hostile"})],
         NEW sd2 \in [Sessions -> Seq({"calm", "hostile"})],
         TurnsGrown(ds, sd, ds2, sd2), NEW c, TurnSound(c, ds, sd)
  PROVE  TurnSound(c, ds2, sd2)
<1>1. Len(ds) \in Nat /\ Len(ds2) \in Nat /\ Len(ds) <= Len(ds2)
  BY DEF TurnsGrown
<1>2. CASE c.pc = "assess"
  <2>1. /\ c.detector \in 1..Len(ds) /\ c.place \in 1..Len(ds[c.detector]) /\ c.session \in Sessions
        /\ c.detector \in 1..Len(ds2)
    BY <1>1, <1>2 DEF TurnSound
  <2>6. /\ ds[c.detector] \in Seq(Turn) /\ ds2[c.detector] \in Seq(Turn)
        /\ sd[c.session] \in Seq({"calm", "hostile"}) /\ sd2[c.session] \in Seq({"calm", "hostile"})
    BY <2>1
  <2>2. /\ Len(ds[c.detector]) \in Nat /\ Len(ds2[c.detector]) \in Nat
        /\ Len(sd[c.session]) \in Nat /\ Len(sd2[c.session]) \in Nat
    BY <2>6
  <2>3. /\ Len(ds[c.detector]) <= Len(ds2[c.detector]) /\ Len(sd[c.session]) <= Len(sd2[c.session])
        /\ \A i \in 1..Len(ds[c.detector]) : ds2[c.detector][i] = ds[c.detector][i]
    BY <2>1 DEF TurnsGrown
  <2>4. c.place \in 1..Len(ds2[c.detector]) /\ \A i \in 1..(c.place - 1) : i \in 1..Len(ds[c.detector])
    <3>1. \A k, m \in Nat : \A p \in 1..k :
            /\ k <= m => p \in 1..m
            /\ \A i \in 1..(p - 1) : i \in 1..k
      OBVIOUS
    <3>. QED  BY <3>1, <2>1, <2>2, <2>3
  <2>5. ASSUME c.due
        PROVE  /\ Len(sd2[c.session]) >= 3 /\ ds2[c.detector][c.place].kind = "hostile"
               /\ \A i \in 1..(c.place - 1) :
                    ds2[c.detector][i].session = c.session => ds2[c.detector][i].kind = "calm"
    <3>1. /\ Len(sd[c.session]) >= 3 /\ ds[c.detector][c.place].kind = "hostile"
          /\ \A i \in 1..(c.place - 1) :
               ds[c.detector][i].session = c.session => ds[c.detector][i].kind = "calm"
      BY <1>2, <2>5 DEF TurnSound
    <3>2. Len(sd2[c.session]) >= 3
      BY <3>1, <2>2, <2>3
    <3>3. ds2[c.detector][c.place] = ds[c.detector][c.place]
      BY <2>1, <2>3
    <3>4. \A i \in 1..(c.place - 1) : ds2[c.detector][i] = ds[c.detector][i]
      BY <2>3, <2>4
    <3>. QED  BY <3>1, <3>2, <3>3, <3>4
  <2>. QED  BY <1>2, <2>1, <2>4, <2>5 DEF TurnSound
<1>3. CASE c.pc # "assess"
  BY <1>1, <1>3 DEF TurnSound
<1>. QED  BY <1>2, <1>3

\* The other calls stay sound, and so does this one if its next step is.
LEMMA TurnProceeds ==
  ASSUME TurnInv, TurnsTyped', HostileSaid(detectors', said'),
         TurnsGrown(detectors, said, detectors', said'),
         NEW t \in Threads, \A u \in Threads \ {t} : slot'[u] = slot[u],
         TurnSound(slot'[t], detectors', said')
  PROVE  TurnInv'
<1>1. ASSUME NEW u \in Threads \ {t} PROVE TurnSound(slot[u], detectors', said')
  BY TurnStays DEF TurnInv, TurnsTyped
<1>2. \A u \in Threads : TurnSound(slot'[u], detectors', said')
  BY <1>1
<1>3. (HostileSaid(detectors, said))' /\ \A u \in Threads : (TurnSound(slot[u], detectors, said))'
  BY <1>2 DEF HostileSaid, TurnSound
<1>. QED  BY <1>3 DEF TurnInv

\* A step that leaves detectors and sessions alone.
LEMMA TurnKept ==
  ASSUME ChainInv, TurnInv, NEW t \in Threads, UNCHANGED <<detectors, current, said>>,
         \A u \in Threads \ {t} : slot'[u] = slot[u],
         TurnSound(slot'[t], detectors, said)
  PROVE  TurnInv'
<1>1. detectors' = detectors /\ current' = current /\ said' = said
  OBVIOUS
<1>2. TurnsTyped' /\ HostileSaid(detectors', said')
  BY <1>1 DEF TurnInv, TurnsTyped
<1>3. TurnsGrown(detectors, said, detectors', said')
  <2>1. Len(detectors) <= Len(detectors)
    BY DEF TurnInv, TurnsTyped
  <2>2. ASSUME NEW d \in 1..Len(detectors) PROVE Len(detectors[d]) <= Len(detectors[d])
    <3>1. detectors[d] \in Seq(Turn)
      BY DEF TurnInv, TurnsTyped
    <3>. QED  BY <3>1
  <2>3. ASSUME NEW s \in Sessions PROVE Len(said[s]) <= Len(said[s])
    <3>1. said[s] \in Seq({"calm", "hostile"})
      BY DEF TurnInv, TurnsTyped
    <3>. QED  BY <3>1
  <2>. QED  BY <1>1, <2>1, <2>2, <2>3 DEF TurnsGrown
<1>. QED  BY <1>1, <1>2, <1>3, TurnProceeds

LEMMA IdleTurn ==
  ASSUME NEW ds, NEW sd
  PROVE  TurnSound(Idle, ds, sd)
BY DEF TurnSound, Idle

LEMMA TurnGoesOn ==
  ASSUME ChainInv, TurnInv, NEW t \in Threads, UNCHANGED <<detectors, current, said>>,
         NEW call, Proceed(t, call),
         call.decision # "deny" => TurnSound(call, detectors, said)
  PROVE  TurnInv'
<1>1. /\ \A u \in Threads \ {t} : slot'[u] = slot[u]
      /\ slot'[t] = IF call.decision = "deny" THEN Idle ELSE call
  BY DEF ChainInv, CallsSound, Proceed
<1>2. TurnSound(slot'[t], detectors, said)
  BY <1>1, IdleTurn
<1>. QED  BY <1>1, <1>2, TurnKept

\* A new call has no turn yet, or one to add.
LEMMA BeginTurn ==
  ASSUME ChainInv, TurnInv, NEW t \in Threads, NEW call, NEW aspect, Begin(t, call, aspect),
         TurnSound(call, detectors, said)
  PROVE  TurnInv'
BY TurnGoesOn DEF Begin

LEMMA UseDataTurn ==
  ASSUME ChainInv, TurnInv, NEW t \in Threads, UseData(t)
  PROVE  TurnInv'
<1>1. PICK decision, data, but :
        Begin(t, [Idle EXCEPT !.pc = "policy", !.decision = decision, !.data = data, !.but = but], "data")
  BY DEF UseData
<1>2. TurnSound([Idle EXCEPT !.pc = "policy", !.decision = decision, !.data = data, !.but = but],
                detectors, said)
  BY DEF TurnSound, Idle
<1>. QED  BY <1>1, <1>2, BeginTurn

LEMMA RegisterTurn ==
  ASSUME ChainInv, TurnInv, NEW t \in Threads, Register(t)
  PROVE  TurnInv'
<1>1. PICK offer : Begin(t, [Idle EXCEPT !.pc = "look", !.offer = offer], "offer")
  BY DEF Register
<1>2. TurnSound([Idle EXCEPT !.pc = "look", !.offer = offer], detectors, said)
  BY DEF TurnSound, Idle
<1>. QED  BY <1>1, <1>2, BeginTurn

LEMMA SpeakTurn ==
  ASSUME ChainInv, TurnInv, NEW t \in Threads, Speak(t)
  PROVE  TurnInv'
<1>1. PICK s \in Sessions, turn \in {"calm", "hostile"} :
        Begin(t, [Idle EXCEPT !.pc = "detector", !.session = s, !.turn = turn], "turn")
  BY DEF Speak
<1>2. TurnSound([Idle EXCEPT !.pc = "detector", !.session = s, !.turn = turn], detectors, said)
  BY DEF TurnSound, Idle
<1>. QED  BY <1>1, <1>2, BeginTurn

\* The steps of a call that add no turn and assess none.
LEMMA OtherTurn ==
  ASSUME ChainInv, TurnInv, NEW t \in Threads,
         LookUp(t) \/ Record(t) \/ FindDetector(t) \/ Policy(t) \/ Deliver(t) \/ End(t)
  PROVE  TurnInv'
<1>. DEFINE c == slot[t]
<1>1. /\ TurnSound(c, detectors, said) /\ current \in 0..Len(detectors)
      /\ DOMAIN c = DOMAIN Idle /\ c.decision \in Decision /\ DOMAIN slot = Threads
  BY DEF TurnInv, TurnsTyped, ChainInv, CallsSound, CallSound
<1>2. CASE LookUp(t)
  <2>. DEFINE call == [c EXCEPT !.pc = "record", !.base = baselines]
  <2>1. TurnSound(call, detectors, said)
    BY <1>1, <1>2 DEF TurnSound, LookUp, Idle
  <2>2. Proceed(t, call) /\ UNCHANGED <<detectors, current, said>>
    BY <1>2 DEF LookUp
  <2>. HIDE DEF call
  <2>. QED  BY <2>1, <2>2, TurnGoesOn
<1>3. CASE Record(t)
  <2>1. PICK decision : Proceed(t, [c EXCEPT !.pc = "policy", !.decision = decision])
    BY <1>3 DEF Record
  <2>. DEFINE call == [c EXCEPT !.pc = "policy", !.decision = decision]
  <2>2. TurnSound(call, detectors, said)
    BY <1>1, <1>3 DEF TurnSound, Record, Idle
  <2>3. Proceed(t, call) /\ UNCHANGED <<detectors, current, said>>
    BY <1>3, <2>1 DEF Record
  <2>. HIDE DEF call
  <2>. QED  BY <2>2, <2>3, TurnGoesOn
<1>4. CASE FindDetector(t)
  <2>. DEFINE call == [c EXCEPT !.pc = "feed", !.detector = current]
  <2>1. TurnSound(call, detectors, said)
    BY <1>1, <1>4 DEF TurnSound, FindDetector, Idle
  <2>2. Proceed(t, call) /\ UNCHANGED <<detectors, current, said>>
    BY <1>4 DEF FindDetector
  <2>. HIDE DEF call
  <2>. QED  BY <2>1, <2>2, TurnGoesOn
<1>5. CASE Policy(t)
  <2>1. PICK d \in {"allow", "escalate", "deny"} :
          Proceed(t, [c EXCEPT !.pc = "running", !.decision = Worse(c.decision, d)])
    BY <1>5 DEF Policy
  <2>2. Worse(c.decision, d) = "allow" => c.decision = "allow"
    BY <1>1 DEF Worse, Decision
  <2>. DEFINE call == [c EXCEPT !.pc = "running", !.decision = Worse(c.decision, d)]
  <2>3. TurnSound(call, detectors, said)
    BY <1>1, <1>5, <2>2 DEF TurnSound, Policy, Idle
  <2>4. Proceed(t, call) /\ UNCHANGED <<detectors, current, said>>
    BY <1>5, <2>1 DEF Policy
  <2>. HIDE DEF call
  <2>. QED  BY <2>3, <2>4, TurnGoesOn
<1>6. CASE Deliver(t)
  <2>1. PICK o : slot' = [slot EXCEPT ![t].pc = "delivered", ![t].out = o]
    BY <1>6 DEF Deliver
  <2>2. slot'[t].pc = "delivered" /\ \A u \in Threads \ {t} : slot'[u] = slot[u]
    BY <1>1, <2>1 DEF Idle
  <2>3. TurnSound(slot'[t], detectors, said)
    BY <2>2 DEF TurnSound
  <2>. QED  BY <1>6, <2>2, <2>3, TurnKept DEF Deliver
<1>7. CASE End(t)
  BY <1>1, <1>7, IdleTurn, TurnKept DEF End
<1>. QED  BY <1>2, <1>3, <1>4, <1>5, <1>6, <1>7

\* A turn behind those of a detector, or the first of a new one.
LEMMA AddTurnTurn ==
  ASSUME ChainInv, TurnInv, NEW t \in Threads, AddTurn(t)
  PROVE  TurnInv'
<1>. DEFINE c     == slot[t]
            s     == c.session
            turn  == [session |-> s, kind |-> c.turn]
            d     == IF c.detector = 0 THEN Len(detectors) + 1 ELSE c.detector
            turns == IF c.detector = 0 THEN <<>> ELSE detectors[d]
            calm  == Len(said[s]) >= 2 /\ "hostile" \notin ToSet(said[s])
            place == Len(detectors'[d])
            due   == calm /\ c.turn = "hostile"
            call  == [c EXCEPT !.pc = "assess", !.detector = d, !.place = place, !.due = due]
<1>1. /\ c.pc = "feed" /\ Proceed(t, call)
      /\ IF c.detector = 0
         THEN detectors' = Append(detectors, <<turn>>) /\ current' = d
         ELSE detectors' = [detectors EXCEPT ![d] = Append(@, turn)] /\ current' = current
      /\ said' = [said EXCEPT ![s] = Append(@, c.turn)]
  BY DEF AddTurn
<1>2. /\ TurnSound(c, detectors, said) /\ current \in 0..Len(detectors)
      /\ detectors \in Seq(Seq(Turn)) /\ said \in [Sessions -> Seq({"calm", "hostile"})]
      /\ HostileSaid(detectors, said)
  BY DEF TurnInv, TurnsTyped
<1>3. /\ s \in Sessions /\ c.turn \in {"calm", "hostile"} /\ c.detector \in 0..Len(detectors)
      /\ Len(detectors) \in Nat
  BY <1>1, <1>2 DEF TurnSound
<1>4. turn \in Turn
  BY <1>3 DEF Turn
<1>5. /\ DOMAIN c = DOMAIN Idle /\ DOMAIN slot = Threads
  BY DEF ChainInv, CallsSound, CallSound
<1>6. /\ turns \in Seq(Turn) /\ d \in Nat \ {0}
      /\ c.detector # 0 => d \in 1..Len(detectors) /\ turns = detectors[d]
      /\ c.detector = 0 => d = Len(detectors) + 1 /\ turns = <<>>
  BY <1>2, <1>3
<1>. HIDE DEF turn
<1>7. /\ detectors' \in Seq(Seq(Turn)) /\ current' \in 0..Len(detectors')
      /\ Len(detectors') \in Nat /\ Len(detectors) <= Len(detectors')
      /\ 1..Len(detectors') = 1..Len(detectors) \union {d}
      /\ detectors'[d] = Append(turns, turn)
      /\ \A e \in 1..Len(detectors) \ {d} : detectors'[e] = detectors[e]
  <2>1. CASE c.detector = 0
    <3>1. <<turn>> \in Seq(Turn) /\ Append(<<>>, turn) = <<turn>>
      BY <1>4
    <3>2. detectors' = Append(detectors, <<turn>>) /\ current' = d /\ d = Len(detectors) + 1
      BY <1>1, <2>1
    <3>3. /\ detectors' \in Seq(Seq(Turn)) /\ Len(detectors') = Len(detectors) + 1
          /\ detectors'[Len(detectors) + 1] = <<turn>>
          /\ \A e \in 1..Len(detectors) : detectors'[e] = detectors[e]
      BY <3>1, <3>2, <1>2, AppendGrows
    <3>. QED  BY <3>1, <3>2, <3>3, <1>3, <1>6, <2>1
  <2>2. CASE c.detector # 0
    <3>1. /\ detectors' = [detectors EXCEPT ![d] = Append(@, turn)] /\ current' = current
          /\ d \in 1..Len(detectors) /\ turns = detectors[d]
      BY <1>1, <1>6, <2>2
    <3>2. Append(detectors[d], turn) \in Seq(Turn)
      BY <1>2, <1>4, <3>1
    <3>. HIDE DEF d, turns
    <3>3. detectors' \in Seq(Seq(Turn)) /\ Len(detectors') = Len(detectors)
      BY <1>2, <3>1, <3>2
    <3>4. /\ detectors'[d] = Append(detectors[d], turn)
          /\ \A e \in 1..Len(detectors) \ {d} : detectors'[e] = detectors[e]
      BY <1>2, <3>1
    <3>. QED  BY <1>2, <1>3, <3>1, <3>3, <3>4
  <2>. QED  BY <2>1, <2>2
<1>8. /\ detectors'[d] \in Seq(Turn) /\ place = Len(turns) + 1 /\ Len(turns) \in Nat
      /\ detectors'[d][Len(turns) + 1] = turn
      /\ \A i \in 1..Len(turns) : detectors'[d][i] = turns[i]
  BY <1>4, <1>6, <1>7, AppendGrows
<1>9. /\ said' \in [Sessions -> Seq({"calm", "hostile"})]
      /\ said'[s] = Append(said[s], c.turn) /\ said[s] \in Seq({"calm", "hostile"})
      /\ \A r \in Sessions \ {s} : said'[r] = said[r]
  BY <1>1, <1>2, <1>3
<1>10. /\ Len(said'[s]) = Len(said[s]) + 1 /\ Len(said[s]) \in Nat
       /\ c.turn \in ToSet(said'[s])
       /\ ToSet(said[s]) \subseteq ToSet(said'[s])
  BY <1>3, <1>9, AppendGrows
<1>11. turn.session = s /\ turn.kind = c.turn
  BY DEF turn
<1>. HIDE DEF c, d, turns, s, place
<1>12. TurnsTyped'
  BY <1>7, <1>9 DEF TurnsTyped
<1>13. HostileSaid(detectors', said')
  <2>. SUFFICES ASSUME NEW e \in 1..Len(detectors'), NEW i \in 1..Len(detectors'[e]),
                       detectors'[e][i].kind = "hostile"
                PROVE  "hostile" \in ToSet(said'[detectors'[e][i].session])
    BY DEF HostileSaid
  <2>1. ASSUME NEW f \in 1..Len(detectors), NEW j \in 1..Len(detectors[f]),
               detectors[f][j].kind = "hostile"
        PROVE  "hostile" \in ToSet(said'[detectors[f][j].session])
    <3>1. detectors[f] \in Seq(Turn)
      BY <1>2
    <3>2. detectors[f][j] \in Turn
      BY <3>1
    <3>3. detectors[f][j].session \in Sessions
      BY <3>2 DEF Turn
    <3>4. "hostile" \in ToSet(said[detectors[f][j].session])
      BY <1>2, <2>1 DEF HostileSaid
    <3>. QED  BY <3>3, <3>4, <1>9, <1>10
  <2>2. CASE e # d
    <3>1. e \in 1..Len(detectors) /\ detectors'[e] = detectors[e]
      BY <1>7, <2>2
    <3>. QED  BY <2>1, <3>1
  <2>3. CASE e = d /\ i = Len(turns) + 1
    BY <2>3, <1>8, <1>10, <1>11
  <2>4. CASE e = d /\ i # Len(turns) + 1
    <3>1. i \in 1..Len(turns)
      BY <1>8, <2>4 DEF place
    <3>2. Len(turns) # 0
      BY <3>1, <1>8
    <3>3. d \in 1..Len(detectors) /\ turns = detectors[d]
      <4>1. Len(<<>>) = 0
        OBVIOUS
      <4>. QED  BY <4>1, <3>2, <1>6
    <3>4. detectors'[e][i] = detectors[d][i]
      BY <1>8, <2>4, <3>1, <3>3
    <3>. QED  BY <2>1, <3>1, <3>3, <3>4
  <2>. QED  BY <2>2, <2>3, <2>4
<1>14. TurnsGrown(detectors, said, detectors', said')
  <2>1. ASSUME NEW e \in 1..Len(detectors)
        PROVE  /\ Len(detectors[e]) <= Len(detectors'[e])
               /\ \A i \in 1..Len(detectors[e]) : detectors'[e][i] = detectors[e][i]
    <3>1. detectors[e] \in Seq(Turn) /\ Len(detectors[e]) \in Nat
      <4>1. detectors[e] \in Seq(Turn)
        BY <1>2
      <4>. QED  BY <4>1
    <3>2. CASE e # d
      BY <3>1, <3>2, <1>7
    <3>3. CASE e = d
      <4>1. turns = detectors[e]
        BY <3>3, <1>6, <1>3
      <4>. QED  BY <4>1, <3>1, <3>3, <1>8 DEF place
    <3>. QED  BY <3>2, <3>3
  <2>2. ASSUME NEW r \in Sessions PROVE Len(said[r]) <= Len(said'[r])
    <3>1. said[r] \in Seq({"calm", "hostile"})
      BY <1>2
    <3>2. Len(said[r]) \in Nat
      BY <3>1
    <3>. QED  BY <3>2, <1>9, <1>10
  <2>. QED  BY <1>7, <2>1, <2>2 DEF TurnsGrown
<1>15. TurnSound(call, detectors', said')
  <2>1. /\ call.pc = "assess" /\ call.detector = d /\ call.place = place /\ call.due = due
        /\ call.session = s /\ call.turn = c.turn
    BY <1>5 DEF c, s, Idle
  <2>2. d \in 1..Len(detectors') /\ place \in 1..Len(detectors'[d])
    BY <1>7, <1>8 DEF place
  <2>3. ASSUME due
        PROVE  /\ Len(said'[s]) >= 3 /\ detectors'[d][place].kind = "hostile"
               /\ \A i \in 1..(place - 1) :
                    detectors'[d][i].session = s => detectors'[d][i].kind = "calm"
    <3>1. Len(said'[s]) >= 3
      BY <2>3, <1>10
    <3>2. detectors'[d][place].kind = "hostile"
      BY <2>3, <1>8, <1>11
    <3>3. ASSUME NEW i \in 1..(place - 1), detectors'[d][i].session = s
          PROVE  detectors'[d][i].kind = "calm"
      <4>1. i \in 1..Len(turns) /\ Len(turns) # 0
        BY <1>8
      <4>2. d \in 1..Len(detectors) /\ turns = detectors[d] /\ detectors'[d][i] = turns[i]
        <5>1. Len(<<>>) = 0
          OBVIOUS
        <5>. QED  BY <5>1, <4>1, <1>6, <1>8
      <4>3. turns[i] \in Turn
        BY <4>1, <1>6
      <4>4. turns[i].kind \in {"calm", "hostile"}
        BY <4>3 DEF Turn
      <4>5. turns[i].kind # "hostile"
        BY <4>1, <4>2, <3>3, <2>3, <1>2 DEF HostileSaid
      <4>. QED  BY <4>2, <4>4, <4>5
    <3>. QED  BY <3>1, <3>2, <3>3
  <2>. HIDE DEF call, due
  <2>. QED  BY <2>1, <2>2, <2>3, <1>3 DEF TurnSound
<1>. HIDE DEF call
<1>16. /\ \A u \in Threads \ {t} : slot'[u] = slot[u]
       /\ slot'[t] = IF call.decision = "deny" THEN Idle ELSE call
  BY <1>1, <1>5 DEF Proceed
<1>17. TurnSound(slot'[t], detectors', said')
  BY <1>15, <1>16, IdleTurn
<1>. QED  BY <1>12, <1>13, <1>14, <1>16, <1>17, TurnProceeds

\* In a window of three or four turns, one hostile turn behind calm ones is steep.
LEMMA CalmThenHostile ==
  ASSUME EscalationWindow <= 4, NEW turns \in Seq(Turn), Len(turns) >= 3,
         turns[Len(turns)].kind = "hostile",
         \A i \in 1..(Len(turns) - 1) : turns[i].kind = "calm"
  PROVE  Rises(Window(turns))
<1>. DEFINE n    == Len(turns)
            m    == IF n > EscalationWindow THEN n - EscalationWindow + 1 ELSE 1
            w    == Window(turns)
            k    == n - m + 1
            half == Len(w) \div 2
            rest == Len(w) - half
            Risk(a, b) == Cardinality({i \in a..b : w[i].kind = "hostile"})
<1>1. n \in Nat /\ EscalationWindow \in Nat /\ EscalationWindow >= 3
  BY WindowAssumption
<1>2. m \in 1..n /\ k \in {3, 4}
  BY <1>1
<1>. HIDE DEF m
<1>3. Len(w) = k /\ \A i \in 1..k : w[i] = turns[m + i - 1]
  <2>1. w = SubSeq(turns, m, n)
    BY DEF Window, m
  <2>. QED  BY <2>1, <1>1, <1>2
<1>4. w[k].kind = "hostile" /\ \A i \in 1..(k - 1) : w[i].kind = "calm"
  <2>1. w[k] = turns[n] /\ k \in 1..k /\ m + k - 1 = n
    BY <1>1, <1>2, <1>3
  <2>2. ASSUME NEW i \in 1..(k - 1) PROVE w[i].kind = "calm"
    <3>1. i \in 1..k /\ m + i - 1 \in 1..(n - 1)
      BY <1>1, <1>2
    <3>. QED  BY <3>1, <1>3
  <2>. QED  BY <2>1, <2>2
<1>5. w[1].kind = "calm" /\ Last(w).kind = "hostile"
  BY <1>2, <1>3, <1>4 DEF Last
<1>. HIDE DEF w, k, n
<1>6. half \in {1, 2} /\ (k = 3 => half = 1 /\ rest = 2) /\ (k = 4 => half = 2 /\ rest = 2)
  BY <1>2, <1>3
<1>7. {i \in 1..half : w[i].kind = "hostile"} = {}
  BY <1>2, <1>4, <1>6
<1>8. {i \in (half + 1)..Len(w) : w[i].kind = "hostile"} = {k}
  BY <1>2, <1>3, <1>4, <1>6
<1>9. Risk(1, half) = 0 /\ Risk(half + 1, Len(w)) = 1
  BY <1>7, <1>8, FS_EmptySet, FS_Singleton
<1>10. 2 * (Risk(half + 1, Len(w)) * half - Risk(1, half) * rest) >= half * rest
  BY <1>2, <1>6, <1>9
<1>11. Steep(w)
  BY <1>5, <1>10 DEF Steep
<1>12. Rises(w)
  BY <1>2, <1>3, <1>11 DEF Rises
<1>. QED  BY <1>12 DEF w

\* A due call that nothing kept from being judged is no longer allowed.
LEMMA AssessTurn ==
  ASSUME EscalationWindow <= 4, ChainInv, TurnInv, NEW t \in Threads, Assess(t)
  PROVE  TurnInv'
<1>. DEFINE c     == slot[t]
            turns == detectors[c.detector]
            mine  == {i \in 1..Len(turns) : turns[i].session = c.session}
            but   == UNION { IF mine # 1..Len(turns) THEN {"shared"} ELSE {},
                             IF Len(turns) > c.place THEN {"overtaken"} ELSE {},
                             IF Cardinality(mine) < Len(said[c.session]) THEN {"lost"} ELSE {} }
            decision == IF Rises(Window(turns)) THEN "escalate" ELSE c.decision
            call  == [c EXCEPT !.pc = "policy", !.but = but, !.decision = decision]
<1>1. c.pc = "assess" /\ Proceed(t, call) /\ UNCHANGED <<detectors, current, said>>
  BY DEF Assess
<1>2. /\ TurnSound(c, detectors, said) /\ detectors \in Seq(Seq(Turn))
      /\ said \in [Sessions -> Seq({"calm", "hostile"})]
      /\ DOMAIN c = DOMAIN Idle /\ DOMAIN slot = Threads
  BY DEF TurnInv, TurnsTyped, ChainInv, CallsSound, CallSound
<1>3. /\ c.session \in Sessions /\ c.detector \in 1..Len(detectors) /\ c.place \in 1..Len(turns)
      /\ c.due => /\ Len(said[c.session]) >= 3 /\ turns[c.place].kind = "hostile"
                  /\ \A i \in 1..(c.place - 1) :
                       turns[i].session = c.session => turns[i].kind = "calm"
  BY <1>1, <1>2 DEF TurnSound
<1>4. turns \in Seq(Turn) /\ said[c.session] \in Seq({"calm", "hostile"})
  BY <1>2, <1>3
<1>5. Len(turns) \in Nat /\ Len(said[c.session]) \in Nat
  BY <1>4
<1>6. ASSUME c.due, but = {} PROVE Rises(Window(turns))
  <2>1. mine = 1..Len(turns) /\ ~(Len(turns) > c.place)
        /\ ~(Cardinality(mine) < Len(said[c.session]))
    BY <1>6
  <2>2. c.place = Len(turns)
    BY <2>1, <1>3, <1>5
  <2>3. Cardinality(mine) = Len(turns)
    <3>1. ASSUME NEW n \in Nat PROVE Cardinality(1..n) = n
      <4>1. Cardinality(1..n) = IF 1 > n THEN 0 ELSE n - 1 + 1
        BY FS_Interval
      <4>. QED  BY <4>1
    <3>. QED  BY <3>1, <2>1, <1>5
  <2>4. Len(turns) >= 3
    BY <2>1, <2>3, <1>3, <1>5, <1>6
  <2>5. \A i \in 1..Len(turns) : turns[i].session = c.session
    BY <2>1
  <2>6. ASSUME NEW i \in 1..(Len(turns) - 1) PROVE turns[i].kind = "calm"
    <3>1. i \in 1..Len(turns)
      BY <1>5
    <3>. QED  BY <3>1, <2>2, <2>5, <1>3, <1>6
  <2>7. turns[Len(turns)].kind = "hostile"
    BY <2>2, <1>3, <1>6
  <2>. HIDE DEF turns
  <2>. QED  BY <2>4, <2>6, <2>7, <1>4, CalmThenHostile
<1>7. decision = "allow" /\ c.due => but # {}
  BY <1>6
<1>. HIDE DEF but, decision
<1>8. TurnSound(call, detectors, said)
  BY <1>2, <1>7 DEF TurnSound, Idle
<1>. HIDE DEF call
<1>. QED  BY <1>1, <1>8, TurnGoesOn

LEMMA TurnInit == Init => TurnInv
<1>. SUFFICES ASSUME Init PROVE TurnInv
  OBVIOUS
<1>1. detectors = <<>> /\ current = 0 /\ said = [s \in Sessions |-> <<>>] /\ Len(<<>>) = 0
  BY DEF Init
<1>2. TurnsTyped /\ HostileSaid(detectors, said)
  BY <1>1 DEF TurnsTyped, HostileSaid
<1>3. \A t \in Threads : TurnSound(slot[t], detectors, said)
  BY IdleTurn DEF Init
<1>. QED  BY <1>2, <1>3 DEF TurnInv

LEMMA TurnStep ==
  ASSUME EscalationWindow <= 4, ChainInv, TurnInv, [Next]_vars
  PROVE  TurnInv'
<1>1. CASE Next
  BY <1>1, UseDataTurn, RegisterTurn, SpeakTurn, OtherTurn, AddTurnTurn, AssessTurn DEF Next
<1>2. CASE UNCHANGED vars
  <2>1. UNCHANGED <<detectors, current, said, slot>>
    BY <1>2 DEF vars
  <2>. QED  BY <2>1 DEF TurnInv, TurnsTyped, HostileSaid, TurnSound
<1>. QED  BY <1>1, <1>2

-----------------------------------------------------------------------------
(* The theorems.                                                           *)

LEMMA ChainAlways == Spec => []ChainInv
BY ChainInit, ChainStep, PTL DEF Spec

\* No definition of an MCP tool gets in unasked next to another one of its name,
\* unless the two came at once (integration.py:1586-1608).
THEOREM DriftAlwaysNoticed == Spec => []DriftNoticed
<1>1. ChainInv => DriftNoticed
  BY DEF ChainInv, Known, DriftNoticed
<1>. QED  BY ChainAlways, <1>1, PTL

\* No argument gets past classifier and scanner unasked that they would object to,
\* unless what they know of its origin or the time they have is short.
THEOREM ArgumentsAlwaysVetted == Spec => []ArgumentsVetted
<1>1. ChainInv => ArgumentsVetted
  BY DEF ChainInv, CallsSound, CallSound, ArgumentsVetted, Unasked, VettedPart
<1>. QED  BY ChainAlways, <1>1, PTL

\* No secret and nothing the classifier objects to, a lone address and
\* documentation apart, reaches the agent unless a judge failed; what else the
\* scanner finds does so unless all findings are kept back.
THEOREM OutputsAlwaysVetted == Spec => []OutputsVetted
<1>1. ChainInv => OutputsVetted
  BY DEF ChainInv, CallsSound, CallSound, OutputsVetted, VettedOutput
<1>. QED  BY ChainAlways, <1>1, PTL

\* The first hostile turn of a session after two calm ones does not pass unasked, unless other
\* sessions or parallel calls of its own put turns in the detector or lost it turns
\* (multiturn.py:323-374), for the default window and a shorter one.  In a longer window that
\* is full one hostile turn is not steep enough.
THEOREM EscalationIsNoticed ==
  ASSUME EscalationWindow <= 4
  PROVE  Spec => []EscalationNoticed
<1>1. ChainInv /\ TurnInv /\ ChainInv' /\ [Next]_vars => TurnInv'
  BY TurnStep
<1>2. TurnInv => EscalationNoticed
  BY DEF TurnInv, TurnSound, EscalationNoticed, Unasked
<1>. QED  BY <1>1, <1>2, TurnInit, ChainAlways, PTL DEF Spec

=============================================================================

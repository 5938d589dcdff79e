--------------------------- MODULE MCDefaultChain ---------------------------
(* An instance of DefaultChain for TLC. *)
EXTENDS DefaultChain, TLC

CONSTANTS t1, t2, s1, s2, x, y

MCThreads  == {t1, t2}
MCSessions == {s1, s2}
MCNames    == {x, y}

MCOwn == { Part("user", "user", "clean"), Part("user", "user", "doubtful"),
           Part("agent", "none", "suspect"), Part("agent", "none", "listed"),
           Part("agent", "none", "subtle"),
           Part("agent", "none", "hostile") }

MCOutputs == {"doubtful", "suspect", "documented", "listed", "subtle", "hostile", "contact",
              "credential", "marked"}

Definition(n, v) == [name |-> n, version |-> v]

MCOffers ==
  {[kind |-> "tool", defs |-> <<Definition(n, v)>>] : n \in MCNames, v \in 1..2}
    \union {[kind |-> "list", defs |-> <<Definition(x, v), Definition(n, w)>>] :
              n \in MCNames, v \in 1..2, w \in 1..2}

Bounds(data, offer, turn) == [data |-> data, offer |-> offer, turn |-> turn]

\* Only the profile max is strict, keeps back all findings and softens none of them.
Profile(late, max, bounds) ==
  [late |-> late, bounds |-> bounds, strict |-> max, soften |-> ~max, enforce |-> max]

\* The profiles balanced, fast_cpu and max and a timeout that allows or denies, with calls that use
\* data, and the calls that register tools or speak.
MCConfigs ==
  { Profile("none", FALSE, Bounds(2, 0, 0)),
    Profile("escalate", FALSE, Bounds(2, 0, 0)),
    Profile("allow", TRUE, Bounds(2, 0, 0)),
    Profile("allow", FALSE, Bounds(2, 0, 0)),
    Profile("deny", FALSE, Bounds(2, 0, 0)),
    Profile("none", FALSE, Bounds(0, 3, 0)),
    Profile("none", FALSE, Bounds(0, 0, 5)) }

ChainSymmetry == Permutations(Threads) \union Permutations(Sessions)
=============================================================================

----------------------------- MODULE RateTracker -----------------------------
(***************************************************************************)
(* The rate tracker of the proxy, src/hermes_katana/proxy/addon.py: a       *)
(* sliding window per client, a limit that halves with each violation, and *)
(* the eviction of clients when too many are tracked.  A window is the     *)
(* sequence of the ages of its requests, oldest first.                     *)
(***************************************************************************)
EXTENDS Naturals, Sequences, FiniteSetsExt

CONSTANTS
  Clients,
  MaxRequests,   \* max_requests
  Window,        \* window_seconds, in ticks
  MaxClients,    \* _MAX_CLIENTS
  MaxViolations  \* bound: violations of a client

ASSUME RateAssumption ==
  /\ MaxRequests \in Nat \ {0} /\ Window \in Nat
  /\ MaxClients \in Nat /\ MaxViolations \in Nat

VARIABLES
  tracked,     \* the keys of _windows and _violations
  windows,     \* _windows, empty for clients that are not tracked
  violations,  \* _violations, 0 for clients that are not tracked
  granted      \* history: the ages of the requests granted to each client

rateVars == <<tracked, windows, violations, granted>>

RateInit ==
  /\ tracked = {}
  /\ windows = [c \in Clients |-> <<>>]
  /\ violations = [c \in Clients |-> 0]
  /\ granted = [c \in Clients |-> <<>>]

\* What is left of a window when it is popped up to its first request in S.
Since(w, S) == IF S = {} THEN <<>> ELSE SubSeq(w, Min(S), Len(w))

Recent_Exclusive(w) ==   \* mutant: the boundary is expired
  Since(w, {i \in 1..Len(w) : w[i] < Window})

\* The window without the expired requests at its front.
Recent(w) == Since(w, {i \in 1..Len(w) : w[i] <= Window})

\* Time passes; ages beyond the window are all alike.
Older(w) == [i \in 1..Len(w) |-> IF w[i] > Window THEN w[i] ELSE w[i] + 1]

Tick ==
  /\ windows' = [c \in Clients |-> Older(windows[c])]
  /\ granted' = [c \in Clients |->
                   Since(Older(granted[c]), {i \in 1..Len(granted[c]) : granted[c][i] < Window})]
  /\ UNCHANGED <<tracked, violations>>

-----------------------------------------------------------------------------
(* check() *)

\* The limit of a client with n violations.
Limit(n) ==
  LET limit == MaxRequests \div (2 ^ (IF n < 5 THEN n ELSE 5))
  IN IF limit = 0 THEN 1 ELSE limit

Deny(c) ==
  /\ Len(Recent(windows[c])) >= Limit(violations[c])
  /\ violations[c] < MaxViolations
  /\ tracked' = tracked \union {c}
  /\ windows' = [windows EXCEPT ![c] = Recent(@)]
  /\ violations' = [violations EXCEPT ![c] = @ + 1]
  /\ UNCHANGED granted

Decayed_Never(n, length) == n   \* mutant: violations are kept

Decayed(n, length) == IF n > 0 /\ length < Limit(n) \div 2 THEN n - 1 ELSE n

Stale_Denied(ws, keys) ==   \* mutant: one request out of the window suffices
  {k \in keys : Recent(ws[k]) # ws[k] \/ ws[k] = <<>>}

\* The clients that eviction removes.
Stale(ws, keys) == {k \in keys : Recent(ws[k]) = <<>>}

Grant(c) ==
  LET w     == Append(Recent(windows[c]), 0)
      ws    == [windows EXCEPT ![c] = w]
      n     == [violations EXCEPT ![c] = Decayed(@, Len(w))]
      keys  == tracked \union {c}
      gone  == IF Cardinality(keys) > MaxClients THEN Stale(ws, keys) ELSE {}
  IN /\ Len(Recent(windows[c])) < Limit(violations[c])
     /\ tracked' = keys \ gone
     /\ windows' = [k \in Clients |->
                      IF k \in gone THEN <<>>
                      ELSE IF Cardinality(keys) > MaxClients THEN Recent(ws[k]) ELSE ws[k]]
     /\ violations' = [k \in Clients |-> IF k \in gone THEN 0 ELSE n[k]]
     /\ granted' = [granted EXCEPT ![c] = Append(@, 0)]

-----------------------------------------------------------------------------

RateNext == Tick \/ \E c \in Clients : Grant(c) \/ Deny(c)

\* Time goes on, and clients go on asking.
RateSpec ==
  /\ RateInit /\ [][RateNext]_rateVars
  /\ WF_rateVars(Tick)
  /\ \A c \in Clients : WF_rateVars(Grant(c) \/ Deny(c))

-----------------------------------------------------------------------------
(* Properties *)

\* However requests, violations and evictions are interleaved, no client gets
\* more than max_requests requests through within a window.
RateBound == \A c \in Clients : Len(granted[c]) <= MaxRequests

\* A client's limit is only raised again when it is granted a request well
\* within its limit, or after it was granted none for a whole window.
ForgivenOnlyWhenQuiet ==
  [][\A c \in Clients : violations'[c] < violations[c] =>
       \/ granted[c] = <<>>
       \/ granted'[c] # granted[c] /\ Len(granted'[c]) < Limit(violations[c]) \div 2]_rateVars

\* A client that pauses again and again for a window and is denied no more is
\* forgiven its violations, until its limit is too low to decay (addon.py:97:
\* half of a limit below 4 is at most 1, and no granted request finds fewer).
Forgiven ==
  \A c \in Clients :
    []<>(granted[c] = <<>>) /\ <>[][violations'[c] <= violations[c]]_rateVars =>
      <>[](violations[c] = 0 \/ Limit(violations[c]) < 4)

=============================================================================

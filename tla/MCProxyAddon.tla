---------------------------- MODULE MCProxyAddon ----------------------------
(* Instances of ProxyAddon for TLC. *)
EXTENDS ProxyAddon, TLC

CONSTANTS f1, f2, k1

TwoFlows  == {f1, f2}
OneClient == {k1}

MCSecrets == {"s1", "s2"}

Config(mode, inject, tls, allowed, private) ==
  [mode |-> mode, inject |-> inject, allowed |-> allowed, private |-> private, tlsVerify |-> tls]

MCConfigs == {Config("strict", TRUE, TRUE, {}, FALSE), Config("permissive", TRUE, TRUE, {}, TRUE),
              Config("strict", TRUE, FALSE, {"plain"}, FALSE),
              Config("max", FALSE, FALSE, {"provider", "private"}, FALSE)}

Message(head, own, body, shape) == [head |-> head, own |-> own, body |-> body, shape |-> shape]

\* The URL stands for all parts of a request but its headers and its body.
\* At most one part is bad, or the body behind one that the scanner fails on.
MCRequests ==
  {Message(<<"clean", "clean">>, "none", b, x) :
     b \in {"clean", "attack", "fails", "s1"}, x \in {"whole", "oversized", "streamed"}}
  \union {Message(<<u, "clean">>, "none", b, "whole") : u \in {"attack", "fails"}, b \in {"clean", "attack"}}
  \union {Message(<<"clean", h>>, "clean", b, "whole") : h \in {"fails", "s1", "s2"}, b \in {"clean", "s1"}}
  \union {Message(<<"clean", "clean">>, o, "clean", "none") : o \in {"attack", "s1"}}

MCResponses ==
  {Message(<<h>>, "none", b, "whole") : h \in {"clean", "fails"}, b \in {"clean", "attack", "s1", "s2"}}
  \union {Message(<<h>>, "none", "clean", x) : h \in {"clean", "attack", "s1"}, x \in {"oversized", "streamed"}}

MCFrames == {Message(<<>>, "none", b, x) : b \in {"clean", "attack", "fails", "s1"}, x \in {"whole", "oversized"}}

MCSymmetry == Permutations(TwoFlows)
=============================================================================

---------------------------- MODULE MCProxyRunner ---------------------------
(* Instances of ProxyRunner for TLC. *)
EXTENDS ProxyRunner

CONSTANTS agent, cli

BothOwners == {agent, cli}
OneOwner   == {agent}
=============================================================================

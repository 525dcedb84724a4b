--------------------------- MODULE MCProxyTunnel ---------------------------
(* The instance of ProxyTunnel for TLC. *)
EXTENDS ProxyTunnel
=============================================================================

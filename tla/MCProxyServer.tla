--------------------------- MODULE MCProxyServer ---------------------------
(* Instances of ProxyServer for TLC. *)
EXTENDS ProxyServer

CONSTANTS plain, tunnel  \* a connection of each kind

NoClients == {}
OneOfEach == {plain, tunnel}
OnePlain == {plain}
OneTunnel == {tunnel}
=============================================================================

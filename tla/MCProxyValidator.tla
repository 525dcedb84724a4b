-------------------------- MODULE MCProxyValidator --------------------------
(* Instances of ProxyValidator for TLC. *)
EXTENDS ProxyValidator

CONSTANTS j1, j2, v1, e1, e2, sh, t1

TwoJobs == {j1, j2}
OneVariant == {v1}
TwoEmpties == {e1, e2}
OneShutdown == {sh}
OneTask == {t1}
Nobody == {}
WhileStopping == {"stopping"}
Anytime == StopPhases

Nothing == {}
Anything == {"servers", "storage", "lookup"}
AllButServers == {"storage", "lookup"}
=============================================================================

---------------------------- MODULE MCProxyTasks ----------------------------
(* Instances of ProxyTasks for TLC. *)
EXTENDS ProxyTasks

CONSTANTS a, b, bad, e1, e2, o1

\* A provider with two variants and pages, one without variants that sends forms.
TwoProviders ==
  {[name |-> "freeproxylists", types |-> {"anonym", "elite"}, paged |-> TRUE],
   [name |-> "proxylistende", types |-> {}, paged |-> FALSE]}
=============================================================================

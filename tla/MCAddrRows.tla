----------------------------- MODULE MCAddrRows -----------------------------
(* Instances of AddrRows for TLC. *)
EXTENDS AddrRows

BothTargets == {<<"http", "http">>, <<"http", "https">>}
=============================================================================

--------------------------- MODULE MCProxyRotator ---------------------------
(* Instances of ProxyRotator for TLC. *)
EXTENDS ProxyRotator, TLC

CONSTANTS a, b, c1, c2

\* Two addresses for plain targets: two rows compete for one page.
PlainRows == {<<a, "http">>, <<b, "http">>}

OneRow == {<<a, "http">>}

CallerSymmetry == Permutations({c1, c2})
=============================================================================

--------------------------- MODULE MCJudgeRequest ---------------------------
(* Instances of JudgeRequest for TLC. *)
EXTENDS JudgeRequest

At(from, next) == [from |-> from, to |-> from + 2, next |-> next]
Text(local, proxy) == [h \in Hosts |-> IF h = "local" THEN local ELSE proxy]
Header(key, local, proxy) == [key |-> key, text |-> Text(local, proxy)]

\* The address of this host at the start of a value, further behind and twice; the
\* proxy's beside it; headers that only belong to a list.
Local == Header("forward", {At(0, "end")}, {})
LocalBehind == Header("other", {At(2, "space")}, {At(0, "space")})
LocalTwice == Header("forward", {At(0, "space"), At(3, "end")}, {})
Proxy == Header("via", {}, {At(1, "colon")})
Via == Header("via", {}, {})
Plain == Header("other", {}, {})

\* A list of addresses as forwarding proxies write it.
List == Header("forward", {At(0, "comma")}, {At(4, "end")})

SeenHeaders == {Local, LocalBehind, LocalTwice, Proxy, Via, Plain}
AllHeaders == SeenHeaders \cup {List}

\* Up to three headers in one request.
SeenBatches == {<<>>} \cup {<<g>> : g \in SeenHeaders}
  \cup {<<g, h>> : g, h \in SeenHeaders} \cup {<<LocalTwice, Local, h>> : h \in SeenHeaders}
ListBatches == {<<Plain, List>>}
=============================================================================

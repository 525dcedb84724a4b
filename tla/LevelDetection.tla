--------------------------- MODULE LevelDetection ---------------------------
(***************************************************************************)
(* How anonymous a proxy is, judged by the headers that reach the judge    *)
(* through it: LevelDetection.ts.  detect() tests every header with two    *)
(* regular expressions, one for the names of this host and one for those   *)
(* of the proxy.  They are global ones, which start a test where the last  *)
(* match ended (lastIndex) and start over only after a miss.               *)
(*                                                                         *)
(* A header value is the set of places where a name of either host stands, *)
(* each with the index it starts at, the index behind the match, and what  *)
(* follows the name.  detect() runs to its end without an await: while it  *)
(* runs (at # 0) nothing else in the process does.                         *)
(***************************************************************************)
EXTENDS Integers, Sequences

CONSTANT Headers   \* headers the judge may receive, 'host' left out

Hosts == {"local", "proxy"}            \* local_ip, proxy_ip
Keys == {"forward", "via", "other"}    \* the two lists of header names
Followers == {"space", "end", "colon", "comma"}
Place == [from : Nat, to : Nat, next : Followers]

ASSUME HeadersAssumption ==
  Headers \subseteq [key : Keys, text : [Hosts -> SUBSET Place]]

VARIABLES
  recv,       \* recv_headers
  flags,      \* hasLocalIp and hasProxyIp of each header, if set
  lastIndex,  \* lastIndex of the two expressions
  stats,      \* the members of stats that are above zero
  level,      \* _level
  at          \* the header detect() is at, 0 when it is not running

levelVars == <<recv, flags, lastIndex, stats, level, at>>

LevelInit ==
  /\ recv = <<>>
  /\ flags = <<>>
  /\ lastIndex = [h \in Hosts |-> 0]
  /\ stats = {}
  /\ level = -1
  /\ at = 0

-----------------------------------------------------------------------------
(* The regular expressions *)

\* What createAddrRegex() matches: a name with white space, a colon or the end of
\* the value behind it.
Matches(places) == {p \in places : p.next \in {"space", "colon", "end"}}

\* Mutant: a match at the very start of the value is skipped.
HitsBehind(places, index) == {p \in Matches(places) : p.from > index}

\* The matches a test finds that starts at an index.
Hits(places, index) == {p \in Matches(places) : p.from >= index}

\* Where the next test will start: behind the leftmost match.
Behind(hits) == (CHOOSE p \in hits : \A q \in hits : p.from <= q.from).to

-----------------------------------------------------------------------------
(* addRecvHeader() and detect() *)

\* Mutant: every request through the proxy starts afresh.
ReceiveAfresh(hs) ==
  /\ recv' = hs
  /\ flags' = [i \in DOMAIN hs |-> {}]
  /\ stats' = {}
  /\ at' = 1
  /\ UNCHANGED <<lastIndex, level>>

\* onJudge() adds the headers of a request and has them all looked at.
Receive(hs) ==
  /\ recv' = recv \o hs
  /\ flags' = flags \o [i \in DOMAIN hs |-> {}]
  /\ at' = 1
  /\ UNCHANGED <<lastIndex, stats, level>>

\* One turn of the loop: flags once set stay, and are counted again.
DetectHeader ==
  /\ at \in 1 .. Len(recv)
  /\ LET text == recv[at].text
         found == {h \in Hosts : Hits(text[h], lastIndex[h]) # {}}
     IN  /\ lastIndex' = [h \in Hosts |->
               IF h \in found THEN Behind(Hits(text[h], lastIndex[h])) ELSE 0]
         /\ flags' = [flags EXCEPT ![at] = flags[at] \cup found]
         /\ stats' = stats \cup flags[at] \cup found \cup ({recv[at].key} \ {"other"})
  /\ at' = at + 1
  /\ UNCHANGED <<recv, level>>

\* Elite, anonymous, transparent.
Verdict(marks) == IF marks = {} THEN 1 ELSE IF "local" \notin marks THEN 2 ELSE 3

\* The end of detect().
DetectEnds ==
  /\ at = Len(recv) + 1
  /\ level' = Verdict(stats)
  /\ at' = 0
  /\ UNCHANGED <<recv, flags, lastIndex, stats>>

-----------------------------------------------------------------------------
LevelTypeOK ==
  /\ recv \in Seq(Headers)
  /\ flags \in Seq(SUBSET Hosts) /\ Len(flags) = Len(recv)
  /\ lastIndex \in [Hosts -> Nat]
  /\ stats \subseteq Hosts \cup Keys
  /\ level \in {-1, 1, 2, 3}
  /\ at \in 0 .. Len(recv) + 1

\* Some header names the host where the expressions can see it.
Named(h) == \E i \in 1 .. Len(recv) : Matches(recv[i].text[h]) # {}

\* Some header belongs to a list.
Has(key) == \E i \in 1 .. Len(recv) : recv[i].key = key

\* The level that a look at all headers, each on its own, would give.
LevelOfAll ==
  IF Named("local") THEN 3
  ELSE IF Named("proxy") \/ Has("forward") \/ Has("via") THEN 2
  ELSE 1
=============================================================================

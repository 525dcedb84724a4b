---------------------------- MODULE ProxyTunnel ----------------------------
(***************************************************************************)
(* How a request gets its socket through a proxy: connect() of             *)
(* src/libs/overrides/https_proxy_agent.ts opens a socket to the proxy,    *)
(* sends CONNECT, gathers the answer until its head is complete and hands  *)
(* the socket over - after a 200 as the tunnel, after any other answer     *)
(* with what was read replayed for the HTTP parser.                        *)
(*                                                                         *)
(* The far end sends pieces, numbered as they arrive; one of them ends the *)
(* head.  The agent (agent-base) and the HTTP client are external: the     *)
(* first call of fn() counts and is acted on before the next event of the  *)
(* socket; the client reads in order, and owns the sockets it is given.    *)
(***************************************************************************)
EXTENDS Naturals, Sequences

CONSTANTS MaxPieces \* bound: pieces the far end sends

ASSUME PiecesAssumption == MaxPieces \in Nat

VARIABLES
  sock,     \* open or closed
  arrived,  \* pieces received so far
  head,     \* the piece that ends the head of the answer, 0 before
  status,   \* what the head says: none, ok, refused
  buffers,  \* the pieces connect() has gathered
  taken,    \* the last piece that was read from the socket
  hearing,  \* connect() listens to the socket
  aborting, \* and for the 'abort' of the request
  answer,   \* what fn() was called with first
  request,  \* the client's request
  seen      \* the pieces the client has read

wireVars == <<arrived, head, status>>
vars == <<sock, buffers, taken, hearing, aborting, answer, request, seen, wireVars>>

\* The pieces i to j.
Pieces(i, j) == [k \in 1 .. (j + 1) - i |-> i + k - 1]

Init ==
  /\ sock = "open"
  /\ arrived = 0
  /\ head = 0
  /\ status = "none"
  /\ buffers = <<>>
  /\ taken = 0
  /\ hearing = TRUE
  /\ aborting = TRUE
  /\ answer = "none"
  /\ request = "waiting"
  /\ seen = <<>>

-----------------------------------------------------------------------------
(* The far end: through the tunnel the client speaks first *)

Arrives ==
  /\ sock = "open"
  /\ arrived < MaxPieces
  /\ status = "ok" => request = "attached"
  /\ arrived' = arrived + 1
  /\ \/ UNCHANGED <<head, status>>
     \/ /\ status = "none"
        /\ head' = arrived + 1
        /\ status' \in {"ok", "refused"}
  /\ UNCHANGED <<sock, buffers, taken, hearing, aborting, answer, request, seen>>

-----------------------------------------------------------------------------
(* connect() *)

Fn(what) == answer' = IF answer = "none" THEN what ELSE answer

\* Mutant: connect() forgets the pieces before the last that it has read.
KeepBufferingLast ==
  /\ hearing
  /\ taken < arrived
  /\ head = 0
  /\ buffers' = Pieces(taken + 1, arrived)
  /\ taken' = arrived
  /\ UNCHANGED <<sock, hearing, aborting, answer, request, seen, wireVars>>

\* ondata() without the end of the head.
KeepBuffering ==
  /\ hearing
  /\ taken < arrived
  /\ head = 0
  /\ buffers' = buffers \o Pieces(taken + 1, arrived)
  /\ taken' = arrived
  /\ UNCHANGED <<sock, hearing, aborting, answer, request, seen, wireVars>>

\* ondata() with it: cleanup(), and the request gets the socket.  On 'socket' what was
\* gathered is replayed unless it was the 200.
HandOver ==
  /\ hearing
  /\ taken < arrived
  /\ head # 0
  /\ taken' = arrived
  /\ hearing' = FALSE
  /\ Fn("socket")
  /\ request' = "attached"
  /\ seen' = IF status = "ok" THEN <<>> ELSE buffers \o Pieces(taken + 1, arrived)
  /\ buffers' = <<>>
  /\ UNCHANGED <<sock, aborting, wireVars>>

\* The socket fails: onerror(), or the client's listener.
Fails ==
  /\ sock = "open"
  /\ sock' = "closed"
  /\ request' = "failed"
  /\ hearing' = FALSE
  /\ IF hearing THEN Fn("error") ELSE UNCHANGED answer
  /\ UNCHANGED <<buffers, taken, aborting, seen, wireVars>>

\* The far end has closed: onend() and onclose() tell nobody; a client that has read
\* all there is, is done.
FarEnds ==
  /\ sock = "open"
  /\ taken = arrived
  /\ sock' = "closed"
  /\ request' = IF request = "attached" THEN "over" ELSE request
  /\ UNCHANGED <<buffers, taken, hearing, aborting, answer, seen, wireVars>>

\* The request is given up, if it is not over.
GiveUp == request' = IF request \in {"waiting", "attached"} THEN "aborted" ELSE request

\* Mutant: the listener of 'abort' is there only once the request has a socket.
AbortsUnheard ==
  /\ aborting
  /\ aborting' = FALSE
  /\ GiveUp
  /\ sock' = IF request = "attached" THEN "closed" ELSE sock
  /\ UNCHANGED <<buffers, taken, hearing, answer, seen, wireVars>>

\* The request is aborted, by its timeout at the latest; JudgeRequest does so after
\* every error, too.
Aborts ==
  /\ aborting
  /\ aborting' = FALSE
  /\ GiveUp
  /\ sock' = "closed"
  /\ hearing' = FALSE
  /\ Fn("error")
  /\ UNCHANGED <<buffers, taken, seen, wireVars>>

\* The client reads what has arrived.
Reads ==
  /\ request = "attached"
  /\ taken < arrived
  /\ seen' = seen \o Pieces(taken + 1, arrived)
  /\ taken' = arrived
  /\ UNCHANGED <<sock, buffers, hearing, aborting, answer, request, wireVars>>

Next == Arrives \/ KeepBuffering \/ HandOver \/ Fails \/ FarEnds \/ Aborts \/ Reads

Spec == Init /\ [][Next]_vars

-----------------------------------------------------------------------------
(* Properties *)

\* Every variable has its type.
TypeOK ==
  /\ sock \in {"open", "closed"}
  /\ arrived \in Nat /\ head \in 0 .. arrived /\ taken \in 0 .. arrived
  /\ status \in {"none", "ok", "refused"}
  /\ buffers \in Seq(Nat) /\ seen \in Seq(Nat)
  /\ hearing \in BOOLEAN /\ aborting \in BOOLEAN
  /\ answer \in {"none", "socket", "error"}
  /\ request \in {"waiting", "attached", "failed", "aborted", "over"}

\* However the answer is cut into pieces, a client that is given the socket reads it
\* whole and in order: from its start, when the proxy refuses, and from the end of
\* the head on, when there is a tunnel.
StreamWhole ==
  answer = "socket" => seen = Pieces(IF status = "ok" THEN head + 1 ELSE 1, taken)

\* An open socket has one owner who hears of its errors (one that nobody hears of ends
\* the process), and none is left open by a request that is over.
SocketOwned ==
  sock = "open" => \/ request = "waiting" /\ hearing
                   \/ request = "attached" /\ ~hearing

\* onend() and onclose() tell nobody that a proxy has hung up: a request that waits for
\* its socket, or reads from it, can be aborted as long as it does, which is what keeps
\* it from hanging for ever.
StaysAbortable == request \in {"waiting", "attached"} => aborting

\* fn() has been called when a request no longer waits, and one that was told of an
\* error never gets the socket after all.
AnsweredForGood ==
  /\ (answer = "none") <=> (request = "waiting")
  /\ answer = "error" => request \in {"failed", "aborted"}
=============================================================================

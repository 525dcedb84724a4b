---------------------------- MODULE JudgeRequest ----------------------------
(***************************************************************************)
(* One request the judge sends to itself through a proxy, from             *)
(* Judge.handleRequest() to the row ProxyValidator builds of its result:   *)
(* JudgeRequest.ts watches the request to abort it, RequestResponseMonitor *)
(* watches it to know when it is over and with which errors, and the       *)
(* judge's own server adds what it sees (LevelDetection).                  *)
(*                                                                         *)
(* The HTTP client and the sockets are external.  What is taken from them: *)
(* an error of a socket is emitted at the request first, then at the       *)
(* socket, before its 'close'; a socket that closes before a response      *)
(* makes the request emit an error; ticks and continuations run before     *)
(* the next event.  A request has one socket: redirects are answers with a *)
(* status that is not 2xx, and the judge asks for no retries.              *)
(***************************************************************************)
EXTENDS LevelDetection

CONSTANTS
  Batches,   \* the headers one call of the judge's callback may bring
  MaxJudged  \* bound: calls of the callback

ASSUME RequestAssumption ==
  /\ Batches \subseteq Seq(Headers)
  /\ MaxJudged \in Nat

VARIABLES
  phase,     \* where handleRequest() stands
  conn,      \* the request and its socket; failed: destroyed with an error
  head,      \* the head of the answer, as the monitor has read it
  errors,    \* the monitor's errors
  finished,  \* the monitor's _finished
  aborted,   \* abort() was called
  attached,  \* JudgeRequest.request is set
  active,    \* JudgeRequest.active
  cached,    \* the judge's cache still has the request
  judged,    \* calls of onJudge()
  result,    \* the JudgeResult: has it an error, its level
  crashed    \* a listener threw, which ends the process

connVars == <<conn, head, errors, finished, aborted, crashed>>
vars == <<levelVars, phase, connVars, attached, active, cached, judged, result>>

Phases == {"preparing", "probing", "settled", "broken", "lost"}
Conns == {"none", "requested", "assigned", "connected", "closing", "failed", "closed"}
ErrorKinds == {"lookup", "socket", "status", "timeout", "hangup", "stream"}
Outcome(error, lvl) == [error |-> error, level |-> lvl]
NoResult == Outcome(TRUE, -2)

Init ==
  /\ LevelInit
  /\ phase = "preparing"
  /\ conn = "none"
  /\ head = "none"
  /\ errors = {}
  /\ finished = FALSE
  /\ aborted = FALSE
  /\ attached = FALSE
  /\ active = TRUE
  /\ cached = TRUE
  /\ judged = 0
  /\ result = NoResult
  /\ crashed = FALSE

\* No continuation is due that runs before the next event.
Quiet ==
  /\ ~crashed
  /\ at = 0
  /\ ~(finished /\ phase = "probing")

-----------------------------------------------------------------------------
(* What the listeners of the request and its socket do *)

\* Mutant: abort() does not remember that it was called.
AbortAgain == crashed' = ~attached /\ aborted' = TRUE

\* handleError() and abort() of JudgeRequest: the first error aborts the request,
\* which fails when clear() has taken it away.
Abort == crashed' = (~aborted /\ ~attached) /\ aborted' = TRUE

\* Mutant: the monitor does not finish with the error.
OnErrorUnfinished(kind) ==
  /\ Abort
  /\ errors' = errors \cup {kind}
  /\ UNCHANGED finished

\* The request emits an error: onRequestError(), then the monitor's onError().  The
\* error of a socket comes by once more as its own, and is known by then.
OnError(kind) ==
  /\ Abort
  /\ errors' = errors \cup {kind}
  /\ finished' = TRUE

-----------------------------------------------------------------------------
(* performRequest() *)

\* The level detector has its expressions: the request is made and watched.
Prepared ==
  /\ Quiet
  /\ phase = "preparing"
  /\ phase' = "probing"
  /\ UNCHANGED <<levelVars, connVars, attached, active, cached, judged, result>>

\* A name lookup of prepare() failed; result() throws without a monitor.
PrepareFails ==
  /\ Quiet
  /\ phase = "preparing"
  /\ phase' = "broken"
  /\ UNCHANGED <<levelVars, connVars, attached, active, cached, judged, result>>

\* onRequest() of both.
OnRequest ==
  /\ Quiet
  /\ phase \in {"probing", "lost"}
  /\ conn = "none"
  /\ conn' = "requested"
  /\ attached' = TRUE
  /\ UNCHANGED <<levelVars, phase, head, errors, finished, aborted, crashed, active, cached,
                 judged, result>>

\* The client fails before it has made a request.
StreamFails ==
  /\ Quiet
  /\ phase \in {"probing", "lost"}
  /\ conn = "none"
  /\ conn' = "closed"
  /\ errors' = errors \cup {"stream"}
  /\ finished' = TRUE
  /\ UNCHANGED <<levelVars, phase, head, aborted, crashed, attached, active, cached, judged,
                 result>>

\* The client's own timeout for the whole request ends it wherever it stands.
RequestTimesOut ==
  /\ Quiet
  /\ conn \in {"requested", "assigned", "connected"}
  /\ conn' = IF conn = "requested" THEN "closed" ELSE "closing"
  /\ OnError("timeout")
  /\ UNCHANGED <<levelVars, phase, head, attached, active, cached, judged, result>>

-----------------------------------------------------------------------------
(* Events of the socket *)

OnSocket ==
  /\ Quiet
  /\ conn = "requested"
  /\ conn' = "assigned"
  /\ UNCHANGED <<levelVars, phase, head, errors, finished, aborted, crashed, attached, active,
                 cached, judged, result>>

\* A lookup reports its error, and the socket will fail.
OnSocketLookup ==
  /\ Quiet
  /\ conn = "assigned"
  /\ errors' = errors \cup {"lookup"}
  /\ UNCHANGED <<levelVars, phase, conn, head, finished, aborted, crashed, attached, active,
                 cached, judged, result>>

\* A connection forgets the errors so far.
OnSocketConnect ==
  /\ Quiet
  /\ conn = "assigned"
  /\ conn' = "connected"
  /\ errors' = {}
  /\ UNCHANGED <<levelVars, phase, head, finished, aborted, crashed, attached, active, cached,
                 judged, result>>

\* Bytes of the answer; a complete head whose status is not 2xx destroys the socket
\* with an error, which is emitted before the next event.
OnSocketData ==
  /\ Quiet
  /\ conn = "connected"
  /\ head \in {"none", "part"}
  /\ \/ head' \in {"part", "ok"} /\ UNCHANGED <<conn, errors, finished, aborted, crashed>>
     \/ head' = "bad" /\ conn' = "failed" /\ OnError("status")
  /\ UNCHANGED <<levelVars, phase, attached, active, cached, judged, result>>

\* Refused, reset, unreachable.
SocketFails ==
  /\ Quiet
  /\ conn \in {"assigned", "connected"}
  /\ conn' = "failed"
  /\ OnError("socket")
  /\ UNCHANGED <<levelVars, phase, head, attached, active, cached, judged, result>>

\* Idle since it was assigned: aborted, unless the judge has been reached.  The first
\* bytes switch this timeout off.
SocketTimesOut ==
  /\ Quiet
  /\ conn \in {"assigned", "connected"}
  /\ head = "none" /\ judged = 0
  /\ Abort
  /\ conn' = "closing"
  /\ UNCHANGED <<levelVars, phase, head, errors, finished, attached, active, cached, judged,
                 result>>

\* Mutant: a socket that closes before the answer is no error.
OnSocketCloseSilent ==
  /\ conn' = "closed"
  /\ finished' = TRUE
  /\ UNCHANGED <<errors, aborted, crashed>>

\* 'close': a request without an answer is hung up first, unless the socket failed.
OnSocketClose ==
  /\ conn' = "closed"
  /\ IF head \in {"none", "part"} /\ conn # "failed"
     THEN OnError("hangup")
     ELSE finished' = TRUE /\ UNCHANGED <<errors, aborted, crashed>>

SocketCloses ==
  /\ Quiet
  /\ conn \in {"connected", "closing", "failed"}
  /\ OnSocketClose
  /\ UNCHANGED <<levelVars, phase, head, attached, active, cached, judged, result>>

-----------------------------------------------------------------------------
(* The judge *)

\* onJudge(): the request arrives at the judge's server.
OnJudge ==
  /\ Quiet
  /\ phase = "probing" /\ cached
  /\ conn \in {"connected", "closing", "failed"}
  /\ judged < MaxJudged
  /\ judged' = judged + 1
  /\ \E hs \in Batches : Receive(hs)
  /\ UNCHANGED <<phase, connVars, attached, active, cached, result>>

Detect ==
  /\ DetectHeader \/ DetectEnds
  /\ UNCHANGED <<phase, connVars, attached, active, cached, judged, result>>

\* The judged connection ends before the judge has sent its answer.
JudgeSocketEnds ==
  /\ Quiet
  /\ judged > 0
  /\ cached
  /\ cached' = FALSE
  /\ UNCHANGED <<levelVars, phase, connVars, attached, active, judged, result>>

\* clear(): listeners stay, for removeListener() is given functions that never were
\* registered, except those of the monitor; sockets are destroyed.
Clear ==
  /\ active' = FALSE
  /\ attached' = IF active THEN FALSE ELSE attached
  /\ conn' = IF active /\ conn \in {"assigned", "connected"} THEN "closing" ELSE conn

\* Mutant: the request is not removed from the cache.
SettleCached ==
  /\ ~crashed /\ at = 0
  /\ phase = "probing" /\ finished
  /\ phase' = "settled"
  /\ result' = Outcome(errors # {}, level)
  /\ Clear
  /\ UNCHANGED <<levelVars, head, errors, finished, aborted, crashed, cached, judged>>

\* handleRequest() goes on: the result is taken and the request cleared.
Settle ==
  /\ ~crashed /\ at = 0
  /\ phase = "probing" /\ finished
  /\ phase' = "settled"
  /\ result' = Outcome(errors # {}, level)
  /\ cached' = FALSE
  /\ Clear
  /\ UNCHANGED <<levelVars, head, errors, finished, aborted, crashed, judged>>

\* pending() clears what is in the cache; a monitor loses the listener that
\* performRequest() waits for.
Cleared ==
  /\ Quiet
  /\ phase \in {"preparing", "probing"} /\ cached
  /\ phase' = IF phase = "probing" THEN "lost" ELSE phase
  /\ cached' = FALSE
  /\ Clear
  /\ UNCHANGED <<levelVars, head, errors, finished, aborted, crashed, judged, result>>

-----------------------------------------------------------------------------
Socket ==
  \/ OnSocket \/ OnSocketLookup \/ OnSocketConnect \/ OnSocketData
  \/ SocketFails \/ SocketTimesOut \/ SocketCloses

Next ==
  \/ Prepared \/ PrepareFails \/ OnRequest \/ StreamFails \/ RequestTimesOut
  \/ Socket
  \/ OnJudge \/ Detect \/ JudgeSocketEnds
  \/ Settle \/ Cleared

Spec == Init /\ [][Next]_vars

\* Name lookups answer or fail, the client makes a request or fails, its timeout
\* fires, a socket that is destroyed closes, and continuations run.
Fairness ==
  /\ WF_vars(Prepared \/ PrepareFails)
  /\ WF_vars(OnRequest \/ StreamFails)
  /\ WF_vars(RequestTimesOut)
  /\ WF_vars(conn \in {"closing", "failed"} /\ SocketCloses)
  /\ WF_vars(Detect)
  /\ WF_vars(Settle)

FairSpec == Spec /\ Fairness

-----------------------------------------------------------------------------
(* Properties *)

\* Every variable has its type.
TypeOK ==
  /\ LevelTypeOK
  /\ phase \in Phases
  /\ conn \in Conns
  /\ head \in {"none", "part", "ok", "bad"}
  /\ errors \subseteq ErrorKinds
  /\ finished \in BOOLEAN
  /\ aborted \in BOOLEAN
  /\ attached \in BOOLEAN
  /\ active \in BOOLEAN
  /\ cached \in BOOLEAN
  /\ judged \in 0 .. MaxJudged
  /\ result \in [error : BOOLEAN, level : {-2, -1, 1, 2, 3}]
  /\ crashed \in BOOLEAN

\* However often the judge is called and wherever the global expressions stand: once
\* detect() is over, the level is that of all headers looked at one by one.
LevelRight == judged > 0 /\ at = 0 => level = LevelOfAll

\* A further call of the judge never makes a proxy more anonymous.
LevelOnlyRises == [][level' >= level]_vars

\* buildState(): what makes the row of a result an enabled one.
Enabled(r) == ~r.error /\ r.level > -1

\* A row is enabled only if the judge saw the request and its answer came back with
\* a status of 2xx: errors that a connection, a timeout, an abort or a hang-up brought
\* in whatever order cannot get lost on the way to the result.
EnabledWasJudged == Enabled(result) => judged > 0 /\ head = "ok" /\ errors = {}

\* Only a request that pending() has cleared is aborted after it is gone: clear() and
\* the listeners it leaves behind are harmless at the end of handleRequest().
AbortsOnlyLive == crashed => phase = "lost"

\* Every request ends in a result, or was cleared or crashed.
ProbeEnds == <>(phase \in {"settled", "broken", "lost"} \/ crashed)

\* What ProbeEnds rests on: a request that handleRequest() still waits for and that
\* nothing will happen to any more is one the monitor has finished with; until then
\* the client, its timeout, the end of its socket or a turn of detect() is due.
ProbeNeverStuck ==
  phase = "probing" /\ ~crashed =>
    finished \/ at \in 1 .. Len(recv) + 1 \/ conn \in Conns \ {"closed"}

\* The life of the request as Judge tells it, whose actions the validator composes.
Request == <<"job", "variant">>

LifeState ==
  IF phase = "probing" THEN IF judged > 0 THEN "judged" ELSE "probing"
  ELSE IF phase = "settled" THEN IF result.error THEN "failed" ELSE "ok"
  ELSE phase

Life == INSTANCE Judge WITH
  Jobs <- {"job"}, Variants <- {"variant"}, Empties <- {}, Shutdowns <- {}, Faults <- {"lookup"},
  enabled <- TRUE, listening <- TRUE, lock <- {},
  cache <- IF cached THEN {Request} ELSE {}, req <- [r \in {Request} |-> LifeState]

\* Whatever the sockets do, the request takes only the steps Judge gives it: it is
\* judged while it is cached, ends once and leaves the cache with its end, and a
\* cleared one never settles.
LifeSpec ==
  /\ LifeState = "preparing" /\ cached = TRUE
  /\ [][Life!RequestStep(Request) \/ Life!ClearCache]_(Life!judgeVars)

\* The notes on proxies: a transparent proxy passes the real address on.
ListedIsTransparent ==
  judged > 0 /\ at = 0 =>
    ((\E i \in 1 .. Len(recv) : recv[i].text["local"] # {}) => level = 3)

\* No header has a comma behind an address of this host.
NoListOfAddresses == \A h \in Headers : \A p \in h.text["local"] : p.next # "comma"
=============================================================================

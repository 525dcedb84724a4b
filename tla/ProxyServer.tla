----------------------------- MODULE ProxyServer -----------------------------
(***************************************************************************)
(* A proxy server of src/libs/server: it relays the requests of client     *)
(* connections through proxies it asks its target function for (the        *)
(* rotator), repeats a failed request with another proxy, and reports how  *)
(* each use of a proxy ended.  SocketHandle.ts turns the events of a       *)
(* socket into "finished, with or without an error".                       *)
(*                                                                         *)
(* A client is one connection: plain HTTP requests one after the other, or *)
(* a single CONNECT.  An action is the code between two awaits.  Node runs *)
(* queued ticks and promise continuations before the next event (Quiet).   *)
(* Payloads, header values other than the fallback wish, and pipelined     *)
(* requests are left out.                                                  *)
(***************************************************************************)
EXTENDS Integers, FiniteSets

CONSTANTS
  Clients,      \* connections
  SslClients,   \* those that send CONNECT
  RepeatLimit,  \* options.repeatLimit
  MaxRequests   \* bound: requests of one plain HTTP connection

ASSUME ServerAssumption ==
  /\ SslClients \subseteq Clients
  /\ RepeatLimit \in Nat
  /\ MaxRequests \in Nat

VARIABLES
  toProxy,   \* options.toProxy, with a target: how the server was set up
  sock,      \* the client's socket
  requests,  \* requests the connection has made
  flow,      \* the await its request handler stands at
  selected,  \* the request names a proxy: Proxy-Select-Proxy
  wants,     \* the request carries Proxy-Select-Fallback: true
  headers,   \* the select headers in headersList of the client's handle
  repeat,    \* meta.repeat of the client's handle
  answer,    \* how its latest request ended
  down,      \* the downstream socket of the request and its handle; .failed is
             \* history: the socket failed or timed out before the handle finished
  ticks,     \* clients whose downstream has an 'error' event queued
  reported,  \* the outcome handed to proxyLog
  handles,   \* the handles in the server's list
  fin,       \* preFinalize(): not called, waiting, resolved
  uses       \* history: proxies the connection's requests were relayed to

clientVars  == <<sock, requests, selected, wants, headers>>
vars == <<clientVars, flow, repeat, answer, down, ticks, reported, handles, fin, uses, toProxy>>

Ways == {"none", "proxy", "direct"}
Errors == {"none", "status", "socket"}
Downstream(via, alive) ==
  [via |-> via, alive |-> alive, heard |-> FALSE, error |-> "none", failed |-> FALSE]
Changed(d, alive, heard, error, failed) ==
  [via |-> d.via, alive |-> alive, heard |-> heard, error |-> error, failed |-> failed]
NoDown == Downstream("none", FALSE)
DownType == [via : Ways, alive : BOOLEAN, heard : BOOLEAN, error : Errors, failed : BOOLEAN]
Answers == {"none", "relayed", "nomatch", "failed"}
SelectHeaders == {"fallback"}

Client(c) == <<c, "client">>
Down(c) == <<c, "down">>

Init ==
  /\ toProxy \in BOOLEAN
  /\ sock = [c \in Clients |-> "none"]
  /\ requests = [c \in Clients |-> 0]
  /\ flow = [c \in Clients |-> "idle"]
  /\ selected = [c \in Clients |-> FALSE]
  /\ wants = [c \in Clients |-> FALSE]
  /\ headers = [c \in Clients |-> {}]
  /\ repeat = [c \in Clients |-> 0]
  /\ answer = [c \in Clients |-> "none"]
  /\ down = [c \in Clients |-> NoDown]
  /\ ticks = {}
  /\ reported = [c \in Clients |-> "none"]
  /\ handles = {}
  /\ fin = "no"
  /\ uses = [c \in Clients |-> 0]

\* Nothing is left to do before the event loop takes the next event.
Quiet ==
  /\ ticks = {}
  /\ \A c \in Clients : flow[c] = "piped" => Down(c) \in handles

-----------------------------------------------------------------------------
(* Handles *)

\* finish() of handles and their removal; an emptied list ends preFinalize().
Remove(H) ==
  /\ handles' = handles \ H
  /\ fin' = IF fin = "waiting" /\ handles' = {} /\ H \cap handles # {} THEN "done" ELSE fin

\* onServerConnection()
OnServerConnection(c) ==
  /\ Quiet
  /\ sock[c] = "none"
  /\ fin # "done"
  /\ sock' = [sock EXCEPT ![c] = "open"]
  /\ handles' = handles \cup {Client(c)}
  /\ UNCHANGED <<requests, selected, wants, headers, flow, repeat, answer, down, ticks,
                 reported, fin, uses, toProxy>>

\* Mutant: the handle of a closed connection stays in the list.
SocketClosesKeepHandle(c) ==
  /\ Quiet
  /\ sock[c] \in {"open", "closing"}
  /\ sock' = [sock EXCEPT ![c] = "gone"]
  /\ UNCHANGED <<handles, fin>>
  /\ UNCHANGED <<requests, selected, wants, headers, flow, repeat, answer, down, ticks,
                 reported, uses, toProxy>>

\* The client's socket ends: closed by either side, failed, or idle for too long.
SocketCloses(c) ==
  /\ Quiet
  /\ sock[c] \in {"open", "closing"}
  /\ sock' = [sock EXCEPT ![c] = "gone"]
  /\ Remove({Client(c)})
  /\ UNCHANGED <<requests, selected, wants, headers, flow, repeat, answer, down, ticks,
                 reported, uses, toProxy>>

\* The server ends the client's socket, if it is still there.
Closing(c) == [sock EXCEPT ![c] = IF @ = "open" THEN "closing" ELSE @]

-----------------------------------------------------------------------------
(* The request handlers root() and onServerConnect() *)

\* Mutant: the fallback header is not removed.
OnProxyRequestKeeps(hs) == hs

\* onProxyRequest(): the select headers are not forwarded.
OnProxyRequest(hs) == hs \ SelectHeaders

\* headersList is read from the first chunk of the connection only.
Parsed(c, wish) ==
  IF requests[c] > 0 THEN headers[c] ELSE IF wish THEN {"fallback"} ELSE {}

\* Connect to the target of the request itself.
Direct(c) ==
  /\ flow' = [flow EXCEPT ![c] = "piped"]
  /\ down' = [down EXCEPT ![c] = Downstream("direct", TRUE)]
  /\ handles' = handles \cup {Down(c)}
  /\ answer' = [answer EXCEPT ![c] = "none"]
  /\ UNCHANGED <<sock, repeat, reported>>

\* connectToExternProxy() up to the await of getTarget().
Choose(c) ==
  /\ flow' = [flow EXCEPT ![c] = "choosing"]
  /\ down' = [down EXCEPT ![c] = NoDown]
  /\ reported' = [reported EXCEPT ![c] = "none"]
  /\ answer' = [answer EXCEPT ![c] = "none"]
  /\ UNCHANGED <<sock, handles>>

\* The handler is over with this answer.
End(c, a) ==
  /\ flow' = [flow EXCEPT ![c] = "idle"]
  /\ answer' = [answer EXCEPT ![c] = a]
  /\ down' = [down EXCEPT ![c] = NoDown]
  /\ reported' = [reported EXCEPT ![c] = "none"]
  /\ UNCHANGED <<repeat, handles>>

\* errorResponse() keeps a plain connection open, errorUpstream() ends it.
EndWithError(c, a) ==
  /\ End(c, a)
  /\ sock' = IF c \in SslClients THEN Closing(c) ELSE sock

\* A connection whose handle preFinalize() took away gets an error for a plain
\* request; onServerConnect() fails on the missing handle and answers nothing.
RequestWithoutHandle(c) ==
  /\ End(c, IF c \in SslClients THEN "none" ELSE "failed")
  /\ UNCHANGED <<sock, headers>>

Request(c) ==
  /\ Quiet
  /\ flow[c] = "idle"
  /\ sock[c] = "open"
  /\ requests[c] < IF c \in SslClients THEN 1 ELSE MaxRequests
  /\ requests' = [requests EXCEPT ![c] = @ + 1]
  /\ \E names, wish \in BOOLEAN :
       /\ selected' = [selected EXCEPT ![c] = names]
       /\ wants' = [wants EXCEPT ![c] = wish]
       /\ \/ Client(c) \notin handles /\ RequestWithoutHandle(c)
          \/ /\ Client(c) \in handles
             /\ headers' = [headers EXCEPT ![c] = OnProxyRequest(Parsed(c, wish))]
             /\ IF toProxy
                THEN Choose(c) /\ UNCHANGED repeat
                ELSE Direct(c)
  /\ UNCHANGED <<ticks, fin, uses, toProxy>>

\* getTarget() names a proxy: the sockets are piped, a handle watches the proxy's.
TargetFound(c) ==
  /\ Quiet
  /\ flow[c] = "choosing"
  /\ flow' = [flow EXCEPT ![c] = "piped"]
  /\ down' = [down EXCEPT ![c] = Downstream("proxy", TRUE)]
  /\ handles' = handles \cup {Down(c)}
  /\ uses' = [uses EXCEPT ![c] = @ + 1]
  /\ UNCHANGED <<clientVars, repeat, answer, ticks, reported, fin, toProxy>>

\* getTarget() rejects: nothing matches the selection in time.
TargetRejected(c) ==
  /\ Quiet
  /\ flow[c] = "choosing"
  /\ EndWithError(c, "nomatch")
  /\ UNCHANGED <<requests, selected, wants, headers, ticks, fin, uses, toProxy>>

\* getTarget() resolves to nothing usable: an exception nobody answers.
TargetUnusable(c) ==
  /\ Quiet
  /\ flow[c] = "choosing"
  /\ End(c, "none")
  /\ UNCHANGED <<clientVars, ticks, fin, uses, toProxy>>

-----------------------------------------------------------------------------
(* Events of the downstream socket *)

\* onData(): the status line of the first chunk decides.
DownstreamAnswers(c) ==
  /\ Quiet
  /\ down[c].alive /\ ~down[c].heard
  /\ \E e \in {"none", "status"} :
       down' = [down EXCEPT ![c] = Changed(@, @.alive, TRUE, e, @.failed)]
  /\ UNCHANGED <<clientVars, flow, repeat, answer, ticks, reported, handles, fin, uses, toProxy>>

\* onClose() without an error; the pipe passes the end on to the client.
DownstreamEnds(c) ==
  /\ Quiet
  /\ down[c].alive
  /\ down' = [down EXCEPT ![c] = Changed(@, FALSE, @.heard, @.error, @.failed)]
  /\ sock' = Closing(c)
  /\ Remove({Down(c)})
  /\ UNCHANGED <<requests, selected, wants, headers, flow, repeat, answer, ticks, reported,
                 uses, toProxy>>

\* onError()
DownstreamFails(c) ==
  /\ Quiet
  /\ down[c].alive
  /\ down' = [down EXCEPT ![c] = Changed(@, FALSE, @.heard, "socket", Down(c) \in handles)]
  /\ Remove({Down(c)})
  /\ UNCHANGED <<clientVars, flow, repeat, answer, ticks, reported, uses, toProxy>>

\* onTimeout() destroys the socket with an error and finishes the handle at once;
\* the 'error' event of the destruction is queued as a tick.
DownstreamTimesOut(c) ==
  /\ Quiet
  /\ down[c].alive
  /\ down' = [down EXCEPT ![c] = Changed(@, FALSE, @.heard, @.error, Down(c) \in handles)]
  /\ ticks' = ticks \cup {c}
  /\ Remove({Down(c)})
  /\ UNCHANGED <<clientVars, flow, repeat, answer, reported, uses, toProxy>>

\* Mutant: finish() did remove the error listener.
ErrorTickUnheard(c) ==
  /\ c \in ticks
  /\ ticks' = ticks \ {c}
  /\ UNCHANGED <<clientVars, flow, repeat, answer, down, reported, handles, fin, uses, toProxy>>

\* onError() by the queued event; finish() left its listener in place.
ErrorTick(c) ==
  /\ c \in ticks
  /\ ticks' = ticks \ {c}
  /\ down' = [down EXCEPT ![c] = Changed(@, @.alive, @.heard, "socket", @.failed)]
  /\ UNCHANGED <<clientVars, flow, repeat, answer, reported, handles, fin, uses, toProxy>>

-----------------------------------------------------------------------------
(* After the downstream handle finished *)

\* A tunnel counts as failed for an error of the socket only, a plain request
\* for a status from 400 on as well.
Failed(c) ==
  IF c \in SslClients THEN down[c].error = "socket" ELSE down[c].error # "none"

CheckRepeats(c) == toProxy /\ ~selected[c]

\* hasFallbackHeader()
HasFallbackHeader(c) == headers[c] # {}

\* Mutant: one repeat too many.
MayRepeatOnceMore(c) == repeat[c] <= RepeatLimit /\ CheckRepeats(c)

MayRepeat(c) == repeat[c] < RepeatLimit /\ CheckRepeats(c)

\* root() or onServerConnect() once more, with the proxy disabled.
Fallback(c) ==
  IF Client(c) \in handles
  THEN /\ Direct(c)
       /\ headers' = [headers EXCEPT ![c] = OnProxyRequest(@)]
  ELSE RequestWithoutHandle(c)

\* handleResponseAfterFinishedRequest(), handleUpstreamAfterFinishedRequest()
AfterFinished(c) ==
  IF ~Failed(c)
  THEN End(c, "relayed") /\ sock' = Closing(c) /\ UNCHANGED headers
  ELSE IF MayRepeat(c)
  THEN Choose(c) /\ repeat' = [repeat EXCEPT ![c] = @ + 1] /\ UNCHANGED headers
  ELSE IF CheckRepeats(c) /\ HasFallbackHeader(c)
  THEN Fallback(c) /\ UNCHANGED repeat
  ELSE EndWithError(c, "failed") /\ UNCHANGED headers

\* Mutant: the handler resumes before the queued error has arrived.
FinishedEarly(c) ==
  /\ flow[c] = "piped"
  /\ Down(c) \notin handles
  /\ IF down[c].via = "proxy"
     THEN /\ flow' = [flow EXCEPT ![c] = "logging"]
          /\ reported' = [reported EXCEPT
               ![c] = IF down[c].error = "none" THEN "success" ELSE "failure"]
          /\ UNCHANGED <<sock, headers, repeat, answer, down, handles>>
     ELSE AfterFinished(c)
  /\ UNCHANGED <<requests, selected, wants, ticks, fin, uses, toProxy>>

\* The handler resumes; a use of a proxy is reported first.
Finished(c) ==
  /\ flow[c] = "piped"
  /\ Down(c) \notin handles
  /\ c \notin ticks
  /\ IF down[c].via = "proxy"
     THEN /\ flow' = [flow EXCEPT ![c] = "logging"]
          /\ reported' = [reported EXCEPT
               ![c] = IF down[c].error = "none" THEN "success" ELSE "failure"]
          /\ UNCHANGED <<sock, headers, repeat, answer, down, handles>>
     ELSE AfterFinished(c)
  /\ UNCHANGED <<requests, selected, wants, ticks, fin, uses, toProxy>>

\* doStateLog() is done.
Logged(c) ==
  /\ Quiet
  /\ flow[c] = "logging"
  /\ AfterFinished(c)
  /\ UNCHANGED <<requests, selected, wants, ticks, fin, uses, toProxy>>

\* doStateLog() rejects: the error is caught and the request left alone.
LogFails(c) ==
  /\ Quiet
  /\ flow[c] = "logging"
  /\ End(c, "none")
  /\ UNCHANGED <<clientVars, ticks, fin, uses, toProxy>>

-----------------------------------------------------------------------------
(* preFinalize() *)

PreFinalize ==
  /\ Quiet
  /\ fin = "no"
  /\ fin' = IF handles = {} THEN "done" ELSE "waiting"
  /\ UNCHANGED <<clientVars, flow, repeat, answer, down, ticks, reported, handles, uses, toProxy>>

\* Mutant: the timer empties the list and tells nobody.
FinalizeTimerSilent ==
  /\ Quiet
  /\ fin = "waiting"
  /\ handles' = {}
  /\ UNCHANGED <<clientVars, flow, repeat, answer, down, ticks, reported, fin, uses, toProxy>>

\* After 500 ms every handle is finished, its socket left as it is.
FinalizeTimer ==
  /\ Quiet
  /\ fin = "waiting"
  /\ handles' = {}
  /\ fin' = "done"
  /\ UNCHANGED <<clientVars, flow, repeat, answer, down, ticks, reported, uses, toProxy>>

-----------------------------------------------------------------------------

DownstreamOver(c) == DownstreamEnds(c) \/ DownstreamFails(c) \/ DownstreamTimesOut(c)
Chosen(c) == TargetFound(c) \/ TargetRejected(c) \/ TargetUnusable(c)

ClientStep(c) ==
  \/ OnServerConnection(c)
  \/ SocketCloses(c)
  \/ Request(c)
  \/ Chosen(c)
  \/ DownstreamAnswers(c)
  \/ DownstreamOver(c)
  \/ ErrorTick(c)
  \/ Finished(c)
  \/ Logged(c)
  \/ LogFails(c)

Next == PreFinalize \/ FinalizeTimer \/ \E c \in Clients : ClientStep(c)

Spec == Init /\ [][Next]_vars

\* Timers fire, getTarget() and proxyLog settle (the rotator's do), continuations
\* run, and a downstream socket ends, fails or idles until its timeout.
Fairness ==
  /\ WF_vars(FinalizeTimer)
  /\ \A c \in Clients :
       /\ WF_vars(Chosen(c))
       /\ WF_vars(DownstreamOver(c))
       /\ WF_vars(ErrorTick(c))
       /\ WF_vars(Finished(c))
       /\ WF_vars(Logged(c) \/ LogFails(c))

FairSpec == Spec /\ Fairness

-----------------------------------------------------------------------------
(* Properties *)

\* Every variable has its type (the fields of ProxyServer and SocketHandle).
TypeOK ==
  /\ toProxy \in BOOLEAN
  /\ sock \in [Clients -> {"none", "open", "closing", "gone"}]
  /\ requests \in [Clients -> Nat]
  /\ flow \in [Clients -> {"idle", "choosing", "piped", "logging"}]
  /\ selected \in [Clients -> BOOLEAN]
  /\ wants \in [Clients -> BOOLEAN]
  /\ headers \in [Clients -> SUBSET SelectHeaders]
  /\ repeat \in [Clients -> 0 .. RepeatLimit]
  /\ answer \in [Clients -> Answers]
  /\ down \in [Clients -> DownType]
  /\ ticks \subseteq Clients
  /\ reported \in [Clients -> {"none", "success", "failure"}]
  /\ handles \subseteq Clients \X {"client", "down"}
  /\ fin \in {"no", "waiting", "done"}
  /\ uses \in [Clients -> Nat]

\* However the sockets fail, a connection uses at most one proxy per request and
\* repeatLimit further ones in all (meta.repeat is a counter of the connection).
UsesBounded == \A c \in Clients : uses[c] <= requests[c] + RepeatLimit

\* A proxy whose socket failed or timed out while the request was being relayed is
\* reported to the rotator as a failure, although a timeout finishes the handle
\* before the error reaches it.
FailuresReported ==
  \A c \in Clients : flow[c] = "logging" /\ down[c].failed => reported[c] = "failure"

\* While the report is stored, what the report said stays what the decision about
\* a repeat will be based on, except for a handle that preFinalize() finished.
VerdictStands ==
  \A c \in Clients : flow[c] = "logging" /\ fin # "done" =>
    (reported[c] = "failure" <=> down[c].error # "none")

\* The list holds the handles of open sockets only, a downstream one only while
\* its request waits for it, and no client's once preFinalize() has resolved.
HandlesAreLive ==
  \A c \in Clients :
    /\ Client(c) \in handles => sock[c] \in {"open", "closing"} /\ fin # "done"
    /\ Down(c) \in handles => flow[c] = "piped" /\ down[c].alive

\* The documentation of the select headers: a request nothing matches is answered
\* with an error only when fallback is false.
NoMatchFallsBack == \A c \in Clients : answer[c] = "nomatch" => ~wants[c]

\* What comes of that header: it is removed before it is looked up, whenever it is sent,
\* so that a server that relays to proxies never connects to a target itself.
FallbackUnreachable ==
  \A c \in Clients : ~HasFallbackHeader(c) /\ (toProxy => down[c].via # "direct")

\* preFinalize() waits for the event of an emptied list only while there is a handle
\* whose end will emit it: it does not hang on its timer alone.
FinalizeIsWoken == fin = "waiting" => handles # {}

\* Once preFinalize() has resolved no request handler relays a new request, on
\* whatever connection is left open: those under way are all there is to wait for.
StartsNothingLate ==
  [][\A c \in Clients : fin = "done" /\ flow[c] = "idle" => flow'[c] = "idle"]_vars

Busy == {c \in Clients : flow[c] # "idle"}
Repeatable == {c \in Clients : CheckRepeats(c)}

Requests == INSTANCE ClientRequest WITH
  busy <- Busy, repeatable <- Repeatable, repeats <- repeat, answer <- answer

\* The server keeps the promise of ClientRequest: one answer per request, repeats
\* within the limit, and no "failed" while another proxy could still be tried.
RequestSpec == Requests!Spec

\* A request handler comes to its end, whatever the proxies do.
RequestsEnd == \A c \in Clients : flow[c] # "idle" ~> flow[c] = "idle"

\* preFinalize() resolves although handles come and go while it waits.
FinalizeEnds == fin = "waiting" ~> fin = "done"

=============================================================================

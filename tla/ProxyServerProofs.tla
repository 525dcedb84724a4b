-------------------------- MODULE ProxyServerProofs --------------------------
(***************************************************************************)
(* Theorems of ProxyServer: its safety properties for any number of        *)
(* connections and any limit of repeats, what its shutdown can rely on,    *)
(* that the fallback is dead, and that it implements ClientRequest.        *)
(***************************************************************************)
EXTENDS ProxyServer, TLAPS

-----------------------------------------------------------------------------
(* Type correctness *)

\* The initial state is well typed.
LEMMA TypeInit == Init => TypeOK
  <1>1. NoDown \in DownType
    BY DEF NoDown, Downstream, DownType, Ways, Errors
  <1> QED
    BY <1>1, ServerAssumption DEF Init, TypeOK, Answers

\* What a downstream socket starts with, and what an event makes of it.
LEMMA DownFacts ==
  /\ NoDown \in DownType
  /\ Downstream("proxy", TRUE) \in DownType
  /\ Downstream("direct", TRUE) \in DownType
  /\ ~NoDown.alive /\ ~NoDown.failed
  BY DEF NoDown, Downstream, DownType, Ways, Errors

\* The handle of a downstream socket fits into the list.
LEMMA AddDown ==
  ASSUME TypeOK, NEW c \in Clients
  PROVE  handles \cup {Down(c)} \subseteq Clients \X {"client", "down"}
  <1>1. Down(c) \in Clients \X {"client", "down"}
    BY DEF Down
  <1>2. handles \subseteq Clients \X {"client", "down"}
    BY DEF TypeOK
  <1> QED
    BY <1>1, <1>2

\* An event changes the fields it names.
LEMMA ChangedFacts ==
  ASSUME NEW d \in DownType, NEW alive \in BOOLEAN, NEW heard \in BOOLEAN, NEW error \in Errors,
         NEW failed \in BOOLEAN
  PROVE  /\ Changed(d, alive, heard, error, failed) \in DownType
         /\ d.alive \in BOOLEAN /\ d.heard \in BOOLEAN /\ d.error \in Errors
         /\ d.failed \in BOOLEAN
  BY DEF DownType, Changed

\* A direct connection keeps the types.
LEMMA DirectType ==
  ASSUME TypeOK, NEW c \in Clients, Direct(c)
  PROVE  /\ flow' \in [Clients -> {"idle", "choosing", "piped", "logging"}]
         /\ down' \in [Clients -> DownType]
         /\ handles' \subseteq Clients \X {"client", "down"}
         /\ answer' \in [Clients -> Answers]
         /\ UNCHANGED <<sock, repeat, reported>>
  <1>1. handles' \subseteq Clients \X {"client", "down"}
    BY AddDown DEF Direct
  <1>2. down' \in [Clients -> DownType]
    BY DownFacts DEF Direct, TypeOK
  <1> QED
    BY <1>1, <1>2 DEF Direct, TypeOK, Answers

\* Removing handles keeps the list and the state of preFinalize() typed.
LEMMA RemoveType ==
  ASSUME TypeOK, NEW H, Remove(H)
  PROVE  /\ handles' \subseteq Clients \X {"client", "down"}
         /\ fin' \in {"no", "waiting", "done"}
  BY DEF TypeOK, Remove

\* So does the end of a request handler.
LEMMA AfterFinishedType ==
  ASSUME TypeOK, NEW c \in Clients, AfterFinished(c)
  PROVE  /\ sock' \in [Clients -> {"none", "open", "closing", "gone"}]
         /\ flow' \in [Clients -> {"idle", "choosing", "piped", "logging"}]
         /\ headers' \in [Clients -> SUBSET SelectHeaders]
         /\ repeat' \in [Clients -> 0 .. RepeatLimit]
         /\ answer' \in [Clients -> Answers]
         /\ down' \in [Clients -> DownType]
         /\ reported' \in [Clients -> {"none", "success", "failure"}]
         /\ handles' \subseteq Clients \X {"client", "down"}
  <1>1. CASE ~Failed(c)
    BY <1>1, DownFacts DEF AfterFinished, TypeOK, End, Closing, Answers
  <1>2. CASE Failed(c) /\ MayRepeat(c)
    <2>1. repeat[c] \in 0 .. RepeatLimit /\ repeat[c] < RepeatLimit
      BY <1>2 DEF TypeOK, MayRepeat
    <2>2. repeat[c] + 1 \in 0 .. RepeatLimit
      BY <2>1, ServerAssumption
    <2>3. repeat' \in [Clients -> 0 .. RepeatLimit]
      BY <1>2, <2>2 DEF AfterFinished, TypeOK
    <2> QED
      BY <1>2, <2>3, DownFacts DEF AfterFinished, TypeOK, Choose, Answers
  <1>3. CASE Failed(c) /\ ~MayRepeat(c) /\ CheckRepeats(c) /\ HasFallbackHeader(c)
    <2>1. CASE Client(c) \in handles
      <3>1. Direct(c) /\ headers' = [headers EXCEPT ![c] = OnProxyRequest(@)]
        BY <1>3, <2>1 DEF AfterFinished, Fallback
      <3> QED
        BY <3>1, DirectType DEF TypeOK, OnProxyRequest
    <2>2. CASE Client(c) \notin handles
      BY <1>3, <2>2, DownFacts DEF AfterFinished, TypeOK, Fallback, RequestWithoutHandle, End,
         Answers
    <2> QED
      BY <2>1, <2>2
  <1>4. CASE Failed(c) /\ ~MayRepeat(c) /\ ~(CheckRepeats(c) /\ HasFallbackHeader(c))
    BY <1>4, DownFacts DEF AfterFinished, TypeOK, EndWithError, End, Closing, Answers
  <1> QED
    BY <1>1, <1>2, <1>3, <1>4

\* Every step keeps the types.
LEMMA TypeStep == TypeOK /\ [Next]_vars => TypeOK'
  <1> SUFFICES ASSUME TypeOK, [Next]_vars PROVE TypeOK'
    OBVIOUS
  <1>1. CASE PreFinalize \/ FinalizeTimer
    BY <1>1 DEF PreFinalize, FinalizeTimer, TypeOK, clientVars
  <1>2. ASSUME NEW c \in Clients, OnServerConnection(c) PROVE TypeOK'
    BY <1>2 DEF OnServerConnection, TypeOK, Client
  <1>3. ASSUME NEW c \in Clients, SocketCloses(c) PROVE TypeOK'
    BY <1>3, RemoveType DEF SocketCloses, TypeOK
  <1>4. ASSUME NEW c \in Clients, Request(c) PROVE TypeOK'
    <2>1. PICK names \in BOOLEAN, wish \in BOOLEAN :
            /\ selected' = [selected EXCEPT ![c] = names]
            /\ wants' = [wants EXCEPT ![c] = wish]
            /\ \/ Client(c) \notin handles /\ RequestWithoutHandle(c)
               \/ /\ Client(c) \in handles
                  /\ headers' = [headers EXCEPT ![c] = OnProxyRequest(Parsed(c, wish))]
                  /\ IF toProxy THEN Choose(c) /\ UNCHANGED repeat ELSE Direct(c)
      BY <1>4 DEF Request
    <2>2. requests' \in [Clients -> Nat] /\ UNCHANGED <<ticks, fin, uses, toProxy>>
      BY <1>4 DEF Request, TypeOK
    <2>3. CASE Client(c) \notin handles /\ RequestWithoutHandle(c)
      BY <2>1, <2>2, <2>3, DownFacts DEF TypeOK, RequestWithoutHandle, End, Answers
    <2>4. CASE /\ Client(c) \in handles
               /\ headers' = [headers EXCEPT ![c] = OnProxyRequest(Parsed(c, wish))]
               /\ IF toProxy THEN Choose(c) /\ UNCHANGED repeat ELSE Direct(c)
      <3>1. headers' \in [Clients -> SUBSET SelectHeaders]
        BY <2>4 DEF TypeOK, OnProxyRequest, Parsed, SelectHeaders
      <3>2. CASE toProxy
        BY <2>1, <2>2, <2>4, <3>1, <3>2, DownFacts DEF TypeOK, Choose, Answers
      <3>3. CASE ~toProxy
        <4>1. Direct(c)
          BY <2>4, <3>3
        <4> QED
          BY <2>1, <2>2, <3>1, <4>1, DirectType DEF TypeOK
      <3> QED
        BY <3>2, <3>3
    <2> QED
      BY <2>1, <2>3, <2>4
  <1>5. ASSUME NEW c \in Clients, TargetFound(c) PROVE TypeOK'
    <2>1. handles' \subseteq Clients \X {"client", "down"}
      <3>1. handles' = handles \cup {Down(c)}
        BY <1>5, Zenon DEF TargetFound
      <3>2. handles \cup {Down(c)} \subseteq Clients \X {"client", "down"}
        BY AddDown
      <3> QED
        BY <3>1, <3>2
    <2>2. down' \in [Clients -> DownType]
      BY <1>5, DownFacts DEF TargetFound, TypeOK, clientVars
    <2>3. /\ flow' \in [Clients -> {"idle", "choosing", "piped", "logging"}]
          /\ uses' \in [Clients -> Nat]
      BY <1>5 DEF TargetFound, TypeOK
    <2>4. UNCHANGED <<sock, requests, selected, wants, headers, repeat, answer, ticks, reported, fin, toProxy>>
      BY <1>5 DEF TargetFound, clientVars
    <2> QED
      BY <2>1, <2>2, <2>3, <2>4 DEF TypeOK
  <1>6. ASSUME NEW c \in Clients, TargetRejected(c) \/ TargetUnusable(c) PROVE TypeOK'
    BY <1>6, DownFacts DEF TargetRejected, TargetUnusable, EndWithError, End, Closing, TypeOK,
       clientVars, Answers
  <1>7. ASSUME NEW c \in Clients, DownstreamAnswers(c) PROVE TypeOK'
    BY <1>7 DEF DownType, Changed, DownstreamAnswers, TypeOK, clientVars, Errors
  <1>8. ASSUME NEW c \in Clients, DownstreamEnds(c) PROVE TypeOK'
    BY <1>8, RemoveType DEF DownType, Changed, DownstreamEnds, Closing, TypeOK
  <1>9. ASSUME NEW c \in Clients, DownstreamFails(c) PROVE TypeOK'
    BY <1>9, RemoveType DEF DownType, Changed, DownstreamFails, TypeOK, clientVars, Errors
  <1>10. ASSUME NEW c \in Clients, DownstreamTimesOut(c) PROVE TypeOK'
    BY <1>10, RemoveType DEF DownType, Changed, DownstreamTimesOut, TypeOK, clientVars
  <1>11. ASSUME NEW c \in Clients, ErrorTick(c) PROVE TypeOK'
    BY <1>11 DEF DownType, Changed, ErrorTick, TypeOK, clientVars, Errors
  <1>12. ASSUME NEW c \in Clients, Finished(c) PROVE TypeOK'
    <2>1. CASE down[c].via = "proxy"
      BY <1>12, <2>1 DEF Finished, TypeOK
    <2>2. CASE down[c].via # "proxy"
      BY <1>12, <2>2, AfterFinishedType DEF Finished, TypeOK
    <2> QED
      BY <2>1, <2>2
  <1>13. ASSUME NEW c \in Clients, Logged(c) PROVE TypeOK'
    BY <1>13, AfterFinishedType DEF Logged, TypeOK
  <1>14. ASSUME NEW c \in Clients, LogFails(c) PROVE TypeOK'
    BY <1>14, DownFacts DEF LogFails, End, TypeOK, clientVars, Answers
  <1>15. CASE UNCHANGED vars
    BY <1>15 DEF vars, clientVars, TypeOK
  <1> QED
    BY <1>1, <1>2, <1>3, <1>4, <1>5, <1>6, <1>7, <1>8, <1>9, <1>10, <1>11, <1>12, <1>13, <1>14,
       <1>15 DEF Next, ClientStep, Chosen, DownstreamOver

\* Type correctness: for any connections and any events of their sockets every
\* variable keeps its range, and no connection repeats more often than allowed.
THEOREM TypeCorrect == Spec => []TypeOK
  BY TypeInit, TypeStep, PTL DEF Spec

-----------------------------------------------------------------------------
(* Uses of proxies *)

\* A proxy about to be asked for counts already.
UsesCounted ==
  \A c \in Clients :
    /\ flow[c] # "choosing" => uses[c] <= requests[c] + repeat[c]
    /\ flow[c] = "choosing" => uses[c] + 1 <= requests[c] + repeat[c]

\* The end of a use either ends the request or counts a repeat.
LEMMA AfterFinishedUses ==
  ASSUME TypeOK, UsesCounted, NEW c \in Clients, AfterFinished(c), flow[c] # "choosing",
         UNCHANGED <<requests, uses>>
  PROVE  UsesCounted'
  <1>0. TypeOK /\ UsesCounted /\ flow[c] # "choosing" /\ UNCHANGED <<requests, uses>>
    OBVIOUS
  <1>1. CASE ~Failed(c)
    BY <1>0, <1>1 DEF AfterFinished, TypeOK, UsesCounted, End
  <1>2. CASE Failed(c) /\ MayRepeat(c)
    BY <1>0, <1>2, ServerAssumption DEF AfterFinished, TypeOK, UsesCounted, Choose
  <1>3. CASE Failed(c) /\ ~MayRepeat(c) /\ CheckRepeats(c) /\ HasFallbackHeader(c)
    <2>1. CASE Client(c) \in handles
      BY <1>0, <1>3, <2>1 DEF AfterFinished, TypeOK, UsesCounted, Fallback, Direct
    <2>2. CASE Client(c) \notin handles
      BY <1>0, <1>3, <2>2 DEF AfterFinished, TypeOK, UsesCounted, Fallback,
         RequestWithoutHandle, End
    <2> QED
      BY <2>1, <2>2
  <1>4. CASE Failed(c) /\ ~MayRepeat(c) /\ ~(CheckRepeats(c) /\ HasFallbackHeader(c))
    BY <1>0, <1>4 DEF AfterFinished, TypeOK, UsesCounted, EndWithError, End
  <1> QED
    BY <1>1, <1>2, <1>3, <1>4

\* Every step keeps the count of the uses.
LEMMA UsesStep == TypeOK /\ UsesCounted /\ [Next]_vars => UsesCounted'
  <1> SUFFICES ASSUME TypeOK, UsesCounted, [Next]_vars PROVE UsesCounted'
    OBVIOUS
  <1>1. ASSUME UNCHANGED <<flow, uses, requests, repeat>> PROVE UsesCounted'
    BY <1>1 DEF UsesCounted
  <1>2. CASE PreFinalize \/ FinalizeTimer \/ UNCHANGED vars
    BY <1>1, <1>2 DEF PreFinalize, FinalizeTimer, vars, clientVars
  <1>3. ASSUME NEW c \in Clients,
               \/ OnServerConnection(c) \/ SocketCloses(c) \/ DownstreamAnswers(c)
               \/ DownstreamOver(c) \/ ErrorTick(c)
        PROVE  UsesCounted'
    BY <1>1, <1>3 DEF OnServerConnection, SocketCloses, DownstreamAnswers, DownstreamOver,
       DownstreamEnds, DownstreamFails, DownstreamTimesOut, ErrorTick, clientVars
  <1>4. ASSUME NEW c \in Clients, Request(c) PROVE UsesCounted'
    <2>1. /\ requests' = [requests EXCEPT ![c] = @ + 1] /\ UNCHANGED uses /\ flow[c] = "idle"
          /\ UNCHANGED repeat
          /\ \E f \in {"idle", "choosing", "piped"} : flow' = [flow EXCEPT ![c] = f]
      BY <1>4 DEF Request, RequestWithoutHandle, End, Choose, Direct
    <2> QED
      BY <2>1 DEF UsesCounted, TypeOK
  <1>5. ASSUME NEW c \in Clients, TargetFound(c) PROVE UsesCounted'
    <2>1. /\ UNCHANGED <<requests, repeat>> /\ flow[c] = "choosing"
          /\ flow' = [flow EXCEPT ![c] = "piped"] /\ uses' = [uses EXCEPT ![c] = @ + 1]
      BY <1>5 DEF TargetFound, clientVars
    <2> QED
      BY <2>1 DEF UsesCounted, TypeOK
  <1>6. ASSUME NEW c \in Clients, TargetRejected(c) \/ TargetUnusable(c) \/ LogFails(c)
        PROVE  UsesCounted'
    <2>1. /\ UNCHANGED <<requests, repeat, uses>> /\ flow' = [flow EXCEPT ![c] = "idle"]
      BY <1>6 DEF TargetRejected, TargetUnusable, LogFails, EndWithError, End, clientVars
    <2> QED
      BY <2>1 DEF UsesCounted, TypeOK
  <1>7. ASSUME NEW c \in Clients, Finished(c) PROVE UsesCounted'
    <2>1. CASE down[c].via = "proxy"
      <3>1. UNCHANGED <<requests, repeat, uses>> /\ flow' = [flow EXCEPT ![c] = "logging"]
            /\ flow[c] = "piped"
        BY <1>7, <2>1 DEF Finished
      <3> QED
        BY <3>1 DEF UsesCounted, TypeOK
    <2>2. CASE down[c].via # "proxy"
      BY <1>7, <2>2, AfterFinishedUses DEF Finished
    <2> QED
      BY <2>1, <2>2
  <1>8. ASSUME NEW c \in Clients, Logged(c) PROVE UsesCounted'
    BY <1>8, AfterFinishedUses DEF Logged
  <1> QED
    BY <1>2, <1>3, <1>4, <1>5, <1>6, <1>7, <1>8 DEF Next, ClientStep, Chosen

\* The limit of repeats: whatever fails and however often, a connection uses no more
\* than one proxy per request and repeatLimit further ones in all.
THEOREM UsesAreBounded == Spec => []UsesBounded
  <1>1. Init => UsesCounted
    BY DEF Init, UsesCounted
  <1>2. TypeOK /\ UsesCounted => UsesBounded
    BY ServerAssumption DEF TypeOK, UsesCounted, UsesBounded
  <1> QED
    BY <1>1, <1>2, UsesStep, TypeCorrect, PTL DEF Spec

-----------------------------------------------------------------------------
(* Handles, errors and reports *)

\* Clients' handles belong to sockets that are not gone.
ClientHandles ==
  \A c \in Clients : Client(c) \in handles => sock[c] \in {"open", "closing"} /\ fin # "done"

\* Where the downstream socket, its handle, a queued error and the handler stand.
PhaseOf(c) ==
  /\ flow[c] \in {"idle", "choosing"} => ~down[c].alive /\ ~down[c].failed
  /\ Down(c) \in handles => flow[c] = "piped" /\ down[c].alive /\ c \notin ticks
  /\ flow[c] = "piped" /\ Down(c) \notin handles /\ down[c].alive => fin = "done"
  /\ c \in ticks /\ fin # "done" => flow[c] = "piped" /\ ~down[c].alive
  /\ flow[c] = "logging" /\ fin # "done" =>
       ~down[c].alive /\ (reported[c] = "failure" <=> down[c].error # "none")
  /\ down[c].failed =>
       /\ ~down[c].alive
       /\ \/ flow[c] = "piped" /\ (c \in ticks \/ down[c].error # "none")
          \/ flow[c] = "logging" /\ reported[c] = "failure"

Phases == \A c \in Clients : PhaseOf(c)

\* The phases imply the properties.
LEMMA PhasesSuffice ==
  ASSUME ClientHandles, Phases
  PROVE  FailuresReported /\ VerdictStands /\ HandlesAreLive
  BY DEF ClientHandles, Phases, PhaseOf, FailuresReported, VerdictStands, HandlesAreLive

\* The handles of different connections and of their two sides are different.
LEMMA HandleFacts ==
  /\ \A c, d \in Clients : Client(c) # Down(d)
  /\ \A c, d \in Clients : c # d => Client(c) # Client(d) /\ Down(c) # Down(d)
  BY DEF Client, Down

\* What every new start of a request's downstream has in common.
Restarts(c) ==
  /\ \A x \in Clients : x # c =>
       flow'[x] = flow[x] /\ down'[x] = down[x] /\ reported'[x] = reported[x]
  /\ handles' \in {handles, handles \cup {Down(c)}}
  /\ ~down'[c].failed
  /\ \/ /\ flow'[c] \in {"idle", "choosing"}
        /\ ~down'[c].alive
        /\ handles' = handles
     \/ /\ flow'[c] = "piped"
        /\ down'[c].alive
        /\ handles' = handles \cup {Down(c)}

\* The fields of a downstream socket that is not there and of one just opened.
LEMMA DownFields ==
  /\ ~NoDown.alive /\ ~NoDown.failed
  /\ \A via \in Ways : Downstream(via, TRUE).alive /\ ~Downstream(via, TRUE).failed
  /\ "proxy" \in Ways /\ "direct" \in Ways
  BY DEF NoDown, Downstream, Ways

\* The parts of the handlers that restart.
LEMMA StartsRestart ==
  ASSUME TypeOK, NEW c \in Clients
  PROVE  /\ Choose(c) => Restarts(c)
         /\ Direct(c) => Restarts(c)
         /\ \A a \in Answers : End(c, a) => Restarts(c)
  <1>1. Choose(c) => Restarts(c)
    BY DownFields DEF Choose, Restarts, TypeOK
  <1>2. ASSUME Direct(c) PROVE Restarts(c)
    <2>1. down'[c] = Downstream("direct", TRUE) /\ flow'[c] = "piped"
      BY <1>2 DEF Direct, TypeOK
    <2>2. \A x \in Clients : x # c =>
            flow'[x] = flow[x] /\ down'[x] = down[x] /\ reported'[x] = reported[x]
      BY <1>2 DEF Direct, TypeOK
    <2>3. handles' = handles \cup {Down(c)}
      BY <1>2 DEF Direct
    <2> QED
      BY <2>1, <2>2, <2>3, DownFields DEF Restarts
  <1>3. ASSUME NEW a \in Answers, End(c, a) PROVE Restarts(c)
    BY <1>3, DownFields DEF End, Restarts, TypeOK
  <1> QED
    BY <1>1, <1>2, <1>3

\* So does whatever follows a finished downstream handle.
LEMMA AfterFinishedRestarts ==
  ASSUME TypeOK, NEW c \in Clients, AfterFinished(c)
  PROVE  Restarts(c) /\ (sock' = sock \/ sock' = Closing(c))
  <1>1. CASE ~Failed(c)
    BY <1>1, StartsRestart DEF AfterFinished, Answers
  <1>2. CASE Failed(c) /\ MayRepeat(c)
    BY <1>2, StartsRestart DEF AfterFinished, Choose
  <1>3. CASE Failed(c) /\ ~MayRepeat(c) /\ CheckRepeats(c) /\ HasFallbackHeader(c)
    <2>1. CASE Client(c) \in handles
      BY <1>3, <2>1, StartsRestart DEF AfterFinished, Fallback, Direct
    <2>2. CASE Client(c) \notin handles
      BY <1>3, <2>2, StartsRestart DEF AfterFinished, Fallback, RequestWithoutHandle, Answers
    <2> QED
      BY <2>1, <2>2
  <1>4. CASE Failed(c) /\ ~MayRepeat(c) /\ ~(CheckRepeats(c) /\ HasFallbackHeader(c))
    BY <1>4, StartsRestart DEF AfterFinished, EndWithError, Answers
  <1> QED
    BY <1>1, <1>2, <1>3, <1>4

\* A restart keeps the phases, and the clients' handles with them.
LEMMA RestartKeeps ==
  ASSUME TypeOK, Phases, ClientHandles, NEW c \in Clients, Restarts(c), c \notin ticks,
         Down(c) \notin handles, UNCHANGED <<ticks, fin>>, sock' = sock \/ sock' = Closing(c)
  PROVE  Phases' /\ ClientHandles'
  <1>0. /\ TypeOK /\ Phases /\ ClientHandles /\ Restarts(c) /\ c \notin ticks
        /\ Down(c) \notin handles /\ ticks' = ticks /\ fin' = fin /\ (sock' = sock \/ sock' = Closing(c))
    OBVIOUS
  <1>1. \A x \in Clients : Client(x) \in handles' <=> Client(x) \in handles
    BY <1>0, HandleFacts DEF Restarts
  <1>2. \A x \in Clients : x # c => (Down(x) \in handles' <=> Down(x) \in handles)
    BY <1>0, HandleFacts DEF Restarts
  <1>3. ClientHandles'
    BY <1>0, <1>1 DEF ClientHandles, Closing, TypeOK
  <1>4. Phases'
    <2>1. ASSUME NEW x \in Clients, x # c
          PROVE  /\ flow'[x] = flow[x] /\ down'[x] = down[x] /\ reported'[x] = reported[x]
                 /\ Down(x) \in handles' <=> Down(x) \in handles
      BY <1>0, <1>2, <2>1 DEF Restarts
    <2>2. CASE flow'[c] = "piped"
      BY <1>0, <2>1, <2>2 DEF Phases, PhaseOf, Restarts
    <2>3. CASE flow'[c] \in {"idle", "choosing"}
      BY <1>0, <2>1, <2>3 DEF Phases, PhaseOf, Restarts
    <2> QED
      BY <1>0, <2>2, <2>3 DEF Restarts
  <1> QED
    BY <1>3, <1>4

\* Taking handles away keeps the clients' handles, whether or not the list is
\* empty then; a client's own handle goes with its socket.
LEMMA RemoveKeepsClients ==
  ASSUME ClientHandles, NEW H, Remove(H),
         \A x \in Clients : Client(x) \notin H => sock'[x] = sock[x] \/ sock'[x] = "closing"
  PROVE  ClientHandles'
  BY DEF ClientHandles, Remove

\* The end of a downstream socket keeps the phases.
LEMMA OverKeeps ==
  ASSUME TypeOK, Phases, NEW c \in Clients, NEW e \in Errors, Remove({Down(c)}),
         down[c].alive, Quiet, UNCHANGED <<flow, reported>>,
         NEW f \in BOOLEAN, f => Down(c) \in handles,
         down' = [down EXCEPT ![c] = Changed(@, FALSE, @.heard, e, f)],
         \/ UNCHANGED ticks /\ (f => e # "none")
         \/ ticks' = ticks \cup {c}
  PROVE  Phases'
  <1>0. /\ TypeOK /\ Phases /\ down[c].alive /\ Quiet /\ flow' = flow /\ reported' = reported
        /\ f => Down(c) \in handles
        /\ (ticks' = ticks /\ (f => e # "none")) \/ ticks' = ticks \cup {c}
    OBVIOUS
  <1>1. /\ ~down'[c].alive /\ down'[c].failed = f /\ down'[c].error = e
        /\ \A x \in Clients : x # c => down'[x] = down[x]
    BY DEF Changed, TypeOK
  <1>2. /\ Down(c) \notin handles'
        /\ \A x \in Clients : x # c => (Down(x) \in handles' <=> Down(x) \in handles)
        /\ fin' # "done" => fin # "done"
        /\ fin = "done" => fin' = "done"
    BY HandleFacts DEF Remove
  <1>3. ticks = {}
    BY <1>0 DEF Quiet
  <1>4. flow[c] \in {"piped", "logging"} /\ (Down(c) \in handles => flow[c] = "piped")
    BY <1>0 DEF Phases, PhaseOf, TypeOK
  <1>5. Down(c) \notin handles => fin = "done"
    BY <1>0, <1>4 DEF Phases, PhaseOf
  <1>6. flow[c] = "logging" => fin = "done"
    BY <1>0 DEF Phases, PhaseOf
  <1>7. ASSUME NEW x \in Clients, x # c
        PROVE  /\ flow'[x] = flow[x] /\ down'[x] = down[x] /\ reported'[x] = reported[x]
               /\ Down(x) \in handles' <=> Down(x) \in handles
               /\ x \notin ticks /\ x \notin ticks'
    BY <1>0, <1>1, <1>2, <1>3, <1>7
  <1>8. f => flow[c] = "piped"
    BY <1>0, <1>4
  <1>9. f => c \in ticks' \/ e # "none"
    BY <1>0
  <1>10. fin' # "done" => flow[c] = "piped"
    BY <1>2, <1>4, <1>6
  <1>11. flow'[c] = flow[c]
    BY <1>0
  <1>12. ASSUME NEW x \in Clients, x # c PROVE PhaseOf(x)'
    <2>1. PhaseOf(x)
      BY <1>0 DEF Phases
    <2> QED
      BY <1>2, <1>7, <1>12, <2>1 DEF PhaseOf
  <1>13. PhaseOf(c)'
    BY <1>0, <1>1, <1>2, <1>4, <1>8, <1>9, <1>10, <1>11 DEF PhaseOf
  <1> QED
    BY <1>12, <1>13 DEF Phases

\* Every step keeps the phases and the clients' handles.
LEMMA PhaseStep == TypeOK /\ Phases /\ ClientHandles /\ [Next]_vars => Phases' /\ ClientHandles'
  <1> SUFFICES ASSUME TypeOK, Phases, ClientHandles, [Next]_vars PROVE Phases' /\ ClientHandles'
    OBVIOUS
  <1>1. CASE PreFinalize
    BY <1>1 DEF PreFinalize, Phases, PhaseOf, ClientHandles, clientVars
  <1>2. CASE FinalizeTimer
    <2>1. handles' = {} /\ fin' = "done" /\ UNCHANGED <<flow, down, ticks, reported>>
      BY <1>2 DEF FinalizeTimer
    <2> QED
      BY <2>1 DEF Phases, PhaseOf, ClientHandles
  <1>3. ASSUME NEW c \in Clients, OnServerConnection(c) PROVE Phases' /\ ClientHandles'
    <2>1. /\ UNCHANGED <<flow, down, ticks, reported, fin>>
          /\ handles' = handles \cup {Client(c)} /\ sock' = [sock EXCEPT ![c] = "open"]
          /\ fin # "done"
      BY <1>3 DEF OnServerConnection
    <2>2. \A x \in Clients : Down(x) \in handles' <=> Down(x) \in handles
      BY <2>1, HandleFacts
    <2>3. \A x \in Clients : x # c => (Client(x) \in handles' <=> Client(x) \in handles)
      BY <2>1, HandleFacts
    <2>4. Phases'
      BY <2>1, <2>2 DEF Phases, PhaseOf
    <2> QED
      BY <2>1, <2>3, <2>4 DEF ClientHandles, TypeOK
  <1>4. ASSUME NEW c \in Clients, SocketCloses(c) PROVE Phases' /\ ClientHandles'
    <2>1. /\ UNCHANGED <<flow, down, ticks, reported>> /\ Remove({Client(c)})
          /\ sock' = [sock EXCEPT ![c] = "gone"]
      BY <1>4 DEF SocketCloses
    <2>2. /\ \A x \in Clients : Down(x) \in handles' <=> Down(x) \in handles
          /\ fin' # "done" => fin # "done"
          /\ fin = "done" => fin' = "done"
      BY <2>1, HandleFacts DEF Remove
    <2>3. Phases'
      BY <2>1, <2>2 DEF Phases, PhaseOf
    <2> QED
      BY <2>1, <2>3, RemoveKeepsClients DEF TypeOK
  <1>5. ASSUME NEW c \in Clients, Request(c) PROVE Phases' /\ ClientHandles'
    <2>1. /\ Restarts(c) /\ UNCHANGED <<ticks, fin, sock>> /\ c \notin ticks
      BY <1>5, StartsRestart DEF Request, RequestWithoutHandle, Choose, Direct, Answers, Quiet
    <2>2. Down(c) \notin handles
      BY <1>5 DEF Request, Phases, PhaseOf
    <2> QED
      BY <2>1, <2>2, RestartKeeps
  <1>6. ASSUME NEW c \in Clients, TargetFound(c) PROVE Phases' /\ ClientHandles'
    <2>1. /\ flow' = [flow EXCEPT ![c] = "piped"]
          /\ down' = [down EXCEPT ![c] = Downstream("proxy", TRUE)]
          /\ handles' = handles \cup {Down(c)} /\ flow[c] = "choosing"
          /\ UNCHANGED <<ticks, fin, sock, reported>> /\ c \notin ticks
      BY <1>6 DEF TargetFound, Quiet, clientVars
    <2>2. Restarts(c)
      BY <2>1, DownFields DEF Restarts, TypeOK
    <2>3. Down(c) \notin handles
      BY <2>1 DEF Phases, PhaseOf
    <2> QED
      BY <2>1, <2>2, <2>3, RestartKeeps
  <1>7. ASSUME NEW c \in Clients, TargetRejected(c) \/ TargetUnusable(c) \/ LogFails(c)
        PROVE  Phases' /\ ClientHandles'
    <2>1. /\ Restarts(c) /\ UNCHANGED <<ticks, fin>> /\ c \notin ticks
          /\ sock' = sock \/ sock' = Closing(c)
      BY <1>7, StartsRestart DEF TargetRejected, TargetUnusable, LogFails, EndWithError, Answers,
         Quiet, clientVars
    <2>2. Down(c) \notin handles
      BY <1>7 DEF TargetRejected, TargetUnusable, LogFails, Phases, PhaseOf
    <2> QED
      BY <2>1, <2>2, RestartKeeps
  <1>8. ASSUME NEW c \in Clients, DownstreamAnswers(c) PROVE Phases' /\ ClientHandles'
    <2>1. PICK e \in Errors : down' = [down EXCEPT ![c] = Changed(@, @.alive, TRUE, e, @.failed)]
      BY <1>8 DEF DownstreamAnswers, Errors
    <2>2. /\ down'[c].alive = down[c].alive /\ down'[c].failed = down[c].failed
          /\ \A x \in Clients : x # c => down'[x] = down[x]
      BY <2>1 DEF Changed, TypeOK
    <2>3. down[c].alive /\ UNCHANGED <<flow, ticks, reported, handles, fin, sock>>
      BY <1>8 DEF DownstreamAnswers, clientVars
    <2> QED
      BY <2>2, <2>3 DEF Phases, PhaseOf, ClientHandles
  <1>9. ASSUME NEW c \in Clients, DownstreamEnds(c) PROVE Phases' /\ ClientHandles'
    <2>1. ~down[c].failed
      BY <1>9 DEF DownstreamEnds, Phases, PhaseOf
    <2>2. Phases'
      <3>1. down[c].error \in Errors
        BY ChangedFacts DEF TypeOK, DownType
      <3>2. /\ down' = [down EXCEPT ![c] = Changed(@, FALSE, @.heard, down[c].error, FALSE)]
            /\ down[c].alive /\ Quiet /\ Remove({Down(c)}) /\ UNCHANGED <<flow, reported, ticks>>
        BY <1>9, <2>1 DEF DownstreamEnds, TypeOK, DownType
      <3> QED
        BY <3>1, <3>2, OverKeeps
    <2>3. ClientHandles'
      BY <1>9, RemoveKeepsClients DEF DownstreamEnds, Closing, TypeOK
    <2> QED
      BY <2>2, <2>3
  <1>10. ASSUME NEW c \in Clients, DownstreamFails(c) PROVE Phases' /\ ClientHandles'
    <2>1. Phases'
      <3> DEFINE f == Down(c) \in handles
      <3>1. /\ down' = [down EXCEPT ![c] = Changed(@, FALSE, @.heard, "socket", f)]
            /\ down[c].alive /\ Quiet /\ Remove({Down(c)}) /\ UNCHANGED <<flow, reported, ticks>>
        BY <1>10 DEF DownstreamFails, clientVars
      <3>2. f \in BOOLEAN /\ (f => Down(c) \in handles) /\ "socket" \in Errors
        BY DEF Errors
      <3> HIDE DEF f
      <3> QED
        BY <3>1, <3>2, OverKeeps
    <2>2. ClientHandles'
      BY <1>10, RemoveKeepsClients DEF DownstreamFails, clientVars
    <2> QED
      BY <2>1, <2>2
  <1>11. ASSUME NEW c \in Clients, DownstreamTimesOut(c) PROVE Phases' /\ ClientHandles'
    <2>1. Phases'
      <3> DEFINE f == Down(c) \in handles
      <3>1. /\ down' = [down EXCEPT ![c] = Changed(@, FALSE, @.heard, down[c].error, f)]
            /\ down[c].alive /\ Quiet /\ Remove({Down(c)}) /\ UNCHANGED <<flow, reported>>
            /\ ticks' = ticks \cup {c}
        BY <1>11 DEF DownstreamTimesOut, clientVars
      <3>2. f \in BOOLEAN /\ (f => Down(c) \in handles)
        OBVIOUS
      <3>3. down[c].error \in Errors
        BY DEF TypeOK, DownType
      <3> HIDE DEF f
      <3> QED
        BY <3>1, <3>2, <3>3, OverKeeps
    <2>2. ClientHandles'
      BY <1>11, RemoveKeepsClients DEF DownstreamTimesOut, clientVars
    <2> QED
      BY <2>1, <2>2
  <1>12. ASSUME NEW c \in Clients, ErrorTick(c) PROVE Phases' /\ ClientHandles'
    <2>1. /\ down'[c].alive = down[c].alive /\ down'[c].failed = down[c].failed
          /\ down'[c].error = "socket"
          /\ \A x \in Clients : x # c => down'[x] = down[x]
      BY <1>12 DEF ErrorTick, Changed, TypeOK
    <2>2. c \in ticks /\ ticks' = ticks \ {c} /\ UNCHANGED <<flow, reported, handles, fin, sock>>
      BY <1>12 DEF ErrorTick, clientVars
    <2>3. \A x \in Clients : x # c => (x \in ticks' <=> x \in ticks)
      BY <2>2
    <2> QED
      BY <2>1, <2>2, <2>3 DEF Phases, PhaseOf, ClientHandles
  <1>13. ASSUME NEW c \in Clients, Finished(c) PROVE Phases' /\ ClientHandles'
    <2>1. CASE down[c].via = "proxy"
      <3>1. /\ flow' = [flow EXCEPT ![c] = "logging"]
            /\ reported' = [reported EXCEPT
                 ![c] = IF down[c].error = "none" THEN "success" ELSE "failure"]
            /\ UNCHANGED <<sock, down, handles, ticks, fin>>
            /\ flow[c] = "piped" /\ c \notin ticks /\ Down(c) \notin handles
        BY <1>13, <2>1 DEF Finished
      <3> QED
        BY <3>1 DEF Phases, PhaseOf, ClientHandles, TypeOK
    <2>2. CASE down[c].via # "proxy"
      BY <1>13, <2>2, AfterFinishedRestarts, RestartKeeps DEF Finished
    <2> QED
      BY <2>1, <2>2
  <1>14. ASSUME NEW c \in Clients, Logged(c) PROVE Phases' /\ ClientHandles'
    <2>1. Restarts(c) /\ (sock' = sock \/ sock' = Closing(c)) /\ UNCHANGED <<ticks, fin>>
      BY <1>14, AfterFinishedRestarts DEF Logged
    <2>2. c \notin ticks /\ Down(c) \notin handles
      BY <1>14 DEF Logged, Quiet, Phases, PhaseOf
    <2> QED
      BY <2>1, <2>2, RestartKeeps
  <1>15. CASE UNCHANGED vars
    BY <1>15 DEF vars, clientVars, Phases, PhaseOf, ClientHandles
  <1> QED
    BY <1>1, <1>2, <1>3, <1>4, <1>5, <1>6, <1>7, <1>8, <1>9, <1>10, <1>11, <1>12, <1>13, <1>14,
       <1>15 DEF Next, ClientStep, Chosen, DownstreamOver

\* The reports to the rotator are right: a proxy that failed or timed out is reported
\* as a failure, and the decision to repeat rests on what was reported.
THEOREM ReportsAreRight == Spec => [](FailuresReported /\ VerdictStands)
  <1>1. Init => Phases /\ ClientHandles
    BY DownFields DEF Init, Phases, PhaseOf, ClientHandles
  <1> QED
    BY <1>1, PhaseStep, PhasesSuffice, TypeCorrect, PTL DEF Spec

\* While the report of a proxy is being stored, nothing changes what the decision
\* about a repeat will read.
THEOREM VerdictsStand == Spec => []VerdictStands
  BY ReportsAreRight, PTL

\* The list of handles holds handles of sockets that are there, and no client's once
\* preFinalize() has resolved.
THEOREM HandlesStayLive == Spec => []HandlesAreLive
  <1>1. Init => Phases /\ ClientHandles
    BY DownFields DEF Init, Phases, PhaseOf, ClientHandles
  <1> QED
    BY <1>1, PhaseStep, PhasesSuffice, TypeCorrect, PTL DEF Spec

-----------------------------------------------------------------------------
(* preFinalize() *)

\* The list of handles grows, or shrinks by what Remove takes away.
LEMMA HandleSteps ==
  ASSUME NEW c \in Clients, ClientStep(c)
  PROVE  \/ handles \subseteq handles' /\ UNCHANGED fin
         \/ \E H : Remove(H)
  <1>1. ASSUME SocketCloses(c) \/ DownstreamOver(c) PROVE \E H : Remove(H)
    BY <1>1 DEF SocketCloses, DownstreamOver, DownstreamEnds, DownstreamFails, DownstreamTimesOut
  <1>2. ASSUME AfterFinished(c) PROVE handles \subseteq handles'
    BY <1>2 DEF AfterFinished, End, Choose, Fallback, Direct, RequestWithoutHandle, EndWithError
  <1>3. ASSUME \/ OnServerConnection(c) \/ Request(c) \/ Chosen(c) \/ DownstreamAnswers(c)
               \/ ErrorTick(c) \/ Finished(c) \/ Logged(c) \/ LogFails(c)
        PROVE  handles \subseteq handles' /\ UNCHANGED fin
    BY <1>2, <1>3 DEF OnServerConnection, Request, Choose, Direct, RequestWithoutHandle, End,
       Chosen, TargetFound, TargetRejected, EndWithError, TargetUnusable, DownstreamAnswers,
       ErrorTick, Finished, Logged, LogFails
  <1> QED
    BY <1>1, <1>3 DEF ClientStep

\* preFinalize() never waits for an event that nobody is left to emit: while it waits
\* there is a handle, and the end of the last one resolves it before the timer does.
THEOREM FinalizeHasAWaker == Spec => []FinalizeIsWoken
  <1>1. Init => FinalizeIsWoken
    BY DEF Init, FinalizeIsWoken
  <1>2. FinalizeIsWoken /\ [Next]_vars => FinalizeIsWoken'
    <2> SUFFICES ASSUME FinalizeIsWoken, [Next]_vars PROVE FinalizeIsWoken'
      OBVIOUS
    <2>1. CASE PreFinalize \/ FinalizeTimer \/ UNCHANGED vars
      BY <2>1 DEF PreFinalize, FinalizeTimer, vars, FinalizeIsWoken
    <2>2. ASSUME NEW H, Remove(H) PROVE FinalizeIsWoken'
      BY <2>2 DEF Remove, FinalizeIsWoken
    <2>3. CASE handles \subseteq handles' /\ UNCHANGED fin
      BY <2>3 DEF FinalizeIsWoken
    <2> QED
      BY <2>1, <2>2, <2>3, HandleSteps DEF Next
  <1> QED
    BY <1>1, <1>2, PTL DEF Spec

\* A connection that is left open when preFinalize() has resolved has lost its handle,
\* and without it a request is answered with an error or not at all, but not relayed.
THEOREM NothingStartsLate == Spec => StartsNothingLate
  <1>1. Init => Phases /\ ClientHandles
    BY DownFields DEF Init, Phases, PhaseOf, ClientHandles
  <1>2. TypeOK /\ ClientHandles /\ [Next]_vars =>
          [\A c \in Clients : fin = "done" /\ flow[c] = "idle" => flow'[c] = "idle"]_vars
    <2> SUFFICES ASSUME TypeOK, ClientHandles, [Next]_vars, NEW c \in Clients,
                        fin = "done", flow[c] = "idle"
                 PROVE  flow'[c] = "idle"
      BY DEF vars
    <2>1. ASSUME NEW x \in Clients, ClientStep(x), x # c PROVE flow'[c] = flow[c]
      <3>1. ASSUME NEW to, flow' = [flow EXCEPT ![x] = to] PROVE flow'[c] = flow[c]
        BY <2>1, <3>1 DEF TypeOK
      <3>2. ASSUME AfterFinished(x) PROVE flow'[c] = flow[c]
        BY <3>1, <3>2 DEF AfterFinished, End, Choose, Fallback, Direct, RequestWithoutHandle,
           EndWithError
      <3>3. ASSUME Request(x) \/ Chosen(x) \/ LogFails(x) PROVE flow'[c] = flow[c]
        BY <3>1, <3>3 DEF Request, Choose, Direct, RequestWithoutHandle, End, Chosen, TargetFound,
           TargetRejected, EndWithError, TargetUnusable, LogFails
      <3>4. ASSUME Finished(x) \/ Logged(x) PROVE flow'[c] = flow[c]
        BY <3>1, <3>2, <3>4 DEF Finished, Logged
      <3>5. ASSUME \/ OnServerConnection(x) \/ SocketCloses(x) \/ DownstreamAnswers(x)
                   \/ DownstreamOver(x) \/ ErrorTick(x)
            PROVE  flow'[c] = flow[c]
        BY <3>5 DEF OnServerConnection, SocketCloses, DownstreamAnswers, DownstreamOver,
           DownstreamEnds, DownstreamFails, DownstreamTimesOut, ErrorTick
      <3> QED
        BY <2>1, <3>3, <3>4, <3>5 DEF ClientStep
    <2>2. CASE Request(c)
      <3>1. Client(c) \notin handles
        BY DEF ClientHandles
      <3>2. RequestWithoutHandle(c)
        BY <2>2, <3>1 DEF Request
      <3> QED
        BY <3>2 DEF RequestWithoutHandle, End, TypeOK
    <2>3. CASE OnServerConnection(c) \/ SocketCloses(c) \/ DownstreamAnswers(c)
               \/ DownstreamOver(c) \/ ErrorTick(c)
      BY <2>3 DEF OnServerConnection, SocketCloses, DownstreamAnswers, DownstreamOver,
         DownstreamEnds, DownstreamFails, DownstreamTimesOut, ErrorTick
    <2>4. ~Chosen(c) /\ ~Finished(c) /\ ~Logged(c) /\ ~LogFails(c)
      BY DEF Chosen, TargetFound, TargetRejected, TargetUnusable, Finished, Logged, LogFails
    <2>5. CASE PreFinalize \/ FinalizeTimer \/ UNCHANGED vars
      BY <2>5 DEF PreFinalize, FinalizeTimer, vars
    <2> QED
      BY <2>1, <2>2, <2>3, <2>4, <2>5 DEF Next, ClientStep
  <1> QED
    BY <1>1, <1>2, PhaseStep, TypeCorrect, PTL DEF Spec, StartsNothingLate

-----------------------------------------------------------------------------
(* The fallback *)

\* The list of the client's handle never holds the select header between two steps.
FallbackInv == \A c \in Clients : headers[c] = {} /\ (toProxy => down[c].via # "direct")

\* With a target the handler goes on to a proxy or ends.
LEMMA AfterFinishedAvoids ==
  ASSUME TypeOK, FallbackInv, NEW c \in Clients, AfterFinished(c)
  PROVE  /\ UNCHANGED headers
         /\ \A x \in Clients : down'[x] \in {down[x], NoDown}
  <1>1. ~HasFallbackHeader(c)
    BY DEF HasFallbackHeader, FallbackInv
  <1> QED
    BY <1>1 DEF AfterFinished, End, Choose, EndWithError, TypeOK

\* Every step keeps it.
LEMMA FallbackStep == TypeOK /\ FallbackInv /\ [Next]_vars => FallbackInv'
  <1> SUFFICES ASSUME TypeOK, FallbackInv, [Next]_vars PROVE FallbackInv'
    OBVIOUS
  <1>0. NoDown.via = "none" /\ Downstream("proxy", TRUE).via = "proxy"
    BY DEF NoDown, Downstream
  <1>1. CASE UNCHANGED <<headers, toProxy>> /\ \A x \in Clients : down'[x].via \in {down[x].via, "none", "proxy"}
    BY <1>1 DEF FallbackInv
  <1>2. ASSUME PreFinalize \/ FinalizeTimer \/ UNCHANGED vars
        PROVE  UNCHANGED <<headers, toProxy, down>>
    BY <1>2 DEF PreFinalize, FinalizeTimer, vars, clientVars
  <1>3. ASSUME NEW c \in Clients, OnServerConnection(c) \/ SocketCloses(c)
        PROVE  UNCHANGED <<headers, toProxy, down>>
    BY <1>3 DEF OnServerConnection, SocketCloses
  <1>4. ASSUME NEW c \in Clients, Request(c) PROVE FallbackInv'
    <2>1. PICK wish \in BOOLEAN :
            \/ Client(c) \notin handles /\ RequestWithoutHandle(c)
            \/ /\ headers' = [headers EXCEPT ![c] = OnProxyRequest(Parsed(c, wish))]
               /\ IF toProxy THEN Choose(c) /\ UNCHANGED repeat ELSE Direct(c)
      BY <1>4 DEF Request
    <2>2. UNCHANGED toProxy
      BY <1>4 DEF Request
    <2>3. CASE RequestWithoutHandle(c)
      BY <1>0, <1>1, <2>2, <2>3 DEF RequestWithoutHandle, End, TypeOK
    <2>4. CASE /\ headers' = [headers EXCEPT ![c] = OnProxyRequest(Parsed(c, wish))]
               /\ IF toProxy THEN Choose(c) /\ UNCHANGED repeat ELSE Direct(c)
      <3>1. OnProxyRequest(Parsed(c, wish)) = {}
        BY DEF OnProxyRequest, Parsed, SelectHeaders, FallbackInv
      <3>2. \A x \in Clients : headers'[x] = {}
        BY <2>4, <3>1 DEF FallbackInv, TypeOK
      <3>3. toProxy => \A x \in Clients : down'[x].via # "direct"
        BY <1>0, <2>4 DEF Choose, FallbackInv, TypeOK
      <3> QED
        BY <2>2, <3>2, <3>3 DEF FallbackInv
    <2> QED
      BY <2>1, <2>3, <2>4
  <1>5. ASSUME NEW c \in Clients, Chosen(c) PROVE FallbackInv'
    <2>1. UNCHANGED <<headers, toProxy>>
      BY <1>5 DEF Chosen, TargetFound, TargetRejected, TargetUnusable, clientVars
    <2>2. \A x \in Clients : down'[x] \in {down[x], NoDown, Downstream("proxy", TRUE)}
      BY <1>5 DEF Chosen, TargetFound, TargetRejected, TargetUnusable, EndWithError, End, TypeOK
    <2> QED
      BY <1>0, <1>1, <2>1, <2>2
  <1>6. ASSUME NEW c \in Clients, DownstreamAnswers(c) \/ DownstreamOver(c) \/ ErrorTick(c)
        PROVE  FallbackInv'
    <2>1. UNCHANGED <<headers, toProxy>>
      BY <1>6 DEF DownstreamAnswers, DownstreamOver, DownstreamEnds, DownstreamFails,
         DownstreamTimesOut, ErrorTick, clientVars
    <2>2. CASE DownstreamAnswers(c)
      <3>1. PICK e : down' = [down EXCEPT ![c] = Changed(@, @.alive, TRUE, e, @.failed)]
        BY <2>2 DEF DownstreamAnswers
      <3>2. \A x \in Clients : down'[x].via = down[x].via
        BY <3>1 DEF Changed, TypeOK
      <3> QED
        BY <1>1, <2>1, <3>2
    <2>3. CASE DownstreamOver(c) \/ ErrorTick(c)
      <3>1. \A x \in Clients : down'[x].via = down[x].via
        BY <2>3 DEF DownstreamOver, DownstreamEnds, DownstreamFails, DownstreamTimesOut, ErrorTick,
           Changed, TypeOK
      <3> QED
        BY <1>1, <2>1, <3>1
    <2> QED
      BY <1>6, <2>2, <2>3
  <1>7. ASSUME NEW c \in Clients, Finished(c) \/ Logged(c) \/ LogFails(c) PROVE FallbackInv'
    <2>1. UNCHANGED toProxy
      BY <1>7 DEF Finished, Logged, LogFails
    <2>2. CASE AfterFinished(c)
      BY <1>0, <1>1, <2>1, <2>2, AfterFinishedAvoids
    <2>3. CASE UNCHANGED <<headers, down>>
      BY <1>1, <2>1, <2>3
    <2>4. CASE LogFails(c)
      BY <1>0, <1>1, <2>1, <2>4 DEF LogFails, End, clientVars, TypeOK
    <2> QED
      BY <1>7, <2>2, <2>3, <2>4 DEF Finished, Logged
  <1> QED
    BY <1>1, <1>2, <1>3, <1>4, <1>5, <1>6, <1>7 DEF Next, ClientStep

\* The branch for Proxy-Select-Fallback is dead: the header a client sends is removed
\* before it is looked up, on every request of every connection, so that a server with
\* a target relays to proxies only.  NoMatchFallsBack fails for this, and for a rejection
\* that is answered with an error without a look at the header.
THEOREM NeverFallsBack == Spec => []FallbackUnreachable
  <1>1. Init => FallbackInv
    BY DEF Init, FallbackInv, NoDown, Downstream
  <1>2. FallbackInv => FallbackUnreachable
    BY DEF FallbackInv, FallbackUnreachable, HasFallbackHeader
  <1> QED
    BY <1>1, <1>2, FallbackStep, TypeCorrect, PTL DEF Spec

-----------------------------------------------------------------------------
(* ProxyServer implements ClientRequest *)

\* A request in progress has no answer yet.
Unanswered == \A c \in Clients : flow[c] # "idle" => answer[c] = "none"

\* Neither sockets nor reports matter to the promise.
LEMMA RequestStutter ==
  ASSUME UNCHANGED <<flow, selected, toProxy, repeat, answer>>
  PROVE  UNCHANGED Requests!vars
  BY DEF Requests!vars, Busy, Repeatable, CheckRepeats

\* The end of a handler is the end of the request.
LEMMA EndFinishes ==
  ASSUME TypeOK, NEW c \in Clients, NEW a \in Answers, End(c, a), flow[c] # "idle",
         UNCHANGED <<selected, toProxy>>, a = "failed" /\ CheckRepeats(c) => repeat[c] = RepeatLimit
  PROVE  Requests!Next
  <1>1. Busy' = Busy \ {c} /\ c \in Busy
    BY DEF End, TypeOK, Busy
  <1>2. Repeatable' = Repeatable
    BY DEF Repeatable, CheckRepeats
  <1>3. c \in Repeatable <=> CheckRepeats(c)
    BY DEF Repeatable
  <1>4. Requests!Finish(c, a)
    BY <1>1, <1>2, <1>3 DEF End, Requests!Finish
  <1>5. a \in Requests!Answers
    BY DEF Answers, Requests!Answers
  <1> QED
    BY <1>4, <1>5 DEF Requests!Next

\* What follows a finished downstream handle ends the request or repeats it.
LEMMA AfterFinishedMaps ==
  ASSUME TypeOK, Unanswered, NEW c \in Clients, AfterFinished(c),
         flow[c] \in {"piped", "logging"}, UNCHANGED <<selected, toProxy>>
  PROVE  [Requests!Next]_(Requests!vars)
  <1>0. /\ repeat[c] \in 0 .. RepeatLimit /\ RepeatLimit \in Nat
        /\ MayRepeat(c) <=> repeat[c] < RepeatLimit /\ CheckRepeats(c)
    BY ServerAssumption DEF TypeOK, MayRepeat
  <1>1. CASE ~Failed(c)
    <2>1. End(c, "relayed") /\ "relayed" \in Answers
      BY <1>1 DEF AfterFinished, Answers
    <2> QED
      BY <2>1, EndFinishes
  <1>2. CASE Failed(c) /\ MayRepeat(c)
    <2>1. Choose(c) /\ repeat' = [repeat EXCEPT ![c] = @ + 1]
      BY <1>2 DEF AfterFinished
    <2>2. Busy' = Busy /\ c \in Busy
      BY <2>1 DEF Choose, TypeOK, Busy
    <2>3. Repeatable' = Repeatable /\ c \in Repeatable
      BY <1>0, <1>2 DEF Repeatable, CheckRepeats
    <2>4. answer' = answer
      BY <2>1 DEF Choose, Unanswered, TypeOK
    <2>5. Requests!Repeat(c)
      BY <1>0, <1>2, <2>1, <2>2, <2>3, <2>4 DEF Requests!Repeat
    <2> QED
      BY <2>5 DEF Requests!Next
  <1>3. CASE Failed(c) /\ ~MayRepeat(c) /\ CheckRepeats(c) /\ HasFallbackHeader(c)
    <2>1. CASE Client(c) \in handles
      <3>1. Direct(c)
        BY <1>3, <2>1 DEF AfterFinished, Fallback
      <3>2. Busy' = Busy
        BY <3>1 DEF Direct, TypeOK, Busy
      <3>3. UNCHANGED <<repeat, answer>>
        BY <3>1 DEF Direct, Unanswered, TypeOK
      <3>4. Repeatable' = Repeatable
        BY DEF Repeatable, CheckRepeats
      <3> QED
        BY <3>2, <3>3, <3>4 DEF Requests!vars
    <2>2. CASE Client(c) \notin handles
      <3>1. RequestWithoutHandle(c)
        BY <1>3, <2>2 DEF AfterFinished, Fallback
      <3>2. PICK a \in Answers : End(c, a)
        BY <3>1 DEF RequestWithoutHandle, Answers
      <3>3. repeat[c] = RepeatLimit
        BY <1>0, <1>3
      <3> QED
        BY <3>2, <3>3, EndFinishes
    <2> QED
      BY <2>1, <2>2
  <1>4. CASE Failed(c) /\ ~MayRepeat(c) /\ ~(CheckRepeats(c) /\ HasFallbackHeader(c))
    <2>1. End(c, "failed") /\ "failed" \in Answers
      BY <1>4 DEF AfterFinished, EndWithError, Answers
    <2>2. CheckRepeats(c) => repeat[c] = RepeatLimit
      BY <1>0, <1>4
    <2> QED
      BY <2>1, <2>2, EndFinishes
  <1> QED
    BY <1>1, <1>2, <1>3, <1>4

\* A request begins, or is refused when its handle is gone.
LEMMA RequestMaps ==
  ASSUME TypeOK, NEW c \in Clients, Request(c)
  PROVE  Requests!Next
  <1>1. /\ UNCHANGED <<repeat, toProxy>> /\ flow[c] = "idle"
        /\ \E b \in BOOLEAN : selected' = [selected EXCEPT ![c] = b]
    BY DEF Request, RequestWithoutHandle, End, Choose, Direct
  <1>2. c \notin Busy
    BY <1>1 DEF Busy
  <1>3. Repeatable' \in {Repeatable \cup {c}, Repeatable \ {c}}
    <2>1. \A x \in Clients : x # c => (x \in Repeatable' <=> x \in Repeatable)
      BY <1>1 DEF Repeatable, CheckRepeats, TypeOK
    <2>2. Repeatable \subseteq Clients /\ Repeatable' \subseteq Clients
      BY DEF Repeatable
    <2> QED
      BY <2>1, <2>2
  <1>4. CASE RequestWithoutHandle(c)
    <2>1. Busy' = Busy
      BY <1>1, <1>4 DEF RequestWithoutHandle, End, Busy, TypeOK
    <2>2. \E a \in {"none", "failed"} : answer' = [answer EXCEPT ![c] = a]
      BY <1>4 DEF RequestWithoutHandle, End
    <2>3. Requests!Refuse(c)
      BY <1>1, <1>2, <1>3, <2>1, <2>2 DEF Requests!Refuse
    <2> QED
      BY <2>3 DEF Requests!Next
  <1>5. CASE Choose(c) \/ Direct(c)
    <2>1. Busy' = Busy \cup {c}
      <3>1. PICK f \in {"choosing", "piped"} : flow' = [flow EXCEPT ![c] = f]
        BY <1>5 DEF Choose, Direct
      <3>2. \A x \in Clients : flow'[x] = IF x = c THEN f ELSE flow[x]
        BY <3>1 DEF TypeOK
      <3> QED
        BY <3>2 DEF Busy
    <2>2. answer' = [answer EXCEPT ![c] = "none"] /\ repeat' = repeat
      BY <1>1, <1>5 DEF Choose, Direct
    <2>3. Requests!Begin(c)
      BY <1>2, <1>3, <2>1, <2>2 DEF Requests!Begin
    <2> QED
      BY <2>3 DEF Requests!Next
  <1> QED
    BY <1>4, <1>5 DEF Request

\* Every step maps to a step of ClientRequest or to a stutter.
LEMMA RequestSimulation ==
  ASSUME TypeOK, Unanswered, [Next]_vars
  PROVE  [Requests!Next]_(Requests!vars)
  <1>1. CASE PreFinalize \/ FinalizeTimer \/ UNCHANGED vars
    BY <1>1, RequestStutter DEF PreFinalize, FinalizeTimer, vars, clientVars
  <1>2. ASSUME NEW c \in Clients,
               \/ OnServerConnection(c) \/ SocketCloses(c) \/ DownstreamAnswers(c)
               \/ DownstreamOver(c) \/ ErrorTick(c)
        PROVE  UNCHANGED Requests!vars
    BY <1>2, RequestStutter DEF OnServerConnection, SocketCloses, DownstreamAnswers,
       DownstreamOver, DownstreamEnds, DownstreamFails, DownstreamTimesOut, ErrorTick, clientVars
  <1>3. ASSUME NEW c \in Clients, Request(c) PROVE Requests!Next
    BY <1>3, RequestMaps
  <1>4. ASSUME NEW c \in Clients, TargetFound(c) PROVE UNCHANGED Requests!vars
    <2>1. /\ UNCHANGED <<selected, toProxy, repeat, answer>> /\ flow[c] = "choosing"
          /\ flow' = [flow EXCEPT ![c] = "piped"]
      BY <1>4 DEF TargetFound, clientVars
    <2>2. Busy' = Busy
      BY <2>1 DEF Busy, TypeOK
    <2>3. Repeatable' = Repeatable
      BY <2>1 DEF Repeatable, CheckRepeats
    <2> QED
      BY <2>1, <2>2, <2>3 DEF Requests!vars
  <1>5. ASSUME NEW c \in Clients, TargetRejected(c) \/ TargetUnusable(c) \/ LogFails(c)
        PROVE  Requests!Next
    <2>1. /\ \E a \in {"none", "nomatch"} : End(c, a)
          /\ flow[c] # "idle" /\ UNCHANGED <<selected, toProxy>>
      BY <1>5 DEF TargetRejected, TargetUnusable, LogFails, EndWithError, clientVars
    <2>2. {"none", "nomatch"} \subseteq Answers
      BY DEF Answers
    <2> QED
      BY <2>1, <2>2, EndFinishes
  <1>6. ASSUME NEW c \in Clients, Finished(c) PROVE [Requests!Next]_(Requests!vars)
    <2>1. CASE down[c].via = "proxy"
      <3>1. /\ UNCHANGED <<selected, toProxy, repeat, answer>> /\ flow[c] = "piped"
            /\ flow' = [flow EXCEPT ![c] = "logging"]
        BY <1>6, <2>1 DEF Finished
      <3>2. Busy' = Busy
        BY <3>1 DEF Busy, TypeOK
      <3>3. Repeatable' = Repeatable
        BY <3>1 DEF Repeatable, CheckRepeats
      <3> QED
        BY <3>1, <3>2, <3>3 DEF Requests!vars
    <2>2. CASE down[c].via # "proxy"
      BY <1>6, <2>2, AfterFinishedMaps DEF Finished
    <2> QED
      BY <2>1, <2>2
  <1>7. ASSUME NEW c \in Clients, Logged(c) PROVE [Requests!Next]_(Requests!vars)
    BY <1>7, AfterFinishedMaps DEF Logged
  <1> QED
    BY <1>1, <1>2, <1>3, <1>4, <1>5, <1>6, <1>7 DEF Next, ClientStep, Chosen

\* A restart leaves the request without an answer unless it ends it.
LEMMA AfterFinishedUnanswered ==
  ASSUME TypeOK, Unanswered, NEW c \in Clients, AfterFinished(c)
  PROVE  Unanswered'
  <1>1. \/ \E a \in Answers : End(c, a)
        \/ Choose(c)
        \/ Direct(c)
    BY DEF AfterFinished, Fallback, RequestWithoutHandle, EndWithError, Answers
  <1> QED
    BY <1>1 DEF End, Choose, Direct, Unanswered, TypeOK

\* Every step leaves a request in progress without an answer.
LEMMA UnansweredStep == TypeOK /\ Unanswered /\ [Next]_vars => Unanswered'
  <1> SUFFICES ASSUME TypeOK, Unanswered, [Next]_vars PROVE Unanswered'
    OBVIOUS
  <1>1. CASE UNCHANGED <<flow, answer>>
    BY <1>1 DEF Unanswered
  <1>2. ASSUME NEW c \in Clients, Request(c) PROVE Unanswered'
    <2>1. (\E a \in Answers : End(c, a)) \/ Choose(c) \/ Direct(c)
      BY <1>2 DEF Request, RequestWithoutHandle, Answers
    <2> QED
      BY <2>1 DEF End, Choose, Direct, Unanswered, TypeOK
  <1>3. ASSUME NEW c \in Clients, TargetRejected(c) \/ TargetUnusable(c) \/ LogFails(c)
        PROVE  Unanswered'
    BY <1>3 DEF TargetRejected, TargetUnusable, LogFails, EndWithError, End, Unanswered, TypeOK
  <1>4. ASSUME NEW c \in Clients, TargetFound(c) PROVE Unanswered'
    <2>1. UNCHANGED answer /\ flow[c] = "choosing" /\ flow' = [flow EXCEPT ![c] = "piped"]
      BY <1>4 DEF TargetFound
    <2> QED
      BY <2>1 DEF Unanswered, TypeOK
  <1>5. ASSUME NEW c \in Clients, Finished(c) PROVE Unanswered'
    <2>1. CASE down[c].via = "proxy"
      <3>1. UNCHANGED answer /\ flow[c] = "piped" /\ flow' = [flow EXCEPT ![c] = "logging"]
        BY <1>5, <2>1 DEF Finished
      <3> QED
        BY <3>1 DEF Unanswered, TypeOK
    <2>2. CASE down[c].via # "proxy"
      BY <1>5, <2>2, AfterFinishedUnanswered DEF Finished
    <2> QED
      BY <2>1, <2>2
  <1>6. ASSUME NEW c \in Clients, Logged(c) PROVE Unanswered'
    BY <1>6, AfterFinishedUnanswered DEF Logged
  <1>7. ASSUME \/ PreFinalize \/ FinalizeTimer \/ UNCHANGED vars
               \/ \E c \in Clients :
                    \/ OnServerConnection(c) \/ SocketCloses(c) \/ DownstreamAnswers(c)
                    \/ DownstreamOver(c) \/ ErrorTick(c)
        PROVE  UNCHANGED <<flow, answer>>
    BY <1>7 DEF PreFinalize, FinalizeTimer, OnServerConnection, SocketCloses, DownstreamAnswers,
       DownstreamOver, DownstreamEnds, DownstreamFails, DownstreamTimesOut, ErrorTick, vars
  <1> QED
    BY <1>1, <1>2, <1>3, <1>4, <1>5, <1>6, <1>7 DEF Next, ClientStep, Chosen

\* Every behaviour of the server is one of ClientRequest: one answer per request, a
\* common budget of repeats, and "failed" only when no repeat is left or allowed.
THEOREM ImplementsClientRequest == Spec => RequestSpec
  <1>1. Init => Requests!Init
    BY DEF Init, Requests!Init, Busy, Repeatable
  <1>2. Init => Unanswered
    BY DEF Init, Unanswered
  <1>3. TypeOK /\ Unanswered /\ [Next]_vars => [Requests!Next]_(Requests!vars)
    BY RequestSimulation
  <1> QED
    BY <1>1, <1>2, <1>3, UnansweredStep, TypeCorrect, PTL DEF Spec, RequestSpec, Requests!Spec
=============================================================================

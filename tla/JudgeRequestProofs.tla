------------------------- MODULE JudgeRequestProofs -------------------------
(***************************************************************************)
(* Theorems of JudgeRequest: the level is that of all headers, an enabled  *)
(* row was judged, nothing aborts a request that is gone, no request is    *)
(* waited for in vain, and a request lives as Judge tells it.              *)
(***************************************************************************)
EXTENDS JudgeRequest, LevelDetectionProofs

-----------------------------------------------------------------------------
(* Type correctness, and the level *)

OwnTypeOK ==
  /\ phase \in Phases
  /\ conn \in Conns
  /\ head \in {"none", "part", "ok", "bad"}
  /\ errors \subseteq ErrorKinds
  /\ finished \in BOOLEAN
  /\ aborted \in BOOLEAN
  /\ attached \in BOOLEAN
  /\ active \in BOOLEAN
  /\ cached \in BOOLEAN
  /\ judged \in 0 .. MaxJudged
  /\ result \in [error : BOOLEAN, level : {-2, -1, 1, 2, 3}]
  /\ crashed \in BOOLEAN

\* The steps at which the judge and its level detection stand still.
Elsewhere ==
  \/ Prepared \/ PrepareFails \/ OnRequest \/ StreamFails \/ RequestTimesOut
  \/ Socket \/ JudgeSocketEnds \/ Settle \/ Cleared

LEMMA StepKinds == Next => Elsewhere \/ OnJudge \/ Detect
  BY DEF Next, Elsewhere

LEMMA ElsewhereQuiet == Elsewhere => at = 0 /\ UNCHANGED <<levelVars, judged>>
  <1>1. Socket => at = 0 /\ UNCHANGED <<levelVars, judged>>
    BY DEF Socket, OnSocket, OnSocketLookup, OnSocketConnect, OnSocketData, SocketFails,
       SocketTimesOut, SocketCloses, Quiet
  <1> QED
    BY <1>1 DEF Elsewhere, Prepared, PrepareFails, OnRequest, StreamFails, RequestTimesOut,
       JudgeSocketEnds, Settle, Cleared, Quiet

\* What an error does keeps the types.
LEMMA ErrorType ==
  ASSUME OwnTypeOK, NEW kind \in ErrorKinds, OnError(kind)
  PROVE  errors' \subseteq ErrorKinds /\ finished' \in BOOLEAN /\ aborted' \in BOOLEAN
         /\ crashed' \in BOOLEAN
  BY DEF OwnTypeOK, OnError, Abort

LEMMA SocketType ==
  ASSUME OwnTypeOK, Socket
  PROVE  OwnTypeOK'
  <1>1. CASE OnSocket \/ OnSocketLookup \/ OnSocketConnect
    BY <1>1 DEF OwnTypeOK, OnSocket, OnSocketLookup, OnSocketConnect, Conns, ErrorKinds
  <1>2. CASE OnSocketData
    <2>1. CASE OnError("status") /\ head' = "bad" /\ conn' = "failed"
      BY <1>2, <2>1, ErrorType DEF OwnTypeOK, OnSocketData, Conns, ErrorKinds
    <2>2. CASE head' \in {"part", "ok"} /\ UNCHANGED <<conn, errors, finished, aborted, crashed>>
      BY <1>2, <2>2 DEF OwnTypeOK, OnSocketData
    <2> QED
      BY <1>2, <2>1, <2>2 DEF OnSocketData
  <1>3. CASE SocketFails
    BY <1>3, ErrorType DEF OwnTypeOK, SocketFails, Conns, ErrorKinds
  <1>4. CASE SocketTimesOut
    BY <1>4 DEF OwnTypeOK, SocketTimesOut, Abort, Conns
  <1>5. CASE SocketCloses
    <2>1. CASE OnError("hangup")
      BY <1>5, <2>1, ErrorType DEF OwnTypeOK, SocketCloses, OnSocketClose, Conns, ErrorKinds
    <2>2. CASE finished' = TRUE /\ UNCHANGED <<errors, aborted, crashed>>
      BY <1>5, <2>2 DEF OwnTypeOK, SocketCloses, OnSocketClose, Conns
    <2> QED
      BY <1>5, <2>1, <2>2 DEF SocketCloses, OnSocketClose
  <1> QED
    BY <1>1, <1>2, <1>3, <1>4, <1>5 DEF Socket

\* Every step keeps the types of the variables that are not the level detection's.
LEMMA OwnType ==
  ASSUME TypeOK, [Next]_vars
  PROVE  OwnTypeOK'
  <1> USE DEF Conns, Phases, ErrorKinds
  <1>1. OwnTypeOK
    BY DEF TypeOK, OwnTypeOK
  <1>2. CASE Prepared \/ PrepareFails \/ OnRequest \/ JudgeSocketEnds
    <2>1. UNCHANGED <<head, errors, finished, aborted, active, judged, result, crashed>>
      BY <1>2 DEF Prepared, PrepareFails, OnRequest, JudgeSocketEnds, connVars
    <2>2. phase' \in Phases /\ conn' \in Conns /\ attached' \in BOOLEAN /\ cached' \in BOOLEAN
      BY <1>1, <1>2 DEF OwnTypeOK, Prepared, PrepareFails, OnRequest, JudgeSocketEnds, connVars
    <2> QED
      BY <1>1, <2>1, <2>2 DEF OwnTypeOK
  <1>3. CASE StreamFails
    BY <1>1, <1>3 DEF OwnTypeOK, StreamFails
  <1>4. CASE RequestTimesOut
    BY <1>1, <1>4, ErrorType DEF OwnTypeOK, RequestTimesOut
  <1>5. CASE Socket
    BY <1>1, <1>5, SocketType
  <1>6. CASE OnJudge
    BY <1>1, <1>6, RequestAssumption DEF OwnTypeOK, OnJudge, connVars
  <1>7. CASE Detect \/ UNCHANGED vars
    <2>1. UNCHANGED <<phase, conn, head, errors, finished, aborted, attached, active, cached,
                      judged, result, crashed>>
      BY <1>7 DEF Detect, vars, connVars
    <2> QED
      BY <1>1, <2>1 DEF OwnTypeOK
  <1>8. CASE Settle
    BY <1>1, <1>8 DEF OwnTypeOK, TypeOK, LevelTypeOK, Settle, Outcome, Clear
  <1>9. CASE Cleared
    BY <1>1, <1>9 DEF OwnTypeOK, Cleared, Clear
  <1> QED
    BY <1>2, <1>3, <1>4, <1>5, <1>6, <1>7, <1>8, <1>9 DEF Next

\* Before the judge is asked there is no level.
Unjudged == judged = 0 => level = -1 /\ at = 0

ProbeInv ==
  /\ TypeOK
  /\ LevelInv
  /\ LevelRight
  /\ Unjudged

LEMMA ProbeStart == Init => ProbeInv
  <1> SUFFICES ASSUME Init PROVE ProbeInv
    OBVIOUS
  <1>1. LevelInv
    BY LevelStart DEF Init
  <1>2. TypeOK
    <2>1. judged \in 0 .. MaxJudged
      BY RequestAssumption DEF Init
    <2>2. result \in [error : BOOLEAN, level : {-2, -1, 1, 2, 3}]
      BY DEF Init, NoResult, Outcome
    <2> QED
      BY <1>1, <2>1, <2>2 DEF Init, TypeOK, LevelInv, Phases, Conns
  <1> QED
    BY <1>1, <1>2 DEF Init, LevelInit, ProbeInv, LevelRight, Unjudged

LEMMA ProbeStep ==
  ASSUME ProbeInv, [Next]_vars
  PROVE  ProbeInv' /\ level <= level'
  <1>1. LevelInv /\ level \in Int
    BY DEF ProbeInv, LevelInv, LevelTypeOK
  <1>2. CASE UNCHANGED <<levelVars, judged>>
    <2>1. LevelInv'
      BY <1>1, <1>2 DEF levelVars, LevelInv, LevelTypeOK, MarksSound, MarksComplete, FlagsSound,
         IndexMarked, Seen, Named, Has
    <2>2. UNCHANGED <<level, at, judged>> /\ LevelOfAll' = LevelOfAll
      BY <1>2 DEF levelVars, LevelOfAll, Named, Has
    <2>3. LevelRight' /\ Unjudged' /\ level <= level'
      BY <1>1, <2>2 DEF ProbeInv, LevelRight, Unjudged
    <2> QED
      BY <2>1, <2>3, OwnType DEF ProbeInv, TypeOK, OwnTypeOK, LevelInv
  <1>3. CASE OnJudge
    <2>1. PICK hs \in Batches : Receive(hs)
      BY <1>3 DEF OnJudge
    <2>2. LevelInv'
      BY <1>1, <1>3, <2>1, ReceiveKeeps, RequestAssumption DEF OnJudge, Quiet
    <2>3. at' = 1 /\ level' = level /\ judged' = judged + 1
      BY <1>3, <2>1 DEF OnJudge, Receive
    <2>4. LevelRight' /\ Unjudged' /\ level <= level'
      BY <1>1, <2>3 DEF ProbeInv, TypeOK, LevelRight, Unjudged
    <2> QED
      BY <2>2, <2>4, OwnType DEF ProbeInv, TypeOK, OwnTypeOK, LevelInv
  <1>4. CASE Detect /\ DetectHeader
    <2>1. LevelInv'
      BY <1>1, <1>4, DetectHeaderKeeps
    <2>2. at # 0 /\ at' # 0 /\ level' = level /\ judged' = judged
      BY <1>1, <1>4 DEF Detect, DetectHeader, LevelInv, LevelTypeOK
    <2>3. LevelRight' /\ Unjudged' /\ level <= level'
      BY <1>1, <2>2 DEF ProbeInv, LevelRight, Unjudged
    <2> QED
      BY <2>1, <2>3, OwnType DEF ProbeInv, TypeOK, OwnTypeOK, LevelInv
  <1>5. CASE Detect /\ DetectEnds
    <2>1. LevelInv' /\ level' = LevelOfAll' /\ level <= level'
      BY <1>1, <1>5, DetectEndsKeeps
    <2>2. at # 0 /\ judged' = judged
      BY <1>1, <1>5 DEF Detect, DetectEnds, LevelInv, LevelTypeOK
    <2>3. LevelRight' /\ Unjudged'
      BY <2>1, <2>2 DEF ProbeInv, LevelRight, Unjudged
    <2> QED
      BY <2>1, <2>3, OwnType DEF ProbeInv, TypeOK, OwnTypeOK, LevelInv
  <1>6. CASE UNCHANGED vars
    BY <1>2, <1>6 DEF vars, levelVars
  <1> QED
    BY <1>2, <1>3, <1>4, <1>5, <1>6, StepKinds, ElsewhereQuiet DEF Detect

\* The inductive part of all theorems below.
LEMMA ProbeInvariant == Spec => []ProbeInv
  BY ProbeStart, ProbeStep, PTL DEF Spec

\* Every variable has its type, for all headers and batches of them.
THEOREM TypeCorrect == Spec => []TypeOK
  <1>1. ProbeInv => TypeOK
    BY DEF ProbeInv
  <1> QED
    BY <1>1, ProbeInvariant, PTL

\* The level of LevelDetection.ts is that of all the headers received, although the
\* global expressions start some tests behind the front of a value.
THEOREM LevelIsRight == Spec => []LevelRight
  <1>1. ProbeInv => LevelRight
    BY DEF ProbeInv
  <1> QED
    BY <1>1, ProbeInvariant, PTL

\* Further calls of onJudge() never lower the level.
THEOREM LevelRises == Spec => LevelOnlyRises
  <1>1. ProbeInv /\ ProbeInv' /\ [Next]_vars => [level' >= level]_vars
    BY ProbeStep DEF ProbeInv, TypeOK, LevelTypeOK
  <1> QED
    BY <1>1, ProbeInvariant, PTL DEF Spec, LevelOnlyRises

-----------------------------------------------------------------------------
(* Errors on their way to the result *)

Watched == {"requested", "assigned", "connected"}

\* A request that is over without an error was answered with 2xx and is closed; one
\* that failed or was refused has its error, for errors are forgotten only before
\* there is an answer.
ErrorsKept ==
  /\ conn \in {"none", "requested", "assigned"} => head = "none"
  /\ conn = "failed" => errors # {}
  /\ head = "bad" => errors # {}
  /\ finished => conn \in {"closing", "failed", "closed"}
  /\ finished /\ errors = {} => conn = "closed" /\ head = "ok"

\* A result without an error was taken at such an end, after which nothing changes.
ResultKept ==
  ~result.error =>
    /\ phase = "settled" /\ finished /\ errors = {}
    /\ conn = "closed" /\ head = "ok"
    /\ result.level > -1 => judged > 0

\* One who aborts what is gone was cleared: as long as it was not, a request is there
\* when its socket is, or was aborted before.
AbortsKnown ==
  /\ crashed => phase = "lost"
  /\ phase # "lost" =>
       /\ conn = "closing" => aborted
       /\ conn \in Watched => attached
  /\ phase \in {"preparing", "broken"} => conn = "none" /\ ~finished

OutcomeInv == ErrorsKept /\ ResultKept /\ AbortsKnown

LEMMA OutcomeStart == Init => OutcomeInv
  BY DEF Init, OutcomeInv, ErrorsKept, ResultKept, AbortsKnown, NoResult, Outcome, Watched

\* The steps of performRequest() and of the judge.
LEMMA OutcomeRequest ==
  ASSUME OwnTypeOK, OutcomeInv,
         \/ Prepared \/ PrepareFails \/ OnRequest \/ StreamFails \/ RequestTimesOut
         \/ OnJudge \/ Detect \/ JudgeSocketEnds
  PROVE  OutcomeInv'
  <1> USE DEF OutcomeInv, ErrorsKept, ResultKept, AbortsKnown, Watched, connVars
  <1>1. CASE Prepared \/ PrepareFails
    BY <1>1 DEF Prepared, PrepareFails, Quiet
  <1>2. CASE OnRequest
    BY <1>2 DEF OnRequest, Quiet
  <1>3. CASE StreamFails
    BY <1>3 DEF StreamFails, Quiet
  <1>4. CASE RequestTimesOut
    BY <1>4 DEF RequestTimesOut, OnError, Abort, Quiet
  <1>5. CASE OnJudge
    <2>1. /\ UNCHANGED <<phase, conn, head, errors, finished, aborted, crashed, attached, result>>
          /\ phase = "probing"
      BY <1>5 DEF OnJudge
    <2> QED
      BY <2>1
  <1>6. CASE Detect \/ JudgeSocketEnds
    BY <1>6 DEF Detect, JudgeSocketEnds
  <1> QED
    BY <1>1, <1>2, <1>3, <1>4, <1>5, <1>6

\* The events of the socket.
LEMMA OutcomeSocket ==
  ASSUME OwnTypeOK, OutcomeInv, Socket
  PROVE  OutcomeInv'
  <1> USE DEF OutcomeInv, ErrorsKept, ResultKept, AbortsKnown, Watched, Quiet
  <1>1. CASE OnSocket
    BY <1>1 DEF OnSocket
  <1>2. CASE OnSocketLookup
    BY <1>2 DEF OnSocketLookup
  <1>3. CASE OnSocketConnect
    BY <1>3 DEF OnSocketConnect
  <1>4. CASE OnSocketData
    <2>1. CASE head' \in {"part", "ok"} /\ UNCHANGED <<conn, errors, finished, aborted, crashed>>
      BY <1>4, <2>1 DEF OnSocketData
    <2>2. CASE head' = "bad" /\ conn' = "failed" /\ OnError("status")
      <3>1. errors' # {} /\ finished' /\ aborted' /\ (crashed' => ~attached)
        BY <2>2 DEF OnError, Abort
      <3>2. conn = "connected" /\ ~crashed /\ UNCHANGED <<phase, attached, result>>
        BY <1>4 DEF OnSocketData
      <3> QED
        BY <2>2, <3>1, <3>2
    <2> QED
      BY <1>4, <2>1, <2>2 DEF OnSocketData
  <1>5. CASE SocketFails
    BY <1>5 DEF SocketFails, OnError, Abort
  <1>6. CASE SocketTimesOut
    BY <1>6 DEF SocketTimesOut, Abort
  <1>7. CASE SocketCloses
    BY <1>7 DEF SocketCloses, OnSocketClose, OnError, Abort, OwnTypeOK
  <1> QED
    BY <1>1, <1>2, <1>3, <1>4, <1>5, <1>6, <1>7 DEF Socket

\* The end of handleRequest(), and pending().
LEMMA OutcomeEnd ==
  ASSUME OwnTypeOK, OutcomeInv, Unjudged, Settle \/ Cleared
  PROVE  OutcomeInv'
  <1> USE DEF OutcomeInv, ErrorsKept, ResultKept, AbortsKnown, Watched, Quiet, Clear
  <1>1. CASE Settle
    <2>1. result'.error = (errors # {}) /\ result'.level = level
      BY <1>1 DEF Settle, Outcome
    <2>2. ResultKept'
      BY <1>1, <2>1 DEF Settle, Unjudged, OwnTypeOK
    <2>3. ErrorsKept' /\ AbortsKnown'
      BY <1>1 DEF Settle, OwnTypeOK
    <2> QED
      BY <2>2, <2>3
  <1>2. CASE Cleared
    BY <1>2 DEF Cleared, OwnTypeOK
  <1> QED
    BY <1>1, <1>2

Inv == ProbeInv /\ OutcomeInv

LEMMA Invariant == Spec => []Inv
  <1>1. Init => Inv
    BY ProbeStart, OutcomeStart DEF Inv
  <1>2. Inv /\ [Next]_vars => Inv'
    <2> SUFFICES ASSUME Inv, [Next]_vars PROVE OutcomeInv'
      BY ProbeStep DEF Inv
    <2>1. OwnTypeOK /\ OutcomeInv /\ Unjudged
      BY DEF Inv, ProbeInv, TypeOK, OwnTypeOK
    <2>2. CASE UNCHANGED vars
      BY <2>1, <2>2 DEF vars, connVars, OutcomeInv, ErrorsKept, ResultKept, AbortsKnown
    <2> QED
      BY <2>1, <2>2, OutcomeRequest, OutcomeSocket, OutcomeEnd DEF Next
  <1> QED
    BY <1>1, <1>2, PTL DEF Spec

\* Rows are enabled only by answers of status 2xx to requests the judge has seen,
\* whatever errors came before, in whatever order.
THEOREM EnabledRowsWereJudged == Spec => []EnabledWasJudged
  <1>1. Inv => EnabledWasJudged
    BY DEF Inv, ProbeInv, TypeOK, OutcomeInv, ResultKept, EnabledWasJudged, Enabled
  <1> QED
    BY <1>1, Invariant, PTL

\* No listener left behind by handleRequest() aborts a request that is gone.
THEOREM AbortsAreLive == Spec => []AbortsOnlyLive
  <1>1. Inv => AbortsOnlyLive
    BY DEF Inv, OutcomeInv, AbortsKnown, AbortsOnlyLive
  <1> QED
    BY <1>1, Invariant, PTL

ClosedFinished == conn = "closed" => finished

\* The monitor is finished with every request that is closed, so that handleRequest()
\* never waits for one to which nothing will happen any more.
THEOREM ProbesAreNeverStuck == Spec => []ProbeNeverStuck
  <1>1. Inv /\ ClosedFinished => ProbeNeverStuck
    BY DEF ClosedFinished, Inv, ProbeInv, TypeOK, ProbeNeverStuck
  <1>2. Init => ClosedFinished
    BY DEF Init, ClosedFinished
  <1>3. ClosedFinished /\ [Next]_vars => ClosedFinished'
    <2> SUFFICES ASSUME conn = "closed" => finished, [Next]_vars, conn' = "closed"
                 PROVE  finished'
      BY DEF ClosedFinished
    <2>1. CASE UNCHANGED <<conn, finished>>
      BY <2>1
    <2>2. CASE StreamFails \/ RequestTimesOut \/ SocketCloses
      BY <2>2 DEF StreamFails, RequestTimesOut, SocketCloses, OnSocketClose, OnError
    <2>3. CASE OnRequest \/ OnSocket \/ OnSocketConnect \/ SocketFails \/ SocketTimesOut
      BY <2>3 DEF OnRequest, OnSocket, OnSocketConnect, SocketFails, SocketTimesOut
    <2>4. CASE OnSocketData
      BY <2>4 DEF OnSocketData
    <2>5. CASE Settle \/ Cleared
      BY <2>5 DEF Settle, Cleared, Clear
    <2>6. CASE Prepared \/ PrepareFails \/ OnSocketLookup \/ OnJudge \/ Detect \/ JudgeSocketEnds
      BY <2>1, <2>6 DEF Prepared, PrepareFails, OnSocketLookup, OnJudge, Detect,
         JudgeSocketEnds, connVars
    <2> QED
      BY <2>1, <2>2, <2>3, <2>4, <2>5, <2>6 DEF Next, Socket, vars, connVars
  <1> QED
    BY <1>1, <1>2, <1>3, Invariant, PTL DEF Spec

\* A proxy that passes an address of this host on is found transparent, whatever the
\* headers and however often it calls, unless a comma stands behind the address: lists
\* of addresses are the one way around the expressions.
THEOREM TransparentButForLists == NoListOfAddresses => (Spec => []ListedIsTransparent)
  <1> SUFFICES ASSUME NoListOfAddresses PROVE Spec => []ListedIsTransparent
    OBVIOUS
  <1>1. ProbeInv => ListedIsTransparent
    <2> SUFFICES ASSUME ProbeInv, judged > 0, at = 0, NEW i \in 1 .. Len(recv),
                        recv[i].text["local"] # {}
                 PROVE  level = 3
      BY DEF ListedIsTransparent
    <2>1. recv[i] \in Headers
      BY DEF ProbeInv, LevelInv, LevelTypeOK
    <2>2. recv[i].text["local"] \subseteq Place
      BY <2>1, HeadersAssumption DEF Hosts
    <2>3. PICK p \in recv[i].text["local"] : p.next \in {"space", "colon", "end"}
      BY <2>1, <2>2, NoListOfAddresses DEF NoListOfAddresses, Place, Followers
    <2>4. Named("local")
      BY <2>3 DEF Named, Matches
    <2> QED
      BY <2>4 DEF ProbeInv, LevelRight, LevelOfAll
  <1> QED
    BY <1>1, ProbeInvariant, PTL

-----------------------------------------------------------------------------
(* The life of a request *)

\* A request that is being prepared, or could not be, has not been judged; one that
\* is over has left the cache.
LifeInv ==
  /\ judged > 0 => phase \notin {"preparing", "broken"}
  /\ cached => phase \notin {"settled", "lost"}

LEMMA LifeInvariant == Spec => [](Inv /\ LifeInv)
  <1>1. Init => LifeInv
    BY DEF Init, LifeInv
  <1>2. Inv /\ LifeInv /\ [Next]_vars => LifeInv'
    <2> SUFFICES ASSUME Inv, LifeInv, [Next]_vars PROVE LifeInv'
      OBVIOUS
    <2>1. CASE OnJudge
      BY <2>1 DEF OnJudge, LifeInv
    <2>2. CASE Detect \/ UNCHANGED vars
      BY <2>2 DEF Detect, vars, LifeInv
    <2>3. CASE Socket
      <3>1. UNCHANGED <<phase, judged, cached>>
        BY <2>3 DEF Socket, OnSocket, OnSocketLookup, OnSocketConnect, OnSocketData,
           SocketFails, SocketTimesOut, SocketCloses
      <3> QED
        BY <3>1 DEF LifeInv
    <2>4. CASE Elsewhere /\ ~Socket
      BY <2>4, ElsewhereQuiet DEF Elsewhere, LifeInv, Prepared, PrepareFails, OnRequest,
         StreamFails, RequestTimesOut, JudgeSocketEnds, Settle, Cleared, connVars
    <2> QED
      BY <2>1, <2>2, <2>3, <2>4, StepKinds
  <1> QED
    BY <1>1, <1>2, Invariant, PTL DEF Spec

\* One request, in one state.
LEMMA OneRequest == Life!Requests = {Request}
  BY DEF Life!Requests, Request

\* What a step of the life is in terms of this one.
LEMMA LifeBecomes ==
  ASSUME NEW state, LifeState' = state
  PROVE  Life!Becomes(Request, state)
  BY DEF Life!Becomes

LEMMA LifeStutters ==
  ASSUME LifeState' = LifeState, cached' = cached
  PROVE  UNCHANGED Life!judgeVars
  BY DEF Life!judgeVars

LEMMA LifeStep ==
  ASSUME Inv, LifeInv, [Next]_vars
  PROVE  [Life!RequestStep(Request) \/ Life!ClearCache]_(Life!judgeVars)
  <1>1. judged \in Nat /\ cached \in BOOLEAN
    BY DEF Inv, ProbeInv, TypeOK
  <1>2. CASE UNCHANGED <<phase, cached, judged, result>>
    <2>1. LifeState' = LifeState /\ cached' = cached
      BY <1>2 DEF LifeState
    <2> QED
      BY <2>1, LifeStutters
  <1>3. CASE Prepared
    <2>1. LifeState = "preparing" /\ LifeState' = "probing" /\ cached' = cached
      BY <1>1, <1>3 DEF Prepared, LifeState, LifeInv
    <2> QED
      BY <2>1, LifeBecomes DEF Life!RequestStep, Life!Prepared
  <1>4. CASE PrepareFails
    <2>1. LifeState = "preparing" /\ LifeState' = "broken" /\ cached' = cached
      BY <1>1, <1>4 DEF PrepareFails, LifeState
    <2> QED
      BY <2>1, LifeBecomes DEF Life!RequestStep, Life!PrepareFails
  <1>5. CASE OnJudge
    <2>1. phase = "probing" /\ phase' = "probing" /\ cached /\ cached' = cached /\ judged' > 0
      BY <1>1, <1>5 DEF OnJudge
    <2>2. CASE judged > 0
      BY <2>1, <2>2, LifeStutters DEF LifeState
    <2>3. CASE judged = 0
      <3>1. LifeState = "probing" /\ LifeState' = "judged"
        BY <2>1, <2>3 DEF LifeState
      <3> QED
        BY <2>1, <3>1, LifeBecomes DEF Life!RequestStep, Life!OnJudge
    <2> QED
      BY <1>1, <2>2, <2>3
  <1>6. CASE JudgeSocketEnds
    <2>1. cached /\ ~cached' /\ judged > 0 /\ LifeState' = LifeState
      BY <1>6 DEF JudgeSocketEnds, LifeState
    <2>2. phase = "probing" /\ LifeState = "judged"
      BY <2>1, <1>6 DEF Inv, ProbeInv, TypeOK, Phases, LifeInv, LifeState
    <2> QED
      BY <2>1, <2>2, OneRequest DEF Life!RequestStep, Life!JudgeSocketEnds
  <1>7. CASE Settle
    <2>1. LifeState \in {"probing", "judged"} /\ LifeState' \in {"ok", "failed"} /\ ~cached'
      BY <1>7 DEF Settle, LifeState
    <2> QED
      BY <2>1, LifeBecomes DEF Life!RequestStep, Life!RequestEnds
  <1>8. CASE Cleared
    <2>1. cached /\ ~cached'
      BY <1>8 DEF Cleared
    <2>2. CASE phase = "preparing"
      <3>1. LifeState = "preparing" /\ LifeState' = "preparing"
        BY <1>8, <2>2 DEF Cleared, LifeState
      <3> QED
        BY <2>1, <3>1, OneRequest DEF Life!ClearCache
    <2>3. CASE phase = "probing"
      <3>1. LifeState \in {"probing", "judged"} /\ LifeState' = "lost"
        BY <1>8, <2>3 DEF Cleared, LifeState
      <3> QED
        BY <2>1, <3>1, OneRequest DEF Life!ClearCache
    <2> QED
      BY <1>8, <2>2, <2>3 DEF Cleared
  <1>9. CASE OnRequest \/ StreamFails \/ RequestTimesOut \/ Socket \/ Detect \/ UNCHANGED vars
    <2>1. UNCHANGED <<phase, cached, judged, result>>
      BY <1>9 DEF OnRequest, StreamFails, RequestTimesOut, Detect, vars, Socket, OnSocket,
         OnSocketLookup, OnSocketConnect, OnSocketData, SocketFails, SocketTimesOut, SocketCloses
    <2> QED
      BY <1>2, <2>1
  <1> QED
    BY <1>3, <1>4, <1>5, <1>6, <1>7, <1>8, <1>9 DEF Next

\* Whatever the sockets do, the request takes the steps of Judge's requests only, so
\* what is proved of the judge's cache and semaphore holds of it.
THEOREM ImplementsLife == Spec => LifeSpec
  <1>1. Init => LifeState = "preparing" /\ cached = TRUE
    BY DEF Init, LifeState
  <1> QED
    BY <1>1, LifeInvariant, LifeStep, PTL DEF Spec, LifeSpec
=============================================================================

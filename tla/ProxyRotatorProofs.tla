------------------------- MODULE ProxyRotatorProofs -------------------------
(* Proofs about ProxyRotator, for every set of callers and every finite set of rows. *)
EXTENDS ProxyRotator, FiniteSetTheorems, TLAPS

-----------------------------------------------------------------------------
(* Facts about the operators of the model *)

\* A request id exists for every protocol and repeat count, and succession stays inside.
LEMMA ReqFacts ==
  /\ NoReq \notin Reqs
  /\ NoRow \notin Rows
  /\ \A d \in Dests : <<d, 0>> \in Reqs
  /\ \A r \in Reqs : r[1] \in Dests /\ Succ(r) \in Reqs
  <1>1. NoReq \notin Reqs
    BY DEF NoReq, Reqs, Dests
  <1>2. NoRow \notin Rows
    BY RotatorAssumption DEF NoRow, Dests
  <1>3. \A d \in Dests : <<d, 0>> \in Reqs
    BY RotatorAssumption DEF Reqs
  <1>4. ASSUME NEW r \in Reqs PROVE r[1] \in Dests /\ Succ(r) \in Reqs
    BY RotatorAssumption DEF Reqs, Succ
  <1> QED
    BY <1>1, <1>2, <1>3, <1>4

\* A page is a finite set of rows.
LEMMA PageFacts ==
  ASSUME NEW d, NEW offset, NEW S \in PageAt(d, offset)
  PROVE  S \subseteq Rows /\ IsFiniteSet(S) /\ Cardinality(S) \in Nat
  <1>1. S \subseteq Rows
    BY DEF PageAt, Fetchable
  <1> QED
    BY <1>1, RotatorAssumption, FS_Subset, FS_CardinalityType

\* A query leaves the offset and the size of its request id numbers.
LEMMA QueriedType ==
  ASSUME TypeOK, NEW r \in Reqs, NEW S \in SUBSET Rows, Queried(r, S)
  PROVE  page' \in [Reqs -> [offset : Nat, size : Nat]]
  <1>1. Cardinality(S) \in Nat
    BY PageFacts DEF Queried
  <1>2. page[r] \in [offset : Nat, size : Nat] /\ page \in [Reqs -> [offset : Nat, size : Nat]]
    BY DEF TypeOK
  <1>3. PageAfter(r, S) \in [offset : Nat, size : Nat]
    BY <1>1, <1>2 DEF PageAfter
  <1> QED
    BY <1>2, <1>3 DEF Queried

\* What updateList() leaves is a list again.
LEMMA UpdateListType ==
  ASSUME TypeOK, NEW poor, NEW u, UpdateList(poor, u)
  PROVE  /\ active' \subseteq Rows
         /\ entry' \in [Rows -> Entry]
         /\ since' \in [Rows -> 0 .. Reuse]
  <1>1. active' \subseteq Rows
    BY DEF TypeOK, UpdateList
  <1>2. NewEntry \in Entry /\ UsedEntry \in Entry
    BY RotatorAssumption DEF NewEntry, UsedEntry, Entry, Ages
  <1>3. ASSUME NEW e \in Entry
        PROVE  [e EXCEPT !.odd = NextOdd(e)] \in Entry
    <2>1. NextOdd(e) \in 0 .. Reuse
      <3>1. e.odd = Reuse => e.odd % Reuse = 0
        BY RotatorAssumption
      <3> QED
        BY <3>1, RotatorAssumption DEF NextOdd, Entry
    <2> QED
      BY <2>1 DEF Entry
  <1>4. entry' \in [Rows -> Entry]
    BY <1>2, <1>3 DEF TypeOK, UpdateList
  <1>5. since' \in [Rows -> 0 .. Reuse]
    BY RotatorAssumption DEF TypeOK, UpdateList, OneMore
  <1> QED
    BY <1>1, <1>4, <1>5

\* So is what the other removals leave.
LEMMA UnlistType ==
  ASSUME TypeOK, NEW K, Unlist(K)
  PROVE  /\ active' \subseteq Rows
         /\ entry' \in [Rows -> Entry]
         /\ since' \in [Rows -> 0 .. Reuse]
         /\ held' \in [Callers -> BOOLEAN]
  <1>1. NewEntry \in Entry
    BY RotatorAssumption DEF NewEntry, Entry, Ages
  <1> QED
    BY <1>1, RotatorAssumption DEF TypeOK, Unlist, HeldAfter

-----------------------------------------------------------------------------
(* Type correctness *)

\* What take() does to the types, for a request id that exists.
LEMMA TakeType ==
  ASSUME TypeOK, NEW c \in Callers, NEW r \in Reqs, Take(c, r)
  PROVE  /\ pc' \in [Callers -> PCs]
         /\ req' \in [Callers -> Reqs]
         /\ got' \in [Callers -> Rows \cup {NoRow}]
         /\ held' \in [Callers -> BOOLEAN]
         /\ listeners' \subseteq Callers
         /\ timers' \subseteq Callers
         /\ inc' \in [Reqs -> Int]
         /\ active' \subseteq Rows
         /\ entry' \in [Rows -> Entry]
         /\ since' \in [Rows -> 0 .. Reuse]
         /\ UNCHANGED <<batch, page, jobVars, blocked, filled, cleanups, down>>
  <1>1. req' \in [Callers -> Reqs]
    BY DEF Take, TypeOK
  <1>2. PICK poor \in PoorSets :
          \/ \E k \in Selectable(r[1]) :
               /\ UpdateList(poor, k)
               /\ held' = [HeldAfter(poor) EXCEPT ![c] = FALSE]
               /\ got' = [got EXCEPT ![c] = k]
               /\ pc' = [pc EXCEPT ![c] = "idle"]
               /\ UNCHANGED <<waitVars, inc>>
          \/ /\ Selectable(r[1]) = {}
             /\ UpdateList(poor, NoRow)
             /\ held' = [HeldAfter(poor) EXCEPT ![c] = FALSE]
             /\ got' = [got EXCEPT ![c] = NoRow]
             /\ Enqueue(c, r)
    BY DEF Take
  <1>3. \E u : UpdateList(poor, u)
    BY <1>2
  <1>4. active' \subseteq Rows /\ entry' \in [Rows -> Entry] /\ since' \in [Rows -> 0 .. Reuse]
    BY <1>3, UpdateListType
  <1>5. held' \in [Callers -> BOOLEAN]
    BY <1>2 DEF TypeOK, HeldAfter
  <1>6. got' \in [Callers -> Rows \cup {NoRow}]
    BY <1>2 DEF TypeOK, Selectable
  <1>7. /\ pc' \in [Callers -> PCs]
        /\ listeners' \subseteq Callers
        /\ timers' \subseteq Callers
        /\ inc' \in [Reqs -> Int]
    BY <1>2 DEF TypeOK, Enqueue, Arm, waitVars, PCs
  <1>8. UNCHANGED <<batch, page, jobVars, blocked, filled, cleanups, down>>
    BY DEF Take
  <1> QED
    BY <1>1, <1>4, <1>5, <1>6, <1>7, <1>8

\* The initial state is well typed.
LEMMA TypeInit == Init => TypeOK /\ LogShape
  <1> SUFFICES ASSUME Init PROVE TypeOK /\ LogShape
    OBVIOUS
  <1>1. NewEntry \in Entry
    BY RotatorAssumption DEF NewEntry, Entry, Ages
  <1>2. <<"http", 0>> \in Reqs
    BY ReqFacts DEF Dests
  <1> QED
    <2>1. /\ pc \in [Callers -> PCs]
          /\ req \in [Callers -> Reqs]
          /\ batch \in [Callers -> SUBSET Rows]
          /\ got \in [Callers -> Rows \cup {NoRow}]
          /\ held \in [Callers -> BOOLEAN]
          /\ calls \in [Callers -> 0 .. MaxCalls]
          /\ LogShape
      BY <1>2, RotatorAssumption DEF Init, PCs, LogShape
    <2>2. /\ inc \in [Reqs -> Int]
          /\ page \in [Reqs -> [offset : Nat, size : Nat]]
          /\ entry \in [Rows -> Entry]
          /\ since \in [Rows -> 0 .. Reuse]
      BY <1>1, RotatorAssumption DEF Init
    <2>3. /\ listeners \subseteq Callers
          /\ timers \subseteq Callers
          /\ probing \subseteq Jobs
          /\ answered \subseteq Jobs
          /\ active \subseteq Rows
          /\ blocked \subseteq {k[1] : k \in Rows}
          /\ filled \subseteq Dests
          /\ down \in BOOLEAN
      BY DEF Init
    <2>4. cleanups \in 0 .. MaxCleanups
      BY RotatorAssumption DEF Init
    <2> QED
      BY <2>1, <2>2, <2>3, <2>4 DEF TypeOK

\* Every step keeps the types.
LEMMA TypeStep == TypeOK /\ LogShape /\ [Next]_vars => (TypeOK /\ LogShape)'
  <1> SUFFICES ASSUME TypeOK, LogShape, [Next]_vars
               PROVE  TypeOK' /\ LogShape'
    OBVIOUS
  <1> USE DEF callVars, waitVars, fetchVars, jobVars, listVars
  <1>1. ASSUME NEW c \in Callers, NEW d \in Dests, Call(c, d)
        PROVE  TypeOK' /\ LogShape'
    <2>1. Take(c, <<d, 0>>) /\ <<d, 0>> \in Reqs
      BY <1>1, ReqFacts DEF Call
    <2>2. calls' \in [Callers -> 0 .. MaxCalls]
      BY <1>1, RotatorAssumption DEF Call, TypeOK
    <2>3. LogShape'
      BY <2>1 DEF Take, Enqueue, Arm, TypeOK, LogShape
    <2> HIDE DEF callVars, waitVars, fetchVars, jobVars, listVars
    <2>4. TypeOK'
      BY <2>1, <2>2, TakeType DEF TypeOK, jobVars
    <2> QED
      BY <2>3, <2>4
  <1>2. ASSUME NEW c \in Callers, Retake(c)
        PROVE  TypeOK' /\ LogShape'
    <2>1. Take(c, Succ(req[c])) /\ Succ(req[c]) \in Reqs
      BY <1>2, ReqFacts DEF Retake, TypeOK
    <2>2. calls' \in [Callers -> 0 .. MaxCalls]
      BY <1>2 DEF Retake, TypeOK
    <2>3. LogShape'
      BY <2>1 DEF Take, Enqueue, Arm, TypeOK, LogShape
    <2> HIDE DEF callVars, waitVars, fetchVars, jobVars, listVars
    <2>4. TypeOK'
      BY <2>1, <2>2, TakeType DEF TypeOK, jobVars
    <2> QED
      BY <2>3, <2>4
  <1>3. ASSUME NEW c \in Callers, TimerFires(c)
        PROVE  TypeOK' /\ LogShape'
    BY <1>3 DEF TimerFires, TypeOK, LogShape, PCs
  <1>4. ASSUME NEW c \in Callers, QueryDone(c)
        PROVE  TypeOK' /\ LogShape'
    <2>1. page' \in [Reqs -> [offset : Nat, size : Nat]]
      BY <1>4, QueriedType DEF QueryDone, TypeOK
    <2>2. batch' \in [Callers -> SUBSET Rows]
      BY <1>4 DEF QueryDone, TypeOK
    <2> QED
      BY <1>4, <2>1, <2>2 DEF QueryDone, TypeOK, LogShape, PCs
  <1>5. ASSUME NEW c \in Callers, QueryFails(c)
        PROVE  TypeOK' /\ LogShape'
    <2>1. page' \in [Reqs -> [offset : Nat, size : Nat]]
      BY <1>5, QueriedType DEF QueryFails, TypeOK
    <2>2. /\ inc' = [inc EXCEPT ![req[c]] = -1]
          /\ Arm(c)
          /\ UNCHANGED <<req, batch, got, held, calls, jobVars, listVars,
                         blocked, filled, cleanups, down>>
      BY <1>5 DEF QueryFails
    <2> QED
      BY <2>1, <2>2 DEF Arm, TypeOK, LogShape, PCs, jobVars, listVars
  <1>6. ASSUME NEW c \in Callers, SaveDone(c)
        PROVE  TypeOK' /\ LogShape'
    <2>1. IsFiniteSet(batch[c])
      BY RotatorAssumption, FS_Subset DEF TypeOK
    <2>2. IncAfterPush(Cardinality(batch[c])) \in Int
      BY <2>1, FS_CardinalityType DEF IncAfterPush
    <2>3. probing' \subseteq Jobs
      BY <1>6 DEF SaveDone, TypeOK, Jobs
    <2> QED
      BY <1>6, <2>2, <2>3 DEF SaveDone, Arm, TypeOK, LogShape, PCs
  <1>7. ASSUME NEW c \in Callers, LogStart(c)
        PROVE  TypeOK' /\ LogShape'
    BY <1>7 DEF LogStart, TypeOK, LogShape, PCs
  <1>8. ASSUME NEW c \in Callers, LogKeeps(c)
        PROVE  TypeOK' /\ LogShape'
    BY <1>8 DEF LogKeeps, Logged, TypeOK, LogShape, PCs
  <1>9. ASSUME NEW c \in Callers, LogBlocks(c)
        PROVE  TypeOK' /\ LogShape'
    <2>1. got[c] \in Rows
      BY <1>9 DEF LogBlocks, Logged, LogShape, TypeOK
    <2>2. blocked' \subseteq {k[1] : k \in Rows}
      BY <1>9, <2>1 DEF LogBlocks, TypeOK
    <2>3. /\ active' \subseteq Rows
          /\ entry' \in [Rows -> Entry]
          /\ since' \in [Rows -> 0 .. Reuse]
          /\ held' \in [Callers -> BOOLEAN]
      <3>1. CASE held[c]
        BY <1>9, <3>1, UnlistType DEF LogBlocks
      <3>2. CASE ~held[c]
        BY <1>9, <3>2 DEF LogBlocks, TypeOK
      <3> QED
        BY <3>1, <3>2
    <2> QED
      BY <1>9, <2>2, <2>3 DEF LogBlocks, Logged, TypeOK, LogShape, PCs
  <1>10. ASSUME NEW r \in Reqs \cup {NoReq}, NEW k \in Rows, ProbeSucceeds(r, k)
         PROVE  TypeOK' /\ LogShape'
    <2>1. NewEntry \in Entry
      BY RotatorAssumption DEF NewEntry, Entry, Ages
    <2>2. probing' \subseteq Jobs /\ answered' \subseteq Jobs
      BY <1>10 DEF ProbeSucceeds, Answered, TypeOK, Jobs
    <2> QED
      BY <1>10, <2>1, <2>2 DEF ProbeSucceeds, Answered, Emit, TypeOK, LogShape, PCs
  <1>11. ASSUME NEW r \in Reqs \cup {NoReq}, NEW k \in Rows, ProbeFails(r, k)
         PROVE  TypeOK' /\ LogShape'
    <2>1. probing' \subseteq Jobs /\ answered' \subseteq Jobs
      BY <1>11 DEF ProbeFails, Answered, TypeOK, Jobs
    <2> QED
      BY <1>11, <2>1 DEF ProbeFails, Answered, TypeOK, LogShape
  <1>12. ASSUME NEW r \in Reqs \cup {NoReq}, NEW k \in Rows, Settle(r, k)
         PROVE  TypeOK' /\ LogShape'
    BY <1>12 DEF Settle, IncAfterDone, TypeOK, LogShape
  <1>13. ASSUME NEW k \in Rows, Age(k)
         PROVE  TypeOK' /\ LogShape'
    <2>1. entry' \in [Rows -> Entry]
      BY <1>13 DEF Age, TypeOK, Entry, Ages
    <2> QED
      BY <1>13, <2>1 DEF Age, TypeOK, LogShape
  <1>14. ASSUME NEW d \in Dests, EnqueueAtStartup(d)
         PROVE  TypeOK' /\ LogShape'
    <2>1. probing' \subseteq Jobs
      BY <1>14, PageFacts DEF EnqueueAtStartup, TypeOK, Jobs
    <2> QED
      BY <1>14, <2>1 DEF EnqueueAtStartup, TypeOK, LogShape
  <1>15. ASSUME OnEmpty
         PROVE  TypeOK' /\ LogShape'
    <2>1. PICK poor : Unlist(poor)
      BY <1>15 DEF OnEmpty
    <2> QED
      BY <1>15, <2>1, UnlistType DEF OnEmpty, TypeOK, LogShape
  <1>16. ASSUME RemoveUnusedProxies
         PROVE  TypeOK' /\ LogShape'
    <2>1. PICK stale : Unlist(stale)
      BY <1>16 DEF RemoveUnusedProxies
    <2>2. cleanups' \in 0 .. MaxCleanups
      BY <1>16, RotatorAssumption DEF RemoveUnusedProxies, TypeOK
    <2> QED
      BY <1>16, <2>1, <2>2, UnlistType DEF RemoveUnusedProxies, TypeOK, LogShape
  <1>17. ASSUME Shutdown
         PROVE  TypeOK' /\ LogShape'
    BY <1>17 DEF Shutdown, TypeOK, LogShape
  <1>18. CASE UNCHANGED vars
    BY <1>18 DEF vars, TypeOK, LogShape
  <1> QED
    BY <1>1, <1>2, <1>3, <1>4, <1>5, <1>6, <1>7, <1>8, <1>9, <1>10, <1>11,
       <1>12, <1>13, <1>14, <1>15, <1>16, <1>17, <1>18
       DEF Next, CallerStep, JobStep

\* Type correctness: whatever the callers, the storage and the probes do, every
\* variable of the rotator keeps its range, and what is logged is an address that
\* next() returned.
THEOREM TypeCorrect == Spec => [](TypeOK /\ LogShape)
  <1>1. Init => TypeOK /\ LogShape
    BY TypeInit
  <1>2. TypeOK /\ LogShape /\ [Next]_vars => (TypeOK /\ LogShape)'
    BY TypeStep
  <1> QED
    BY <1>1, <1>2, PTL DEF Spec

-----------------------------------------------------------------------------
(* Callers, timers and listeners *)

\* Arming a caller keeps timers, listeners and waiting callers in step.
LEMMA ArmKeeps ==
  ASSUME TypeOK, WaiterArmed, NEW c \in Callers, Arm(c), UNCHANGED down
  PROVE  WaiterArmed'
  <1>1. timers' = {d \in Callers : pc'[d] = "waiting"}
    BY DEF Arm, WaiterArmed, TypeOK
  <1>2. listeners' \subseteq timers' /\ (~down => listeners' = timers')
    BY DEF Arm, WaiterArmed
  <1> QED
    BY <1>1, <1>2 DEF WaiterArmed

\* A take() of a caller that does not wait arms nobody but itself.
LEMMA TakeArms ==
  ASSUME TypeOK, WaiterArmed, NEW c \in Callers, NEW r \in Reqs,
         pc[c] \in {"idle", "woken"}, Take(c, r)
  PROVE  WaiterArmed'
  <1>1. c \notin timers
    BY DEF WaiterArmed
  <1>2. UNCHANGED down
    BY DEF Take
  <1>3. CASE /\ pc' = [pc EXCEPT ![c] = "idle"] \/ pc' = [pc EXCEPT ![c] = "fetching"]
             /\ UNCHANGED waitVars
    BY <1>1, <1>2, <1>3 DEF waitVars, WaiterArmed, TypeOK
  <1>4. CASE Arm(c)
    BY <1>2, <1>4, ArmKeeps
  <1> QED
    BY <1>3, <1>4 DEF Take, Enqueue

\* Every step keeps callers, timers and listeners in step.
LEMMA WaiterStep == TypeOK /\ WaiterArmed /\ [Next]_vars => WaiterArmed'
  <1> SUFFICES ASSUME TypeOK, WaiterArmed, [Next]_vars
               PROVE  WaiterArmed'
    OBVIOUS
  <1> USE DEF callVars, waitVars
  <1>1. ASSUME NEW c \in Callers, NEW d \in Dests, Call(c, d)
        PROVE  WaiterArmed'
    BY <1>1, ReqFacts, TakeArms DEF Call
  <1>2. ASSUME NEW c \in Callers, Retake(c)
        PROVE  WaiterArmed'
    BY <1>2, ReqFacts, TakeArms DEF Retake, TypeOK
  <1>3. ASSUME NEW c \in Callers, TimerFires(c)
        PROVE  WaiterArmed'
    BY <1>3 DEF TimerFires, TypeOK, WaiterArmed
  <1>4. ASSUME NEW c \in Callers,
               \/ QueryDone(c) \/ LogStart(c) \/ LogKeeps(c) \/ LogBlocks(c)
        PROVE  WaiterArmed'
    BY <1>4 DEF QueryDone, LogStart, LogKeeps, LogBlocks, Logged, TypeOK, WaiterArmed
  <1>5. ASSUME NEW c \in Callers, QueryFails(c) \/ SaveDone(c)
        PROVE  WaiterArmed'
    <2>1. Arm(c) /\ UNCHANGED down
      BY <1>5 DEF QueryFails, SaveDone
    <2> QED
      BY <2>1, ArmKeeps
  <1>6. ASSUME NEW r \in Reqs \cup {NoReq}, NEW k \in Rows, JobStep(r, k)
        PROVE  WaiterArmed'
    <2>1. CASE Emit(r) /\ UNCHANGED down
      <3> DEFINE woken == {c \in listeners : req[c] = r}
      <3>1. woken \subseteq timers /\ woken \subseteq listeners
        BY DEF WaiterArmed
      <3>2. timers' = {d \in Callers : pc'[d] = "waiting"}
        BY <2>1, <3>1 DEF Emit, WaiterArmed, TypeOK
      <3>3. listeners' \subseteq timers' /\ (~down => listeners' = timers')
        BY <2>1, <3>1 DEF Emit, WaiterArmed
      <3> QED
        BY <2>1, <3>2, <3>3 DEF WaiterArmed
    <2>2. CASE UNCHANGED <<pc, waitVars, down>>
      BY <2>2 DEF WaiterArmed
    <2> QED
      BY <1>6, <2>1, <2>2 DEF JobStep, ProbeSucceeds, ProbeFails, Settle, Answered
  <1>7. ASSUME \/ \E k \in Rows : Age(k)
               \/ \E d \in Dests : EnqueueAtStartup(d)
               \/ OnEmpty \/ RemoveUnusedProxies \/ Shutdown
        PROVE  WaiterArmed'
    BY <1>7 DEF Age, EnqueueAtStartup, OnEmpty, RemoveUnusedProxies, Shutdown, WaiterArmed
  <1>8. CASE UNCHANGED vars
    BY <1>8 DEF vars, WaiterArmed
  <1> QED
    BY <1>1, <1>2, <1>3, <1>4, <1>5, <1>6, <1>7, <1>8 DEF Next, CallerStep

\* No caller waits without its timer and no listener outlives its caller's wait.
THEOREM WaitersAreArmed == Spec => []WaiterArmed
  <1>1. Init => WaiterArmed
    BY DEF Init, WaiterArmed
  <1>2. TypeOK /\ WaiterArmed /\ [Next]_vars => WaiterArmed'
    BY WaiterStep
  <1> QED
    BY <1>1, <1>2, TypeCorrect, PTL DEF Spec

-----------------------------------------------------------------------------
(* The count of a request id *)

FlightInv == SingleFlight /\ OneStage /\ IncAccounts

\* The workloads of a request id can be counted.
LEMMA OutstandingFinite ==
  ASSUME NEW r
  PROVE  IsFiniteSet(Outstanding(r)) /\ Cardinality(Outstanding(r)) \in Nat
  BY RotatorAssumption, FS_Subset, FS_CardinalityType DEF Outstanding

\* A request id with a negative count is claimed by nobody and nothing of it is out.
LEMMA FreeWhenNegative ==
  ASSUME FlightInv, NEW r \in Reqs, ~(inc[r] >= 0)
  PROVE  inc[r] = -1 /\ Fetchers(r) = {} /\ Outstanding(r) = {}
  BY OutstandingFinite DEF FlightInv, IncAccounts

\* Steps that leave the fetching callers, the workloads and the counts alone.
LEMMA FlightFrame ==
  ASSUME FlightInv, UNCHANGED <<probing, answered, inc>>,
         \A r \in Reqs : Fetchers(r)' = Fetchers(r)
  PROVE  FlightInv'
  <1>1. \A r \in Reqs : Outstanding(r)' = Outstanding(r)
    BY DEF Outstanding
  <1>2. SingleFlight' /\ OneStage'
    BY <1>1 DEF FlightInv, SingleFlight, OneStage
  <1>3. IncAccounts'
    BY <1>1 DEF FlightInv, IncAccounts
  <1> QED
    BY <1>2, <1>3 DEF FlightInv

\* A take() claims at most the request id it asks for, and only when that is free.
LEMMA TakeFlight ==
  ASSUME TypeOK, FlightInv, NEW c \in Callers, NEW r \in Reqs,
         pc[c] \in {"idle", "woken"}, Take(c, r)
  PROVE  FlightInv'
  <1>1. UNCHANGED <<probing, answered>> /\ req' = [req EXCEPT ![c] = r]
    BY DEF Take, jobVars
  <1>2. CASE UNCHANGED inc /\ (pc' = [pc EXCEPT ![c] = "idle"] \/ pc' = [pc EXCEPT ![c] = "waiting"])
    <2>1. \A q \in Reqs : Fetchers(q)' = Fetchers(q)
      BY <1>1, <1>2 DEF Fetchers, TypeOK
    <2> QED
      BY <1>1, <1>2, <2>1, FlightFrame
  <1>3. CASE /\ ~(inc[r] >= 0)
             /\ inc' = [inc EXCEPT ![r] = 0]
             /\ pc' = [pc EXCEPT ![c] = "fetching"]
    <2>1. Fetchers(r) = {} /\ Outstanding(r) = {}
      BY <1>3, FreeWhenNegative
    <2>2. Fetchers(r)' = {c}
      BY <1>1, <1>3, <2>1 DEF Fetchers, TypeOK
    <2>3. \A q \in Reqs : q # r => Fetchers(q)' = Fetchers(q)
      BY <1>1, <1>3 DEF Fetchers, TypeOK
    <2>4. \A q \in Reqs : Outstanding(q)' = Outstanding(q)
      BY <1>1 DEF Outstanding
    <2>5. SingleFlight'
      BY <2>1, <2>2, <2>3, <2>4 DEF FlightInv, SingleFlight
    <2>6. OneStage'
      BY <1>1 DEF FlightInv, OneStage
    <2>7. inc'[r] = Cardinality(Outstanding(r)')
      BY <1>3, <2>1, <2>4, FS_EmptySet DEF TypeOK
    <2>8. \A q \in Reqs : q # r => inc'[q] = inc[q]
      BY <1>3 DEF TypeOK
    <2>9. IncAccounts'
      BY <2>2, <2>3, <2>4, <2>7, <2>8 DEF FlightInv, IncAccounts
    <2> QED
      BY <2>5, <2>6, <2>9 DEF FlightInv
  <1> QED
    BY <1>2, <1>3 DEF Take, Enqueue, Arm

\* The end of a fetch: its page S becomes the outstanding workloads.
LEMMA LoadFlight ==
  ASSUME TypeOK, FlightInv, NEW c \in Callers, NEW S \in SUBSET Rows,
         pc[c] \in {"fetching", "saving"}, Arm(c),
         probing' = probing \cup ({req[c]} \X S),
         inc' = [inc EXCEPT ![req[c]] = IncAfterPush(Cardinality(S))],
         UNCHANGED <<req, answered>>
  PROVE  FlightInv'
  <1> DEFINE r == req[c]
  <1>1. r \in Reqs /\ c \in Fetchers(r)
    BY DEF TypeOK, Fetchers
  <1>2. Fetchers(r) = {c} /\ Outstanding(r) = {}
    BY <1>1 DEF FlightInv, SingleFlight
  <1>3. Fetchers(r)' = {}
    BY <1>2 DEF Arm, Fetchers, TypeOK
  <1>4. \A q \in Reqs : q # r => Fetchers(q)' = Fetchers(q)
    BY DEF Arm, Fetchers, TypeOK
  <1>5. Outstanding(r)' = S
    BY <1>2 DEF Outstanding
  <1>6. \A q \in Reqs : q # r => Outstanding(q)' = Outstanding(q)
    BY DEF Outstanding
  <1>7. SingleFlight'
    BY <1>3, <1>4, <1>6 DEF FlightInv, SingleFlight
  <1>8. OneStage'
    BY <1>2 DEF FlightInv, OneStage, Outstanding
  <1>9. Cardinality(S) \in Nat /\ (Cardinality(S) = 0 <=> S = {})
    BY RotatorAssumption, FS_Subset, FS_CardinalityType, FS_EmptySet
  <1>10. inc'[r] = IF S = {} THEN -1 ELSE Cardinality(S)
    BY <1>1, <1>9 DEF IncAfterPush, TypeOK
  <1>11. \A q \in Reqs : q # r => inc'[q] = inc[q]
    BY DEF TypeOK
  <1>12. IncAccounts'
    BY <1>3, <1>4, <1>5, <1>6, <1>10, <1>11 DEF FlightInv, IncAccounts
  <1> QED
    BY <1>7, <1>8, <1>12 DEF FlightInv

\* An answered test request stays outstanding until it is settled.
LEMMA AnsweredFlight ==
  ASSUME FlightInv, NEW r \in Reqs \cup {NoReq}, NEW k \in Rows, Answered(r, k),
         \A q \in Reqs : Fetchers(q)' = Fetchers(q)
  PROVE  FlightInv'
  <1>1. \A q \in Reqs : Outstanding(q)' = Outstanding(q)
    BY DEF Answered, Outstanding
  <1>2. UNCHANGED inc
    BY DEF Answered, fetchVars
  <1>3. OneStage'
    BY DEF Answered, FlightInv, OneStage
  <1>4. SingleFlight' /\ IncAccounts'
    BY <1>1, <1>2 DEF FlightInv, SingleFlight, IncAccounts
  <1> QED
    BY <1>3, <1>4 DEF FlightInv

\* finally() takes one workload off the count, and the last one frees the id.
LEMMA SettleFlight ==
  ASSUME TypeOK, FlightInv, NEW r \in Reqs \cup {NoReq}, NEW k \in Rows, Settle(r, k)
  PROVE  FlightInv'
  <1>1. \A q \in Reqs : Fetchers(q)' = Fetchers(q)
    BY DEF Settle, Fetchers, callVars
  <1>2. \A q \in Reqs : q # r => Outstanding(q)' = Outstanding(q) /\ inc'[q] = inc[q]
    BY DEF Settle, Outstanding, TypeOK
  <1>3. OneStage'
    BY DEF Settle, FlightInv, OneStage
  <1>4. SingleFlight'
    BY <1>1 DEF Settle, Outstanding, FlightInv, SingleFlight
  <1>5. CASE r = NoReq
    BY <1>1, <1>2, <1>3, <1>4, <1>5, ReqFacts DEF FlightInv, IncAccounts
  <1>6. CASE r \in Reqs
    <2>1. k \in Outstanding(r) /\ <<r, k>> \notin probing
      BY <1>6 DEF Settle, Outstanding, FlightInv, OneStage
    <2>2. Fetchers(r) = {} /\ inc[r] = Cardinality(Outstanding(r))
      BY <1>6, <2>1 DEF FlightInv, SingleFlight, IncAccounts
    <2>3. Outstanding(r)' = Outstanding(r) \ {k}
      BY <2>1 DEF Settle, Outstanding
    <2>4. Cardinality(Outstanding(r)') = Cardinality(Outstanding(r)) - 1
      BY <2>1, <2>3, OutstandingFinite, FS_RemoveElement
    <2>5. /\ IsFiniteSet(Outstanding(r)')
          /\ Cardinality(Outstanding(r)') \in Nat
          /\ Cardinality(Outstanding(r)') = 0 <=> Outstanding(r)' = {}
      BY <2>3, OutstandingFinite, FS_RemoveElement, FS_CardinalityType, FS_EmptySet
    <2>6. inc'[r] = IncAfterDone(inc[r])
      BY <1>6, ReqFacts DEF Settle, TypeOK
    <2>7. inc'[r] = IF Outstanding(r)' = {} THEN -1 ELSE Cardinality(Outstanding(r)')
      BY <2>2, <2>4, <2>5, <2>6, OutstandingFinite DEF IncAfterDone
    <2>8. IncAccounts'
      BY <1>1, <1>2, <2>2, <2>7 DEF FlightInv, IncAccounts
    <2> QED
      BY <1>3, <1>4, <2>8 DEF FlightInv
  <1> QED
    BY <1>5, <1>6

\* Every step keeps the fetch accounting.
LEMMA FlightStep ==
  TypeOK /\ WaiterArmed /\ FlightInv /\ [Next]_vars => FlightInv'
  <1> SUFFICES ASSUME TypeOK, WaiterArmed, FlightInv, [Next]_vars
               PROVE  FlightInv'
    OBVIOUS
  <1> USE DEF callVars, fetchVars, jobVars
  <1>1. ASSUME NEW c \in Callers, NEW d \in Dests, Call(c, d)
        PROVE  FlightInv'
    BY <1>1, ReqFacts, TakeFlight DEF Call
  <1>2. ASSUME NEW c \in Callers, Retake(c)
        PROVE  FlightInv'
    BY <1>2, ReqFacts, TakeFlight DEF Retake, TypeOK
  <1>3. ASSUME NEW c \in Callers,
               \/ TimerFires(c) \/ QueryDone(c)
               \/ LogStart(c) \/ LogKeeps(c) \/ LogBlocks(c)
        PROVE  FlightInv'
    <2>1. \A q \in Reqs : Fetchers(q)' = Fetchers(q)
      BY <1>3 DEF TimerFires, QueryDone, LogStart, LogKeeps, LogBlocks, Logged,
                  Fetchers, TypeOK, WaiterArmed
    <2>2. UNCHANGED <<probing, answered, inc>>
      BY <1>3 DEF TimerFires, QueryDone, LogStart, LogKeeps, LogBlocks, Logged
    <2> QED
      BY <2>1, <2>2, FlightFrame
  <1>4. ASSUME NEW c \in Callers, QueryFails(c)
        PROVE  FlightInv'
    <2>1. IncAfterPush(Cardinality({})) = -1
      BY FS_EmptySet DEF IncAfterPush
    <2>2. probing' = probing \cup ({req[c]} \X {})
      BY <1>4 DEF QueryFails
    <2> QED
      BY <1>4, <2>1, <2>2, LoadFlight DEF QueryFails
  <1>5. ASSUME NEW c \in Callers, SaveDone(c)
        PROVE  FlightInv'
    <2>1. batch[c] \in SUBSET Rows
      BY DEF TypeOK
    <2> QED
      BY <1>5, <2>1, LoadFlight DEF SaveDone
  <1>6. ASSUME NEW r \in Reqs \cup {NoReq}, NEW k \in Rows,
               ProbeSucceeds(r, k) \/ ProbeFails(r, k)
        PROVE  FlightInv'
    <2>1. \A q \in Reqs : Fetchers(q)' = Fetchers(q)
      BY <1>6 DEF ProbeSucceeds, ProbeFails, Answered, Emit, Fetchers, TypeOK, WaiterArmed
    <2> QED
      BY <1>6, <2>1, AnsweredFlight DEF ProbeSucceeds, ProbeFails
  <1>7. ASSUME NEW r \in Reqs \cup {NoReq}, NEW k \in Rows, Settle(r, k)
        PROVE  FlightInv'
    BY <1>7, SettleFlight
  <1>8. ASSUME NEW d \in Dests, EnqueueAtStartup(d)
        PROVE  FlightInv'
    <2>1. \A q \in Reqs : Outstanding(q)' = Outstanding(q) /\ Fetchers(q)' = Fetchers(q)
      BY <1>8, ReqFacts DEF EnqueueAtStartup, Outstanding, Fetchers
    <2>2. OneStage'
      BY <1>8, ReqFacts DEF EnqueueAtStartup, FlightInv, OneStage
    <2> QED
      BY <1>8, <2>1, <2>2 DEF EnqueueAtStartup, FlightInv, SingleFlight, IncAccounts
  <1>9. ASSUME \/ \E k \in Rows : Age(k)
               \/ OnEmpty \/ RemoveUnusedProxies \/ Shutdown
               \/ UNCHANGED vars
        PROVE  FlightInv'
    <2>1. UNCHANGED <<pc, req, probing, answered, inc>>
      BY <1>9 DEF Age, OnEmpty, RemoveUnusedProxies, Shutdown, vars
    <2> QED
      BY <2>1, FlightFrame DEF Fetchers
  <1> QED
    BY <1>1, <1>2, <1>3, <1>4, <1>5, <1>6, <1>7, <1>8, <1>9
       DEF Next, CallerStep, JobStep

\* One fetch per request id at a time, and a count that is right in every state:
\* no selector is fetched twice at once and none is taken for busy for ever.
THEOREM FlightsAreCounted == Spec => [](SingleFlight /\ IncAccounts)
  <1>1. Init => FlightInv
    <2>1. ASSUME Init, NEW r \in Reqs
          PROVE  Fetchers(r) = {} /\ Outstanding(r) = {} /\ inc[r] = -1
      BY <2>1 DEF Init, Fetchers, Outstanding
    <2>2. Init => OneStage
      BY DEF Init, OneStage
    <2> QED
      BY <2>1, <2>2 DEF FlightInv, SingleFlight, IncAccounts
  <1>2. TypeOK /\ WaiterArmed /\ FlightInv /\ [Next]_vars => FlightInv'
    BY FlightStep
  <1>3. FlightInv => SingleFlight /\ IncAccounts
    BY DEF FlightInv
  <1> QED
    BY <1>1, <1>2, <1>3, TypeCorrect, WaitersAreArmed, PTL DEF Spec

\* However many callers select alike, the guard on inc lets one of them fetch, and
\* only when no workload of the last page is out.
THEOREM FetchedByOne == Spec => []SingleFlight
  BY FlightsAreCounted, PTL

-----------------------------------------------------------------------------
(* The use of a row and the takes that follow it *)

\* The list after a take() still counts the takes since each use.
LEMMA UpdateListSpacing ==
  ASSUME TypeOK, OddCountsTakes, NEW poor, NEW u, UpdateList(poor, u)
  PROVE  OddCountsTakes'
  <1> SUFFICES ASSUME NEW k \in Rows
               PROVE  IF entry'[k].odd = 0 THEN since'[k] = Reuse
                      ELSE k \in active' /\ entry'[k].used /\ since'[k] = entry'[k].odd - 1
    BY DEF OddCountsTakes
  <1>1. CASE k \notin active \ poor
    BY <1>1 DEF UpdateList, NewEntry
  <1>2. CASE k \in active \ poor /\ k = u
    BY <1>2 DEF UpdateList, UsedEntry
  <1>3. CASE k \in active \ poor /\ k # u
    <2>1. /\ k \in active'
          /\ entry'[k] = [entry[k] EXCEPT !.odd = NextOdd(entry[k])]
          /\ since'[k] = OneMore(since[k])
      BY <1>3 DEF UpdateList
    <2>2. entry[k] \in Entry /\ since[k] \in 0 .. Reuse
      BY DEF TypeOK
    <2>3. entry'[k].odd = NextOdd(entry[k]) /\ entry'[k].used = entry[k].used
      BY <2>1, <2>2 DEF Entry
    <2>4. CASE entry[k].odd = 0
      <3>1. since[k] = Reuse /\ 0 % Reuse = 0
        BY <2>4, RotatorAssumption DEF OddCountsTakes
      <3> QED
        BY <2>1, <2>3, <2>4, <3>1, RotatorAssumption DEF NextOdd, OneMore
    <2>5. CASE entry[k].odd = Reuse
      <3>1. since[k] = Reuse - 1 /\ Reuse % Reuse = 0
        BY <2>5, RotatorAssumption DEF OddCountsTakes
      <3> QED
        BY <2>1, <2>2, <2>3, <2>5, <3>1, RotatorAssumption DEF NextOdd, OneMore
    <2>6. CASE entry[k].odd \in 1 .. Reuse - 1
      <3>1. entry[k].odd % Reuse # 0
        BY <2>6, RotatorAssumption
      <3>2. entry[k].used /\ since[k] = entry[k].odd - 1
        BY <2>6 DEF OddCountsTakes
      <3> QED
        BY <2>1, <2>2, <2>3, <2>6, <3>1, <3>2, RotatorAssumption DEF NextOdd, OneMore
    <2> QED
      BY <2>2, <2>4, <2>5, <2>6, RotatorAssumption DEF Entry
  <1> QED
    BY <1>1, <1>2, <1>3

\* So does the list after a removal.
LEMMA UnlistSpacing ==
  ASSUME TypeOK, OddCountsTakes, NEW K, Unlist(K)
  PROVE  OddCountsTakes'
  BY DEF TypeOK, OddCountsTakes, Unlist, NewEntry

\* Every step keeps the counts of the takes since each use.
LEMMA SpacingStep == TypeOK /\ OddCountsTakes /\ [Next]_vars => OddCountsTakes'
  <1> SUFFICES ASSUME TypeOK, OddCountsTakes, [Next]_vars
               PROVE  OddCountsTakes'
    OBVIOUS
  <1> USE DEF listVars
  <1>1. ASSUME NEW c \in Callers, NEW r, Take(c, r)
        PROVE  OddCountsTakes'
    <2>1. PICK poor, u : UpdateList(poor, u)
      BY <1>1 DEF Take
    <2> QED
      BY <2>1, UpdateListSpacing
  <1>2. ASSUME NEW c \in Callers, LogBlocks(c)
        PROVE  OddCountsTakes'
    <2>1. CASE held[c]
      BY <1>2, <2>1, UnlistSpacing DEF LogBlocks
    <2>2. CASE ~held[c]
      BY <1>2, <2>2 DEF LogBlocks, OddCountsTakes
    <2> QED
      BY <2>1, <2>2
  <1>3. ASSUME NEW r, NEW k \in Rows, ProbeSucceeds(r, k)
        PROVE  OddCountsTakes'
    BY <1>3 DEF ProbeSucceeds, OddCountsTakes, TypeOK, NewEntry
  <1>4. ASSUME NEW k \in Rows, Age(k)
        PROVE  OddCountsTakes'
    BY <1>4 DEF Age, OddCountsTakes, TypeOK, Entry
  <1>5. ASSUME OnEmpty \/ RemoveUnusedProxies
        PROVE  OddCountsTakes'
    BY <1>5, UnlistSpacing DEF OnEmpty, RemoveUnusedProxies
  <1>6. CASE UNCHANGED listVars
    BY <1>6 DEF OddCountsTakes
  <1> QED
    BY <1>1, <1>2, <1>3, <1>4, <1>5, <1>6
       DEF Next, CallerStep, JobStep, Call, Retake, TimerFires, QueryDone, QueryFails,
           SaveDone, LogStart, LogKeeps, ProbeFails, Settle, EnqueueAtStartup,
           Shutdown, vars

\* A take() moves no caller but its own.
LEMMA TakeLocal ==
  ASSUME TypeOK, NEW e \in Callers, NEW r \in Reqs, Take(e, r), NEW c \in Callers, c # e
  PROVE  pc'[c] = pc[c]
  <1>1. \/ pc' = [pc EXCEPT ![e] = "idle"]
        \/ pc' = [pc EXCEPT ![e] = "fetching"]
        \/ pc' = [pc EXCEPT ![e] = "waiting"]
    BY DEF Take, Enqueue, Arm
  <1> QED
    BY <1>1 DEF TypeOK

\* What a take() hands out has sat out the takes that followed its last use.
LEMMA TakeSpacing ==
  ASSUME TypeOK, OddCountsTakes, NEW c \in Callers, NEW r \in Reqs, Take(c, r),
         got'[c] \in active
  PROVE  since[got'[c]] = Reuse
  <1>1. NoRow \notin active
    BY ReqFacts DEF TypeOK
  <1>2. got'[c] \in Selectable(r[1])
    BY <1>1 DEF Take, TypeOK
  <1> QED
    BY <1>2 DEF Selectable, OddCountsTakes, TypeOK

\* Whoever takes in a step is handed a row that sat out, if it is handed one.
LEMMA StepSpacing ==
  ASSUME TypeOK, OddCountsTakes, WaiterArmed, [Next]_vars,
         NEW c \in Callers, Takes(c), got'[c] \in active
  PROVE  since[got'[c]] = Reuse
  <1>1. CASE \E r \in Reqs : Take(c, r)
    BY <1>1, TakeSpacing
  <1>2. CASE ~ \E r \in Reqs : Take(c, r)
    <2>1. ASSUME NEW e \in Callers, NEW d \in Dests, Call(e, d)
          PROVE  e # c /\ ~Takes(c)
      <3>1. e # c
        BY <1>2, <2>1, ReqFacts DEF Call
      <3>2. pc'[c] = pc[c]
        BY <2>1, <3>1, ReqFacts, TakeLocal DEF Call
      <3>3. calls'[c] = calls[c]
        BY <2>1, <3>1 DEF Call, TypeOK
      <3> QED
        BY <3>1, <3>2, <3>3 DEF Takes
    <2>2. ASSUME NEW e \in Callers, Retake(e)
          PROVE  e # c /\ ~Takes(c)
      <3>1. e # c
        BY <1>2, <2>2, ReqFacts DEF Retake, TypeOK
      <3>2. pc'[c] = pc[c]
        BY <2>2, <3>1, ReqFacts, TakeLocal DEF Retake, TypeOK
      <3>3. UNCHANGED calls
        BY <2>2 DEF Retake
      <3> QED
        BY <3>1, <3>2, <3>3 DEF Takes
    <2>3. ASSUME NEW e \in Callers,
                 \/ TimerFires(e) \/ QueryDone(e) \/ QueryFails(e) \/ SaveDone(e)
                 \/ LogStart(e) \/ LogKeeps(e) \/ LogBlocks(e)
          PROVE  ~Takes(c)
      <3>1. UNCHANGED calls
        BY <2>3 DEF TimerFires, QueryDone, QueryFails, SaveDone, LogStart, LogKeeps,
                    LogBlocks, Logged, callVars
      <3>2. pc[e] # "woken"
        BY <2>3 DEF TimerFires, QueryDone, QueryFails, SaveDone, LogStart, LogKeeps,
                    LogBlocks, Logged, WaiterArmed
      <3>3. \A x \in Callers : x # e => pc'[x] = pc[x]
        BY <2>3 DEF TimerFires, QueryDone, QueryFails, SaveDone, LogStart, LogKeeps,
                    LogBlocks, Logged, Arm, TypeOK
      <3> QED
        BY <3>1, <3>2, <3>3 DEF Takes
    <2>4. ASSUME NEW r, NEW k \in Rows, JobStep(r, k)
          PROVE  ~Takes(c)
      BY <2>4 DEF JobStep, ProbeSucceeds, ProbeFails, Settle, Answered, Emit,
                  callVars, Takes, TypeOK
    <2>5. ASSUME \/ \E k \in Rows : Age(k)
                 \/ \E d \in Dests : EnqueueAtStartup(d)
                 \/ OnEmpty \/ RemoveUnusedProxies \/ Shutdown \/ UNCHANGED vars
          PROVE  ~Takes(c)
      BY <2>5 DEF Age, EnqueueAtStartup, OnEmpty, RemoveUnusedProxies, Shutdown,
                  vars, callVars, Takes
    <2> QED
      BY <2>1, <2>2, <2>3, <2>4, <2>5 DEF Next, CallerStep
  <1> QED
    BY <1>1, <1>2

\* While a row stays listed, at least Reuse other takes lie between two of its
\* uses, for any number of callers and any mix of selectors.
THEOREM RowsSitOut == Spec => ReuseSpacing
  <1>1. Init => OddCountsTakes
    BY DEF Init, OddCountsTakes, NewEntry
  <1>2. TypeOK /\ OddCountsTakes /\ [Next]_vars => OddCountsTakes'
    BY SpacingStep
  <1>3. TypeOK /\ OddCountsTakes /\ WaiterArmed /\ [Next]_vars
          => [\A c \in Callers : Takes(c) /\ got'[c] \in active => since[got'[c]] = Reuse]_vars
    BY StepSpacing
  <1> QED
    BY <1>1, <1>2, <1>3, TypeCorrect, WaitersAreArmed, PTL DEF Spec, ReuseSpacing

-----------------------------------------------------------------------------
(* The rotator implements FetchRequest *)

\* Steps that leave the workloads and the counts alone are not seen.
LEMMA FlightStutter ==
  ASSUME UNCHANGED <<probing, answered, inc>>
  PROVE  UNCHANGED Flight!vars
  BY DEF Flight!vars, Claimed, Pages, Outstanding

\* doEnqueue() claims a request id that is free, or returns.
LEMMA TakeClaims ==
  ASSUME TypeOK, FlightInv, NEW c \in Callers, NEW r \in Reqs, Take(c, r)
  PROVE  [Flight!Next]_(Flight!vars)
  <1>1. UNCHANGED <<probing, answered>>
    BY DEF Take, jobVars
  <1>2. CASE UNCHANGED inc
    BY <1>1, <1>2, FlightStutter
  <1>3. CASE ~(inc[r] >= 0) /\ inc' = [inc EXCEPT ![r] = 0]
    <2>1. r \notin Claimed /\ Claimed' = Claimed \cup {r}
      BY <1>3 DEF Claimed, TypeOK
    <2>2. UNCHANGED Pages
      BY <1>1 DEF Pages, Outstanding
    <2> QED
      BY <2>1, <2>2 DEF Flight!Next, Flight!Claim
  <1> QED
    BY <1>2, <1>3 DEF Take, Enqueue

\* The end of a fetch loads its page.
LEMMA FetchLoads ==
  ASSUME TypeOK, FlightInv, NEW c \in Callers, NEW S \in SUBSET Rows,
         pc[c] \in {"fetching", "saving"}, NEW r \in Reqs, r = req[c],
         probing' = probing \cup ({r} \X S),
         inc' = [inc EXCEPT ![r] = IncAfterPush(Cardinality(S))],
         UNCHANGED answered
  PROVE  Flight!Next
  <1>1. c \in Fetchers(r)
    BY DEF Fetchers
  <1>2. Outstanding(r) = {}
    BY <1>1 DEF FlightInv, SingleFlight
  <1>3. inc[r] = 0
    BY <1>1, <1>2, FS_EmptySet DEF FlightInv, IncAccounts
  <1>4. Cardinality(S) \in Nat /\ (Cardinality(S) = 0 <=> S = {})
    BY RotatorAssumption, FS_Subset, FS_CardinalityType, FS_EmptySet
  <1>5. /\ inc'[r] = IF S = {} THEN -1 ELSE Cardinality(S)
        /\ \A q \in Reqs : q # r => inc'[q] = inc[q]
    BY <1>1, <1>4 DEF IncAfterPush, TypeOK
  <1>6. r \in Claimed /\ Claimed' = IF S = {} THEN Claimed \ {r} ELSE Claimed
    BY <1>1, <1>3, <1>4, <1>5 DEF Claimed
  <1>7. Pages[r] = {}
    BY <1>1, <1>2 DEF Pages
  <1>8. Outstanding(r)' = S
    BY <1>2 DEF Outstanding
  <1>9. \A q \in Reqs : q # r => Outstanding(q)' = Outstanding(q)
    BY DEF Outstanding
  <1>10. Pages' = [Pages EXCEPT ![r] = S]
    BY <1>8, <1>9 DEF Pages
  <1> QED
    BY <1>1, <1>6, <1>7, <1>10 DEF Flight!Next, Flight!Load, Flight!ReleaseIfDone

\* An answer is not seen: the workload counts as out until it is settled.
LEMMA AnswerStutters ==
  ASSUME NEW r, NEW k, Answered(r, k)
  PROVE  UNCHANGED Flight!vars
  <1>1. \A q \in Reqs : Outstanding(q)' = Outstanding(q)
    BY DEF Answered, Outstanding
  <1>2. UNCHANGED inc
    BY DEF Answered, fetchVars
  <1> QED
    BY <1>1, <1>2 DEF Flight!vars, Claimed, Pages

\* A settled workload is finished, one of the startup pages is not seen.
LEMMA SettleFinishes ==
  ASSUME TypeOK, FlightInv, NEW r \in Reqs \cup {NoReq}, NEW k \in Rows, Settle(r, k)
  PROVE  [Flight!Next]_(Flight!vars)
  <1>1. \A q \in Reqs : q # r => Outstanding(q)' = Outstanding(q) /\ inc'[q] = inc[q]
    BY DEF Settle, Outstanding, TypeOK
  <1>2. CASE r = NoReq
    <2>1. UNCHANGED Claimed /\ UNCHANGED Pages
      BY <1>1, <1>2, ReqFacts DEF Claimed, Pages
    <2> QED
      BY <2>1 DEF Flight!vars
  <1>3. CASE r \in Reqs
    <2>1. k \in Outstanding(r) /\ <<r, k>> \notin probing
      BY <1>3 DEF Settle, Outstanding, FlightInv, OneStage
    <2>2. inc[r] = Cardinality(Outstanding(r))
      BY <1>3, <2>1 DEF FlightInv, IncAccounts
    <2>3. Outstanding(r)' = Outstanding(r) \ {k}
      BY <2>1 DEF Settle, Outstanding
    <2>4. /\ Cardinality(Outstanding(r) \ {k}) = Cardinality(Outstanding(r)) - 1
          /\ Cardinality(Outstanding(r) \ {k}) \in Nat
          /\ Cardinality(Outstanding(r) \ {k}) = 0 <=> Outstanding(r) \ {k} = {}
      BY <2>1, OutstandingFinite, FS_RemoveElement, FS_CardinalityType, FS_EmptySet
    <2>5. inc'[r] = IF Outstanding(r) \ {k} = {} THEN -1 ELSE inc[r] - 1
      BY <1>3, <2>2, <2>4, ReqFacts, OutstandingFinite DEF Settle, IncAfterDone, TypeOK
    <2>6. Claimed' = IF Outstanding(r) \ {k} = {} THEN Claimed \ {r} ELSE Claimed
      BY <1>1, <1>3, <2>2, <2>4, <2>5, OutstandingFinite DEF Claimed
    <2>7. Pages[r] = Outstanding(r)
      BY <1>3 DEF Pages
    <2>8. Pages' = [Pages EXCEPT ![r] = Pages[r] \ {k}]
      BY <1>1, <1>3, <2>3, <2>7 DEF Pages
    <2>9. Flight!Finish(r, k)
      BY <2>1, <2>6, <2>7, <2>8 DEF Flight!Finish, Flight!ReleaseIfDone
    <2> QED
      BY <1>3, <2>9 DEF Flight!Next
  <1> QED
    BY <1>2, <1>3

\* Every step maps to a step of FetchRequest or to a stutter.
LEMMA FlightSimulation ==
  ASSUME TypeOK, FlightInv, [Next]_vars
  PROVE  [Flight!Next]_(Flight!vars)
  <1>1. ASSUME NEW c \in Callers, NEW d \in Dests, Call(c, d)
        PROVE  [Flight!Next]_(Flight!vars)
    BY <1>1, ReqFacts, TakeClaims DEF Call
  <1>2. ASSUME NEW c \in Callers, Retake(c)
        PROVE  [Flight!Next]_(Flight!vars)
    BY <1>2, ReqFacts, TakeClaims DEF Retake, TypeOK
  <1>3. ASSUME NEW c \in Callers, QueryFails(c)
        PROVE  Flight!Next
    <2>1. IncAfterPush(Cardinality({})) = -1
      BY FS_EmptySet DEF IncAfterPush
    <2>2. probing' = probing \cup ({req[c]} \X {}) /\ UNCHANGED answered
      BY <1>3 DEF QueryFails, jobVars
    <2>3. inc' = [inc EXCEPT ![req[c]] = IncAfterPush(Cardinality({}))]
      BY <1>3, <2>1 DEF QueryFails
    <2>4. pc[c] \in {"fetching", "saving"} /\ req[c] \in Reqs
      BY <1>3 DEF QueryFails, TypeOK
    <2> QED
      BY <2>2, <2>3, <2>4, FetchLoads
  <1>4. ASSUME NEW c \in Callers, SaveDone(c)
        PROVE  Flight!Next
    <2>1. batch[c] \in SUBSET Rows /\ req[c] \in Reqs
      BY DEF TypeOK
    <2> QED
      BY <1>4, <2>1, FetchLoads DEF SaveDone
  <1>5. ASSUME NEW r \in Reqs \cup {NoReq}, NEW k \in Rows, JobStep(r, k)
        PROVE  [Flight!Next]_(Flight!vars)
    BY <1>5, AnswerStutters, SettleFinishes DEF JobStep, ProbeSucceeds, ProbeFails
  <1>6. ASSUME NEW d \in Dests, EnqueueAtStartup(d)
        PROVE  UNCHANGED Flight!vars
    <2>1. \A q \in Reqs : Outstanding(q)' = Outstanding(q)
      BY <1>6, ReqFacts DEF EnqueueAtStartup, Outstanding
    <2>2. UNCHANGED inc
      BY <1>6 DEF EnqueueAtStartup, fetchVars
    <2> QED
      BY <2>1, <2>2 DEF Flight!vars, Claimed, Pages
  <1>7. ASSUME \/ \E c \in Callers : \/ TimerFires(c) \/ QueryDone(c) \/ LogStart(c)
                                     \/ LogKeeps(c) \/ LogBlocks(c)
               \/ \E k \in Rows : Age(k)
               \/ OnEmpty \/ RemoveUnusedProxies \/ Shutdown \/ UNCHANGED vars
        PROVE  UNCHANGED Flight!vars
    <2>1. UNCHANGED <<probing, answered, inc>>
      BY <1>7 DEF TimerFires, QueryDone, LogStart, LogKeeps, LogBlocks, Logged, Age,
                  OnEmpty, RemoveUnusedProxies, Shutdown, vars, jobVars, fetchVars
    <2> QED
      BY <2>1, FlightStutter
  <1> QED
    BY <1>1, <1>2, <1>3, <1>4, <1>5, <1>6, <1>7 DEF Next, CallerStep

\* Every behaviour of the rotator is one of FetchRequest: an id is claimed once at
\* a time, its page is worked off completely, and the last workload frees it.
THEOREM ImplementsFetchRequest == Spec => FlightSpec
  <1>1. Init => Flight!Init
    BY DEF Init, Flight!Init, Claimed, Pages, Outstanding
  <1>2. Init => FlightInv
    <2>1. ASSUME Init, NEW r \in Reqs
          PROVE  Fetchers(r) = {} /\ Outstanding(r) = {} /\ inc[r] = -1
      BY <2>1 DEF Init, Fetchers, Outstanding
    <2>2. Init => OneStage
      BY DEF Init, OneStage
    <2> QED
      BY <2>1, <2>2 DEF FlightInv, SingleFlight, IncAccounts
  <1>3. TypeOK /\ WaiterArmed /\ FlightInv /\ [Next]_vars => FlightInv'
    BY FlightStep
  <1>4. TypeOK /\ FlightInv /\ [Next]_vars => [Flight!Next]_(Flight!vars)
    BY FlightSimulation
  <1> QED
    BY <1>1, <1>2, <1>3, <1>4, TypeCorrect, WaitersAreArmed, PTL
       DEF Spec, FlightSpec, Flight!Spec
=============================================================================

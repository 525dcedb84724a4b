------------------------ MODULE ProxyValidatorProofs ------------------------
(***************************************************************************)
(* Theorems of ProxyValidator: the semaphore keeps the judge's servers and *)
(* its flag together whatever the callers do, and neither it nor a waiting *)
(* task nor an awake judge is ever forgotten, but by an onEmpty() that     *)
(* cannot close its connection.  A job pushed while no onEmpty() is under  *)
(* way keeps an awake judge and is never denied by isEmpty().  When jobs   *)
(* arrive only while onEmpty() is not about to stop the judge, this is so  *)
(* for every job, and no job loses its requests or its connection.         *)
(***************************************************************************)
EXTENDS ProxyValidator, FiniteSetTheorems, TLAPS

-----------------------------------------------------------------------------
(* Type correctness *)

\* The requests keep their type through every step of a request.
LEMMA RequestType ==
  ASSUME JudgeTypeOK, NEW r \in Requests, RequestStep(r)
  PROVE  JudgeTypeOK'
  BY DEF JudgeTypeOK, RequestStep, Prepared, PrepareFails, OnJudge, JudgeSocketEnds, RequestEnds,
     Becomes, RequestStates, Settled

\* So they do through the methods of the judge's life cycle.
LEMMA LifeType ==
  ASSUME JudgeTypeOK, NEW p \in Jobs \cup Stoppers,
         Wakeup(p) \/ Started(p) \/ Disable(p) \/ Stopped(p)
  PROVE  JudgeTypeOK'
  <1>1. /\ lock' \subseteq Jobs \cup Stoppers
        /\ \A a, b \in lock' : a = b
    BY DEF JudgeTypeOK, Wakeup, Started, Disable, Stopped, Acquire, Release, Idle
  <1>2. listening' \in BOOLEAN /\ enabled' \in BOOLEAN /\ UNCHANGED <<cache, req>>
    BY DEF JudgeTypeOK, Wakeup, Started, Disable, Stopped
  <1> QED
    BY <1>1, <1>2 DEF JudgeTypeOK

\* The creation and the clearing of requests keep the types.
LEMMA CacheType ==
  ASSUME JudgeTypeOK
  PROVE  /\ \A j \in Jobs : CreateRequests(j) => JudgeTypeOK'
         /\ ClearCache /\ UNCHANGED <<enabled, listening, lock>> => JudgeTypeOK'
  <1>1. ASSUME NEW j \in Jobs, CreateRequests(j) PROVE JudgeTypeOK'
    BY <1>1 DEF JudgeTypeOK, CreateRequests, Requests, RequestStates
  <1>2. ASSUME ClearCache, UNCHANGED <<enabled, listening, lock>> PROVE JudgeTypeOK'
    BY <1>2 DEF JudgeTypeOK, ClearCache, RequestStates
  <1> QED
    BY <1>1, <1>2

QueueTypeOK ==
  /\ isEmpty \in BOOLEAN
  /\ dry \in BOOLEAN
  /\ task \in [Tasks -> {"none", "waiting", "resolved", "stranded"}]
  /\ pushes \in 0 .. MaxPushes
  /\ late \subseteq Jobs
  /\ rejected \in BOOLEAN

\* The end of a job keeps the types.
LEMMA EndType ==
  ASSUME TypeOK, NEW j \in Jobs, NEW how \in {"done", "failed"}, End(j, how)
  PROVE  job' \in [Jobs -> JobStates] /\ QueueTypeOK'
  BY DEF TypeOK, QueueTypeOK, End, JobStates, Over

\* So does the end of onEmpty() or shutdown().
LEMMA FinishType ==
  ASSUME TypeOK, NEW s \in Stoppers, Finish(s)
  PROVE  /\ stop' \in [Stoppers -> {"idle", "over"} \cup StopPhases]
         /\ isEmpty' \in BOOLEAN
         /\ task' \in [Tasks -> {"none", "waiting", "resolved", "stranded"}]
         /\ rejected' \in BOOLEAN
  BY DEF TypeOK, Finish

\* And so does pending() until it asks for the semaphore.
LEMMA PendType ==
  ASSUME TypeOK, NEW s \in Stoppers, Pend(s)
  PROVE  /\ JudgeTypeOK'
         /\ stop' \in [Stoppers -> {"idle", "over"} \cup StopPhases]
         /\ isEmpty' \in BOOLEAN
         /\ task' \in [Tasks -> {"none", "waiting", "resolved", "stranded"}]
         /\ rejected' \in BOOLEAN
  <1>1. CASE enabled
    <2>1. /\ ClearCache /\ UNCHANGED <<enabled, listening, lock, isEmpty, task, rejected>>
          /\ stop' = [stop EXCEPT ![s] = "acquiring"]
      BY <1>1 DEF Pend
    <2> QED
      BY <2>1, CacheType DEF TypeOK, StopPhases
  <1>2. CASE ~enabled
    <2>1. Finish(s) /\ UNCHANGED judgeVars
      BY <1>2 DEF Pend
    <2> QED
      BY <2>1, FinishType DEF TypeOK, JudgeTypeOK, judgeVars
  <1> QED
    BY <1>1, <1>2

\* Steps of a job on its way to the judge.
LEMMA WakeType ==
  ASSUME TypeOK, NEW j \in Jobs, WakeStep(j)
  PROVE  TypeOK'
  <1>1. CASE Begin(j) \/ Progressed(j) \/ FindsEnabled(j) \/ FindsDisabled(j)
    <2>1. job' \in [Jobs -> JobStates] /\ UNCHANGED <<judgeVars, stop, connected, queueVars>>
      BY <1>1 DEF Begin, Progressed, FindsEnabled, FindsDisabled, At, TypeOK, JobStates, Running,
         Served
    <2> QED
      BY <2>1 DEF TypeOK, JudgeTypeOK, judgeVars, queueVars
  <1>2. CASE WakeupAcquires(j) \/ WakeupEnds(j)
    <2>1. /\ Wakeup(j) \/ Started(j)
          /\ UNCHANGED <<stop, connected, queueVars>>
          /\ job' \in [Jobs -> JobStates]
      BY <1>2 DEF WakeupAcquires, WakeupEnds, At, TypeOK, JobStates, Running, Served
    <2> QED
      BY <2>1, LifeType DEF TypeOK, queueVars
  <1>3. CASE Connected(j)
    <2>1. /\ job' \in [Jobs -> JobStates] /\ connected' \in BOOLEAN
          /\ UNCHANGED <<judgeVars, stop, queueVars>>
      BY <1>3 DEF Connected, At, TypeOK, JobStates, Running, Served
    <2> QED
      BY <2>1 DEF TypeOK, JudgeTypeOK, judgeVars, queueVars
  <1>4. CASE ConnectFails(j)
    BY <1>4, EndType DEF ConnectFails, TypeOK, QueueTypeOK, JudgeTypeOK, judgeVars
  <1> QED
    BY <1>1, <1>2, <1>3, <1>4 DEF WakeStep

\* Steps of a job the judge serves.
LEMMA ValidateType ==
  ASSUME TypeOK, NEW j \in Jobs, ValidateStep(j)
  PROVE  TypeOK'
  <1>1. CASE LookedUp(j)
    <2>1. CreateRequests(j) /\ job' \in [Jobs -> JobStates] /\ UNCHANGED <<stop, connected, queueVars>>
      BY <1>1 DEF LookedUp, At, TypeOK, JobStates, Running, Served
    <2> QED
      BY <2>1, CacheType DEF TypeOK, queueVars
  <1>2. CASE /\ \E how \in {"done", "failed"} : End(j, how)
             /\ UNCHANGED <<judgeVars, stop, connected>>
    BY <1>2, EndType DEF TypeOK, QueueTypeOK, JudgeTypeOK, judgeVars
  <1>3. CASE At(j, "probing", "storing") /\ UNCHANGED <<judgeVars, stop, connected, queueVars>>
    <2>1. job' \in [Jobs -> JobStates]
      BY <1>3 DEF At, TypeOK, JobStates, Running, Served
    <2> QED
      BY <1>3, <2>1 DEF TypeOK, JudgeTypeOK, judgeVars, queueVars
  <1>4. ASSUME LookupFails(j) \/ Validated(j) \/ StoreEnds(j)
        PROVE  \/ /\ \E how \in {"done", "failed"} : End(j, how)
                  /\ UNCHANGED <<judgeVars, stop, connected>>
               \/ At(j, "probing", "storing") /\ UNCHANGED <<judgeVars, stop, connected, queueVars>>
    BY <1>4 DEF LookupFails, Validated, StoreEnds
  <1> QED
    BY <1>1, <1>2, <1>3, <1>4 DEF ValidateStep

\* Every step keeps the types.
LEMMA TypeStep == TypeOK /\ [Next]_vars => TypeOK'
  <1> SUFFICES ASSUME TypeOK, [Next]_vars PROVE TypeOK'
    OBVIOUS
  <1>1. ASSUME NEW j \in Jobs, Push(j) PROVE TypeOK'
    <2>1. pushes' \in 0 .. MaxPushes /\ UNCHANGED <<judgeVars, stop, connected, task>>
      BY <1>1, ValidatorAssumption DEF Push, TypeOK
    <2>3. late' \subseteq Jobs /\ rejected' \in BOOLEAN
      BY <1>1 DEF Push, TypeOK
    <2>2. job' \in [Jobs -> JobStates] /\ isEmpty' \in BOOLEAN /\ dry' \in BOOLEAN
      BY <1>1 DEF Push, TypeOK, JobStates
    <2> QED
      BY <2>1, <2>2, <2>3 DEF TypeOK, JudgeTypeOK, judgeVars
  <1>2. ASSUME NEW r \in Requests, Probe(r) PROVE TypeOK'
    <2>1. JudgeTypeOK' /\ UNCHANGED <<job, stop, connected, queueVars>>
      BY <1>2, RequestType DEF Probe, TypeOK
    <2> QED
      BY <2>1 DEF TypeOK, queueVars
  <1>3. ASSUME NEW s \in Stoppers, OnEmpty(s) PROVE TypeOK'
    <2>1. dry' \in BOOLEAN /\ UNCHANGED <<job, connected, pushes, late>>
      BY <1>3 DEF OnEmpty
    <2>2. CASE connected
      <3>1. stop' \in [Stoppers -> {"idle", "over"} \cup StopPhases]
            /\ UNCHANGED <<judgeVars, isEmpty, task, rejected>>
        BY <1>3, <2>2 DEF OnEmpty, TypeOK, StopPhases
      <3> QED
        BY <2>1, <3>1 DEF TypeOK, JudgeTypeOK, judgeVars
    <2>3. CASE ~connected
      BY <1>3, <2>1, <2>3, PendType DEF OnEmpty, TypeOK
    <2> QED
      BY <2>2, <2>3
  <1>4. ASSUME NEW s \in Stoppers, Closed(s) PROVE TypeOK'
    BY <1>4, PendType DEF Closed, TypeOK
  <1>5. ASSUME NEW s \in Stoppers, Shutdown(s) PROVE TypeOK'
    BY <1>5, PendType DEF Shutdown, TypeOK
  <1>6. ASSUME NEW s \in Stoppers, PendingAcquires(s) PROVE TypeOK'
    <2>1. /\ Disable(s) /\ UNCHANGED <<job, connected, queueVars>>
          /\ stop' \in [Stoppers -> {"idle", "over"} \cup StopPhases]
      BY <1>6 DEF PendingAcquires, TypeOK, StopPhases
    <2> QED
      BY <2>1, LifeType DEF TypeOK, queueVars
  <1>7. ASSUME NEW s \in Stoppers, PendingEnds(s) PROVE TypeOK'
    <2>1. Stopped(s) /\ Finish(s) /\ UNCHANGED <<job, connected, dry, pushes, late>>
      BY <1>7 DEF PendingEnds
    <2> QED
      BY <2>1, LifeType, FinishType DEF TypeOK
  <1>8. ASSUME NEW t \in Tasks, AskEmpty(t) PROVE TypeOK'
    BY <1>8 DEF AskEmpty, TypeOK, JudgeTypeOK, judgeVars
  <1>9. ASSUME NEW s \in Stoppers, CloseFails(s) PROVE TypeOK'
    <2>1. /\ stop' \in [Stoppers -> {"idle", "over"} \cup StopPhases] /\ rejected' \in BOOLEAN
          /\ UNCHANGED <<judgeVars, job, connected, isEmpty, dry, task, pushes, late>>
      BY <1>9 DEF CloseFails, TypeOK
    <2> QED
      BY <2>1 DEF TypeOK, JudgeTypeOK, judgeVars
  <1>10. CASE UNCHANGED vars
    BY <1>10 DEF vars, judgeVars, queueVars, TypeOK, JudgeTypeOK
  <1> QED
    BY <1>1, <1>2, <1>3, <1>4, <1>5, <1>6, <1>7, <1>8, <1>9, <1>10, WakeType, ValidateType
       DEF Next, EmptyStep, StopStep, Stoppers

\* Every variable keeps its type.
THEOREM TypeCorrect == Spec => []TypeOK
  <1>1. Init => TypeOK
    <2>1. Init => JudgeTypeOK
      BY DEF Init, JudgeInit, JudgeTypeOK, RequestStates
    <2>2. Init => pushes \in 0 .. MaxPushes
      BY ValidatorAssumption DEF Init
    <2> QED
      BY <2>1, <2>2 DEF Init, TypeOK, JobStates, Over
  <1> QED
    BY <1>1, TypeStep, PTL DEF Spec

-----------------------------------------------------------------------------
(* The semaphore *)

\* The holder of the semaphore has set the flag, and without a holder the servers
\* follow it.
LockInv ==
  /\ \A j \in Jobs : j \in lock => enabled
  /\ \A s \in Stoppers : s \in lock => ~enabled
  /\ ServersFollowFlag

\* A step that is no start and no stop leaves the three alone.
Untouched == UNCHANGED <<enabled, listening, lock>>

\* Which steps are starts and stops.
LEMMA LifeSteps ==
  ASSUME [Next]_vars
  PROVE  \/ Untouched
         \/ \E j \in Jobs : Wakeup(j) \/ Started(j)
         \/ \E s \in Stoppers : Disable(s) \/ Stopped(s)
  <1>1. ASSUME NEW j \in Jobs, Push(j) \/ WakeStep(j) \/ ValidateStep(j)
        PROVE  Untouched \/ Wakeup(j) \/ Started(j)
    BY <1>1 DEF Push, WakeStep, Begin, Progressed, FindsEnabled, FindsDisabled, WakeupAcquires,
       WakeupEnds, Connected, ConnectFails, ValidateStep, LookedUp, CreateRequests, LookupFails,
       Validated, StoreEnds, Untouched, judgeVars
  <1>2. ASSUME NEW r \in Requests, Probe(r) PROVE Untouched
    BY <1>2 DEF Probe, RequestStep, Prepared, PrepareFails, OnJudge, JudgeSocketEnds, RequestEnds,
       Becomes, Untouched
  <1>3. ASSUME NEW s \in Stoppers, EmptyStep(s) \/ Shutdown(s) PROVE Untouched
    BY <1>3 DEF EmptyStep, OnEmpty, Closed, CloseFails, Shutdown, Pend, Untouched, judgeVars
  <1>4. ASSUME NEW s \in Stoppers, StopStep(s) PROVE Disable(s) \/ Stopped(s)
    BY <1>4 DEF StopStep, PendingAcquires, PendingEnds
  <1>5. ASSUME NEW t \in Tasks, AskEmpty(t) PROVE Untouched
    BY <1>5 DEF AskEmpty, Untouched, judgeVars
  <1> QED
    BY <1>1, <1>2, <1>3, <1>4, <1>5 DEF Next, vars, judgeVars, Untouched, Stoppers

\* Every step preserves the invariant of the semaphore.
LEMMA LockStep == TypeOK /\ LockInv /\ [Next]_vars => LockInv'
  <1> SUFFICES ASSUME TypeOK, LockInv, [Next]_vars PROVE LockInv'
    OBVIOUS
  <1>1. CASE Untouched
    BY <1>1 DEF Untouched, LockInv, ServersFollowFlag, Idle
  <1>2. ASSUME NEW j \in Jobs, Wakeup(j) PROVE LockInv'
    BY <1>2, ValidatorAssumption DEF Wakeup, Acquire, LockInv, ServersFollowFlag, Idle
  <1>3. ASSUME NEW j \in Jobs, Started(j) PROVE LockInv'
    <2>1. lock' = {} /\ enabled' /\ ("servers" \notin Faults => listening')
      BY <1>3 DEF Started, Release, LockInv, TypeOK, JudgeTypeOK
    <2> QED
      BY <2>1 DEF LockInv, ServersFollowFlag
  <1>4. ASSUME NEW s \in Stoppers, Disable(s) PROVE LockInv'
    BY <1>4, ValidatorAssumption DEF Disable, Acquire, LockInv, ServersFollowFlag, Idle
  <1>5. ASSUME NEW s \in Stoppers, Stopped(s) PROVE LockInv'
    <2>1. lock' = {} /\ ~enabled' /\ ("servers" \notin Faults => ~listening')
      BY <1>5 DEF Stopped, Release, LockInv, TypeOK, JudgeTypeOK
    <2> QED
      BY <2>1 DEF LockInv, ServersFollowFlag
  <1> QED
    BY <1>1, <1>2, <1>3, <1>4, <1>5, LifeSteps

\* However many jobs and calls of onEmpty() and shutdown() race for the judge, when
\* none of them holds the semaphore the servers listen exactly if the flag says so.
THEOREM ServersAgree == Spec => []ServersFollowFlag
  <1>1. Init => LockInv
    BY DEF Init, JudgeInit, LockInv, ServersFollowFlag
  <1>2. LockInv => ServersFollowFlag
    BY DEF LockInv
  <1> QED
    BY <1>1, <1>2, TypeCorrect, LockStep, PTL DEF Spec

-----------------------------------------------------------------------------
(* Who holds the semaphore *)

Starting == {j \in Jobs : job[j] = "starting"}
Falling == {s \in Stoppers : stop[s] = "stopping"}

\* A job that moves between other awaits leaves the semaphore alone.
LEMMA JobHolds ==
  ASSUME TypeOK, HolderActs, NEW j \in Jobs, Push(j) \/ WakeStep(j) \/ ValidateStep(j)
  PROVE  HolderActs'
  <1>1. Falling' = Falling
    BY DEF Push, WakeStep, Begin, Progressed, FindsEnabled, FindsDisabled, WakeupAcquires,
       WakeupEnds, Connected, ConnectFails, ValidateStep, LookedUp, LookupFails, Validated,
       StoreEnds, Falling
  <1>2. CASE WakeupAcquires(j)
    <2>1. lock = {} /\ lock' = {j} /\ job' = [job EXCEPT ![j] = "starting"]
      BY <1>2 DEF WakeupAcquires, Wakeup, Acquire, Idle, At
    <2>2. Starting = {} /\ Falling = {}
      BY <2>1 DEF HolderActs, Starting, Falling
    <2>3. Starting' = {j}
      BY <2>1, <2>2 DEF Starting, TypeOK
    <2> QED
      BY <1>1, <2>1, <2>2, <2>3 DEF HolderActs, Starting, Falling
  <1>3. CASE WakeupEnds(j)
    <2>1. lock' = lock \ {j} /\ job' = [job EXCEPT ![j] = "connecting"]
      BY <1>3 DEF WakeupEnds, Started, Release, At
    <2>2. Starting' = Starting \ {j}
      BY <2>1 DEF Starting, TypeOK
    <2>3. j \notin Falling /\ lock = Starting \cup Falling
      BY ValidatorAssumption DEF Falling, HolderActs, Starting
    <2>4. lock' = Starting' \cup Falling'
      BY <1>1, <2>1, <2>2, <2>3
    <2> QED
      BY <2>4 DEF HolderActs, Starting, Falling
  <1>4. ASSUME ~WakeupAcquires(j), ~WakeupEnds(j) PROVE HolderActs'
    <2>1. UNCHANGED lock
      BY <1>4 DEF Push, WakeStep, Begin, Progressed, FindsEnabled, FindsDisabled, Connected,
         ConnectFails, ValidateStep, LookedUp, CreateRequests, LookupFails, Validated, StoreEnds,
         judgeVars
    <2>2. PICK to : job[j] # "starting" /\ to # "starting" /\ job' = [job EXCEPT ![j] = to]
      <3>1. \E to \in JobStates \ {"starting"} :
              job[j] # "starting" /\ job' = [job EXCEPT ![j] = to]
        BY <1>4 DEF Push, WakeStep, Begin, Progressed, FindsEnabled, FindsDisabled, Connected,
           ConnectFails, ValidateStep, LookedUp, LookupFails, Validated, StoreEnds, At, End,
           Active, JobStates, Over, Running, Served
      <3> QED
        BY <3>1
    <2>3. Starting' = Starting
      BY <2>2 DEF Starting, TypeOK
    <2> QED
      BY <1>1, <2>1, <2>3 DEF HolderActs, Starting, Falling
  <1> QED
    BY <1>2, <1>3, <1>4

\* So does a call of onEmpty() or shutdown() up to its turn.
LEMMA PendHolds ==
  ASSUME TypeOK, HolderActs, NEW s \in Stoppers, EmptyStep(s) \/ Shutdown(s)
  PROVE  HolderActs'
  <1>1. UNCHANGED <<job, lock>>
    BY DEF EmptyStep, OnEmpty, Closed, CloseFails, Shutdown, Pend, judgeVars
  <1>2. \E to \in {"idle", "over", "closing", "acquiring"} :
          stop[s] # "stopping" /\ stop' = [stop EXCEPT ![s] = to]
    BY DEF EmptyStep, OnEmpty, Closed, CloseFails, Shutdown, Pend, Finish
  <1>3. Falling' = Falling
    BY <1>2 DEF Falling, TypeOK
  <1> QED
    BY <1>1, <1>3 DEF HolderActs, Falling

\* Every step keeps the semaphore with whoever acts.
LEMMA HolderStep == TypeOK /\ HolderActs /\ [Next]_vars => HolderActs'
  <1> SUFFICES ASSUME TypeOK, HolderActs, [Next]_vars PROVE HolderActs'
    OBVIOUS
  <1>1. CASE UNCHANGED <<lock, job, stop>>
    BY <1>1 DEF HolderActs
  <1>2. ASSUME NEW s \in Stoppers, PendingAcquires(s) PROVE HolderActs'
    <2>1. /\ lock = {} /\ lock' = {s} /\ stop' = [stop EXCEPT ![s] = "stopping"] /\ UNCHANGED job
      BY <1>2 DEF PendingAcquires, Disable, Acquire, Idle
    <2>2. Starting = {} /\ Falling = {}
      BY <2>1 DEF HolderActs, Starting, Falling
    <2>3. Falling' = {s}
      BY <2>1, <2>2 DEF Falling, TypeOK
    <2>4. Starting' = {}
      BY <2>1, <2>2 DEF Starting
    <2> QED
      BY <2>1, <2>3, <2>4 DEF HolderActs, Starting, Falling
  <1>3. ASSUME NEW s \in Stoppers, PendingEnds(s) PROVE HolderActs'
    <2>1. /\ lock' = lock \ {s} /\ UNCHANGED job
          /\ \E to \in {"idle", "over"} : stop' = [stop EXCEPT ![s] = to]
      BY <1>3 DEF PendingEnds, Stopped, Release, Finish
    <2>2. Falling' = Falling \ {s}
      BY <2>1 DEF Falling, TypeOK
    <2>3. s \notin Starting /\ lock = Starting \cup Falling /\ Starting' = Starting
      BY <2>1, ValidatorAssumption DEF Falling, HolderActs, Starting
    <2>4. lock' = Starting' \cup Falling'
      BY <2>1, <2>2, <2>3
    <2> QED
      BY <2>4 DEF HolderActs, Starting, Falling
  <1>4. ASSUME (\E r \in Requests : Probe(r)) \/ (\E t \in Tasks : AskEmpty(t)) \/ UNCHANGED vars
        PROVE  UNCHANGED <<lock, job, stop>>
    BY <1>4 DEF Probe, RequestStep, Prepared, PrepareFails, OnJudge, JudgeSocketEnds, RequestEnds,
       Becomes, AskEmpty, vars, judgeVars
  <1> QED
    BY <1>1, <1>2, <1>3, <1>4, JobHolds, PendHolds DEF Next, StopStep, Stoppers

\* Mutual exclusion, and more: the semaphore is never left behind.  It is held by the
\* one job that starts the servers or the one call that stops them, and by nobody else,
\* so that every release is due while somebody waits.
THEOREM SemaphoreHeld == Spec => []HolderActs
  <1>1. Init => HolderActs
    BY DEF Init, JudgeInit, HolderActs
  <1> QED
    BY <1>1, HolderStep, TypeCorrect, PTL DEF Spec

-----------------------------------------------------------------------------
(* Those who wait for the validator to be empty *)

\* There is something left to happen at whose end isEmpty() resolves, or the last
\* onEmpty() could not close the connection.
Pending == ~NoJob \/ dry \/ (\E e \in Empties : stop[e] \in StopPhases) \/ rejected

WakeInv ==
  /\ ~isEmpty => Pending
  /\ \A t \in Tasks : task[t] = "waiting" => ~isEmpty

\* A job that is left, or whose end makes onEmpty() due.
LEMMA JobWakes ==
  ASSUME TypeOK, WakeInv, NEW j \in Jobs, Push(j) \/ WakeStep(j) \/ ValidateStep(j)
  PROVE  WakeInv'
  <1>1. UNCHANGED task /\ (isEmpty' = isEmpty \/ ~isEmpty')
    BY DEF Push, WakeStep, Begin, Progressed, FindsEnabled, FindsDisabled, WakeupAcquires,
       WakeupEnds, Connected, ConnectFails, ValidateStep, LookedUp, LookupFails, Validated,
       StoreEnds, End, queueVars
  <1>2. Pending'
    <2>1. ASSUME NEW how \in {"done", "failed"}, End(j, how) PROVE Pending'
      <3>1. \A k \in Jobs \ {j} : job'[k] = job[k]
        BY <2>1 DEF End, TypeOK
      <3>2. dry' \/ \E k \in Jobs \ {j} : Active(k)
        BY <2>1 DEF End
      <3>3. CASE \E k \in Jobs \ {j} : Active(k)
        <4>1. PICK k \in Jobs \ {j} : Active(k)
          BY <3>3
        <4>2. job'[k] \notin Over
          BY <3>1, <4>1 DEF Active
        <4> QED
          BY <4>2 DEF Pending, NoJob, Active
      <3> QED
        BY <3>2, <3>3 DEF Pending
    <2>2. ASSUME NEW to \in {"queued"} \cup Running, job' = [job EXCEPT ![j] = to] PROVE Pending'
      <3>1. job'[j] \notin Over
        BY <2>2 DEF TypeOK, Over, Running, Served
      <3> QED
        BY <3>1 DEF Pending, NoJob, Active
    <2>3. \/ \E how \in {"done", "failed"} : End(j, how)
          \/ \E to \in {"queued"} \cup Running : job' = [job EXCEPT ![j] = to]
      BY DEF Push, WakeStep, Begin, Progressed, FindsEnabled, FindsDisabled, WakeupAcquires,
         WakeupEnds, Connected, ConnectFails, ValidateStep, LookedUp, LookupFails, Validated,
         StoreEnds, At, Running, Served
    <2> QED
      BY <2>1, <2>2, <2>3
  <1>3. CASE isEmpty' = isEmpty
    BY <1>1, <1>2, <1>3 DEF WakeInv
  <1>4. CASE ~isEmpty'
    BY <1>2, <1>4 DEF WakeInv
  <1> QED
    BY <1>1, <1>3, <1>4

\* onEmpty() ends, and wakes those who wait, or is under way; shutdown() wakes nobody.
LEMMA StopWakes ==
  ASSUME TypeOK, WakeInv, NEW s \in Stoppers,
         (s \in Empties /\ EmptyStep(s)) \/ (s \in Shutdowns /\ Shutdown(s)) \/ StopStep(s)
  PROVE  WakeInv'
  <1>1. UNCHANGED job /\ (dry' = dry \/ s \in Empties)
    BY DEF EmptyStep, OnEmpty, Closed, CloseFails, Shutdown, StopStep, PendingAcquires, PendingEnds, queueVars
  <1>2. ASSUME Finish(s), s \in Empties PROVE WakeInv'
    <2>1. isEmpty' /\ \A t \in Tasks : task'[t] # "waiting"
      BY <1>2 DEF Finish, TypeOK
    <2> QED
      BY <2>1 DEF WakeInv
  <1>3. ASSUME Finish(s), s \notin Empties PROVE WakeInv'
    <2>1. isEmpty' = isEmpty /\ \A t \in Tasks : task'[t] # "waiting"
      BY <1>3 DEF Finish, TypeOK
    <2>2. UNCHANGED <<job, dry>> /\ (rejected => rejected') /\ \A e \in Empties : stop'[e] = stop[e]
      BY <1>1, <1>3 DEF Finish, TypeOK, Stoppers
    <2> QED
      BY <2>1, <2>2 DEF WakeInv, Pending, NoJob, Active
  <1>4. ASSUME NEW to \in StopPhases, stop' = [stop EXCEPT ![s] = to],
               UNCHANGED <<isEmpty, task, rejected>>
        PROVE  WakeInv'
    <2>1. \A e \in Stoppers : stop'[e] = IF e = s THEN to ELSE stop[e]
      BY <1>4 DEF TypeOK
    <2>2. Pending => Pending'
      BY <1>1, <1>4, <2>1 DEF Pending, NoJob, Active, Stoppers
    <2> QED
      BY <1>4, <2>2 DEF WakeInv
  <1>5. CASE CloseFails(s)
    <2>1. rejected' /\ UNCHANGED <<isEmpty, task>>
      BY <1>5 DEF CloseFails
    <2> QED
      BY <2>1 DEF WakeInv, Pending
  <1>6. ASSUME ~CloseFails(s)
        PROVE  \/ Finish(s)
               \/ /\ UNCHANGED <<isEmpty, task, rejected>>
                  /\ \E to \in StopPhases : stop' = [stop EXCEPT ![s] = to]
    BY <1>6 DEF EmptyStep, OnEmpty, Closed, Shutdown, StopStep, PendingAcquires, PendingEnds, Pend,
       StopPhases, queueVars
  <1> QED
    BY <1>2, <1>3, <1>4, <1>5, <1>6

\* Every step keeps something to wake those who wait.
LEMMA WakeStepInv == TypeOK /\ WakeInv /\ [Next]_vars => WakeInv'
  <1> SUFFICES ASSUME TypeOK, WakeInv, [Next]_vars PROVE WakeInv'
    OBVIOUS
  <1>1. CASE UNCHANGED <<job, stop, isEmpty, dry, task, rejected>>
    BY <1>1 DEF WakeInv, Pending, NoJob, Active
  <1>2. ASSUME NEW t \in Tasks, AskEmpty(t) PROVE WakeInv'
    <2>1. UNCHANGED <<job, stop, isEmpty, dry, rejected>>
      BY <1>2 DEF AskEmpty
    <2>2. \A u \in Tasks : task'[u] = "waiting" => task[u] = "waiting" \/ ~isEmpty
      BY <1>2 DEF AskEmpty, TypeOK
    <2> QED
      BY <2>1, <2>2 DEF WakeInv, Pending, NoJob, Active
  <1>3. ASSUME (\E r \in Requests : Probe(r)) \/ UNCHANGED vars
        PROVE  UNCHANGED <<job, stop, isEmpty, dry, task, rejected>>
    BY <1>3 DEF Probe, vars, queueVars
  <1>4. CASE \E s \in Empties : EmptyStep(s)
    BY <1>4, StopWakes DEF Stoppers
  <1>5. CASE \E s \in Shutdowns : Shutdown(s)
    BY <1>5, StopWakes DEF Stoppers
  <1>6. CASE \E s \in Stoppers : StopStep(s)
    BY <1>6, StopWakes
  <1> QED
    BY <1>1, <1>2, <1>3, <1>4, <1>5, <1>6, JobWakes DEF Next

\* No wake-up is lost: however jobs, faults, onEmpty() and shutdown() interleave, while a
\* caller of isEmpty() waits there is a job to end, an onEmpty() due or one under way.
\* The one exception is an onEmpty() whose close() was the last to reject, for as long as
\* no job is pushed.
THEOREM NoLostWakeup == Spec => []NobodyForgotten
  <1>1. Init => WakeInv
    BY DEF Init, WakeInv
  <1>2. WakeInv => NobodyForgotten
    BY DEF WakeInv, Pending, NobodyForgotten
  <1> QED
    BY <1>1, <1>2, WakeStepInv, TypeCorrect, PTL DEF Spec

-----------------------------------------------------------------------------
(* Who puts the judge to sleep *)

\* While a call stops the servers the judge is not enabled: the semaphore keeps those
\* away who would wake it.
SleepInv == NeverLeftAwake /\ \A s \in Stoppers : stop[s] = "stopping" => ~enabled

\* A job wakes the judge while nobody stops it, and leaves it to others or to onEmpty().
LEMMA JobSleeps ==
  ASSUME TypeOK, HolderActs, SleepInv, NEW j \in Jobs, Push(j) \/ WakeStep(j) \/ ValidateStep(j)
  PROVE  SleepInv'
  <1>1. UNCHANGED stop /\ (WakeupAcquires(j) \/ UNCHANGED enabled)
    BY DEF Push, WakeStep, Begin, Progressed, FindsEnabled, FindsDisabled, WakeupEnds, Started,
       WakeupAcquires, Connected, ConnectFails, ValidateStep, LookedUp, CreateRequests,
       LookupFails, Validated, StoreEnds, judgeVars
  <1>2. WakeupAcquires(j) => \A s \in Stoppers : stop[s] # "stopping"
    BY DEF WakeupAcquires, Wakeup, Acquire, Idle, HolderActs
  <1>3. ~NoJob' \/ dry'
    <2>1. ASSUME NEW how \in {"done", "failed"}, End(j, how) PROVE ~NoJob' \/ dry'
      <3>1. \A k \in Jobs \ {j} : job'[k] = job[k]
        BY <2>1 DEF End, TypeOK
      <3> QED
        BY <2>1, <3>1 DEF End, NoJob, Active
    <2>2. ASSUME NEW to \in {"queued"} \cup Running, job' = [job EXCEPT ![j] = to] PROVE ~NoJob'
      BY <2>2 DEF TypeOK, Over, Running, Served, NoJob, Active
    <2>3. \/ \E how \in {"done", "failed"} : End(j, how)
          \/ \E to \in {"queued"} \cup Running : job' = [job EXCEPT ![j] = to]
      BY DEF Push, WakeStep, Begin, Progressed, FindsEnabled, FindsDisabled, WakeupAcquires,
         WakeupEnds, Connected, ConnectFails, ValidateStep, LookedUp, LookupFails, Validated,
         StoreEnds, At, Running, Served
    <2> QED
      BY <2>1, <2>2, <2>3
  <1> QED
    BY <1>1, <1>2, <1>3 DEF SleepInv, NeverLeftAwake

\* A stopper is under way until the judge is not enabled.
LEMMA StopSleeps ==
  ASSUME TypeOK, SleepInv, NEW s \in Stoppers,
         (s \in Empties /\ EmptyStep(s)) \/ (s \in Shutdowns /\ Shutdown(s)) \/ StopStep(s)
  PROVE  SleepInv'
  <1>1. ASSUME NEW to \in {"closing", "acquiring"}, stop' = [stop EXCEPT ![s] = to],
               UNCHANGED enabled
        PROVE  SleepInv'
    <2>1. \A x \in Stoppers : stop'[x] = IF x = s THEN to ELSE stop[x]
      BY <1>1 DEF TypeOK
    <2>2. stop'[s] \in StopPhases
      BY <2>1 DEF StopPhases
    <2> QED
      BY <1>1, <2>1, <2>2 DEF SleepInv, NeverLeftAwake
  <1>2. ASSUME ~enabled' PROVE SleepInv'
    BY <1>2 DEF SleepInv, NeverLeftAwake
  <1>3. CASE CloseFails(s)
    <2>1. rejected' /\ UNCHANGED enabled /\ stop' = [stop EXCEPT ![s] = "idle"]
      BY <1>3 DEF CloseFails, judgeVars
    <2>2. \A x \in Stoppers : stop'[x] = "stopping" => stop[x] = "stopping"
      BY <2>1 DEF TypeOK
    <2> QED
      BY <2>1, <2>2 DEF SleepInv, NeverLeftAwake
  <1>4. ASSUME ~CloseFails(s)
        PROVE  \/ ~enabled'
               \/ /\ UNCHANGED enabled
                  /\ \E to \in {"closing", "acquiring"} : stop' = [stop EXCEPT ![s] = to]
    <2>1. Pend(s) => \/ ~enabled'
                     \/ /\ UNCHANGED enabled
                        /\ \E to \in {"closing", "acquiring"} : stop' = [stop EXCEPT ![s] = to]
      BY DEF Pend, judgeVars
    <2>2. CASE EmptyStep(s) \/ Shutdown(s)
      BY <1>4, <2>1, <2>2 DEF EmptyStep, OnEmpty, Closed, Shutdown, judgeVars
    <2>3. CASE StopStep(s)
      BY <2>3 DEF StopStep, PendingAcquires, Disable, PendingEnds, Stopped, SleepInv
    <2> QED
      BY <2>2, <2>3
  <1> QED
    BY <1>1, <1>2, <1>3, <1>4

\* Every step leaves somebody to put the judge to sleep.
LEMMA SleepStep == TypeOK /\ HolderActs /\ SleepInv /\ [Next]_vars => SleepInv'
  <1> SUFFICES ASSUME TypeOK, HolderActs, SleepInv, [Next]_vars PROVE SleepInv'
    OBVIOUS
  <1>1. CASE UNCHANGED <<job, stop, dry, enabled, rejected>>
    BY <1>1 DEF SleepInv, NeverLeftAwake, NoJob, Active
  <1>2. ASSUME (\E r \in Requests : Probe(r)) \/ (\E t \in Tasks : AskEmpty(t)) \/ UNCHANGED vars
        PROVE  UNCHANGED <<job, stop, dry, enabled, rejected>>
    BY <1>2 DEF Probe, RequestStep, Prepared, PrepareFails, OnJudge, JudgeSocketEnds, RequestEnds,
       Becomes, AskEmpty, vars, judgeVars, queueVars
  <1>3. CASE \E s \in Empties : EmptyStep(s)
    BY <1>3, StopSleeps DEF Stoppers
  <1>4. CASE \E s \in Shutdowns : Shutdown(s)
    BY <1>4, StopSleeps DEF Stoppers
  <1>5. CASE \E s \in Stoppers : StopStep(s)
    BY <1>5, StopSleeps
  <1> QED
    BY <1>1, <1>2, <1>3, <1>4, <1>5, JobSleeps DEF Next

\* The judge is never left awake: whatever fails and whenever jobs arrive, while it is
\* enabled there is a job to end, an onEmpty() due, or a call on its way to stop it.  The
\* one exception is an onEmpty() whose close() was the last to reject, for as long as no
\* job is pushed.
THEOREM JudgeNeverLeftAwake == Spec => []NeverLeftAwake
  <1>1. Init => SleepInv
    BY DEF Init, JudgeInit, SleepInv, NeverLeftAwake
  <1>2. SleepInv => NeverLeftAwake
    BY DEF SleepInv
  <1> QED
    BY <1>1, <1>2, SleepStep, SemaphoreHeld, TypeCorrect, PTL DEF Spec

-----------------------------------------------------------------------------
(* Jobs and the calls that stop the judge *)

\* Jobs arrive while the servers are being stopped, but not between the moment the
\* queue ran dry and the moment the judge is disabled; nobody shuts down.
Considerate == PushDuring \subseteq {"stopping"} /\ Shutdowns = {}

NeverAsleep == \A j \in Jobs : job[j] \in Served => enabled

\* One call at a time stops the judge, and until it has disabled the judge there is
\* no job; while it stops the servers the jobs there are have not got past the check.
StopInv ==
  /\ dry => NoJob /\ \A s \in Stoppers : stop[s] = "idle"
  /\ \A s \in Stoppers : stop[s] # "over"
  /\ \A s, q \in Stoppers : stop[s] # "idle" /\ stop[q] # "idle" => s = q
  /\ \A s \in Stoppers : stop[s] \in {"closing", "acquiring"} => NoJob
  /\ \A s \in Stoppers : stop[s] = "acquiring" => enabled
  /\ \A s \in Stoppers : stop[s] = "stopping" => s \in lock
  /\ NeverAsleep

\* A served job means that nobody is stopping the judge.
LEMMA ServedUndisturbed ==
  ASSUME TypeOK, LockInv, StopInv, NEW j \in Jobs, job[j] \in Served
  PROVE  \A s \in Stoppers : stop[s] = "idle"
  <1>1. ~NoJob
    BY DEF NoJob, Active, Served, Over
  <1>2. enabled
    BY DEF StopInv, NeverAsleep
  <1>3. \A s \in Stoppers : stop[s] \in {"idle", "over", "closing", "acquiring", "stopping"}
    BY DEF TypeOK, StopPhases
  <1> QED
    BY <1>1, <1>2, <1>3 DEF StopInv, LockInv

\* The end of a served job.
LEMMA EndStops ==
  ASSUME TypeOK, LockInv, StopInv, NEW j \in Jobs, job[j] \in Served,
         NEW how \in {"done", "failed"}, End(j, how), UNCHANGED <<judgeVars, stop>>
  PROVE  StopInv'
  <1>1. \A s \in Stoppers : stop'[s] = "idle"
    BY ServedUndisturbed
  <1>2. \A k \in Jobs : job'[k] = IF k = j THEN how ELSE job[k]
    BY DEF End, TypeOK
  <1>3. dry' => NoJob'
    BY <1>2 DEF End, NoJob, Active, Over
  <1>4. NeverAsleep'
    BY <1>2 DEF NeverAsleep, StopInv, Served, judgeVars
  <1> QED
    BY <1>1, <1>3, <1>4 DEF StopInv

\* A job that goes from one await to the next without touching the judge's life.
LEMMA MoveStops ==
  ASSUME TypeOK, StopInv, NEW j \in Jobs, NEW from, NEW to, At(j, from, to),
         from \in {"queued"} \cup Running, to \in Running,
         to \in Served => enabled,
         Untouched, UNCHANGED <<stop, dry>>
  PROVE  StopInv'
  <1>1. \A k \in Jobs : job'[k] = IF k = j THEN to ELSE job[k]
    BY DEF At, TypeOK
  <1>2. ~NoJob
    BY DEF NoJob, Active, At, Over, Running, Served
  <1>3. ~dry /\ \A s \in Stoppers : stop[s] \notin {"closing", "acquiring"}
    BY <1>2 DEF StopInv
  <1>4. NeverAsleep'
    BY <1>1 DEF NeverAsleep, StopInv, Untouched
  <1> QED
    BY <1>3, <1>4 DEF StopInv, Untouched

\* Steps of a job on its way to the judge.
LEMMA WakeStops ==
  ASSUME TypeOK, LockInv, StopInv, NEW j \in Jobs, WakeStep(j)
  PROVE  StopInv'
  <1>1. CASE Begin(j)
    BY <1>1, MoveStops DEF Begin, Untouched, judgeVars, queueVars, Running, Served
  <1>2. CASE Progressed(j)
    BY <1>2, MoveStops DEF Progressed, Untouched, judgeVars, queueVars, Running, Served
  <1>3. CASE FindsEnabled(j)
    BY <1>3, MoveStops DEF FindsEnabled, Untouched, judgeVars, queueVars, Running, Served
  <1>4. CASE FindsDisabled(j)
    BY <1>4, MoveStops DEF FindsDisabled, Untouched, judgeVars, queueVars, Running, Served
  <1>5. CASE WakeupAcquires(j)
    <2>1. /\ enabled' /\ lock = {}
          /\ UNCHANGED <<stop, dry>>
          /\ job[j] = "acquiring" /\ job' = [job EXCEPT ![j] = "starting"]
      BY <1>5 DEF WakeupAcquires, Wakeup, Acquire, Idle, At, queueVars
    <2>2. ~NoJob
      BY <2>1 DEF NoJob, Active, Over
    <2>3. ~dry /\ \A s \in Stoppers : stop[s] \notin {"closing", "acquiring", "stopping"}
      BY <2>1, <2>2 DEF StopInv
    <2> QED
      BY <2>1, <2>3 DEF StopInv, NeverAsleep
  <1>6. CASE WakeupEnds(j)
    <2>1. /\ job[j] = "starting" /\ job' = [job EXCEPT ![j] = "connecting"]
          /\ UNCHANGED <<enabled, stop, dry>>
      BY <1>6 DEF WakeupEnds, At, Started, queueVars
    <2>2. \A s \in Stoppers : stop[s] = "idle"
      BY <2>1, ServedUndisturbed DEF Served
    <2>3. NeverAsleep'
      BY <2>1 DEF StopInv, NeverAsleep, TypeOK, Served
    <2>4. ~dry
      BY <2>1 DEF StopInv, NoJob, Active, Over
    <2> QED
      BY <2>1, <2>2, <2>3, <2>4 DEF StopInv
  <1>7. CASE Connected(j)
    <2>1. job[j] \in Served
      BY <1>7 DEF Connected, At, Served
    <2>2. enabled
      BY <2>1 DEF StopInv, NeverAsleep
    <2> QED
      BY <1>7, <2>2, MoveStops DEF Connected, Untouched, judgeVars, queueVars, Running, Served
  <1>8. CASE ConnectFails(j)
    BY <1>8, EndStops DEF ConnectFails, Served
  <1> QED
    BY <1>1, <1>2, <1>3, <1>4, <1>5, <1>6, <1>7, <1>8 DEF WakeStep

\* Steps of a job the judge serves.
LEMMA ValidateStops ==
  ASSUME TypeOK, LockInv, StopInv, NEW j \in Jobs, ValidateStep(j)
  PROVE  StopInv'
  <1>1. job[j] \in Served
    BY DEF ValidateStep, LookedUp, LookupFails, Validated, StoreEnds, At, Served
  <1>2. enabled
    BY <1>1 DEF StopInv, NeverAsleep
  <1>3. CASE LookedUp(j)
    BY <1>2, <1>3, MoveStops DEF LookedUp, CreateRequests, Untouched, queueVars, Running, Served
  <1>4. CASE At(j, "probing", "storing") /\ UNCHANGED <<judgeVars, stop, connected, queueVars>>
    BY <1>2, <1>4, MoveStops DEF Untouched, judgeVars, queueVars, Running, Served
  <1>5. CASE (\E how \in {"done", "failed"} : End(j, how)) /\ UNCHANGED <<judgeVars, stop>>
    BY <1>1, <1>5, EndStops
  <1>6. ASSUME LookupFails(j) \/ Validated(j) \/ StoreEnds(j)
        PROVE  \/ (\E how \in {"done", "failed"} : End(j, how)) /\ UNCHANGED <<judgeVars, stop>>
               \/ At(j, "probing", "storing") /\ UNCHANGED <<judgeVars, stop, connected, queueVars>>
    BY <1>6 DEF LookupFails, Validated, StoreEnds
  <1> QED
    BY <1>3, <1>4, <1>5, <1>6 DEF ValidateStep

\* pending() of a call that is the only one, while there is no job.
LEMMA PendStops ==
  ASSUME TypeOK, StopInv, Considerate, NEW s \in Stoppers, Pend(s), NoJob,
         \A q \in Stoppers \ {s} : stop[q] = "idle", ~dry', UNCHANGED job
  PROVE  StopInv'
  <1>1. Untouched /\ stop'[s] \in {"idle", "acquiring"} /\ (stop'[s] = "acquiring" => enabled)
    BY DEF Pend, Finish, ClearCache, Untouched, judgeVars, TypeOK, Considerate, Stoppers
  <1>2. \A q \in Stoppers \ {s} : stop'[q] = "idle"
    BY DEF Pend, Finish, TypeOK
  <1>3. NeverAsleep' /\ NoJob'
    BY <1>1 DEF StopInv, NeverAsleep, Untouched, NoJob, Active
  <1> QED
    BY <1>1, <1>2, <1>3 DEF StopInv, Untouched

\* Every step preserves the invariant when the jobs arrive considerately.
LEMMA StopStepInv ==
  ASSUME Considerate, TypeOK, LockInv, StopInv, [Next]_vars
  PROVE  StopInv'
  <1>1. ASSUME NEW j \in Jobs, Push(j) PROVE StopInv'
    <2>1. \A s \in Stoppers : stop[s] \in {"idle", "stopping"}
      BY <1>1 DEF Push, Considerate
    <2>2. /\ ~dry' /\ UNCHANGED <<stop, enabled, lock>>
          /\ job' = [job EXCEPT ![j] = "queued"]
      BY <1>1 DEF Push, judgeVars
    <2>3. NeverAsleep'
      BY <2>2 DEF StopInv, NeverAsleep, Served, TypeOK
    <2> QED
      BY <2>1, <2>2, <2>3 DEF StopInv
  <1>2. ASSUME NEW r \in Requests, Probe(r) PROVE StopInv'
    <2>1. UNCHANGED <<enabled, lock, job, stop, dry>>
      BY <1>2 DEF Probe, RequestStep, Prepared, PrepareFails, OnJudge, JudgeSocketEnds,
         RequestEnds, Becomes, queueVars
    <2> QED
      BY <2>1 DEF StopInv, NeverAsleep, NoJob, Active
  <1>3. ASSUME NEW s \in Stoppers, OnEmpty(s) PROVE StopInv'
    <2>1. NoJob /\ \A q \in Stoppers : stop[q] = "idle"
      BY <1>3 DEF OnEmpty, StopInv
    <2>2. ~dry' /\ UNCHANGED job
      BY <1>3 DEF OnEmpty
    <2>3. CASE connected
      <3>1. stop' = [stop EXCEPT ![s] = "closing"] /\ UNCHANGED judgeVars
        BY <1>3, <2>3 DEF OnEmpty
      <3>2. NeverAsleep' /\ NoJob'
        BY <2>1, <2>2, <3>1 DEF StopInv, NeverAsleep, judgeVars, NoJob, Active
      <3>3. \A q \in Stoppers : stop'[q] = IF q = s THEN "closing" ELSE "idle"
        BY <2>1, <3>1 DEF TypeOK
      <3> QED
        BY <2>2, <3>2, <3>3 DEF StopInv
    <2>4. CASE ~connected
      BY <1>3, <2>1, <2>2, <2>4, PendStops DEF OnEmpty
    <2> QED
      BY <2>3, <2>4
  <1>4. ASSUME NEW s \in Stoppers, Closed(s) PROVE StopInv'
    <2>1. NoJob /\ ~dry /\ \A q \in Stoppers \ {s} : stop[q] = "idle"
      BY <1>4 DEF Closed, StopInv
    <2> QED
      BY <1>4, <2>1, PendStops DEF Closed
  <1>5. ASSUME NEW s \in Stoppers, PendingAcquires(s) PROVE StopInv'
    <2>1. /\ stop[s] = "acquiring" /\ stop' = [stop EXCEPT ![s] = "stopping"]
          /\ lock' = {s} /\ UNCHANGED <<job, dry>>
      BY <1>5 DEF PendingAcquires, Disable, Acquire, queueVars
    <2>2. NoJob /\ ~dry /\ \A q \in Stoppers \ {s} : stop[q] = "idle"
      BY <2>1 DEF StopInv
    <2>3. NeverAsleep'
      BY <2>1, <2>2 DEF NeverAsleep, NoJob, Active, Served, Over
    <2>4. \A q \in Stoppers : stop'[q] = IF q = s THEN "stopping" ELSE "idle"
      BY <2>1, <2>2 DEF TypeOK
    <2> QED
      BY <2>1, <2>2, <2>3, <2>4 DEF StopInv
  <1>6. ASSUME NEW s \in Stoppers, PendingEnds(s) PROVE StopInv'
    <2>1. /\ stop[s] = "stopping" /\ Finish(s) /\ UNCHANGED <<enabled, job, dry>>
      BY <1>6 DEF PendingEnds, Stopped
    <2>2. \A q \in Stoppers : stop'[q] = "idle"
      BY <2>1 DEF Finish, StopInv, Considerate, Stoppers, TypeOK
    <2>3. NeverAsleep' /\ ~dry'
      BY <2>1 DEF StopInv, NeverAsleep
    <2> QED
      BY <2>2, <2>3 DEF StopInv
  <1>7. ASSUME NEW t \in Tasks, AskEmpty(t) PROVE StopInv'
    BY <1>7 DEF AskEmpty, judgeVars, StopInv, NeverAsleep, NoJob, Active
  <1>8. CASE UNCHANGED vars
    BY <1>8 DEF vars, judgeVars, queueVars, StopInv, NeverAsleep, NoJob, Active
  <1>9. ASSUME NEW s \in Stoppers, CloseFails(s) PROVE StopInv'
    <2>1. stop[s] = "closing" /\ UNCHANGED <<judgeVars, job, dry>>
      BY <1>9 DEF CloseFails
    <2>2. NoJob /\ ~dry /\ \A q \in Stoppers : stop'[q] = "idle"
      BY <1>9, <2>1 DEF CloseFails, StopInv, TypeOK
    <2>3. NeverAsleep'
      BY <2>1, <2>2 DEF NeverAsleep, NoJob, Active, Served, Over
    <2> QED
      BY <2>1, <2>2, <2>3 DEF StopInv
  <1> QED
    BY <1>1, <1>2, <1>3, <1>4, <1>5, <1>6, <1>7, <1>8, <1>9, WakeStops, ValidateStops
       DEF Next, EmptyStep, StopStep, Considerate, Stoppers

\* The initial state satisfies the invariants.
LEMMA StopInit == Init => LockInv /\ StopInv
  <1>1. Init => LockInv
    BY DEF Init, JudgeInit, LockInv, ServersFollowFlag
  <1>2. Init => StopInv
    BY DEF Init, JudgeInit, StopInv, NeverAsleep, Served
  <1> QED
    BY <1>1, <1>2

-----------------------------------------------------------------------------
(* What the jobs keep when they arrive considerately *)

\* A step towards closing finds no job, so nothing of one is taken away.
LEMMA PendsIdle ==
  ASSUME StopInv, Considerate, NEW s \in Stoppers, EmptyStep(s) \/ (s \in Shutdowns /\ Shutdown(s))
  PROVE  NoJob
  BY DEF EmptyStep, OnEmpty, Closed, CloseFails, StopInv, Considerate

\* The judge is disabled by nobody but a call that has found no job and waited for the
\* semaphore: what refutes StopsOnlyIdle are jobs that arrive while onEmpty() closes the
\* connection or waits for the semaphore, and nothing else.
THEOREM StopsWhenIdle == Considerate => (Spec => StopsOnlyIdle)
  <1> SUFFICES ASSUME Considerate PROVE Spec => StopsOnlyIdle
    OBVIOUS
  <1>1. TypeOK /\ LockInv /\ StopInv /\ [Next]_vars => StopInv'
    BY StopStepInv
  <1>2. StopInv /\ [Next]_vars => [enabled /\ ~enabled' => NoJob]_vars
    <2> SUFFICES ASSUME StopInv, [Next]_vars, enabled, ~enabled' PROVE NoJob
      OBVIOUS
    <2>1. ASSUME NEW j \in Jobs, Push(j) \/ WakeStep(j) \/ ValidateStep(j) PROVE enabled'
      BY <2>1 DEF Push, WakeStep, Begin, Progressed, FindsEnabled, FindsDisabled, WakeupAcquires,
         WakeupEnds, Connected, ConnectFails, ValidateStep, LookedUp, CreateRequests, LookupFails,
         Validated, StoreEnds, Wakeup, Started, judgeVars
    <2>2. ASSUME NEW s \in Stoppers, EmptyStep(s) \/ Shutdown(s) \/ PendingEnds(s) PROVE enabled'
      BY <2>2 DEF EmptyStep, OnEmpty, Closed, CloseFails, Shutdown, Pend, PendingEnds, Stopped, judgeVars
    <2>3. ASSUME NEW s \in Stoppers, PendingAcquires(s) PROVE NoJob
      BY <2>3 DEF PendingAcquires, StopInv
    <2>4. ASSUME (\E r \in Requests : Probe(r)) \/ (\E t \in Tasks : AskEmpty(t)) \/ UNCHANGED vars
          PROVE  enabled'
      BY <2>4 DEF Probe, RequestStep, Prepared, PrepareFails, OnJudge, JudgeSocketEnds,
         RequestEnds, Becomes, AskEmpty, vars, judgeVars
    <2> QED
      BY <2>1, <2>2, <2>3, <2>4 DEF Next, StopStep, Stoppers
  <1> QED
    BY <1>1, <1>2, StopInit, TypeCorrect, LockStep, PTL DEF Spec, StopsOnlyIdle

\* Every step keeps the connection of a job that stores.
LEMMA StoresStep ==
  ASSUME Considerate, TypeOK, StopInv, StoresConnected, [Next]_vars
  PROVE  StoresConnected'
  <1>1. ASSUME NEW j \in Jobs, Push(j) \/ WakeStep(j) \/ ValidateStep(j) PROVE StoresConnected'
    <2>1. connected' = connected \/ connected'
      BY <1>1 DEF Push, WakeStep, Begin, Progressed, FindsEnabled, FindsDisabled, WakeupAcquires,
         WakeupEnds, Connected, ConnectFails, ValidateStep, LookedUp, LookupFails, Validated,
         StoreEnds
    <2>2. \/ connected /\ \E to \in JobStates : job' = [job EXCEPT ![j] = to]
          \/ \E to \in JobStates \ {"storing"} : job' = [job EXCEPT ![j] = to]
      <3>1. CASE At(j, "probing", "storing") /\ connected
        BY <3>1 DEF At, JobStates, Running, Served
      <3>2. CASE ~(At(j, "probing", "storing") /\ connected)
        BY <1>1, <3>2 DEF Push, WakeStep, Begin, Progressed, FindsEnabled, FindsDisabled,
           WakeupAcquires, WakeupEnds, Connected, ConnectFails, ValidateStep, LookedUp,
           LookupFails, Validated, StoreEnds, At, End, JobStates, Over, Running, Served
      <3> QED
        BY <3>1, <3>2
    <2> QED
      BY <2>1, <2>2 DEF StoresConnected, TypeOK
  <1>2. ASSUME NEW s \in Stoppers, EmptyStep(s) \/ (s \in Shutdowns /\ Shutdown(s))
        PROVE  StoresConnected'
    <2>1. NoJob /\ UNCHANGED job
      BY <1>2, PendsIdle DEF EmptyStep, OnEmpty, Closed, CloseFails, Shutdown
    <2> QED
      BY <2>1 DEF StoresConnected, NoJob, Active, Over
  <1>3. CASE UNCHANGED <<job, connected>>
    BY <1>3 DEF StoresConnected
  <1>4. ASSUME \/ \E r \in Requests : Probe(r)
               \/ \E s \in Stoppers : StopStep(s)
               \/ \E t \in Tasks : AskEmpty(t)
               \/ UNCHANGED vars
        PROVE  UNCHANGED <<job, connected>>
    BY <1>4 DEF Probe, StopStep, PendingAcquires, PendingEnds, AskEmpty, vars
  <1> QED
    BY <1>1, <1>2, <1>3, <1>4 DEF Next, Stoppers

\* Results are stored through a connection that nobody closes before they are.
THEOREM StoresThroughConnection == Considerate => (Spec => []StoresConnected)
  <1> SUFFICES ASSUME Considerate PROVE Spec => []StoresConnected
    OBVIOUS
  <1>1. Init => StoresConnected
    BY DEF Init, StoresConnected
  <1>2. TypeOK /\ LockInv /\ StopInv /\ StoresConnected /\ [Next]_vars => StopInv' /\ StoresConnected'
    BY StopStepInv, StoresStep
  <1> QED
    BY <1>1, <1>2, StopInit, TypeCorrect, LockStep, PTL DEF Spec

Open == {"preparing", "probing", "judged", "lost"}

\* Only a job that waits for its requests has open ones, and it has all its requests.
RequestInv ==
  /\ \A r \in Requests : req[r] \in Open => job[r[1]] = "probing"
  /\ \A j \in Jobs, v \in Variants : job[j] = "probing" => req[<<j, v>>] # "none"
  /\ RequestsKept

\* A step of a request, of whatever job.
LEMMA RequestKeeps ==
  ASSUME TypeOK, RequestInv, NEW r \in Requests, Probe(r)
  PROVE  RequestInv'
  <1>1. UNCHANGED job /\ req[r] \in Open \ {"lost"}
    BY DEF Probe, RequestStep, Prepared, PrepareFails, OnJudge, JudgeSocketEnds, RequestEnds, Open
  <1>2. PICK to \in {"probing", "judged"} \cup Settled :
          /\ req' = [req EXCEPT ![r] = to]
          /\ to = "probing" => req[r] = "preparing" /\ UNCHANGED cache
          /\ cache' = cache \/ (cache' = cache \ {r} /\ to # "probing")
    <2>1. CASE JudgeSocketEnds(r)
      <3>1. req' = [req EXCEPT ![r] = "judged"] /\ cache' = cache \ {r}
        BY <2>1 DEF JudgeSocketEnds, TypeOK, JudgeTypeOK
      <3>2. "judged" \in {"probing", "judged"} \cup Settled /\ "judged" # "probing"
        OBVIOUS
      <3> QED
        BY <3>1, <3>2, Zenon
    <2>2. CASE Prepared(r)
      BY <2>2 DEF Prepared, Becomes
    <2>3. CASE PrepareFails(r)
      BY <2>3 DEF PrepareFails, Becomes, Settled
    <2>4. CASE OnJudge(r)
      BY <2>4 DEF OnJudge, Becomes
    <2>5. CASE RequestEnds(r)
      BY <2>5 DEF RequestEnds, Becomes, Settled
    <2> QED
      BY <2>1, <2>2, <2>3, <2>4, <2>5 DEF Probe, RequestStep
  <1>3. \A q \in Requests : req'[q] = IF q = r THEN to ELSE req[q]
    BY <1>2 DEF TypeOK, JudgeTypeOK
  <1>4. job'[r[1]] = "probing"
    BY <1>1 DEF RequestInv
  <1>5. \A q \in Requests : req'[q] \in Open => job'[q[1]] = "probing"
    BY <1>1, <1>3, <1>4 DEF RequestInv
  <1>6. \A j \in Jobs, v \in Variants : job'[j] = "probing" => req'[<<j, v>>] # "none"
    BY <1>1, <1>3 DEF RequestInv, Requests, Settled
  <1>7. \A q \in Requests : req'[q] # "lost"
    BY <1>3 DEF RequestInv, RequestsKept, Settled
  <1>8. \A q \in Requests : req'[q] \in {"preparing", "probing"} => q \in cache'
    <2> SUFFICES ASSUME NEW q \in Requests, req'[q] \in {"preparing", "probing"} PROVE q \in cache'
      OBVIOUS
    <2>1. CASE q = r
      BY <1>2, <1>3, <2>1 DEF RequestInv, RequestsKept, Settled
    <2>2. CASE q # r
      BY <1>2, <1>3, <2>2 DEF RequestInv, RequestsKept
    <2> QED
      BY <2>1, <2>2
  <1> QED
    BY <1>5, <1>6, <1>7, <1>8 DEF RequestInv, RequestsKept

\* A job that moves without its requests has none open, and none when it arrives there.
LEMMA MoveKeeps ==
  ASSUME TypeOK, RequestInv, NEW j \in Jobs, NEW to, to # "probing",
         job' = [job EXCEPT ![j] = to], UNCHANGED <<req, cache>>,
         job[j] = "probing" => \A v \in Variants : req[<<j, v>>] \in Settled
  PROVE  RequestInv'
  <1>1. \A k \in Jobs : job'[k] = IF k = j THEN to ELSE job[k]
    BY DEF TypeOK
  <1>2. \A r \in Requests : req[r] \in Open => r[1] # j
    <2> SUFFICES ASSUME NEW k \in Jobs, NEW v \in Variants, req[<<k, v>>] \in Open PROVE k # j
      BY DEF Requests
    <2>1. job[k] = "probing"
      BY DEF RequestInv, Requests
    <2> QED
      BY <2>1 DEF Open, Settled
  <1> QED
    BY <1>1, <1>2 DEF RequestInv, RequestsKept, Requests

\* The steps of a job.
LEMMA JobKeepsRequests ==
  ASSUME TypeOK, RequestInv, NEW j \in Jobs, Push(j) \/ WakeStep(j) \/ ValidateStep(j)
  PROVE  RequestInv'
  <1>1. CASE LookedUp(j)
    <2>1. /\ job' = [job EXCEPT ![j] = "probing"] /\ job[j] = "lookup"
          /\ cache' = cache \cup ({j} \X Variants)
          /\ req' = [r \in Requests |-> IF r[1] = j THEN "preparing" ELSE req[r]]
      BY <1>1 DEF LookedUp, At, CreateRequests
    <2>2. \A k \in Jobs : job'[k] = IF k = j THEN "probing" ELSE job[k]
      BY <2>1 DEF TypeOK
    <2>3. \A r \in Requests : req'[r] = IF r[1] = j THEN "preparing" ELSE req[r]
      BY <2>1
    <2>4. \A r \in Requests : r[1] = j => r \in cache'
      BY <2>1 DEF Requests
    <2>5. \A r \in Requests : req'[r] \in Open => job'[r[1]] = "probing"
      BY <2>2, <2>3 DEF RequestInv, Requests
    <2>6. \A k \in Jobs, v \in Variants : job'[k] = "probing" => req'[<<k, v>>] # "none"
      BY <2>2, <2>3 DEF RequestInv, Requests
    <2>7. RequestsKept'
      BY <2>1, <2>3, <2>4 DEF RequestInv, RequestsKept
    <2> QED
      BY <2>5, <2>6, <2>7 DEF RequestInv
  <1>2. CASE Push(j) \/ WakeStep(j)
    <2>1. /\ job[j] # "probing" /\ UNCHANGED <<req, cache>>
          /\ \E to \in JobStates \ {"probing"} : job' = [job EXCEPT ![j] = to]
      BY <1>2 DEF Push, WakeStep, Begin, Progressed, FindsEnabled, FindsDisabled, WakeupAcquires,
         WakeupEnds, Wakeup, Started, Connected, ConnectFails, At, End, Active, JobStates, Over,
         Running, Served, judgeVars
    <2> QED
      BY <2>1, MoveKeeps
  <1>3. CASE LookupFails(j) \/ Validated(j) \/ StoreEnds(j)
    <2>1. /\ job[j] = "probing" => \A v \in Variants : req[<<j, v>>] \in Settled
          /\ UNCHANGED <<req, cache>>
          /\ \E to \in {"done", "failed", "storing"} : job' = [job EXCEPT ![j] = to]
      BY <1>3 DEF LookupFails, Validated, StoreEnds, At, End, judgeVars
    <2> QED
      BY <2>1, MoveKeeps
  <1> QED
    BY <1>1, <1>2, <1>3 DEF ValidateStep

\* Every step keeps the requests of the jobs that wait for them.
LEMMA RequestStepInv ==
  ASSUME Considerate, TypeOK, StopInv, RequestInv, [Next]_vars
  PROVE  RequestInv'
  <1>1. CASE UNCHANGED <<job, req, cache>>
    BY <1>1 DEF RequestInv, RequestsKept
  <1>2. ASSUME NEW s \in Stoppers, EmptyStep(s) \/ (s \in Shutdowns /\ Shutdown(s))
        PROVE  RequestInv'
    <2>1. NoJob /\ UNCHANGED job
      BY <1>2, PendsIdle DEF EmptyStep, OnEmpty, Closed, CloseFails, Shutdown
    <2>2. \A r \in Requests : req[r] \notin Open
      BY <2>1 DEF RequestInv, NoJob, Active, Over, Requests
    <2>3. UNCHANGED req
      <3>1. UNCHANGED req \/ ClearCache
        BY <1>2 DEF EmptyStep, OnEmpty, Closed, CloseFails, Shutdown, Pend, judgeVars
      <3>2. ASSUME ClearCache PROVE req' = req
        BY <2>2, <3>2 DEF ClearCache, Open, TypeOK, JudgeTypeOK
      <3> QED
        BY <3>1, <3>2
    <2> QED
      BY <2>1, <2>2, <2>3 DEF RequestInv, RequestsKept, Open
  <1>3. ASSUME (\E s \in Stoppers : StopStep(s)) \/ (\E t \in Tasks : AskEmpty(t)) \/ UNCHANGED vars
        PROVE  UNCHANGED <<job, req, cache>>
    BY <1>3 DEF StopStep, PendingAcquires, PendingEnds, Disable, Stopped, AskEmpty, vars, judgeVars
  <1>4. CASE \E s \in Empties : EmptyStep(s)
    BY <1>2, <1>4 DEF Stoppers
  <1>5. CASE \E s \in Shutdowns : Shutdown(s)
    BY <1>2, <1>5 DEF Stoppers
  <1> QED
    BY <1>1, <1>3, <1>4, <1>5, RequestKeeps, JobKeepsRequests DEF Next

\* The initial state has no requests.
LEMMA RequestInit == Init => RequestInv
  BY DEF Init, JudgeInit, RequestInv, RequestsKept, Open, Requests

\* pending() clears the cache without taking a request from a job that waits for it,
\* and until a request has reached the judge or ended it is in the cache.
THEOREM RequestsAreKept == Considerate => (Spec => []RequestsKept)
  <1> SUFFICES ASSUME Considerate PROVE Spec => []RequestsKept
    OBVIOUS
  <1>1. TypeOK /\ LockInv /\ StopInv /\ RequestInv /\ [Next]_vars => StopInv' /\ RequestInv'
    BY StopStepInv, RequestStepInv
  <1>2. RequestInv => RequestsKept
    BY DEF RequestInv
  <1> QED
    BY <1>1, <1>2, RequestInit, StopInit, TypeCorrect, LockStep, PTL DEF Spec

\* The queue and the semaphore: who waits, waits for a job that runs or acts.
LEMMA SomebodyDue == TypeOK /\ HolderActs /\ RequestInv => JobsNeverStuck
  <1> SUFFICES ASSUME TypeOK, HolderActs, RequestInv, NEW j \in Jobs, Active(j)
               PROVE  (\E k \in Jobs : Due(k)) \/ \E s \in Stoppers : stop[s] = "stopping"
    BY DEF JobsNeverStuck, NoJob
  <1>1. CASE \E k \in Jobs : job[k] \in Running
    <2>1. PICK k \in Jobs : job[k] \in Running
      BY <1>1
    <2>2. CASE job[k] \in {"awaiting", "acquiring"}
      <3>1. CASE Idle
        BY <2>2, <3>1 DEF Due
      <3>2. CASE ~Idle
        <4>1. PICK p \in lock : TRUE
          BY <3>2 DEF Idle
        <4>2. \/ p \in Jobs /\ job[p] = "starting"
              \/ p \in Stoppers /\ stop[p] = "stopping"
          BY <4>1 DEF HolderActs
        <4> QED
          BY <4>2 DEF Due
      <3> QED
        BY <3>1, <3>2
    <2>3. CASE job[k] = "probing"
      <3>1. \A v \in Variants : req[<<k, v>>] \notin {"none", "lost"}
        BY <2>3 DEF RequestInv, RequestsKept, Requests
      <3> QED
        BY <2>3, <3>1 DEF Due
    <2>4. CASE job[k] \in {"checking", "starting", "connecting", "lookup", "storing"}
      BY <2>4 DEF Due
    <2> QED
      BY <2>1, <2>2, <2>3, <2>4 DEF Running, Served
  <1>2. CASE ~\E k \in Jobs : job[k] \in Running
    <2>1. job[j] = "queued"
      BY <1>2 DEF Active, TypeOK, JobStates
    <2>2. {k \in Jobs : job[k] \in Running} = {}
      BY <1>2
    <2>3. Cardinality({k \in Jobs : job[k] \in Running}) = 0
      BY <2>2, FS_EmptySet
    <2>4. Due(j)
      BY <2>1, <2>3, ValidatorAssumption DEF Due
    <2> QED
      BY <2>4
  <1> QED
    BY <1>1, <1>2

\* Deadlock freedom: the slots of the queue, the semaphore and the judge's requests
\* never leave all jobs waiting for one another.
THEOREM JobsAreNeverStuck == Considerate => (Spec => []JobsNeverStuck)
  <1> SUFFICES ASSUME Considerate PROVE Spec => []JobsNeverStuck
    OBVIOUS
  <1>1. TypeOK /\ LockInv /\ StopInv /\ RequestInv /\ [Next]_vars => StopInv' /\ RequestInv'
    BY StopStepInv, RequestStepInv
  <1>2. TypeOK /\ HolderActs /\ RequestInv => JobsNeverStuck
    BY SomebodyDue
  <1> QED
    BY <1>1, <1>2, RequestInit, StopInit, TypeCorrect, SemaphoreHeld, LockStep, PTL DEF Spec

-----------------------------------------------------------------------------
(* The judge as a service *)

Clients == {j \in Jobs : job[j] \in Served}

\* A step that changes neither the jobs the judge serves nor its phase.
LEMMA ServiceStutter ==
  ASSUME UNCHANGED <<enabled, lock>>, Clients' = Clients
  PROVE  UNCHANGED Service!vars
  BY DEF Service!vars, Phase, Idle, Clients

\* A job that moves is served after the step if its new await is one of a served job.
LEMMA Moved ==
  ASSUME TypeOK, NEW j \in Jobs, NEW to, job' = [job EXCEPT ![j] = to]
  PROVE  Clients' = IF to \in Served THEN Clients \cup {j} ELSE Clients \ {j}
  BY DEF Clients, TypeOK

\* Steps of a job on its way to the judge wake it or are served by it.
LEMMA WakeServes ==
  ASSUME TypeOK, LockInv, NEW j \in Jobs, WakeStep(j)
  PROVE  [Service!Next]_(Service!vars)
  <1>1. CASE Begin(j) \/ Progressed(j) \/ FindsDisabled(j)
    <2>1. /\ UNCHANGED <<enabled, lock>>
          /\ job[j] \notin Served
          /\ \E to \in {"awaiting", "checking", "acquiring"} : job' = [job EXCEPT ![j] = to]
      BY <1>1 DEF Begin, Progressed, FindsDisabled, At, judgeVars, Served
    <2>2. Clients' = Clients
      BY <2>1, Moved DEF Clients, Served
    <2> QED
      BY <2>1, <2>2, ServiceStutter
  <1>2. CASE FindsEnabled(j)
    <2>1. enabled /\ UNCHANGED <<enabled, lock>> /\ job' = [job EXCEPT ![j] = "lookup"]
      BY <1>2 DEF FindsEnabled, At, judgeVars
    <2>2. Clients' = Clients \cup {j}
      BY <2>1, Moved DEF Served
    <2>3. Service!Serve(j)
      BY <2>1, <2>2 DEF Service!Serve, Phase, Idle, Clients
    <2> QED
      BY <2>3 DEF Service!Next
  <1>3. CASE WakeupAcquires(j)
    <2>1. /\ lock = {} /\ lock' = {j} /\ enabled'
          /\ job' = [job EXCEPT ![j] = "starting"]
      BY <1>3 DEF WakeupAcquires, Wakeup, Acquire, Idle, At
    <2>2. Clients' = Clients \cup {j}
      BY <2>1, Moved DEF Served
    <2>3. Service!Wake(j)
      BY <2>1, <2>2 DEF Service!Wake, Phase, Idle, Clients
    <2> QED
      BY <2>3 DEF Service!Next
  <1>4. CASE WakeupEnds(j)
    <2>1. /\ j \in lock /\ lock' = lock \ {j} /\ UNCHANGED enabled
          /\ job[j] = "starting" /\ job' = [job EXCEPT ![j] = "connecting"]
      BY <1>4 DEF WakeupEnds, Started, Release, At
    <2>2. enabled /\ lock # {} /\ lock' = {}
      BY <2>1 DEF LockInv, TypeOK, JudgeTypeOK
    <2>3. Clients' = Clients
      BY <2>1, Moved DEF Clients, Served
    <2>4. Service!Up
      BY <2>1, <2>2, <2>3 DEF Service!Up, Phase, Idle, Clients
    <2> QED
      BY <2>4 DEF Service!Next
  <1>5. CASE Connected(j)
    <2>1. /\ UNCHANGED <<enabled, lock>>
          /\ job[j] = "connecting" /\ job' = [job EXCEPT ![j] = "lookup"]
      BY <1>5 DEF Connected, At, judgeVars
    <2>2. Clients' = Clients
      BY <2>1, Moved DEF Clients, Served
    <2> QED
      BY <2>1, <2>2, ServiceStutter
  <1>6. CASE ConnectFails(j)
    <2>1. UNCHANGED <<enabled, lock>> /\ job' = [job EXCEPT ![j] = "failed"]
      BY <1>6 DEF ConnectFails, End, judgeVars
    <2>2. Clients' = Clients \ {j}
      BY <2>1, Moved DEF Served
    <2>3. Service!Leave(j)
      BY <2>1, <2>2 DEF Service!Leave, Phase, Idle, Clients
    <2> QED
      BY <2>3 DEF Service!Next
  <1> QED
    BY <1>1, <1>2, <1>3, <1>4, <1>5, <1>6 DEF WakeStep

\* A served job goes on being served or leaves.
LEMMA ValidateServes ==
  ASSUME TypeOK, NEW j \in Jobs, ValidateStep(j)
  PROVE  [Service!Next]_(Service!vars)
  <1>1. job[j] \in Served /\ UNCHANGED <<enabled, lock>>
    BY DEF ValidateStep, LookedUp, CreateRequests, LookupFails, Validated, StoreEnds, At, Served,
       judgeVars
  <1>2. PICK to \in {"probing", "storing", "done", "failed"} : job' = [job EXCEPT ![j] = to]
    BY DEF ValidateStep, LookedUp, LookupFails, Validated, StoreEnds, At, End
  <1>3. CASE to \in Served
    <2>1. Clients' = Clients
      BY <1>1, <1>2, <1>3, Moved DEF Clients
    <2> QED
      BY <1>1, <2>1, ServiceStutter
  <1>4. CASE to \notin Served
    <2>1. Clients' = Clients \ {j}
      BY <1>2, <1>4, Moved
    <2>2. Service!Leave(j)
      BY <1>1, <2>1 DEF Service!Leave, Phase, Idle, Clients
    <2> QED
      BY <2>2 DEF Service!Next
  <1> QED
    BY <1>3, <1>4

\* Every step is a step of the service or invisible to it.
LEMMA ServiceSimulation ==
  ASSUME Considerate, TypeOK, LockInv, StopInv, [Next]_vars
  PROVE  [Service!Next]_(Service!vars)
  <1>1. ASSUME NEW j \in Jobs, Push(j) PROVE UNCHANGED Service!vars
    <2>1. /\ UNCHANGED <<enabled, lock>>
          /\ job[j] \notin Served /\ job' = [job EXCEPT ![j] = "queued"]
      BY <1>1 DEF Push, judgeVars, Active, Over, Served
    <2>2. Clients' = Clients
      BY <2>1, Moved DEF Clients, Served
    <2> QED
      BY <2>1, <2>2, ServiceStutter
  <1>2. CASE UNCHANGED <<enabled, lock, job>>
    BY <1>2, ServiceStutter DEF Clients
  <1>3. ASSUME NEW s \in Stoppers, PendingAcquires(s) PROVE Service!Fall
    <2>1. /\ stop[s] = "acquiring" /\ lock = {} /\ lock' = {s} /\ ~enabled' /\ UNCHANGED job
      BY <1>3 DEF PendingAcquires, Disable, Acquire, Idle
    <2>2. enabled /\ NoJob
      BY <2>1 DEF StopInv
    <2>3. Clients = {} /\ Clients' = {}
      BY <2>1, <2>2 DEF Clients, NoJob, Active, Over, Served
    <2> QED
      BY <2>1, <2>2, <2>3 DEF Service!Fall, Phase, Idle, Clients
  <1>4. ASSUME NEW s \in Stoppers, PendingEnds(s) PROVE Service!Down
    <2>1. s \in lock /\ lock' = lock \ {s} /\ UNCHANGED <<enabled, job>>
      BY <1>4 DEF PendingEnds, Stopped, Release
    <2>2. ~enabled /\ lock # {} /\ lock' = {}
      BY <2>1 DEF LockInv, TypeOK, JudgeTypeOK
    <2>3. Clients' = Clients
      BY <2>1 DEF Clients
    <2> QED
      BY <2>1, <2>2, <2>3 DEF Service!Down, Phase, Idle, Clients
  <1>5. ASSUME \/ \E r \in Requests : Probe(r)
               \/ \E s \in Stoppers : EmptyStep(s) \/ Shutdown(s)
               \/ \E t \in Tasks : AskEmpty(t)
               \/ UNCHANGED vars
        PROVE  UNCHANGED <<enabled, lock, job>>
    BY <1>5 DEF Probe, RequestStep, Prepared, PrepareFails, OnJudge, JudgeSocketEnds, RequestEnds,
       Becomes, EmptyStep, OnEmpty, Closed, CloseFails, Shutdown, Pend, AskEmpty, vars, judgeVars
  <1> QED
    BY <1>1, <1>2, <1>3, <1>4, <1>5, WakeServes, ValidateServes
       DEF Next, StopStep, Stoppers, Service!Next

\* Jobs and onEmpty() use the judge as a service that sleeps only when it serves
\* nobody and whose starts and stops do not overlap.
THEOREM ImplementsJudgeService == Considerate => (Spec => ServiceSpec)
  <1> SUFFICES ASSUME Considerate PROVE Spec => ServiceSpec
    OBVIOUS
  <1>1. Init => Service!Init
    BY DEF Init, JudgeInit, Service!Init, Phase, Idle, Served
  <1>2. TypeOK /\ LockInv /\ StopInv /\ [Next]_vars => StopInv' /\ [Service!Next]_(Service!vars)
    BY StopStepInv, ServiceSimulation
  <1> QED
    BY <1>1, <1>2, StopInit, TypeCorrect, LockStep, PTL DEF Spec, ServiceSpec, Service!Spec

-----------------------------------------------------------------------------
(* Jobs that were not pushed while an onEmpty() was under way *)

\* While such a job is left, the flag is not set, no onEmpty() is due and none under way.
Undisturbed ==
  \A j \in Jobs \ late : Active(j) =>
    ~isEmpty /\ ~dry /\ \A e \in Empties : stop[e] \notin StopPhases

\* Nobody comes back from a shutdown.
ShutIsShut == \A s \in Shutdowns : stop'[s] = "idle" => stop[s] = "idle"

\* A job that goes on, or ends, leaves the flag and the stoppers alone.
LEMMA JobUndisturbed ==
  ASSUME TypeOK, Undisturbed, NEW j \in Jobs, WakeStep(j) \/ ValidateStep(j)
  PROVE  Undisturbed'
  <1>1. UNCHANGED <<stop, isEmpty, late>>
    BY DEF WakeStep, Begin, Progressed, FindsEnabled, FindsDisabled, WakeupAcquires, WakeupEnds,
       Connected, ConnectFails, ValidateStep, LookedUp, LookupFails, Validated, StoreEnds, End,
       queueVars
  <1>2. Active(j) /\ \E to \in JobStates : job' = [job EXCEPT ![j] = to]
    BY DEF WakeStep, Begin, Progressed, FindsEnabled, FindsDisabled, WakeupAcquires, WakeupEnds,
       Connected, ConnectFails, ValidateStep, LookedUp, LookupFails, Validated, StoreEnds, At, End,
       Active, JobStates, Over, Running, Served
  <1>3. \A k \in Jobs : Active(k)' => Active(k)
    BY <1>2 DEF Active, TypeOK
  <1>4. dry' = dry \/ \E how \in {"done", "failed"} : End(j, how)
    BY DEF WakeStep, Begin, Progressed, FindsEnabled, FindsDisabled, WakeupAcquires, WakeupEnds,
       Connected, ConnectFails, ValidateStep, LookedUp, LookupFails, Validated, StoreEnds, queueVars
  <1>5. ASSUME NEW how \in {"done", "failed"}, End(j, how), NEW k \in Jobs, Active(k)'
        PROVE  ~dry'
    <2>1. k # j
      BY <1>5 DEF End, Active, Over, TypeOK
    <2> QED
      BY <1>3, <1>5, <2>1 DEF End
  <1> SUFFICES ASSUME NEW k \in Jobs \ late', Active(k)'
               PROVE  ~isEmpty' /\ ~dry' /\ \A e \in Empties : stop'[e] \notin StopPhases
    BY DEF Undisturbed
  <1>6. ~isEmpty /\ ~dry /\ \A e \in Empties : stop[e] \notin StopPhases
    BY <1>1, <1>3 DEF Undisturbed
  <1>7. ~dry'
    BY <1>4, <1>5, <1>6
  <1> QED
    BY <1>1, <1>6, <1>7

\* A step of onEmpty() finds no such job; shutdown() touches neither flag nor onEmpty().
LEMMA StopUndisturbed ==
  ASSUME TypeOK, Undisturbed, NEW s \in Stoppers,
         (s \in Empties /\ EmptyStep(s)) \/ (s \in Shutdowns /\ Shutdown(s)) \/ StopStep(s)
  PROVE  Undisturbed'
  <1>1. UNCHANGED <<job, late>>
    BY DEF EmptyStep, OnEmpty, Closed, CloseFails, Shutdown, StopStep, PendingAcquires, PendingEnds,
       queueVars
  <1>2. CASE s \in Empties
    <2>1. dry \/ stop[s] \in StopPhases
      BY <1>2, ValidatorAssumption DEF EmptyStep, OnEmpty, Closed, CloseFails, StopStep,
         PendingAcquires, PendingEnds, StopPhases
    <2>2. \A j \in Jobs \ late : ~Active(j)
      BY <1>2, <2>1 DEF Undisturbed
    <2> QED
      BY <1>1, <2>2 DEF Undisturbed, Active
  <1>3. CASE s \notin Empties
    <2>1. Shutdown(s) \/ StopStep(s)
      BY <1>3
    <2>2. UNCHANGED <<isEmpty, dry>> /\ \A e \in Empties : stop'[e] = stop[e]
      BY <1>3, <2>1 DEF Shutdown, StopStep, PendingAcquires, PendingEnds, Pend, Finish, queueVars,
         TypeOK, Stoppers
    <2> QED
      BY <1>1, <2>2 DEF Undisturbed, Active
  <1> QED
    BY <1>2, <1>3

\* Every step keeps the flag and the stoppers away from the jobs pushed at a quiet time.
LEMMA UndisturbedStep == TypeOK /\ Undisturbed /\ [Next]_vars => Undisturbed'
  <1> SUFFICES ASSUME TypeOK, Undisturbed, [Next]_vars PROVE Undisturbed'
    OBVIOUS
  <1>1. ASSUME NEW j \in Jobs, Push(j) PROVE Undisturbed'
    <2>1. ~isEmpty' /\ ~dry' /\ UNCHANGED stop /\ job' = [job EXCEPT ![j] = "queued"]
      BY <1>1 DEF Push
    <2>2. CASE \E e \in Empties : stop[e] \in StopPhases
      <3>1. late' = late \cup {j} /\ \A k \in Jobs \ late : ~Active(k)
        BY <1>1, <2>2 DEF Push, Undisturbed
      <3>2. \A k \in Jobs \ late' : ~Active(k)'
        BY <2>1, <3>1 DEF Active, TypeOK
      <3> QED
        BY <3>2 DEF Undisturbed
    <2>3. CASE ~\E e \in Empties : stop[e] \in StopPhases
      BY <2>1, <2>3 DEF Undisturbed
    <2> QED
      BY <2>2, <2>3
  <1>2. CASE UNCHANGED <<job, stop, isEmpty, dry, late>>
    BY <1>2 DEF Undisturbed, Active
  <1>3. ASSUME (\E r \in Requests : Probe(r)) \/ (\E t \in Tasks : AskEmpty(t)) \/ UNCHANGED vars
        PROVE  UNCHANGED <<job, stop, isEmpty, dry, late>>
    BY <1>3 DEF Probe, AskEmpty, vars, queueVars
  <1>4. CASE \E s \in Empties : EmptyStep(s)
    BY <1>4, StopUndisturbed DEF Stoppers
  <1>5. CASE \E s \in Shutdowns : Shutdown(s)
    BY <1>5, StopUndisturbed DEF Stoppers
  <1>6. CASE \E s \in Stoppers : StopStep(s)
    BY <1>6, StopUndisturbed
  <1> QED
    BY <1>1, <1>2, <1>3, <1>4, <1>5, <1>6, JobUndisturbed DEF Next

\* The flag of isEmpty() never lies about a job that was not pushed while an onEmpty() was
\* under way, for any number of jobs, of calls of onEmpty() and of shutdown(), whenever
\* they come and whatever fails: what sets it wrongly is that window and nothing else.
THEOREM EmptyMeansEmpty == Spec => []EmptyFlagHonest
  <1>1. Init => Undisturbed
    BY DEF Init, Undisturbed, Active, Over
  <1>2. Undisturbed => EmptyFlagHonest
    BY DEF Undisturbed, EmptyFlagHonest
  <1> QED
    BY <1>1, <1>2, UndisturbedStep, TypeCorrect, PTL DEF Spec

\* A job on its way finds the judge awake, or wakes it, and takes it from nobody.
LEMMA JobAwake ==
  ASSUME TypeOK, JudgedAwake, NEW j \in Jobs, Push(j) \/ WakeStep(j) \/ ValidateStep(j)
  PROVE  JudgedAwake'
  <1> SUFFICES ASSUME \A s \in Shutdowns : stop'[s] = "idle",
                      NEW k \in Jobs \ late', job'[k] \in Served
               PROVE  enabled'
    BY DEF JudgedAwake
  <1>1. UNCHANGED stop /\ (enabled' \/ UNCHANGED enabled)
    <2>1. CASE WakeupAcquires(j)
      BY <2>1 DEF WakeupAcquires, Wakeup
    <2>2. CASE WakeupEnds(j)
      BY <2>2 DEF WakeupEnds, Started
    <2>3. CASE LookedUp(j)
      BY <2>3 DEF LookedUp, CreateRequests
    <2>4. ASSUME ~WakeupAcquires(j), ~WakeupEnds(j), ~LookedUp(j)
          PROVE  UNCHANGED <<stop, judgeVars>>
      BY <2>4 DEF Push, WakeStep, Begin, Progressed, FindsEnabled, FindsDisabled, Connected,
         ConnectFails, ValidateStep, LookupFails, Validated, StoreEnds
    <2> QED
      BY <2>1, <2>2, <2>3, <2>4 DEF judgeVars
  <1>2. (\A i \in Jobs \ {j} : job'[i] = job[i]) /\ (late' = late \/ job'[j] \notin Served)
    BY DEF Push, WakeStep, Begin, Progressed, FindsEnabled, FindsDisabled, WakeupAcquires,
       WakeupEnds, Connected, ConnectFails, ValidateStep, LookedUp, LookupFails, Validated,
       StoreEnds, At, End, queueVars, TypeOK, Served
  <1>3. job'[j] \in Served => enabled' \/ job[j] \in Served
    <2>1. CASE WakeupAcquires(j)
      BY <2>1 DEF WakeupAcquires, Wakeup
    <2>2. CASE FindsEnabled(j)
      BY <2>2 DEF FindsEnabled, judgeVars
    <2>3. ASSUME ~WakeupAcquires(j), ~FindsEnabled(j)
          PROVE  job'[j] \in Served => job[j] \in Served
      BY <2>3 DEF Push, WakeStep, Begin, Progressed, FindsDisabled, WakeupEnds, Connected,
         ConnectFails, ValidateStep, LookedUp, LookupFails, Validated, StoreEnds, At, End, TypeOK,
         Served
    <2> QED
      BY <2>1, <2>2, <2>3
  <1>4. k \notin late
    <2>1. CASE late' = late
      BY <2>1
    <2>2. CASE Push(j)
      <3>1. k # j
        BY <1>2, <2>2 DEF Push, TypeOK, Served
      <3> QED
        BY <2>2, <3>1 DEF Push
    <2>3. ~Push(j) => late' = late
      BY DEF WakeStep, Begin, Progressed, FindsEnabled, FindsDisabled, WakeupAcquires,
         WakeupEnds, Connected, ConnectFails, ValidateStep, LookedUp, LookupFails, Validated,
         StoreEnds, End, queueVars
    <2> QED
      BY <2>1, <2>2, <2>3
  <1>5. job[k] \in Served => enabled
    BY <1>1, <1>4 DEF JudgedAwake
  <1> QED
    BY <1>1, <1>2, <1>3, <1>5

\* Whoever disables the judge is an onEmpty() that no such job disturbs, or shutdown().
LEMMA StopAwake ==
  ASSUME TypeOK, Undisturbed, JudgedAwake, NEW s \in Stoppers,
         (s \in Empties /\ EmptyStep(s)) \/ (s \in Shutdowns /\ Shutdown(s)) \/ StopStep(s)
  PROVE  JudgedAwake'
  <1>1. UNCHANGED <<job, late>>
    BY DEF EmptyStep, OnEmpty, Closed, CloseFails, Shutdown, StopStep, PendingAcquires, PendingEnds,
       queueVars
  <1>2. ShutIsShut
    BY ValidatorAssumption DEF ShutIsShut, EmptyStep, OnEmpty, Closed, CloseFails, Shutdown, Pend,
       Finish, StopStep, PendingAcquires, PendingEnds, TypeOK, Stoppers
  <1>3. CASE UNCHANGED enabled
    BY <1>1, <1>2, <1>3 DEF JudgedAwake, ShutIsShut
  <1>4. CASE PendingAcquires(s) /\ s \in Empties
    <2>1. \A j \in Jobs \ late : ~Active(j)
      BY <1>4 DEF PendingAcquires, Undisturbed, StopPhases
    <2>2. \A j \in Jobs : job[j] \in Served => Active(j)
      BY DEF Active, Served, Over
    <2> QED
      BY <1>1, <2>1, <2>2 DEF JudgedAwake
  <1>5. CASE PendingAcquires(s) /\ s \notin Empties
    <2>1. s \in Shutdowns /\ stop'[s] # "idle"
      BY <1>5 DEF PendingAcquires, TypeOK, Stoppers
    <2> QED
      BY <2>1 DEF JudgedAwake
  <1>6. ~PendingAcquires(s) => UNCHANGED enabled
    BY DEF EmptyStep, OnEmpty, Closed, CloseFails, Shutdown, Pend, StopStep, PendingEnds, Stopped,
       judgeVars
  <1> QED
    BY <1>3, <1>4, <1>5, <1>6

\* Every step leaves the judge awake to the jobs pushed at a quiet time.
LEMMA AwakeStep == TypeOK /\ Undisturbed /\ JudgedAwake /\ [Next]_vars => JudgedAwake'
  <1> SUFFICES ASSUME TypeOK, Undisturbed, JudgedAwake, [Next]_vars PROVE JudgedAwake'
    OBVIOUS
  <1>1. CASE UNCHANGED <<job, stop, enabled, late>>
    BY <1>1 DEF JudgedAwake
  <1>2. ASSUME (\E r \in Requests : Probe(r)) \/ (\E t \in Tasks : AskEmpty(t)) \/ UNCHANGED vars
        PROVE  UNCHANGED <<job, stop, enabled, late>>
    BY <1>2 DEF Probe, RequestStep, Prepared, PrepareFails, OnJudge, JudgeSocketEnds, RequestEnds,
       Becomes, AskEmpty, vars, judgeVars, queueVars
  <1>3. CASE \E s \in Empties : EmptyStep(s)
    BY <1>3, StopAwake DEF Stoppers
  <1>4. CASE \E s \in Shutdowns : Shutdown(s)
    BY <1>4, StopAwake DEF Stoppers
  <1>5. CASE \E s \in Stoppers : StopStep(s)
    BY <1>5, StopAwake
  <1> QED
    BY <1>1, <1>2, <1>3, <1>4, <1>5, JobAwake DEF Next

\* Every job that got past isEnabled() keeps an awake judge until its last result, for any
\* number of jobs and calls of onEmpty(), whenever jobs arrive and whatever fails, unless
\* the job itself was pushed while an onEmpty() was under way or shutdown() was called.
THEOREM NobodyJudgedAsleep == Spec => []JudgedAwake
  <1>1. Init => Undisturbed /\ JudgedAwake
    BY DEF Init, Undisturbed, JudgedAwake, Active, Over, Served
  <1>2. TypeOK /\ Undisturbed /\ JudgedAwake /\ [Next]_vars => Undisturbed' /\ JudgedAwake'
    BY UndisturbedStep, AwakeStep
  <1> QED
    BY <1>1, <1>2, TypeCorrect, PTL DEF Spec

-----------------------------------------------------------------------------
(* What the validator is to those who wait *)

Shown == [j \in Jobs |-> IF Active(j) THEN "pending" ELSE job[j]]
Ending == {e \in Empties : stop[e] \in StopPhases}

\* A job that moves on is pending as before.
LEMMA MoveShown ==
  ASSUME TypeOK, NEW j \in Jobs, NEW from \in {"queued"} \cup Running, NEW to \in Running, At(j, from, to)
  PROVE  UNCHANGED Shown
  <1>1. \A k \in Jobs : job'[k] = IF k = j THEN to ELSE job[k]
    BY DEF At, TypeOK
  <1>2. Active(j) /\ Active(j)' /\ \A k \in Jobs \ {j} : Active(k)' = Active(k)
    BY <1>1 DEF At, Active, Over, Running, Served
  <1> QED
    BY <1>1, <1>2 DEF Shown

\* The end of a job settles it.
LEMMA EndShown ==
  ASSUME TypeOK, NEW j \in Jobs, job[j] \in Running, NEW how \in {"done", "failed"}, End(j, how),
         UNCHANGED stop
  PROVE  Queue!Settle(j, how)
  <1>1. \A k \in Jobs : job'[k] = IF k = j THEN how ELSE job[k]
    BY DEF End, TypeOK
  <1>2. Active(j) /\ ~Active(j)' /\ \A k \in Jobs \ {j} : Active(k)' = Active(k)
    BY <1>1 DEF Active, Over, Running, Served
  <1>3. Shown' = [Shown EXCEPT ![j] = how]
    BY <1>1, <1>2 DEF Shown
  <1>4. {k \in Jobs : Shown[k] = "pending"} = {k \in Jobs : Active(k)}
    BY DEF Shown, Active, Over
  <1>5. dry' = ({k \in Jobs : Shown[k] = "pending"} \subseteq {j})
    BY <1>4 DEF End
  <1>6. UNCHANGED <<Ending, isEmpty, rejected, task>>
    BY DEF End, Ending
  <1>7. Shown[j] = "pending"
    BY <1>2 DEF Shown
  <1> QED
    BY <1>3, <1>5, <1>6, <1>7 DEF Queue!Settle, Queue!Pending, Shown, Ending

\* The end of onEmpty() wakes those who wait; that of shutdown() strands them.
LEMMA FinishShown ==
  ASSUME TypeOK, NEW s \in Stoppers, Finish(s)
  PROVE  /\ s \in Empties => /\ isEmpty' /\ ~rejected'
                            /\ Queue!Wake("resolved") /\ Ending' = Ending \ {s}
         /\ s \notin Empties => /\ isEmpty' = isEmpty /\ rejected' = rejected
                               /\ Queue!Wake("stranded") /\ Ending' = Ending
  <1>1. /\ isEmpty' = (isEmpty \/ s \in Empties) /\ isEmpty \in BOOLEAN
        /\ rejected' = (rejected /\ s \notin Empties) /\ rejected \in BOOLEAN
    BY DEF Finish, TypeOK
  <1>2. Queue!Wake(IF s \in Empties THEN "resolved" ELSE "stranded")
    BY DEF Finish, Queue!Wake
  <1>3. \A e \in Stoppers : stop'[e] = IF e # s THEN stop[e] ELSE IF s \in Empties THEN "idle" ELSE "over"
    BY DEF Finish, TypeOK
  <1>4. Ending' = Ending \ {s}
    BY <1>3 DEF Ending, StopPhases, Stoppers
  <1>5. s \notin Empties => Ending \ {s} = Ending
    BY DEF Ending
  <1> QED
    BY <1>1, <1>2, <1>4, <1>5

\* pending() of an onEmpty() that has closed the connection ends it or goes on with it.
LEMMA PendShown ==
  ASSUME TypeOK, NEW s \in Stoppers, Pend(s)
  PROVE  \/ Finish(s)
         \/ /\ UNCHANGED <<isEmpty, task, rejected>>
            /\ Ending' = (IF s \in Empties THEN Ending \cup {s} ELSE Ending)
  <1>1. CASE enabled
    <2>1. \A e \in Stoppers : stop'[e] = IF e = s THEN "acquiring" ELSE stop[e]
      BY <1>1 DEF Pend, TypeOK
    <2>2. Ending' = (IF s \in Empties THEN Ending \cup {s} ELSE Ending)
      BY <2>1 DEF Ending, StopPhases, Stoppers
    <2> QED
      BY <1>1, <2>2 DEF Pend
  <1>2. CASE ~enabled
    BY <1>2 DEF Pend
  <1> QED
    BY <1>1, <1>2

\* The steps of the jobs.
LEMMA JobImplements ==
  ASSUME TypeOK, NEW j \in Jobs, Push(j) \/ WakeStep(j) \/ ValidateStep(j)
  PROVE  Queue!Next \/ UNCHANGED <<Shown, dry, Ending, isEmpty, rejected, task>>
  <1>1. CASE Push(j)
    <2>1. \A k \in Jobs : job'[k] = IF k = j THEN "queued" ELSE job[k]
      BY <1>1 DEF Push, TypeOK
    <2>2. ~Active(j) /\ Active(j)' /\ \A k \in Jobs \ {j} : Active(k)' = Active(k)
      BY <1>1, <2>1 DEF Push, Active, Over
    <2>3. Shown[j] # "pending" /\ Shown' = [Shown EXCEPT ![j] = "pending"]
      BY <2>1, <2>2 DEF Shown, Active, Over
    <2>4. /\ UNCHANGED <<Ending, task>> /\ ~isEmpty' /\ ~dry' /\ ~rejected'
          /\ isEmpty' \in BOOLEAN /\ dry' \in BOOLEAN /\ rejected' \in BOOLEAN
      BY <1>1 DEF Push, Ending
    <2>5. Queue!Push(j)
      BY <1>1, <2>3, <2>4 DEF Push, Queue!Push, Shown, Ending
    <2> QED
      BY <2>5 DEF Queue!Next
  <1>2. ASSUME NEW from \in {"queued"} \cup Running, NEW to \in Running, At(j, from, to),
               UNCHANGED <<stop, queueVars>>
        PROVE  UNCHANGED <<Shown, dry, Ending, isEmpty, rejected, task>>
    BY <1>2, MoveShown DEF queueVars, Ending
  <1>3. ASSUME job[j] \in Running, NEW how \in {"done", "failed"}, End(j, how), UNCHANGED stop
        PROVE  Queue!Next
    BY <1>3, EndShown DEF Queue!Next
  <1>4. ASSUME \/ Begin(j) \/ Progressed(j) \/ FindsEnabled(j) \/ FindsDisabled(j)
               \/ WakeupAcquires(j) \/ WakeupEnds(j) \/ Connected(j) \/ LookedUp(j)
               \/ At(j, "probing", "storing") /\ UNCHANGED <<stop, queueVars>>
        PROVE  UNCHANGED <<Shown, dry, Ending, isEmpty, rejected, task>>
    <2>1. \E from \in {"queued"} \cup Running, to \in Running : At(j, from, to) /\ UNCHANGED <<stop, queueVars>>
      BY <1>4 DEF Begin, Progressed, FindsEnabled, FindsDisabled, WakeupAcquires, WakeupEnds,
         Connected, LookedUp, Running, Served
    <2> QED
      BY <1>2, <2>1
  <1>5. ASSUME ConnectFails(j) \/ LookupFails(j) \/ StoreEnds(j)
        PROVE  Queue!Next
    <2>1. \E how \in {"done", "failed"} : End(j, how) /\ UNCHANGED stop /\ job[j] \in Running
      BY <1>5 DEF ConnectFails, LookupFails, StoreEnds, Running, Served
    <2> QED
      BY <1>3, <2>1
  <1>6. CASE Validated(j)
    <2>1. \/ \E how \in {"done", "failed"} : End(j, how) /\ UNCHANGED stop /\ job[j] \in Running
          \/ At(j, "probing", "storing") /\ UNCHANGED <<stop, queueVars>>
      BY <1>6 DEF Validated, Running, Served
    <2> QED
      BY <1>3, <1>4, <2>1
  <1> QED
    BY <1>1, <1>4, <1>5, <1>6 DEF WakeStep, ValidateStep

\* The steps of onEmpty() and shutdown().
LEMMA StopImplements ==
  ASSUME TypeOK, NEW s \in Stoppers,
         (s \in Empties /\ EmptyStep(s)) \/ (s \in Shutdowns /\ Shutdown(s)) \/ StopStep(s)
  PROVE  Queue!Next \/ UNCHANGED <<Shown, dry, Ending, isEmpty, rejected, task>>
  <1>0. UNCHANGED job => UNCHANGED Shown
    BY DEF Shown, Active
  <1>t. dry \in BOOLEAN /\ isEmpty \in BOOLEAN /\ rejected \in BOOLEAN
    BY DEF TypeOK
  <1>1. CASE s \in Empties /\ OnEmpty(s)
    <2>1. /\ dry /\ s \notin Ending /\ ~dry' /\ dry' \in BOOLEAN /\ UNCHANGED Shown
      BY <1>0, <1>1 DEF OnEmpty, Ending, StopPhases
    <2>2. ASSUME UNCHANGED <<isEmpty, task, rejected>>, Ending' = Ending \cup {s}
          PROVE  Queue!OnEmpty(s)
      BY <2>1, <2>2 DEF Queue!OnEmpty, Shown, Ending
    <2>3. ASSUME Finish(s)
          PROVE  Queue!EmptyAtOnce(s)
      <3>1. /\ isEmpty' /\ isEmpty' \in BOOLEAN /\ ~rejected' /\ rejected' \in BOOLEAN
            /\ Queue!Wake("resolved") /\ Ending' = Ending
        BY <1>1, <1>t, <2>1, <2>3, FinishShown DEF Finish
      <3> QED
        BY <2>1, <3>1 DEF Queue!EmptyAtOnce, Shown, Ending
    <2>4. CASE connected
      <3>1. \A e \in Stoppers : stop'[e] = IF e = s THEN "closing" ELSE stop[e]
        BY <1>1, <2>4 DEF OnEmpty, TypeOK
      <3>2. UNCHANGED <<isEmpty, task, rejected>> /\ Ending' = Ending \cup {s}
        BY <1>1, <2>4, <3>1 DEF OnEmpty, Ending, StopPhases, Stoppers
      <3> QED
        BY <1>1, <2>2, <3>2 DEF Queue!Next
    <2>5. CASE ~connected
      <3>1. Pend(s)
        BY <1>1, <2>5 DEF OnEmpty
      <3> QED
        BY <1>1, <2>2, <2>3, <3>1, PendShown DEF Queue!Next
    <2> QED
      BY <2>4, <2>5
  <1>2. CASE s \in Empties /\ Closed(s)
    <2>1. s \in Ending /\ UNCHANGED <<Shown, dry>> /\ Pend(s)
      BY <1>0, <1>2 DEF Closed, Ending, StopPhases
    <2>2. ASSUME Finish(s)
          PROVE  Queue!EmptyFinished(s)
      <3>1. /\ isEmpty' /\ isEmpty' \in BOOLEAN /\ ~rejected' /\ rejected' \in BOOLEAN
            /\ Queue!Wake("resolved") /\ Ending' = Ending \ {s}
        BY <1>2, <1>t, <2>2, FinishShown DEF Finish
      <3> QED
        BY <2>1, <3>1 DEF Queue!EmptyFinished, Shown, Ending
    <2>3. s \in Ending => Ending \cup {s} = Ending
      OBVIOUS
    <2> QED
      BY <1>2, <2>1, <2>2, <2>3, PendShown DEF Queue!Next
  <1>3. CASE s \in Shutdowns /\ Shutdown(s)
    <2>1. s \notin Empties /\ UNCHANGED <<Shown, dry>> /\ Pend(s)
      BY <1>0, <1>3, ValidatorAssumption DEF Shutdown
    <2>2. ASSUME Finish(s)
          PROVE  Queue!Close
      BY <2>1, <2>2, FinishShown DEF Queue!Close, Shown, Ending
    <2> QED
      BY <2>1, <2>2, PendShown DEF Queue!Next
  <1>4. CASE PendingAcquires(s)
    <2>1. \A e \in Stoppers : stop'[e] = IF e = s THEN "stopping" ELSE stop[e]
      BY <1>4 DEF PendingAcquires, TypeOK
    <2>2. Ending' = Ending
      BY <1>4, <2>1 DEF PendingAcquires, Ending, StopPhases, Stoppers
    <2> QED
      BY <1>0, <1>4, <2>2 DEF PendingAcquires, queueVars
  <1>5. CASE PendingEnds(s)
    <2>1. stop[s] = "stopping" /\ Finish(s) /\ UNCHANGED <<Shown, dry>>
      BY <1>0, <1>5 DEF PendingEnds
    <2>2. CASE s \in Empties
      <3>1. s \in Ending
        BY <2>1, <2>2 DEF Ending, StopPhases
      <3>2. /\ isEmpty' /\ isEmpty' \in BOOLEAN /\ ~rejected' /\ rejected' \in BOOLEAN
            /\ Queue!Wake("resolved") /\ Ending' = Ending \ {s}
        BY <1>t, <2>1, <2>2, FinishShown DEF Finish
      <3>3. Queue!EmptyFinished(s)
        BY <2>1, <3>1, <3>2 DEF Queue!EmptyFinished, Shown, Ending
      <3> QED
        BY <2>2, <3>3 DEF Queue!Next
    <2>3. CASE s \notin Empties
      <3>1. Queue!Close
        BY <2>1, <2>3, FinishShown DEF Queue!Close, Shown, Ending
      <3> QED
        BY <3>1 DEF Queue!Next
    <2> QED
      BY <2>2, <2>3
  <1>6. CASE s \in Empties /\ CloseFails(s)
    <2>1. s \in Ending /\ UNCHANGED <<Shown, dry, isEmpty, task>>
      BY <1>0, <1>6 DEF CloseFails, Ending, StopPhases
    <2>2. rejected' = TRUE
      BY <1>6 DEF CloseFails
    <2>3. \A e \in Stoppers : stop'[e] = IF e = s THEN "idle" ELSE stop[e]
      BY <1>6 DEF CloseFails, TypeOK
    <2>4. Ending' = Ending \ {s}
      BY <2>3 DEF Ending, StopPhases, Stoppers
    <2>5. Queue!EmptyRejects(s)
      BY <2>1, <2>2, <2>4 DEF Queue!EmptyRejects, Shown, Ending
    <2> QED
      BY <1>6, <2>5 DEF Queue!Next
  <1> QED
    BY <1>1, <1>2, <1>3, <1>4, <1>5, <1>6 DEF EmptyStep, StopStep

\* Whatever fails and whenever jobs arrive, to those who push and wait the validator
\* is the queue they are promised: isEmpty() resolves at the end of an onEmpty() that
\* began with no job left and closed the connection, or while the flag such an end has
\* set still stands.
THEOREM ImplementsValidatorQueue == Spec => QueueSpec
  <1>1. Init => Queue!Init
    <2> SUFFICES ASSUME Init PROVE Queue!Init
      OBVIOUS
    <2>1. Shown = [j \in Jobs |-> "none"]
      BY DEF Init, Shown, Active, Over
    <2>2. Ending = {}
      BY DEF Init, Ending, StopPhases, Stoppers
    <2> QED
      BY <2>1, <2>2 DEF Init, Queue!Init, Shown, Ending
  <1>2. TypeOK /\ [Next]_vars => [Queue!Next]_(Queue!vars)
    <2> SUFFICES ASSUME TypeOK, [Next]_vars PROVE Queue!Next \/ UNCHANGED Queue!vars
      OBVIOUS
    <2>1. UNCHANGED <<Shown, dry, Ending, isEmpty, rejected, task>> => UNCHANGED Queue!vars
      BY DEF Queue!vars, Shown, Ending
    <2>2. ASSUME NEW r \in Requests, Probe(r)
          PROVE  UNCHANGED <<Shown, dry, Ending, isEmpty, rejected, task>>
      BY <2>2 DEF Probe, Shown, Ending, Active, queueVars
    <2>3. ASSUME NEW t \in Tasks, AskEmpty(t)
          PROVE  Queue!Next
      <3>1. UNCHANGED <<Shown, dry, Ending, isEmpty, rejected>>
        BY <2>3 DEF AskEmpty, Shown, Ending, Active
      <3>2. Queue!Ask(t)
        BY <2>3, <3>1 DEF AskEmpty, Queue!Ask, Shown, Ending
      <3> QED
        BY <3>2 DEF Queue!Next
    <2>4. CASE UNCHANGED vars
      BY <2>1, <2>4 DEF vars, queueVars, Shown, Ending, Active
    <2>5. ASSUME NEW j \in Jobs, Push(j) \/ WakeStep(j) \/ ValidateStep(j)
          PROVE  Queue!Next \/ UNCHANGED Queue!vars
      BY <2>1, <2>5, JobImplements
    <2>6. ASSUME NEW s \in Stoppers,
                 (s \in Empties /\ EmptyStep(s)) \/ (s \in Shutdowns /\ Shutdown(s)) \/ StopStep(s)
          PROVE  Queue!Next \/ UNCHANGED Queue!vars
      BY <2>1, <2>6, StopImplements
    <2> QED
      <3>1. CASE \E s \in Empties : EmptyStep(s)
        BY <2>6, <3>1 DEF Stoppers
      <3>2. CASE \E s \in Shutdowns : Shutdown(s)
        BY <2>6, <3>2 DEF Stoppers
      <3>3. CASE \E s \in Stoppers : StopStep(s)
        BY <2>6, <3>3
      <3> QED
        BY <2>1, <2>2, <2>3, <2>4, <2>5, <3>1, <3>2, <3>3 DEF Next
  <1> QED
    BY <1>1, <1>2, TypeCorrect, PTL DEF Spec, QueueSpec, Queue!Spec
=============================================================================

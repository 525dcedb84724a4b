--------------------------- MODULE ProxyValidator ---------------------------
(***************************************************************************)
(* The validator of src/libs/proxy/ProxyValidator.ts: the jobs of its      *)
(* queue wake the judge, open the storage connection, let the judge send   *)
(* its requests through the proxy and store the results; when the queue    *)
(* runs dry onEmpty() closes the connection and puts the judge to sleep.   *)
(*                                                                         *)
(* Init is the state after prepare(), which Startup awaits.  The queue     *)
(* (@typexs/base) is external: push() queues a job, a free slot begins it, *)
(* and onEmpty() is called some time after the last job ended, unless a    *)
(* new one came first.  What a job stores is left out.                     *)
(***************************************************************************)
EXTENDS Judge

CONSTANTS
  Parallel,   \* options.parallel
  SkipFailed, \* options.skipFailed
  PushDuring, \* the phases of onEmpty() and shutdown() during which jobs arrive
  Tasks,      \* callers of isEmpty(): ProxyValidateTask
  MaxPushes   \* bound: calls of push()

StopPhases == {"closing", "acquiring", "stopping"}

ASSUME ValidatorAssumption ==
  /\ Jobs \cap Stoppers = {}
  /\ Empties \cap Shutdowns = {}
  /\ Faults \subseteq {"servers", "storage", "lookup"}
  /\ SkipFailed \in BOOLEAN
  /\ PushDuring \subseteq StopPhases
  /\ Parallel \in Nat \ {0}
  /\ MaxPushes \in Nat

VARIABLES
  job,       \* the await do() stands at, per job
  stop,      \* the await onEmpty() or shutdown() stands at
  connected, \* this.connection is set
  isEmpty,   \* this._isEmpty
  dry,       \* the queue is about to call onEmpty()
  task,      \* callers of isEmpty()
  pushes,    \* calls of push() so far
  late,      \* history: jobs pushed while an onEmpty() was under way
  rejected   \* history: the last onEmpty() to end has rejected, and no job came since

queueVars == <<isEmpty, dry, task, pushes, late, rejected>>
vars == <<judgeVars, job, stop, connected, queueVars>>

Served == {"starting", "connecting", "lookup", "probing", "storing"}
Running == {"awaiting", "checking", "acquiring"} \cup Served
Over == {"none", "done", "failed"}
JobStates == Over \cup {"queued"} \cup Running

Active(j) == job[j] \notin Over
NoJob == \A j \in Jobs : ~Active(j)

Init ==
  /\ JudgeInit
  /\ job = [j \in Jobs |-> "none"]
  /\ stop = [s \in Stoppers |-> "idle"]
  /\ connected = FALSE
  /\ isEmpty = TRUE
  /\ dry = FALSE
  /\ task = [t \in Tasks |-> "none"]
  /\ pushes = 0
  /\ late = {}
  /\ rejected = FALSE

At(j, from, to) == job[j] = from /\ job' = [job EXCEPT ![j] = to]

\* Mutant: the queue runs dry when nobody runs, whatever it still holds.
EndUnqueued(j, how) ==
  /\ job' = [job EXCEPT ![j] = how]
  /\ dry' = \A k \in Jobs \ {j} : job[k] \notin Running
  /\ UNCHANGED <<isEmpty, task, pushes, late, rejected>>

\* The job's promise settles and the queue looks for more work.
End(j, how) ==
  /\ job' = [job EXCEPT ![j] = how]
  /\ dry' = \A k \in Jobs \ {j} : ~Active(k)
  /\ UNCHANGED <<isEmpty, task, pushes, late, rejected>>

-----------------------------------------------------------------------------
(* Jobs *)

\* validate(), run() and the task push a proxy; shutdown() ends the subscription.
Push(j) ==
  /\ ~Active(j)
  /\ pushes < MaxPushes
  /\ \A s \in Stoppers : stop[s] \in {"idle"} \cup PushDuring
  /\ job' = [job EXCEPT ![j] = "queued"]
  /\ isEmpty' = FALSE
  /\ dry' = FALSE
  /\ pushes' = pushes + 1
  /\ late' = IF \E e \in Empties : stop[e] \in StopPhases THEN late \cup {j} ELSE late \ {j}
  /\ rejected' = FALSE
  /\ UNCHANGED <<judgeVars, stop, connected, task>>

\* The queue calls do(), which waits for progressing().
Begin(j) ==
  /\ Cardinality({k \in Jobs : job[k] \in Running}) < Parallel
  /\ At(j, "queued", "awaiting")
  /\ UNCHANGED <<judgeVars, stop, connected, queueVars>>

\* Others may take the semaphore before do() goes on.
Progressed(j) ==
  /\ Idle
  /\ At(j, "awaiting", "checking")
  /\ UNCHANGED <<judgeVars, stop, connected, queueVars>>

FindsEnabled(j) ==
  /\ enabled
  /\ At(j, "checking", "lookup")
  /\ UNCHANGED <<judgeVars, stop, connected, queueVars>>

FindsDisabled(j) ==
  /\ ~enabled
  /\ At(j, "checking", "acquiring")
  /\ UNCHANGED <<judgeVars, stop, connected, queueVars>>

WakeupAcquires(j) ==
  /\ At(j, "acquiring", "starting")
  /\ Wakeup(j)
  /\ UNCHANGED <<stop, connected, queueVars>>

WakeupEnds(j) ==
  /\ At(j, "starting", "connecting")
  /\ Started(j)
  /\ UNCHANGED <<stop, connected, queueVars>>

Connected(j) ==
  /\ At(j, "connecting", "lookup")
  /\ connected' = TRUE
  /\ UNCHANGED <<judgeVars, stop, queueVars>>

\* The judge stays awake without a connection.
ConnectFails(j) ==
  /\ "storage" \in Faults
  /\ job[j] = "connecting"
  /\ End(j, "failed")
  /\ UNCHANGED <<judgeVars, stop, connected>>

LookedUp(j) ==
  /\ At(j, "lookup", "probing")
  /\ CreateRequests(j)
  /\ UNCHANGED <<stop, connected, queueVars>>

LookupFails(j) ==
  /\ "lookup" \in Faults
  /\ job[j] = "lookup"
  /\ End(j, "failed")
  /\ UNCHANGED <<judgeVars, stop, connected>>

HasSuccess(j) == \E v \in Variants : req[<<j, v>>] = "ok"

\* Mutant: a request without a result is not an outcome.
ValidatedByResults(j) ==
  /\ job[j] = "probing"
  /\ \A v \in Variants : req[<<j, v>>] \in {"ok", "failed"}
  /\ \/ SkipFailed /\ ~HasSuccess(j) /\ End(j, "done")
     \/ (SkipFailed => HasSuccess(j)) /\ ~connected /\ End(j, "failed")
     \/ /\ SkipFailed => HasSuccess(j)
        /\ connected
        /\ At(j, "probing", "storing")
        /\ UNCHANGED queueVars
  /\ UNCHANGED <<judgeVars, stop, connected>>

\* The four requests have settled; store() needs the connection there is now.
Validated(j) ==
  /\ job[j] = "probing"
  /\ \A v \in Variants : req[<<j, v>>] \in Settled
  /\ \/ SkipFailed /\ ~HasSuccess(j) /\ End(j, "done")
     \/ (SkipFailed => HasSuccess(j)) /\ ~connected /\ End(j, "failed")
     \/ /\ SkipFailed => HasSuccess(j)
        /\ connected
        /\ At(j, "probing", "storing")
        /\ UNCHANGED queueVars
  /\ UNCHANGED <<judgeVars, stop, connected>>

StoreEnds(j) ==
  /\ job[j] = "storing"
  /\ \E how \in {"done"} \cup (IF "storage" \in Faults THEN {"failed"} ELSE {}) : End(j, how)
  /\ UNCHANGED <<judgeVars, stop, connected>>

-----------------------------------------------------------------------------
(* onEmpty(), shutdown() and isEmpty() *)

\* Mutant: onEmpty() sets the flag and emits nothing.
FinishUnheard(s) ==
  /\ stop' = [stop EXCEPT ![s] = IF s \in Empties THEN "idle" ELSE "over"]
  /\ isEmpty' = (isEmpty \/ s \in Empties)
  /\ rejected' = (rejected /\ s \notin Empties)
  /\ UNCHANGED task

\* Mutant: shutdown() ends as onEmpty() does.
FinishFlagged(s) ==
  /\ stop' = [stop EXCEPT ![s] = IF s \in Empties THEN "idle" ELSE "over"]
  /\ isEmpty' = TRUE
  /\ rejected' = (rejected /\ s \notin Empties)
  /\ task' = [t \in Tasks |->
                IF task[t] # "waiting" THEN task[t]
                ELSE IF s \in Empties THEN "resolved" ELSE "stranded"]

\* onEmpty() emits E_EMPTY_FINISHED; shutdown() removes the listeners instead.
Finish(s) ==
  /\ stop' = [stop EXCEPT ![s] = IF s \in Empties THEN "idle" ELSE "over"]
  /\ isEmpty' = (isEmpty \/ s \in Empties)
  /\ rejected' = (rejected /\ s \notin Empties)
  /\ task' = [t \in Tasks |->
                IF task[t] # "waiting" THEN task[t]
                ELSE IF s \in Empties THEN "resolved" ELSE "stranded"]

\* pending(), up to the semaphore.
Pend(s) ==
  \/ /\ enabled
     /\ stop' = [stop EXCEPT ![s] = "acquiring"]
     /\ ClearCache
     /\ UNCHANGED <<enabled, listening, lock, isEmpty, task, rejected>>
  \/ ~enabled /\ Finish(s) /\ UNCHANGED judgeVars

\* Mutant: without a connection there is nothing to do.
OnEmptyConnected(s) ==
  /\ dry
  /\ stop[s] = "idle"
  /\ dry' = FALSE
  /\ IF connected THEN stop' = [stop EXCEPT ![s] = "closing"] ELSE UNCHANGED stop
  /\ UNCHANGED <<judgeVars, job, connected, isEmpty, task, pushes, late, rejected>>

OnEmpty(s) ==
  /\ dry
  /\ stop[s] = "idle"
  /\ dry' = FALSE
  /\ \/ /\ connected
        /\ stop' = [stop EXCEPT ![s] = "closing"]
        /\ UNCHANGED <<judgeVars, isEmpty, task, rejected>>
     \/ ~connected /\ Pend(s)
  /\ UNCHANGED <<job, connected, pushes, late>>

Closed(s) ==
  /\ stop[s] = "closing"
  /\ connected' = FALSE
  /\ Pend(s)
  /\ UNCHANGED <<job, dry, pushes, late>>

\* close() rejects, and onEmpty() with it: the connection stays set, the judge awake,
\* and whoever waits for the validator to be empty is told nothing.
CloseFails(s) ==
  /\ "storage" \in Faults
  /\ stop[s] = "closing"
  /\ stop' = [stop EXCEPT ![s] = "idle"]
  /\ rejected' = TRUE
  /\ UNCHANGED <<judgeVars, job, connected, isEmpty, dry, task, pushes, late>>

Shutdown(s) ==
  /\ stop[s] = "idle"
  /\ Pend(s)
  /\ UNCHANGED <<job, connected, dry, pushes, late>>

PendingAcquires(s) ==
  /\ stop[s] = "acquiring"
  /\ stop' = [stop EXCEPT ![s] = "stopping"]
  /\ Disable(s)
  /\ UNCHANGED <<job, connected, queueVars>>

PendingEnds(s) ==
  /\ stop[s] = "stopping"
  /\ Stopped(s)
  /\ Finish(s)
  /\ UNCHANGED <<job, connected, dry, pushes, late>>

\* isEmpty() resolves at once or waits for E_EMPTY_FINISHED.
AskEmpty(t) ==
  /\ task[t] = "none"
  /\ task' = [task EXCEPT ![t] = IF isEmpty THEN "resolved" ELSE "waiting"]
  /\ UNCHANGED <<judgeVars, job, stop, connected, isEmpty, dry, pushes, late, rejected>>

-----------------------------------------------------------------------------

ValidateStep(j) ==
  \/ LookedUp(j)
  \/ LookupFails(j)
  \/ Validated(j)
  \/ StoreEnds(j)

WakeStep(j) ==
  \/ Begin(j)
  \/ Progressed(j)
  \/ FindsEnabled(j)
  \/ FindsDisabled(j)
  \/ WakeupAcquires(j)
  \/ WakeupEnds(j)
  \/ Connected(j)
  \/ ConnectFails(j)

StopStep(s) == PendingAcquires(s) \/ PendingEnds(s)

EmptyStep(s) == OnEmpty(s) \/ Closed(s) \/ CloseFails(s)

Probe(r) == RequestStep(r) /\ UNCHANGED <<job, stop, connected, queueVars>>

Next ==
  \/ \E j \in Jobs : Push(j) \/ WakeStep(j) \/ ValidateStep(j)
  \/ \E r \in Requests : Probe(r)
  \/ \E s \in Empties : EmptyStep(s)
  \/ \E s \in Shutdowns : Shutdown(s)
  \/ \E s \in Stoppers : StopStep(s)
  \/ \E t \in Tasks : AskEmpty(t)

Spec == Init /\ [][Next]_vars

\* Promises of the servers, the storage and the lookup settle, the queue runs what
\* it holds, and a request through a proxy ends, by its timeout at the latest.
Fairness ==
  /\ \A j \in Jobs : WF_vars(WakeStep(j)) /\ WF_vars(ValidateStep(j))
  /\ \A r \in Requests :
       WF_vars(Probe(r) /\ (Prepared(r) \/ PrepareFails(r) \/ RequestEnds(r)))
  /\ WF_vars(\E s \in Empties : OnEmpty(s))
  /\ \A s \in Stoppers : WF_vars(Closed(s) \/ CloseFails(s) \/ StopStep(s))

FairSpec == Spec /\ Fairness

-----------------------------------------------------------------------------
(* Properties *)

\* Every variable has its type (the fields of Judge and ProxyValidator).
TypeOK ==
  /\ JudgeTypeOK
  /\ job \in [Jobs -> JobStates]
  /\ stop \in [Stoppers -> {"idle", "over"} \cup StopPhases]
  /\ connected \in BOOLEAN
  /\ isEmpty \in BOOLEAN
  /\ dry \in BOOLEAN
  /\ task \in [Tasks -> {"none", "waiting", "resolved", "stranded"}]
  /\ pushes \in 0 .. MaxPushes
  /\ late \subseteq Jobs
  /\ rejected \in BOOLEAN

\* Whoever wakes and whoever stops the judge, and in whatever order they got there,
\* its servers listen exactly when it says so, once nobody is changing that.
ServersFollowFlag == Idle /\ "servers" \notin Faults => (listening <=> enabled)

\* A job that is between the check of isEnabled() and its last result has a judge that
\* is awake, whatever fails and however many jobs and calls of onEmpty() there are -
\* unless the job was pushed while an onEmpty() was under way, or shutdown() is called.
JudgedAwake ==
  (\A s \in Shutdowns : stop[s] = "idle") =>
    \A j \in Jobs \ late : job[j] \in Served => enabled

\* _isEmpty is set, and isEmpty() resolves at once, while jobs are left only if every
\* one of them was pushed while an onEmpty() was under way: about any other job the
\* flag never lies, whenever others arrive, fail or shut down.
EmptyFlagHonest == isEmpty => \A j \in Jobs : Active(j) => j \in late

\* The work notes: the judge is stopped when no job is running or newly submitted.
StopsOnlyIdle == [][enabled /\ ~enabled' => NoJob]_vars

Phase ==
  IF Idle THEN (IF enabled THEN "awake" ELSE "asleep")
          ELSE (IF enabled THEN "waking" ELSE "falling")

Service == INSTANCE JudgeService WITH
  phase <- Phase, served <- {j \in Jobs : job[j] \in Served}

\* Jobs and onEmpty() use the judge as JudgeService says.
ServiceSpec == Service!Spec

\* To those who push and wait, jobs and onEmpty() are a ValidatorQueue, whatever
\* fails and whenever jobs arrive: in particular _isEmpty is set, and the waiting
\* tasks go on, only at the end of an onEmpty() that began with no job left and could
\* close the connection.
Queue == INSTANCE ValidatorQueue WITH
  job <- [j \in Jobs |-> IF Active(j) THEN "pending" ELSE job[j]],
  emptying <- {e \in Empties : stop[e] \in StopPhases},
  Askers <- Tasks, asker <- task

QueueSpec == Queue!Spec

\* The semaphore is held exactly by the job that starts the servers or by the call
\* that stops them: whoever has to wait waits for somebody who is about to release it.
HolderActs ==
  lock = {j \in Jobs : job[j] = "starting"} \cup {s \in Stoppers : stop[s] = "stopping"}

\* isEmpty() leaves a task waiting only as long as there is something to wake it: a
\* job that has still to end, the call of onEmpty() that is due, or one under way.
\* Only an onEmpty() that could not close the connection leaves it without, until the
\* next job is pushed.
NobodyForgotten ==
  \A t \in Tasks : task[t] = "waiting" =>
    /\ ~isEmpty
    /\ ~NoJob \/ dry \/ (\E e \in Empties : stop[e] \in StopPhases) \/ rejected

\* The judge stays awake only as long as somebody is going to see to its sleep: a job
\* that has still to end, the call of onEmpty() that is due, or a stopper under way.
\* Only an onEmpty() that could not close the connection leaves it awake without, until
\* the next job is pushed.
NeverLeftAwake ==
  enabled => ~NoJob \/ dry \/ (\E s \in Stoppers : stop[s] \in StopPhases) \/ rejected

\* No job loses a request to the clearing of the cache, and the judge knows every
\* request that may still come back to it.
RequestsKept ==
  /\ \A r \in Requests : req[r] # "lost"
  /\ \A r \in Requests : req[r] \in {"preparing", "probing"} => r \in cache

\* store() has a connection until it is done, whoever closes and opens it.
StoresConnected == \A j \in Jobs : job[j] = "storing" => connected

\* What has to happen next for a job is due: a slot or the semaphore is free, its
\* requests have settled or are under way, or a promise of its own is to settle.
Due(j) ==
  \/ job[j] = "queued" /\ Cardinality({k \in Jobs : job[k] \in Running}) < Parallel
  \/ job[j] \in {"awaiting", "acquiring"} /\ Idle
  \/ job[j] = "probing" /\ \A v \in Variants : req[<<j, v>>] \notin {"none", "lost"}
  \/ job[j] \in {"checking", "starting", "connecting", "lookup", "storing"}

\* The jobs never all wait for one another: while one is left, one of them is due, or
\* a call that stops the servers is about to release the semaphore.
JobsNeverStuck == ~NoJob => (\E j \in Jobs : Due(j)) \/ \E s \in Stoppers : stop[s] = "stopping"

\* Nobody waits for the semaphore for ever, whatever fails.
LockServed ==
  /\ \A j \in Jobs : job[j] \in {"awaiting", "acquiring"} ~> job[j] \notin {"awaiting", "acquiring"}
  /\ \A s \in Stoppers : stop[s] = "acquiring" ~> stop[s] # "acquiring"

\* Every job that is pushed settles.
JobsEnd == \A j \in Jobs : job[j] = "queued" ~> job[j] \in Over

\* A task that waits for the validator to be empty goes on, unless an onEmpty() cannot
\* close the connection - and then it goes on after the next job, if that onEmpty() can.
TasksResume == \A t \in Tasks : task[t] = "waiting" ~> task[t] = "resolved" \/ rejected

\* The judge is put to sleep when the jobs are done, unless an onEmpty() cannot close
\* the connection - and then when the next job is done, if that onEmpty() can.
JudgeSleeps == enabled ~> ~enabled \/ rejected
=============================================================================

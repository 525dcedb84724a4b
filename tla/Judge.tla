------------------------------- MODULE Judge -------------------------------
(***************************************************************************)
(* The judge of src/libs/judge/Judge.ts: two HTTP servers that a validator *)
(* starts and stops under a semaphore, the flag that says they are up, and *)
(* the cache of the requests sent through proxies (JudgeRequest.ts) that   *)
(* the servers wait for.                                                   *)
(*                                                                         *)
(* The operators are the pieces of its methods between two awaits; the     *)
(* callers, jobs and stoppers, are processes of module ProxyValidator.     *)
(* The semaphore of LockFactory is external: any waiting caller may be     *)
(* served next.  One variable stands for both servers: starting servers    *)
(* that listen leaves them listening, whether start() succeeds or not.     *)
(* The self test of prepare() is over, and the request of a finished       *)
(* variant keeps its place in req for its result.                          *)
(***************************************************************************)
EXTENDS Integers, FiniteSets

CONSTANTS
  Jobs,      \* jobs of the validator's queue
  Variants,  \* protocol pairs a proxy is judged with: http=>http, http=>https ...
  Empties,   \* calls of onEmpty()
  Shutdowns, \* calls of shutdown()
  Faults     \* what may fail: servers, storage, lookup (of names)

Stoppers == Empties \cup Shutdowns
Requests == Jobs \X Variants

VARIABLES
  enabled,   \* Judge.enabled
  listening, \* the servers listen
  lock,      \* the holder of the semaphore, if any
  cache,     \* Judge.cache
  req        \* the JudgeRequest of a job and variant

judgeVars == <<enabled, listening, lock, cache, req>>

\* lost: cleared, its 'finished' listener is gone; broken: performRequest() threw
\* before there was a monitor, so that result() throws as well.
Settled == {"ok", "failed", "broken"}
RequestStates == {"none", "preparing", "probing", "judged", "lost"} \cup Settled

JudgeInit ==
  /\ enabled = FALSE
  /\ listening = FALSE
  /\ lock = {}
  /\ cache = {}
  /\ req = [r \in Requests |-> "none"]

-----------------------------------------------------------------------------
(* Life cycle *)

\* progressing()
Idle == lock = {}

Acquire(p) == Idle /\ lock' = {p}

Release(p) == p \in lock /\ lock' = lock \ {p}

\* Mutant: the judge is enabled only when its servers have started.
WakeupEnablesLate(p) ==
  /\ Acquire(p)
  /\ UNCHANGED <<enabled, listening, cache, req>>

\* wakeup() up to the start of the servers.
Wakeup(p) ==
  /\ Acquire(p)
  /\ enabled' = TRUE
  /\ UNCHANGED <<listening, cache, req>>

\* Mutant: wakeup() of a judge whose servers listen returns before the release.
StartedKeepsLock(p) ==
  /\ p \in lock
  /\ lock' = IF listening THEN lock ELSE lock \ {p}
  /\ listening' \in {TRUE} \cup (IF "servers" \in Faults THEN {listening} ELSE {})
  /\ UNCHANGED <<enabled, cache, req>>

\* An error of a server is logged and leaves the judge enabled.
Started(p) ==
  /\ Release(p)
  /\ listening' \in {TRUE} \cup (IF "servers" \in Faults THEN {listening} ELSE {})
  /\ UNCHANGED <<enabled, cache, req>>

\* pending() empties the cache; clear() removes the listeners of a monitor that
\* performRequest() is waiting for, and does nothing to one not created yet.
ClearCache ==
  /\ cache' = {}
  /\ req' = [r \in Requests |->
               IF r \in cache /\ req[r] \in {"probing", "judged"} THEN "lost" ELSE req[r]]

\* Mutant: pending() does not wait for the semaphore.
DisableUnlocked(p) ==
  /\ lock' = lock \cup {p}
  /\ enabled' = FALSE
  /\ UNCHANGED <<listening, cache, req>>

\* pending() once it has the semaphore.
Disable(p) ==
  /\ Acquire(p)
  /\ enabled' = FALSE
  /\ UNCHANGED <<listening, cache, req>>

Stopped(p) ==
  /\ Release(p)
  /\ listening' \in {FALSE} \cup (IF "servers" \in Faults THEN {listening} ELSE {})
  /\ UNCHANGED <<enabled, cache, req>>

-----------------------------------------------------------------------------
(* Requests *)

\* createRequest() for every variant; an uncached entry of an earlier job is gone.
CreateRequests(j) ==
  /\ cache' = cache \cup ({j} \X Variants)
  /\ req' = [r \in Requests |-> IF r[1] = j THEN "preparing" ELSE req[r]]
  /\ UNCHANGED <<enabled, listening, lock>>

Becomes(r, state) ==
  /\ req' = [req EXCEPT ![r] = state]
  /\ UNCHANGED <<enabled, listening, lock>>

\* The level detector has looked its addresses up: the request is sent.
Prepared(r) ==
  /\ req[r] = "preparing"
  /\ Becomes(r, "probing")
  /\ UNCHANGED cache

\* It has not: handleRequest() ends in result(), with the request still cached.
PrepareFails(r) ==
  /\ "lookup" \in Faults
  /\ req[r] = "preparing"
  /\ Becomes(r, "broken")
  /\ UNCHANGED cache

\* The callback judge() for a request it knows; others are answered with 400.
OnJudge(r) ==
  /\ listening /\ enabled
  /\ r \in cache
  /\ req[r] = "probing"
  /\ Becomes(r, "judged")
  /\ UNCHANGED cache

\* The judged connection ends before the answer has reached the judge's client.
JudgeSocketEnds(r) ==
  /\ r \in cache
  /\ req[r] = "judged"
  /\ cache' = cache \ {r}
  /\ UNCHANGED <<enabled, listening, lock, req>>

\* The monitor finishes, by an answer, an error, a timeout or a closed socket.  A proxy
\* may answer without asking the judge: a result without an error, of no level.
RequestEnds(r) ==
  /\ req[r] \in {"probing", "judged"}
  /\ \E result \in {"ok", "failed"} : Becomes(r, result)
  /\ cache' = cache \ {r}

RequestStep(r) ==
  Prepared(r) \/ PrepareFails(r) \/ OnJudge(r) \/ JudgeSocketEnds(r) \/ RequestEnds(r)

JudgeTypeOK ==
  /\ enabled \in BOOLEAN
  /\ listening \in BOOLEAN
  /\ lock \subseteq Jobs \cup Stoppers /\ \A p, q \in lock : p = q
  /\ cache \subseteq Requests
  /\ req \in [Requests -> RequestStates]
=============================================================================

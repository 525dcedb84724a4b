# Verification of node-proxybroker

This directory holds TLA+ models of the proxy broker under `src/`, the TLC runs
that check them on small instances, and TLAPS proofs of the results that hold for
every instance. Line numbers below refer to the TypeScript files under
`src/src/`.

## 1. The system and its parts

The broker collects addresses of public proxies from provider sites, validates
each one by sending requests through it to a *judge* server of its own, stores
what it learnt, and offers the validated proxies through proxy servers that
choose ("rotate") one per request and repeat a failed request with another.

| part | source | state it keeps | operations |
|---|---|---|---|
| ProxyRotator | `libs/proxy/ProxyRotator.ts` | `activeList` (address, `odd`, `use`, `used`), `fetchRequests[reqId] = {offset, size, inc}`, the worker queue and its `success_request_*` listeners, the IpRotate rows | `next`/`take`, `doEnqueue`, `fetch`, `do` (test request), `onEmpty`, `log`/`doLog`, `cleanupList`, `removeUnusedProxies`, `prepare`, `shutdown` |
| ProxyServer | `libs/server/ProxyServer.ts` | `handles`, the repeat count of a client handle | `root` (HTTP), `onServerConnect` (CONNECT), `connectToExternProxy`, the two `handle…AfterFinishedRequest`, `doStateLog`, `preFinalize` |
| SocketHandle | `libs/server/SocketHandle.ts` | `finished`, `error`, `socketError`, `sslDetect`, the headers read | the socket's `data`, `error`, `timeout`, `close` events; `finish` |
| ProxyValidator | `libs/proxy/ProxyValidator.ts`, `tasks/ProxyValidateTask.ts` | worker queue, `connection`, `_isEmpty` | `push`, `do`, `store`, `onEmpty`, `await`, `shutdown` |
| Judge | `libs/judge/Judge.ts` | `enabled`, `progressing` lock, the cache of running requests, two HTTP servers | `prepare`, `wakeup`, `pending`, `validate`, `judge` (callback of the servers), `handleRequest` |
| JudgeRequest, RequestResponseMonitor | `libs/judge/*.ts` | event log, `finished` promise, timers of one probing request | the events of the request and its socket, `stop`, `clear` |
| LevelDetection | `libs/judge/LevelDetection.ts` | two global regular expressions, the headers seen | `prepare`, `detect` |
| HTTPS agent | `libs/overrides/https_proxy_agent.ts` | the socket to a proxy, the pieces read, the abort listener of the request | the handlers of the socket and of the abort, the hand-over of the socket with a replay of what was read |
| Provider management and scrapers | `libs/provider/*.ts`, `providers/proxy/*.ts`, `tasks/ProxyFetchTask.ts` | variant definitions; per worker the proxies found and the pages to come | `addProviderClass`, `findAll`, `createWorker`, `get`, `push`, `exec` |
| Commands and tasks | `commands/*.ts`, `tasks/*.ts` | the lists, permits and results of the tasks | `handler`, `exec` |
| Storage | `entities/*.ts`, `libs/StorageHelper.ts` | IpAddr (blocked, to_delete, validation_id), IpAddrState, IpRotate | unique keys, read queries |
| Controller, start-up | `controllers/`, `Startup.ts` | none of their own | read-only queries; wiring |

How they interact:

* `ProxyServer.connectToExternProxy` awaits `ProxyRotator.next(selector)` for the
  proxy of a request, pipes the sockets, awaits the end of the downstream socket,
  reports the outcome with `ProxyRotator.log(used)` and then decides between an
  answer, a repeat with another proxy and a fallback.
* The rotator and the validator each own an `AsyncWorkerQueue` (of `@typexs/base`,
  external): `push` returns a job whose `done()` promise settles after the
  worker's `do`; `onEmpty` is called when the queue ran dry.
* `ProxyValidator.do` awaits the judge's lock, wakes the judge when it sleeps and
  lets it validate; `onEmpty` puts it back to sleep.
* The command `proxy-fetch` runs one fetch task per provider; each adds a validate
  task that pushes its list to the validator's queue and then awaits
  `validator.isEmpty()`, which any task's or event's `onEmpty` answers.
* The requests of the judge through a proxy get their sockets from the patched HTTPS
  agent, which negotiates the tunnel.
* The rotator reads what the validator stored; both write the same IpAddr rows.
* Everything runs in one Node process: one callback at a time, so races are
  races between *awaits*, events and timers.

### What is hard, per part

* **ProxyRotator** — several requests share a list and one fetch per selector; a
  counter (`inc`) is raised and lowered by different callbacks; a five second timer
  races a success event whose handler may wait again; `shutdown` tears listeners
  down under waiting callers. Correct means: the counter never drifts, no fetch is
  doubled, every `next()` and `log()` comes to an end, a proxy is not handed out
  again before `reuse` other takes.
* **ProxyServer / SocketHandle** — `timeout`, `error`, `close` and the awaits of
  the request handler race; repeats and fallback are decided after another await
  (the log). Correct means: a client gets at most one answer, at most
  `repeatLimit` repeats are made, failed proxies are reported as failed, finalizing
  comes to an end.
* **ProxyValidator / Judge** — several jobs see the sleeping judge at once; `onEmpty`
  awaits twice before it declares the queue empty, jobs arrive meanwhile, and the
  first of these awaits may reject.
  Correct means: a job runs only with an awake judge and an open connection, and
  the judge sleeps only when nothing is left to do.
* **RequestResponseMonitor** — the order of a request's and its socket's events;
  the result must be reported once and only once.
* **HTTPS agent** — the answer to CONNECT is cut anywhere; data, error, end and abort
  race. Correct means: what was read is replayed whole or not at all, and an open
  socket always has somebody who listens to its errors.
* **Tasks** — several tasks share a validator that tells only that it is empty.
  Correct means: a task returns the results of all its proxies, and the command
  prints all that was found, whichever provider fails.
* **Statistics** — read-modify-write of the same row by concurrent logs.

## 2. Plan

In the order of importance. Done:

1. `ProxyRotator` with the abstract `FetchRequest` (single flight per selector).
2. `ProxyServer` with the socket handles of a request, repeats, fallback and
   `preFinalize`; the abstract `ClientRequest` (one answer per request, bounded
   attempts).
3. `Judge` and `ProxyValidator`, with the abstract `JudgeService` (who may use the
   judge when).
4. `LevelDetection` and `JudgeRequest`: one request through a proxy and the stateful
   regular expressions; it implements the life `Judge` gives a request.
5. `AddrRows`: the rows that validator and rotator both write.

6. `ValidatorQueue`, what the validator is to those who push and wait, implemented by
   `ProxyValidator` and used by the next.
7. `ProxyTasks`: the registered providers, the scrapers, the fetch and validate tasks
   and the command that waits for them.
8. `ProxyTunnel`: the CONNECT handshake of the HTTPS agent.

Each has its theorems in a module `…Proofs` (those of the judge in
`ProxyValidatorProofs`): the invariants and action properties the runs check, the
refinements, the safety half of each liveness property, and for each finding the theorem
that isolates its cause (§5). Left, in this order:

9. A joint model of rotator and server. At present each makes only the assumption
   about the other that the other's runs discharge: the server lets `next()` and
   `log()` settle either way after any time (`EveryCallSettles`), the rotator serves
   callers in any number, in any order, who report or do not.
10. Connections of the validator as resources, so that those opened twice are seen
    (`ProxyValidator.ts:265`).
11. The second request on a kept-alive connection (`SocketHandle.ts:85`), which needs the
    payload.
12. The self test of `Judge.prepare()`. Start-up awaits it and nothing under `src/`
    posts an event for the validator before that, so it runs alone.

A run answers one question of one component. Runs stay below five minutes by taking
two callers, two addresses or two jobs and at most two calls each; safety and
liveness have configurations of their own where the state space asks for it.
Modules that are proved about avoid RECURSIVE operators; their parameters are
CONSTANTS under one named ASSUME.

## 3. The models

Node runs one callback at a time. An action is therefore the code between two
awaits (or from an event to the next await) of one caller, and all interleavings
of such pieces are explored. Every `await` of a modelled operation that may reject has
an action for the rejection, or one that stands for both ends where the code goes
on alike. So it is with every `connection.close()`: `onEmpty`'s has `CloseFails`; that of
`fetch()` is a case of `QueryFails`, that of `doEnqueue` belongs to `SaveDone`; that of
`doLog` comes after the commit, and is the end of `LogKeeps`, `LogBlocks` in the rotator and
`LogFails` of the server, which sees `log()` reject. Left out are only awaits of operations
that are left out (section 6) and the one behind the last change, of
`EventBus.unregister` in the validator's `shutdown`. Names follow the source. Operators whose comment begins
with "Mutant:" are deliberate errors that no specification uses; each breaks a
property, and so shows that the property depends on the code it changes.

### 3.1 ProxyRotator

| state | code |
|---|---|
| `pc`, `req`, `batch`, `got`, `held`, `calls` | where a call of `next()`/`log()` stands, its request id, the page it has fetched, the address it got, whether `findActiveEntry` still is in the list |
| `listeners`, `timers` | `queue.on('success_request_…')` and the five second `setTimeout` of `take()` |
| `inc`, `page` | `fetchRequests[reqId]` |
| `probing`, `answered` | workloads in the queue before and after `do()` has finished, `finally()` not run yet |
| `active`, `entry` | `activeList` with `odd`, `used` and the age of `updated_at` |
| `since` | history: takes since the last use of a row |

Actions: `Call` (`next()`, whose `take()` finds an entry or begins to fetch), `QueryDone`,
`QueryFails`, `SaveDone` (the page of doEnqueue; a `close()` that fails has noted the page), `ProbeSucceeds`, `ProbeFails`, `Settle`
(`do()` and the job's `finally`), `TimerFires`, `Retake` (after a success event),
`LogStart`, `LogKeeps`, `LogBlocks` (doLog), `EnqueueAtStartup`, `OnEmpty`,
`RemoveUnusedProxies`, `Age`, `Shutdown`.

Abstractions: whether an address is poor or blocked is open (AddrRows counts); the
sort order only decides which selectable entry is found first, here any may be;
only rows used since they were listed can be poor; the queue's concurrency limit and
connections left open after an error are left out; take's listener is registered
in the same step in which doEnqueue returns; of the selector only `targetSSL`
survives `parseProxyHeader` (line 524); the timer of `removeUnusedProxies` is never
cleared, not even by `shutdown`; the page is a set of rows.

### 3.2 ProxyServer and SocketHandle

| state | code |
|---|---|
| `toProxy` | the option, chosen in Init: both ways of running are in every run |
| `sock`, `requests`, `selected`, `wants`, `headers` | the client's socket, the requests it made and the select headers, in the request and in `headersList` of its handle |
| `flow` | the await of the request handler: the target, the end of the downstream socket, the log |
| `repeat` | `meta.repeat` of the client's handle |
| `down`, `ticks` | the downstream socket and its SocketHandle; a queued `error` event |
| `answer`, `reported`, `handles`, `fin` | how the request ended, the outcome given to `proxyLog`, the list of handles, `preFinalize` |
| `uses`, `down.failed` | history |

A client is one connection with plain requests one after the other, or a single
CONNECT. `Quiet` guards events of the outside: queued ticks and continuations run
first. Left out: payloads and other headers, pipelining, `onData` before the request
handler, late events of the downstream socket of a request that has ended, a tunnel
that transfers for ever (the idle timeout ends the others), connections after
`preFinalize` resolved (`Server.stop` of the framework is external).

### 3.3 Judge and ProxyValidator

`Judge` has the flag `enabled`, the servers (one variable for both), the semaphore,
the cache and a state per request; its operators are the pieces of `wakeup`,
`pending`, `progressing`, `validate` and `judge`. `ProxyValidator` EXTENDS it with the
await each job and each `onEmpty`/`shutdown` stands at, `connection`, `_isEmpty` and
the waiting tasks. `JudgeService` is the abstract promise: the judge is awake,
asleep or on its way, and is used by jobs only while awake. `ValidatorQueue` is
the promise to the other side: jobs are pending until they settle, `_isEmpty` is set and
the callers of `isEmpty()` go on only at the end of an `onEmpty()` that began with no
job left - which may be one that began before the caller's jobs were pushed. An
`onEmpty()` may also reject (`EmptyRejects`), and then does neither.

Init is the state after `prepare()`. The semaphore and the queue (`@typexs/base`)
are external; the rows of `store()` are in AddrRows; `validator.await()` and the query
of `run()` are left out. `Faults` names what may fail; `PushDuring` the phases of a stop
in which jobs may arrive. Two histories tell what the code may forget: `late`, the jobs
that were pushed while an `onEmpty()` was under way, and `rejected`, whether the last `onEmpty()`
has failed with no job since.

A request that `pending()` has cleared ("lost") never settles: that is what the code does,
so the run with the liveness of jobs lets them arrive only outside of a stop and while the servers
are being stopped (`PushDuring = {"stopping"}`), not in the window between; `judge_lock` lets
them arrive at any time, and the violation run shows what happens in the window.

`CloseFails`: the promise of line 298 rejects and nobody catches it. `connection` stays set, the
judge awake, `_isEmpty` false, and a waiting task hears nothing. The rejection ends
with the external queue, and the process is taken to go on (a Node before 15 does so
even with a rejection nobody handles). The next job's `onEmpty()` tries again.

### 3.4 LevelDetection and JudgeRequest

`LevelDetection` keeps the headers received, the flags of each, the `lastIndex` of
the two global expressions, the statistics and the level. A header value is the set
of places at which an address of a host occurs, with what follows it, since
`createAddrRegex` needs white space, a colon or the end behind it; `detect()` runs
header by header. `JudgeRequest` adds the request, its socket and the
RequestResponseMonitor: every event in every order the HTTP client can emit them.

External: the HTTP client and sockets (an error is emitted at the request, then at
the socket, then `close`; a socket that closes before a response makes the request
fail; the total timeout aborts). One socket per request, redirects are answers
with another status, no retries. Flags that only go to the log, durations and
`secureConnect`/`end` are left out, as is the second request after a redirect.

### 3.5 AddrRows

| state | code |
|---|---|
| `addr`, `states`, `rotate` | the rows of IpAddr, IpAddrState, IpRotate |
| `storing`, `logging`, `fetching` | calls of `store()`, `doLog()`, `doEnqueue()` under way, each with its copies of entities |
| `begun`, `logged` | history: numbers given out, outcomes committed |
| `clobbered` | history: addresses whose row was overwritten by an entity that did not know its last value |
| `torn` | history: addresses whose last validation failed between number and series |

`StoreReads`, `StoreSavesNumber`, `StoreSavesState` (one per variant, in any order),
`StoreEnds`, `StoreFails`; `LogFinds`, `LogReads`, `LogCommits`, `LogFails`;
`FetchReads`, `FetchSaves`, `FetchFails`. The storage (typeorm) is external: a query and a
save are atomic, a save sets the row to the entity, a transaction is seen when it
commits, unique keys refuse a second row. Limit, offset and the filters on level and
statistics of `fetch()` leave an arbitrary part of the rows. Dates, IpLoc, the protocol
masks and durations are left out; 10, 100 and 15 are constants.

### 3.6 ProxyTasks

| state | code |
|---|---|
| `command`, `asked`, `validate`, `output` | ProxyFetchCommand: where it is, the variants `findAll` gave it, the option, what it prints |
| `at`, `left`, `def` | the await a provider's fetch task, then its validate task, stands at; the variants its loop has still to visit and the one its worker scrapes |
| `pages`, `found` | pages a scraper has still to ask for, its `_proxyies` |
| `list`, `permits`, `answer` | the list of a task, its semaphore, the results it has returned |
| `job`, `dry`, `emptying`, `isEmpty`, `asker`, `rejected` | the validator: the variables of ValidatorQueue |
| `listed`, `late` | history: all that pages have shown; jobs pushed while an `onEmpty` was under way |

The module uses the actions of `ValidatorQueue` for its steps at the validator, so what
`ProxyValidator` is shown to implement is what the tasks are checked against.
`FreeProxyListsCom` asks for an index and its pages, `ProxyListenDe` for a form and up to
five rounds, ending early when one adds nothing. The task runner (`@typexs/base`) is
external: tasks run side by side, the runner waits for all of them, and what it keeps as
the result of a failed one is open (`PrintFails` may end the command then). An event
pushes each of its proxies once. What a page shows is any set of addresses;
patterns and cookies are left out.

### 3.7 ProxyTunnel

One `connect()` of `https_proxy_agent.ts` with its socket and its request. The far end
sends numbered pieces, one of which ends the head; `buffers` is what `ondata` has
gathered, `taken` the last piece read, `hearing` and `aborting` the listeners,
`answer` the first call of `fn()`, `seen` what the client has read. `Arrives`,
`KeepBuffering`, `HandOver`, `Fails`, `FarEnds`, `Aborts`, `Reads`. Through a tunnel
the client speaks first: after a 200 nothing arrives before the request is attached.
agent-base acts on the first `fn()` before the next event of the socket. TLS on top of
the tunnel is left out.

## 4. The runs

The figures are distinct states.

| run | instance | what it shows |
|---|---|---|
| `rotator_races` | 2 callers, 2 rows, page 2, one call each; 1.2 M | `SingleFlight`: a request id is fetched once at a time; `IncAccounts`: `inc` is the number of outstanding workloads; `WaiterArmed`: listeners, timers and waiting callers belong together; `ReuseSpacing`: no row is handed out before `reuse` other takes |
| `rotator_settles` | 2 callers, 1 row, startup filling, one clean-up; 63 k | `FlightSpec`: it implements FetchRequest; `EveryCallSettles`, `RequestFreed` |
| `server_requests` | a plain connection and a tunnel, one request each, repeatLimit 1; 335 k | `UsesBounded`, `FailuresReported`, `VerdictStands`, `HandlesAreLive`; `RequestSpec`: it implements ClientRequest; `RequestsEnd`, `FinalizeEnds` |
| `server_fallback` | one plain request | *violation*, finding 1 |
| `judge_lock` | 2 jobs, 2 onEmpty, a shutdown, faults of storage and lookups, jobs at any time; 154 k | `ServersFollowFlag`; `JudgedAwake`: only a job pushed under an `onEmpty()` may lose the judge, short of a shutdown; `EmptyFlagHonest`: only such jobs can be left when the flag says there are none; `QueueSpec`: it implements ValidatorQueue, whenever jobs arrive; `LockServed`: nobody waits for the semaphore for ever |
| `judge_service` | 2 jobs, 3 pushes, all faults, jobs also while servers are being stopped; 71 k | `ServiceSpec`, `JobsEnd`; `TasksResume`, `JudgeSleeps`: unless the last `onEmpty()` has rejected |
| `judge_stopped_early` | jobs at any time | *violation*, finding 2 |
| `judge_request` | 2 calls of the judge with up to 3 headers; 187 k | `LevelRight`, `LevelOnlyRises`, `EnabledWasJudged`, `AbortsOnlyLive`, `LifeSpec`: it implements the request of Judge; `ProbeEnds` |
| `judge_level_list` | one call | *violation*, finding 3 |
| `address_rows` | 1 address, 2 variants, 2 `store()`, 2 `doLog()`, 1 fetch; 2.3 M | `StatisticsAgree`, `NoneCountedTwice`, `NumbersCount`, `OneStateEach`, `RowMatchesStates`, `BlocksStay` |
| `proxy_tasks` | 2 providers, one of them with 2 variants, 2 addresses (one unusable), 1 page, 2 rounds, a permit each, one job of an event; 282 k | `ResultsComplete`: a validate task returns the results of all its proxies; `OutputWhole`: the command prints all that was found, all or nothing of each provider; `TasksReturn` |
| `tunnel` | 6 pieces; 959 | `StreamWhole`: the client reads the answer or the tunnel whole and in order; `SocketOwned`: no open socket without an owner |

Why the bounds are enough: each hazard needs two calls in flight at most, with a third
step of another kind between them. Two callers of the rotator can share a fetch,
wait for each other's page and race for a row; two jobs and two `onEmpty` calls
cover a stop that overlaps a start that overlaps a stop; reuse 2 is the least in which
a row's count passes a value that is neither first nor last; requests of one
connection share its budget of repeats in the proofs (TLC takes one request of each
kind, the theorems any number); three headers let `lastIndex` be set, missed and reset; two variants and two providers are what it takes for one task to lose what
another has; one permit makes every push wait for a job; in six pieces the head can
end with pieces before and after it on both sides of the hand-over. Thresholds are scaled down (`Cycle` 2, `Many` 1) so that two outcomes reach
them. `Share` 51 blocks an address with one success in two but keeps it, and blocks and
deletes one with none. Deadlock is not checked: the bounds on calls stop every model.

### Fairness

Only what the runtime does by itself is fair; arrivals of requests, faults and
shutdown never are.

* Rotator: storage queries and saves settle, a probe gets an answer or a timeout, the
  queue runs its `finally` (until shutdown removes its listeners), timers fire, a
  continuation runs, and time passes for an entry.
* Server: the target function and the log settle, a downstream socket ends, fails or
  idles until its timeout (`createSocketHandle` gives every one a timeout), queued ticks run, and the timer of
  `preFinalize` fires.
* Validator: a call of the storage or of the judge settles, the semaphore serves a
  waiting caller, a request ends by its timeout at the latest, and the queue calls
  `onEmpty` when it has run dry. That `close()` succeeds is not assumed.
* Judge request: lookups settle, the client's timeout fires, a destroyed socket
  closes, continuations run. No proxy is assumed to answer.
* Tasks: jobs settle (`JobsEnd` of the validator), unless they were pushed while an
  `onEmpty` was under way, which may take the judge away from them; `onEmpty` is
  called and ends, by rejecting perhaps; validate tasks go on. No site is assumed to answer: the requests
  of the scrapers have no timeout.

### Findings

1. `server_fallback`: `docs/issues.adoc:266` says a request that matches no proxy is
   answered with an error only when fallback is false. The header is removed
   before it is looked up, and a rejected target is answered with an error always.
2. `judge_stopped_early`: `docs/index.adoc:132` wants the judge stopped when no job is
   running or newly submitted. `onEmpty()` does not look at the queue again after its
   awaits.
3. `judge_level_list`: a proxy that passes on the address of the client in a list,
   followed by a comma, is rated anonymous; `docs/index.adoc:399` and
   `docs/issues.adoc:80` make it transparent.

Two more consequences of `onEmpty()` contradict no document, comment or test, and are
therefore described by properties and not listed as findings. `_isEmpty` is set at the end
of an `onEmpty()` (line 305) although a job may have been pushed since it began (`EmptyFlagHonest`
names the jobs the flag may belie: just those). And an `onEmpty()` that rejects leaves the
judge awake and the waiting tasks asleep until another job comes (`rejected` in `TasksResume`,
`JudgeSleeps`, `TasksReturn`: the only exception they make).

## 5. The proofs

The theorems hold for all values of the constants allowed by the named ASSUMEs: any
callers, rows, jobs, tasks, headers, pieces and bounds. The type invariant of every
module is a theorem (`TypeCorrect`) and therefore not repeated in the runs; besides them:

* **ProxyRotatorProofs** — `FlightsAreCounted` (from it `FetchedByOne`), `WaitersAreArmed`, `RowsSitOut`,
  `ImplementsFetchRequest`. The accounting is inductive only with `OneStage` (no
  workload is probing and answered at once: else one of them would be subtracted
  twice) and `SingleFlight`; the spacing with `OddCountsTakes` (the `odd` of an entry
  is its count of takes since its use, one ahead).
* **ProxyServerProofs** — `UsesAreBounded` (with `UsesCounted`: repeats spent are
  uses beyond requests), `ReportsAreRight` (from it `VerdictsStand`), `HandlesStayLive` (with `Phases`, what
  each await implies of sockets and handles, and `ClientHandles`),
  `ImplementsClientRequest` (with `Unanswered`: no answer while a handler is under way).
  `FinalizeHasAWaker`, `NothingStartsLate` (from `Phases` and `ClientHandles`) and
  `NeverFallsBack` (`FallbackInv`: what a handler keeps of a request has no select
  header left in it, and with a target no downstream socket goes to it directly).
* **ProxyValidatorProofs** — `ServersAgree` from `LockInv` (the holder of the
  semaphore knows which half of a change is done). Whatever fails and whenever jobs
  arrive: `EmptyMeansEmpty` and `NobodyJudgedAsleep` from `Undisturbed` (while an `onEmpty()` is due or under
  way, or the flag is set, every active job is late); `ImplementsValidatorQueue`: a job shown
  as pending is one that is active, and the steps of the judge are stutters; `SemaphoreHeld`;
  `NoLostWakeup` (`WakeInv`: nobody waits while the flag is set, and while it is not there
  is a job, an `onEmpty` due or under way, or the last one has rejected) and
  `JudgeNeverLeftAwake` (`SleepInv`: who stops the servers has cleared the flag first).
  `ImplementsJudgeService` from `StopInv`, for jobs that arrive only while the servers
  are being stopped or not during a stop at all, and without a `shutdown()` (`Considerate`):
  the violation run shows that the condition is needed.
  Under it too: `StopsWhenIdle`, `StoresThroughConnection`, `RequestsAreKept`
  (`RequestInv`: a request that has not settled belongs to a job that waits for it, and
  such a job has made all of its requests) and, from all of
  them, `JobsAreNeverStuck`.
* **LevelDetectionProofs**, **JudgeRequestProofs** — `LevelIsRight` for every set of
  headers and every number of calls. Marks are sound (`MarksSound`, `FlagsSound`) and
  complete for the headers seen (`MarksComplete`), and what a left-over `lastIndex` makes
  an expression miss has its mark already (`IndexMarked`): it is above zero only
  after a match. `LevelRises`, `EnabledRowsWereJudged` (with `ErrorsKept`,
  `ResultKept`), `AbortsAreLive` (with `AbortsKnown`), `ImplementsLife` (`LifeInv`),
  `ProbesAreNeverStuck` (`ClosedFinished`: the monitor has finished a request whose
  socket is closed), `TransparentButForLists`.
* **AddrRowsProofs** — `StatisticsAddUp`, `OutcomesCountOnce` (`CountInv`: the same
  holds of every copy a call holds, so that whichever is saved last keeps it),
  `NumbersAreValidations`, `StatesAreOfOne` (`NumberInv`: calls that have a number
  have different ones, none above the count of validations begun, and have saved no
  state for a variant still to come), `BlocksAreKept`, `RowsTellOfStates` (`MatchInv`: for
  an address either a call under way has the row's number, and then has saved exactly
  what it has found and is done with, or the row tells of its states and nobody adds to
  them). `SerialCallsLoseNothing` assumes `[]Serial`, no two calls overlapping on a row,
  and says the converse of `StatisticsAddUp`: what counters, numbers and blocks lose, they lose to an overlap
  (`FreshInv`: the copy a call holds is the row).
* **ProxyTasksProofs** — `TasksGetResults` (`ResultInv`: while the flag is set or an
  `onEmpty` is under way, what is pending is late; a task that was woken has all its
  jobs settled, but for late ones), `CommandPrintsAll` (`OutputInv`: what a site has shown
  is in the task's list or still with the worker whose page is read),
  `PermitsAreAccounted` (`PermitInv`), `TasksAreNeverStuck` (with `AskInv`: whoever asks is
  answered or waits for something that is due) and `UsesValidatorQueue`. The last one and
  `ImplementsValidatorQueue` of the validator put the two models together: what
  the tasks assume of the validator is what it is proved to do, also with jobs that
  arrive at any time.
* **ProxyTunnelProofs** — `AnswerReplayed`, `SocketHasOwner` (`TunnelInv`: while
  `connect` listens, it has gathered all that was read and the head is not in it),
  `AbortsAreHeard`, `AnswersAreForGood` (`AnswerInv`, of the request and its answer).

Three theorems say why a violation run fails, and that nothing else is to blame:
`NeverFallsBack` (finding 1), `StopsWhenIdle` (finding 2: jobs that arrive while `onEmpty`
closes the connection or waits for the semaphore) and `TransparentButForLists`
(finding 3: a comma behind the address).

The liveness properties stay with TLC: the prover does not reach liveness under fairness, nor
ENABLED. What can be proved of each is its safety half, that whoever waits waits for a step that is due
or for somebody who has still to take one; only that the step is then taken rests on
fairness, and on TLC:

| liveness, of a run | its safety half | theorem |
|---|---|---|
| `EveryCallSettles` | `WaiterArmed` | `WaitersAreArmed` |
| `RequestFreed` | `IncAccounts` | `FlightsAreCounted` |
| `RequestsEnd` | `HandlesAreLive` | `HandlesStayLive` |
| `FinalizeEnds` | `FinalizeIsWoken` | `FinalizeHasAWaker` |
| `LockServed` | `HolderActs` | `SemaphoreHeld` |
| `JobsEnd` | `JobsNeverStuck` | `JobsAreNeverStuck` |
| `TasksResume` | `NobodyForgotten` | `NoLostWakeup` |
| `JudgeSleeps` | `NeverLeftAwake` | `JudgeNeverLeftAwake` |
| `ProbeEnds` | `ProbeNeverStuck` | `ProbesAreNeverStuck` |
| `TasksReturn` | `TasksNeverStuck` | `TasksAreNeverStuck` |

The halves, and the other properties only a theorem states, are no part of the runs: TLC
has checked each of them on the instance of its component's run (those under
`Considerate` with jobs that arrive while the servers are being stopped, `NothingLost`
with steps that keep `Serial`) before it was proved.

`ResultsComplete` and `OutputWhole` are true of the tasks only with their condition on
`late` jobs: without it TLC finds a task that is woken by the `onEmpty` of others, begun
before its own jobs were pushed.
Induction over data and RECURSIVE operators are beyond the prover too; the models
use neither (the leftmost match is picked by well-founded minimum).

## 6. What is not modelled

The controller and the statistics queries only read; the columns of the entities and
start-up (linear wiring of the parts above, but for the registration of providers) have
no control worth checking. `ProviderManager`'s queue and schedule, and `ProxyFilter`, are
commented out at this commit. Of the commands `proxy-fetch` is modelled;
`proxy-validate` runs the same validate task for a list of its own. The self test of
`Judge.prepare()` runs alone: start-up awaits it, and nothing under `src/` posts an
event for the validator before. The patterns and cookies of the scrapers, header
rewriting (`HttpHeaderTransform`), the detection of TLS and the parsing of header blocks
in SocketHandle are conversions of payload that no property here needs.

Four hazards are listed without a property: connections of the validator that are
opened twice and closed once, or not there yet when the first results are
(`ProxyValidator.ts:265`); the second request on a kept-alive connection, read from the first
one's headers (`SocketHandle.ts:85`); the entry a failed fetch task may leave in the list,
which csv output cannot print (`OutputHelper.ts:26`, action `PrintFails`); and the requests of the scrapers, which have no
timeout (`ProxyListenDe.ts:76`), so that no liveness of a fetch task could be justified.

---------------------------- MODULE ProxyRotator ----------------------------
(***************************************************************************)
(* The rotator of src/libs/proxy/ProxyRotator.ts: it hands validated       *)
(* proxies to callers of next() from an in-memory list, fills that list by *)
(* fetching pages of addresses from the storage and probing them through a *)
(* worker queue, and takes back the outcome of each use through log().     *)
(*                                                                         *)
(* Node runs one callback at a time, so an action is the code between two  *)
(* awaits.  Abstracted: the statistics of an address (module AddrRows)     *)
(* decide whether an address is poor or blocked; here both decisions are   *)
(* open.  The sort order of the list only decides which of the selectable  *)
(* entries is found first; here any of them may be.                        *)
(***************************************************************************)
EXTENDS Integers, FiniteSets

CONSTANTS
  Callers,       \* concurrent users of next() and log(): handlers of ProxyServer
  Rows,          \* validated rows: pairs of an address and a protocol_dest
  Reuse,         \* options.reuse: takes an entry has to sit out after a use
  FetchSize,     \* options.fetchSize: rows of a page
  FillAtStartup, \* options.fillAtStartup
  MaxCalls,      \* bound: calls of next() by one caller
  MaxCleanups    \* bound: runs of removeUnusedProxies() that remove an entry

Dests == {"http", "https"}   \* ProtocolType of the target, from targetSSL

ASSUME RotatorAssumption ==
  /\ Callers # {}
  /\ IsFiniteSet(Rows)
  /\ \A k \in Rows : k = <<k[1], k[2]>> /\ k[2] \in Dests
  /\ Reuse \in Nat \ {0}
  /\ FetchSize \in Nat \ {0}
  /\ FillAtStartup \in BOOLEAN
  /\ MaxCalls \in Nat
  /\ MaxCleanups \in Nat

(***************************************************************************)
(* A request id is the hash of a selector and its repeat count; of the     *)
(* selector only targetSSL survives parseProxyHeader.                      *)
(***************************************************************************)
Reqs == Dests \X (0 .. Reuse - 1)
NoReq == <<"startup", 0>>         \* the workloads prepare() enqueues
NoRow == <<"none", "none">>
Ages == {"fresh", "ready", "stale"} \* below 2 s, in between, above cleanup.timeOffset
PCs == {"idle", "fetching", "saving", "waiting", "woken", "logging"}

VARIABLES
  pc,        \* where each caller stands in next() or log()
  req,       \* the request id of its latest take()
  batch,     \* the page it fetched and has not pushed to the queue yet
  got,       \* the address next() resolved to, NoRow after a rejection
  held,      \* whether the entry doLog() found is still the one in the list
  calls,     \* calls of next() so far
  listeners, \* callers with a success_request_<reqId> listener on the queue
  timers,    \* callers with a pending 5 s timer
  inc,       \* fetchRequests[reqId].inc
  page,      \* fetchRequests[reqId].offset and .size
  probing,   \* pushed workloads whose test request is not answered
  answered,  \* workloads do() is done with and whose finally() did not run
  active,    \* the rows of activeList
  entry,     \* odd, use and age of each row of activeList
  since,     \* history: takes since the last use of a row, while it is listed
  blocked,   \* addresses with IpAddr.blocked
  filled,    \* startup workloads already enqueued
  cleanups,  \* removals by removeUnusedProxies() so far
  down       \* shutdown() was called

callVars  == <<pc, req, batch, got, held, calls>>
waitVars  == <<listeners, timers>>
fetchVars == <<inc, page>>
jobVars   == <<probing, answered>>
listVars  == <<active, entry, since>>
vars == <<callVars, waitVars, fetchVars, jobVars, listVars, blocked, filled, cleanups, down>>

Entry == [odd : 0 .. Reuse, used : BOOLEAN, age : Ages]
NewEntry == [odd |-> 0, used |-> FALSE, age |-> "fresh"]
Jobs == (Reqs \cup {NoReq}) \X Rows

Init ==
  /\ pc = [c \in Callers |-> "idle"]
  /\ req = [c \in Callers |-> <<"http", 0>>]
  /\ batch = [c \in Callers |-> {}]
  /\ got = [c \in Callers |-> NoRow]
  /\ held = [c \in Callers |-> FALSE]
  /\ calls = [c \in Callers |-> 0]
  /\ listeners = {}
  /\ timers = {}
  /\ inc = [r \in Reqs |-> -1]
  /\ page = [r \in Reqs |-> [offset |-> 0, size |-> 0]]
  /\ probing = {}
  /\ answered = {}
  /\ active = {}
  /\ entry = [k \in Rows |-> NewEntry]
  /\ since = [k \in Rows |-> Reuse]
  /\ blocked = {}
  /\ filled = IF FillAtStartup THEN {} ELSE Dests
  /\ cleanups = 0
  /\ down = FALSE

-----------------------------------------------------------------------------
(* activeList *)

\* The rows a take() may find: right protocol, not barred by a recent use, and
\* not touched within the last two seconds.
Selectable(d) ==
  {k \in active : k[2] = d /\ entry[k].odd = 0 /\ entry[k].age # "fresh"}

\* The count of an entry after updateList().
NextOdd(e) == IF e.odd % Reuse # 0 /\ e.used THEN e.odd + 1 ELSE 0

\* Mutant: the use itself is counted as a take.
UsedEntryEarly == [odd |-> 2, used |-> TRUE, age |-> "fresh"]

\* useAddr(): the entry was just handed out.
UsedEntry == [odd |-> 1, used |-> TRUE, age |-> "fresh"]

\* The takes since the last use, after one more take.
OneMore(n) == IF n < Reuse THEN n + 1 ELSE Reuse

\* The rows cleanupList() may drop.  A row is fetched with a better ratio than
\* the one it is dropped for, so only a row used since it was listed can be poor.
PoorSets == SUBSET {k \in active : entry[k].used}

\* The object a doLog() in flight refers to leaves the list with its entry.
HeldAfter(K) == [c \in Callers |-> held[c] /\ got[c] \notin K]

\* Entries leave the list and nothing else happens to it.
Unlist(K) ==
  /\ active' = active \ K
  /\ entry' = [k \in Rows |-> IF k \in K THEN NewEntry ELSE entry[k]]
  /\ since' = [k \in Rows |-> IF k \in K THEN Reuse ELSE since[k]]
  /\ held' = HeldAfter(K)

-----------------------------------------------------------------------------
(* next() and take() *)

Succ(r) == <<r[1], IF r[2] + 1 >= Reuse THEN 0 ELSE r[2] + 1>>

\* updateList() counts the take for every listed row and drops the poor ones;
\* the row u that was found, if any, starts over.
UpdateList(poor, u) ==
  /\ active' = active \ poor
  /\ entry' = [k \in Rows |->
       IF k \notin active \ poor THEN NewEntry
       ELSE IF k = u THEN UsedEntry
       ELSE [entry[k] EXCEPT !.odd = NextOdd(entry[k])]]
  /\ since' = [k \in Rows |->
       IF k \notin active \ poor THEN Reuse
       ELSE IF k = u THEN 0
       ELSE OneMore(since[k])]

\* Mutant: no timer is set.
ArmNoTimer(c) ==
  /\ pc' = [pc EXCEPT ![c] = "waiting"]
  /\ listeners' = listeners \cup {c}
  /\ UNCHANGED timers

\* The promise of take(): a listener for a probe that succeeds, and a timer.
Arm(c) ==
  /\ pc' = [pc EXCEPT ![c] = "waiting"]
  /\ listeners' = listeners \cup {c}
  /\ timers' = timers \cup {c}

\* Mutant: a request id whose page is still being fetched is claimed again.
EnqueueOffByOne(c, r) ==
  IF inc[r] > 0
  THEN Arm(c) /\ UNCHANGED inc
  ELSE /\ inc' = [inc EXCEPT ![r] = 0]
       /\ pc' = [pc EXCEPT ![c] = "fetching"]
       /\ UNCHANGED waitVars

\* doEnqueue() up to its first await: it returns at once while a fetch or
\* probes of the same request id are under way.
Enqueue(c, r) ==
  IF inc[r] >= 0
  THEN Arm(c) /\ UNCHANGED inc
  ELSE /\ inc' = [inc EXCEPT ![r] = 0]
       /\ pc' = [pc EXCEPT ![c] = "fetching"]
       /\ UNCHANGED waitVars

Take(c, r) ==
  /\ req' = [req EXCEPT ![c] = r]
  /\ \E poor \in PoorSets :
       \/ \E k \in Selectable(r[1]) :
            /\ UpdateList(poor, k)
            /\ held' = [HeldAfter(poor) EXCEPT ![c] = FALSE]
            /\ got' = [got EXCEPT ![c] = k]
            /\ pc' = [pc EXCEPT ![c] = "idle"]
            /\ UNCHANGED <<waitVars, inc>>
       \/ /\ Selectable(r[1]) = {}
          /\ UpdateList(poor, NoRow)
          /\ held' = [HeldAfter(poor) EXCEPT ![c] = FALSE]
          /\ got' = [got EXCEPT ![c] = NoRow]
          /\ Enqueue(c, r)
  /\ UNCHANGED <<batch, page, jobVars, blocked, filled, cleanups, down>>

\* next(): a new selector, so a repeat count of zero.
Call(c, d) ==
  /\ pc[c] = "idle"
  /\ calls[c] < MaxCalls
  /\ calls' = [calls EXCEPT ![c] = @ + 1]
  /\ Take(c, <<d, 0>>)

\* The take() a success event scheduled; its selector was counted up before.
Retake(c) ==
  /\ pc[c] = "woken"
  /\ Take(c, Succ(req[c]))
  /\ UNCHANGED calls

\* Mutant: the listener of a rejected caller stays.
TimerFiresKeepListener(c) ==
  /\ c \in timers
  /\ timers' = timers \ {c}
  /\ pc' = [pc EXCEPT ![c] = "idle"]
  /\ UNCHANGED <<req, batch, got, held, calls, listeners, fetchVars, jobVars,
                 listVars, blocked, filled, cleanups, down>>

\* The timer of take(): reject and remove the listener.
TimerFires(c) ==
  /\ c \in timers
  /\ timers' = timers \ {c}
  /\ listeners' = listeners \ {c}
  /\ pc' = [pc EXCEPT ![c] = "idle"]
  /\ UNCHANGED <<req, batch, got, held, calls, fetchVars, jobVars, listVars,
                 blocked, filled, cleanups, down>>

-----------------------------------------------------------------------------
(* doEnqueue() and fetch() *)

Smaller(m, n) == IF m < n THEN m ELSE n

\* The rows fetch() asks for: right protocol, address not blocked.
Fetchable(d) == {k \in Rows : k[2] = d /\ k[1] \notin blocked}

\* The page that follows a cached query: as many rows as are left from the
\* offset on, any of them because every query sorts by columns that changed.
PageAt(d, offset) ==
  {S \in SUBSET Fetchable(d) :
     LET left == Cardinality(Fetchable(d)) - offset
     IN  Cardinality(S) = IF left > 0 THEN Smaller(FetchSize, left) ELSE 0}

\* What fetchRequests[r] holds of the page of the query: an empty one rewinds.
PageAfter(r, S) ==
  IF S = {} THEN [offset |-> 0, size |-> 0]
  ELSE [offset |-> page[r].offset + page[r].size, size |-> Cardinality(S)]

\* The query of fetch() answers.
Queried(r, S) ==
  /\ S \in PageAt(r[1], page[r].offset + page[r].size)
  /\ page' = [page EXCEPT ![r] = PageAfter(r, S)]

\* fetch() resolves with the page S.
QueryDone(c) ==
  /\ pc[c] = "fetching"
  /\ \E S \in SUBSET Rows : Queried(req[c], S) /\ batch' = [batch EXCEPT ![c] = S]
  /\ pc' = [pc EXCEPT ![c] = "saving"]
  /\ UNCHANGED <<req, got, held, calls, waitVars, inc, jobVars, listVars,
                 blocked, filled, cleanups, down>>

\* fetch() throws, at its query or at the close() behind it, when the page has been
\* noted: doEnqueue() goes on with an empty list.
QueryFails(c) ==
  /\ pc[c] = "fetching"
  /\ UNCHANGED page \/ \E S \in SUBSET Rows : Queried(req[c], S)
  /\ inc' = [inc EXCEPT ![req[c]] = -1]
  /\ Arm(c)
  /\ UNCHANGED <<req, batch, got, held, calls, jobVars, listVars,
                 blocked, filled, cleanups, down>>

\* Mutant: an empty page does not free the request id.
IncAfterPushNoReset(n) == n

\* The counter after the loop of doEnqueue() pushed n workloads.
IncAfterPush(n) == IF n = 0 THEN -1 ELSE n

\* The rotate entries are saved, or saving them failed: either way the page is
\* pushed to the queue, and take() starts to wait.
SaveDone(c) ==
  /\ pc[c] = "saving"
  /\ probing' = probing \cup ({req[c]} \X batch[c])
  /\ inc' = [inc EXCEPT ![req[c]] = IncAfterPush(Cardinality(batch[c]))]
  /\ batch' = [batch EXCEPT ![c] = {}]
  /\ Arm(c)
  /\ UNCHANGED <<req, got, held, calls, page, answered, listVars, blocked,
                 filled, cleanups, down>>

\* A startup doEnqueue() of prepare(): no request id, so no count and no page.
EnqueueAtStartup(d) ==
  /\ d \notin filled
  /\ filled' = filled \cup {d}
  /\ \E S \in PageAt(d, 0) : probing' = probing \cup ({NoReq} \X S)
  /\ UNCHANGED <<callVars, waitVars, fetchVars, answered, listVars, blocked,
                 cleanups, down>>

-----------------------------------------------------------------------------
(* do(): the probes *)

\* The event success_request_<r> reaches every listener: each drops its timer
\* and schedules a new take().
Emit(r) ==
  LET woken == {c \in listeners : req[c] = r}
  IN  /\ listeners' = listeners \ woken
      /\ timers' = timers \ woken
      /\ pc' = [c \in Callers |-> IF c \in woken THEN "woken" ELSE pc[c]]

Answered(r, k) ==
  /\ <<r, k>> \in probing
  /\ probing' = probing \ {<<r, k>>}
  /\ answered' = answered \cup {<<r, k>>}
  /\ UNCHANGED <<req, batch, got, held, calls, fetchVars, blocked, filled,
                 cleanups, down>>

\* The test request succeeds: the row is listed unless it is already.
ProbeSucceeds(r, k) ==
  /\ Answered(r, k)
  /\ active' = active \cup {k}
  /\ entry' = IF k \in active THEN entry ELSE [entry EXCEPT ![k] = NewEntry]
  /\ UNCHANGED since
  /\ IF r = NoReq THEN UNCHANGED <<pc, waitVars>> ELSE Emit(r)

\* The test request fails or times out: do() swallows the error.
ProbeFails(r, k) ==
  /\ Answered(r, k)
  /\ UNCHANGED <<pc, waitVars, listVars>>

\* Mutant: the last workload leaves a count of zero.
IncAfterDoneOffByOne(n) == IF n - 1 < 0 THEN -1 ELSE n - 1

\* The counter after a finally() of doEnqueue().
IncAfterDone(n) == IF n - 1 <= 0 THEN -1 ELSE n - 1

\* The queue reports the workload done and the finally() of doEnqueue() runs.
Settle(r, k) ==
  /\ <<r, k>> \in answered
  /\ answered' = answered \ {<<r, k>>}
  /\ inc' = IF r = NoReq THEN inc ELSE [inc EXCEPT ![r] = IncAfterDone(@)]
  /\ UNCHANGED <<callVars, waitVars, page, probing, listVars, blocked, filled,
                 cleanups, down>>

\* onEmpty(): the queue ran dry, cleanupList() drops poor rows.
OnEmpty ==
  /\ probing = {}
  /\ \E poor \in PoorSets \ {{}} : Unlist(poor)
  /\ UNCHANGED <<pc, req, batch, got, calls, waitVars, fetchVars, jobVars,
                 blocked, filled, cleanups, down>>

-----------------------------------------------------------------------------
(* log(): doLog() *)

\* The user of an address reports; the entry is looked up before the awaits.
LogStart(c) ==
  /\ pc[c] = "idle"
  /\ got[c] # NoRow
  /\ pc' = [pc EXCEPT ![c] = "logging"]
  /\ held' = [held EXCEPT ![c] = got[c] \in active]
  /\ UNCHANGED <<req, batch, got, calls, waitVars, fetchVars, jobVars, listVars,
                 blocked, filled, cleanups, down>>

Logged(c) ==
  /\ pc[c] = "logging"
  /\ pc' = [pc EXCEPT ![c] = "idle"]
  /\ got' = [got EXCEPT ![c] = NoRow]
  /\ UNCHANGED <<req, batch, calls, waitVars, fetchVars, jobVars, filled,
                 cleanups, down>>

\* The transaction ends, or throws: the statistics do not condemn the address.
LogKeeps(c) ==
  /\ Logged(c)
  /\ held' = [held EXCEPT ![c] = FALSE]
  /\ UNCHANGED <<listVars, blocked>>

\* The transaction blocks the address, then the entry found before it is removed.
LogBlocks(c) ==
  /\ Logged(c)
  /\ blocked' = blocked \cup {got[c][1]}
  /\ IF held[c] THEN Unlist({got[c]})
     ELSE UNCHANGED <<held, listVars>>

-----------------------------------------------------------------------------
(* Time, the cleanup timer and shutdown *)

Age(k) ==
  /\ k \in active
  /\ entry[k].age # "stale"
  /\ entry' = [entry EXCEPT ![k].age = IF @ = "fresh" THEN "ready" ELSE "stale"]
  /\ UNCHANGED <<callVars, waitVars, fetchVars, jobVars, active, since, blocked,
                 filled, cleanups, down>>

\* The timer of prepare(); it is set again each time and never cleared.
RemoveUnusedProxies ==
  /\ cleanups < MaxCleanups
  /\ LET stale == {k \in active : entry[k].age = "stale"}
     IN  stale # {} /\ Unlist(stale)
  /\ cleanups' = cleanups + 1
  /\ UNCHANGED <<pc, req, batch, got, calls, waitVars, fetchVars, jobVars,
                 blocked, filled, down>>

\* shutdown(): the queue loses its listeners, nothing else stops.
Shutdown ==
  /\ ~down
  /\ down' = TRUE
  /\ listeners' = {}
  /\ UNCHANGED <<callVars, timers, fetchVars, jobVars, listVars, blocked, filled,
                 cleanups>>

-----------------------------------------------------------------------------
CallerStep(c) ==
  \/ \E d \in Dests : Call(c, d)
  \/ Retake(c)
  \/ TimerFires(c)
  \/ QueryDone(c)
  \/ QueryFails(c)
  \/ SaveDone(c)
  \/ LogStart(c)
  \/ LogKeeps(c)
  \/ LogBlocks(c)

JobStep(r, k) == ProbeSucceeds(r, k) \/ ProbeFails(r, k) \/ Settle(r, k)

Next ==
  \/ \E c \in Callers : CallerStep(c)
  \/ \E r \in Reqs \cup {NoReq}, k \in Rows : JobStep(r, k)
  \/ \E k \in Rows : Age(k)
  \/ \E d \in Dests : EnqueueAtStartup(d)
  \/ OnEmpty
  \/ RemoveUnusedProxies
  \/ Shutdown

(***************************************************************************)
(* The storage answers or fails, a test request answers or times out, the  *)
(* queue reports finished workloads until shutdown() takes its listeners,  *)
(* timers fire and time passes.  Nobody has to call next() or log().       *)
(***************************************************************************)
Fairness ==
  /\ \A c \in Callers :
       /\ WF_vars(Retake(c))
       /\ WF_vars(TimerFires(c))
       /\ WF_vars(QueryDone(c) \/ QueryFails(c))
       /\ WF_vars(SaveDone(c))
       /\ WF_vars(LogKeeps(c) \/ LogBlocks(c))
  /\ \A r \in Reqs \cup {NoReq}, k \in Rows :
       /\ WF_vars(ProbeSucceeds(r, k) \/ ProbeFails(r, k))
       /\ WF_vars(~down /\ Settle(r, k))
  /\ \A k \in Rows : WF_vars(Age(k))

Spec == Init /\ [][Next]_vars
FairSpec == Spec /\ Fairness

-----------------------------------------------------------------------------
(* Properties *)

\* Every variable keeps its range.
TypeOK ==
  /\ pc \in [Callers -> PCs]
  /\ req \in [Callers -> Reqs]
  /\ batch \in [Callers -> SUBSET Rows]
  /\ got \in [Callers -> Rows \cup {NoRow}]
  /\ held \in [Callers -> BOOLEAN]
  /\ calls \in [Callers -> 0 .. MaxCalls]
  /\ listeners \subseteq Callers
  /\ timers \subseteq Callers
  /\ inc \in [Reqs -> Int]
  /\ page \in [Reqs -> [offset : Nat, size : Nat]]
  /\ probing \subseteq Jobs
  /\ answered \subseteq Jobs
  /\ active \subseteq Rows
  /\ entry \in [Rows -> Entry]
  /\ since \in [Rows -> 0 .. Reuse]
  /\ blocked \subseteq {k[1] : k \in Rows}
  /\ filled \subseteq Dests
  /\ cleanups \in 0 .. MaxCleanups
  /\ down \in BOOLEAN

Fetchers(r) == {c \in Callers : pc[c] \in {"fetching", "saving"} /\ req[c] = r}
Outstanding(r) == {k \in Rows : <<r, k>> \in probing \cup answered}

\* A request id is fetched by at most one caller, and never while workloads of
\* its last page are out: what the guard on inc in doEnqueue() is there for.
SingleFlight ==
  \A r \in Reqs :
    /\ \A c, d \in Fetchers(r) : c = d
    /\ Fetchers(r) # {} => Outstanding(r) = {}

\* inc counts the workloads that are out and is -1 exactly when neither a fetch
\* nor a workload is: otherwise a selector is fetched twice at once, or is
\* taken for busy for ever and never fetched again.
IncAccounts ==
  \A r \in Reqs :
    inc[r] = IF Fetchers(r) = {} /\ Outstanding(r) = {} THEN -1
             ELSE Cardinality(Outstanding(r))

\* A caller waits exactly as long as its timer runs, and a listener belongs to a
\* caller that waits: no event takes an address for a caller that was rejected,
\* no caller waits without a way out, not even across shutdown().
WaiterArmed ==
  /\ timers = {c \in Callers : pc[c] = "waiting"}
  /\ listeners \subseteq timers
  /\ ~down => listeners = timers

\* Caller c performs a take() in this step.
Takes(c) == calls'[c] # calls[c] \/ (pc[c] = "woken" /\ pc'[c] # "woken")

\* "Reuse definies the blocking of use of a proxy after it was used": while a row
\* stays listed, at least Reuse other takes lie between two of its uses, whoever
\* takes and whichever selector the takes had.
ReuseSpacing ==
  [][\A c \in Callers :
       Takes(c) /\ got'[c] \in active => since[got'[c]] = Reuse]_vars

\* The rotator implements FetchRequest: the counter inc alone tells which request
\* ids are claimed, and the workloads in the queue are the pages being worked off.
Claimed == {r \in Reqs : inc[r] >= 0}
Pages == [r \in Reqs |-> Outstanding(r)]
Flight == INSTANCE FetchRequest WITH busy <- Claimed, out <- Pages

FlightSpec == Flight!Spec

\* What the invariants above need to be inductive: a caller logs an address it
\* got, no workload is in two stages at once, and the count of an entry is the
\* count of takes since its last use.
LogShape == \A c \in Callers : pc[c] = "logging" => got[c] # NoRow

OneStage == \A r \in Reqs, k \in Rows : <<r, k>> \notin probing \cap answered

OddCountsTakes ==
  \A k \in Rows :
    IF entry[k].odd = 0 THEN since[k] = Reuse
    ELSE k \in active /\ entry[k].used /\ since[k] = entry[k].odd - 1

Inductive ==
  TypeOK /\ LogShape /\ SingleFlight /\ OneStage /\ IncAccounts /\ WaiterArmed /\ OddCountsTakes

\* Every next() and log() comes to an end: a fetch, a probe, the timer or a
\* retried take() resolves or rejects it, with finitely many calls competing.
EveryCallSettles == \A c \in Callers : (pc[c] # "idle") ~> (pc[c] = "idle")

\* A request id that was claimed becomes free again, unless shutdown() took the
\* queue's listeners first.
RequestFreed == \A r \in Reqs : (inc[r] >= 0) ~> (inc[r] = -1 \/ down)
=============================================================================

----------------------------- MODULE ProxyTasks -----------------------------
(***************************************************************************)
(* The command proxy-fetch: ProxyFetchCommand.handler() looks variants up  *)
(* in the ProviderManager and starts one ProxyFetchTask per provider; each *)
(* lets a ProviderWorker scrape variant after variant and, if asked to,    *)
(* adds a ProxyValidateTask for its list.  The validate tasks share one    *)
(* ProxyValidator, here the ValidatorQueue it implements, with one another *)
(* and with the jobs that events push.                                     *)
(*                                                                         *)
(* A proxy of a list is a pair of the definition it was found under and    *)
(* its address, so that one found under two variants is in the list twice. *)
(* The task runner (@typexs/base) is external: tasks run side by side.     *)
(***************************************************************************)
EXTENDS Naturals, FiniteSets

CONSTANTS
  Classes,   \* provider classes: records with name, types (of the variants) and paged
  Addresses, \* what a page can list
  Usable,    \* those with an ip and a port the fetch task accepts
  Others,    \* workloads pushed by ProxyDataValidateEvents
  Empties,   \* calls of onEmpty() that may be under way at once
  MaxRounds, \* forms the second scraper sends, 5
  MaxPages,  \* bound: ids on an index page
  Limit      \* of the semaphore, 10000

All == "__all__"

ASSUME TasksAssumption ==
  /\ \A c, d \in Classes : c.name = d.name => c = d
  /\ \A c \in Classes : c.name # All /\ All \notin c.types
  /\ Usable \subseteq Addresses
  /\ MaxRounds \in Nat \ {0}
  /\ MaxPages \in Nat
  /\ Limit \in Nat \ {0}

\* addProviderClass(): one definition per variant, or one for all.
Definitions(c) ==
  {[name |-> c.name, type |-> t] : t \in IF c.types = {} THEN {"all"} ELSE c.types}

\* Startup adds every class.
Registered == UNION {Definitions(c) : c \in Classes}

Names == {c.name : c \in Classes}
Paged(n) == \E c \in Classes : c.name = n /\ c.paged

Proxies == Registered \X Addresses

ASSUME OthersAssumption == Others \cap Proxies = {}

VARIABLES
  command,  \* none, running, over, failed
  asked,    \* the variants the command has chosen
  validate, \* its option
  output,   \* what it prints
  at,       \* the await a fetch task, then its validate task, stands at
  left,     \* variants the loop of the fetch task has still to visit
  def,      \* the variant of the worker
  pages,    \* pages the worker has still to ask for
  found,    \* the worker's _proxyies
  list,     \* the tasks' lists of proxies
  listed,   \* history: all the sites have shown that is usable
  permits,  \* of a validate task's semaphore
  answer,   \* results a validate task has returned
  late,     \* history: jobs pushed while an onEmpty() was under way
  job, dry, emptying, isEmpty, rejected, asker  \* the validator

Queue == INSTANCE ValidatorQueue WITH Jobs <- Proxies \cup Others, Askers <- Names

fetchVars == <<asked, validate, left, def, pages, found, list, listed>>
queueVars == <<job, dry, emptying, isEmpty, rejected, asker>>
vars == <<command, output, at, permits, answer, late, fetchVars, queueVars>>

Over == {"none", "failed", "fetched", "returned"}
Places == Over \cup {"choosing", "index", "paging", "pushing", "asking"}

ListOf(n) == {p \in list : p[1].name = n}
Todo(n) == {p \in ListOf(n) : job[p] = "none"}
Results(n) == {p \in ListOf(n) : job[p] = "done"}

Init ==
  /\ command = "none"
  /\ asked = {}
  /\ validate = FALSE
  /\ output = {}
  /\ at = [n \in Names |-> "none"]
  /\ left = [n \in Names |-> {}]
  /\ def = [n \in Names |-> CHOOSE d \in Registered : d.name = n]
  /\ pages = [n \in Names |-> 0]
  /\ found = [n \in Names |-> {}]
  /\ list = {}
  /\ listed = {}
  /\ permits = [n \in Names |-> Limit]
  /\ answer = [n \in Names |-> {}]
  /\ late = {}
  /\ Queue!Init

-----------------------------------------------------------------------------
(* The command and the fetch tasks *)

\* findAll(): a property the query names has the value asked for, or any for All.
FindAll(query) ==
  {d \in Registered : \A k \in DOMAIN query : query[k] \in {d[k], All}}

\* The arguments [provider] (a star for all) and [variant] as a query.
Queries ==
  LET types == {d.type : d \in Registered} \cup {All}
  IN  [{} -> {}] \cup [{"name"} -> Names] \cup [{"type"} -> types]
        \cup [name : Names, type : types]

\* The fetch task of n asks findAll() for the provider and keeps the types it got.
Chosen(n, types) ==
  {d \in FindAll([name |-> n]) : All \in types \/ d.type \in types}

\* handler(): one fetch task per provider with the types found for it.
Command(query, check) ==
  LET variants == FindAll(query)
      typesOf(n) == {d.type : d \in {v \in variants : v.name = n}}
      names == {d.name : d \in variants}
  IN  /\ command = "none"
      /\ command' = "running"
      /\ asked' = variants
      /\ validate' = check
      /\ at' = [n \in Names |-> IF n \in names THEN "choosing" ELSE "none"]
      /\ left' = [n \in Names |-> IF n \in names THEN Chosen(n, typesOf(n)) ELSE {}]
      /\ UNCHANGED <<output, def, pages, found, list, listed, permits, answer, late, queueVars>>

Moves(n, from, to) == at[n] = from /\ at' = [at EXCEPT ![n] = to]

\* The task creates a worker for its next variant, which asks for the first page.
CreateWorker(n, d) ==
  /\ d \in left[n]
  /\ Moves(n, "choosing", "index")
  /\ left' = [left EXCEPT ![n] = @ \ {d}]
  /\ def' = [def EXCEPT ![n] = d]
  /\ UNCHANGED <<command, output, asked, validate, pages, found, list, listed, permits, answer,
                 late, queueVars>>

\* Mutant: the list of the last variant replaces those before.
GotReplacing(n, S) ==
  /\ list' = (list \ ListOf(n)) \cup ({def[n]} \X (S \cap Usable))
  /\ at' = [at EXCEPT ![n] = IF left[n] # {} THEN "choosing"
                             ELSE IF validate THEN "pushing" ELSE "fetched"]

\* get() has resolved with the proxies S: the usable ones join the list, and the task
\* visits its next variant, adds the validate task, or returns.
Got(n, S) ==
  /\ list' = list \cup ({def[n]} \X (S \cap Usable))
  /\ at' = [at EXCEPT ![n] = IF left[n] # {} THEN "choosing"
                             ELSE IF validate THEN "pushing" ELSE "fetched"]

\* The worker has found S and asks for another k pages; after the last it is dropped.
Continue(n, k, S) ==
  /\ pages' = [pages EXCEPT ![n] = k]
  /\ \/ k = 0 /\ Got(n, S) /\ found' = [found EXCEPT ![n] = {}]
     \/ /\ k > 0
        /\ at' = [at EXCEPT ![n] = "paging"]
        /\ found' = [found EXCEPT ![n] = S]
        /\ UNCHANGED list

\* FreeProxyListsCom: the first page lists the ids of the pages to load.
IndexAnswers(n) ==
  /\ Paged(n)
  /\ at[n] = "index"
  /\ \E k \in 0 .. MaxPages : Continue(n, k, {})
  /\ UNCHANGED <<command, output, asked, validate, left, def, listed, permits, answer, late,
                 queueVars>>

\* ProxyListenDe: the first page holds the field to send along with the form.
FormAnswers(n) ==
  /\ ~Paged(n)
  /\ at[n] = "index"
  /\ Continue(n, MaxRounds, {})
  /\ UNCHANGED <<command, output, asked, validate, left, def, listed, permits, answer, late,
                 queueVars>>

\* A page of FreeProxyListsCom shows the addresses S; push() drops what is known.
PageAnswers(n, S) ==
  /\ Paged(n)
  /\ at[n] = "paging"
  /\ listed' = listed \cup ({def[n]} \X (S \cap Usable))
  /\ Continue(n, pages[n] - 1, found[n] \cup S)
  /\ UNCHANGED <<command, output, asked, validate, left, def, permits, answer, late, queueVars>>

\* ProxyListenDe gives up early when a round has added nothing.
RoundAnswers(n, S) ==
  /\ ~Paged(n)
  /\ at[n] = "paging"
  /\ listed' = listed \cup ({def[n]} \X (S \cap Usable))
  /\ Continue(n, IF S \subseteq found[n] THEN 0 ELSE pages[n] - 1, found[n] \cup S)
  /\ UNCHANGED <<command, output, asked, validate, left, def, permits, answer, late, queueVars>>

\* A request or a page that cannot be read rejects get() and with it the fetch task:
\* nothing is validated or returned, not even what other variants have given.
RequestFails(n) ==
  /\ at[n] \in {"index", "paging"}
  /\ at' = [at EXCEPT ![n] = "failed"]
  /\ found' = [found EXCEPT ![n] = {}]
  /\ UNCHANGED <<command, output, asked, validate, left, def, pages, list, listed, permits,
                 answer, late, queueVars>>

-----------------------------------------------------------------------------
(* The validate tasks and the validator *)

NotesLate(j) == late' = IF emptying = {} THEN late ELSE late \cup {j}

\* exec() takes a permit and pushes its next proxy.
Push(n, p) ==
  /\ at[n] = "pushing"
  /\ p \in Todo(n)
  /\ permits[n] > 0
  /\ permits' = [permits EXCEPT ![n] = @ - 1]
  /\ Queue!Push(p)
  /\ NotesLate(p)
  /\ UNCHANGED <<command, output, at, answer, fetchVars>>

\* Nothing to validate: exec() returns at once.
ReturnNothing(n) ==
  /\ ListOf(n) = {}
  /\ Moves(n, "pushing", "returned")
  /\ UNCHANGED <<command, output, permits, answer, late, fetchVars, queueVars>>

AskEmpty(n) ==
  /\ ListOf(n) # {}
  /\ Todo(n) = {}
  /\ Moves(n, "pushing", "asking")
  /\ Queue!Ask(n)
  /\ UNCHANGED <<command, output, permits, answer, late, fetchVars>>

\* Mutant: exec() does not wait for the validator to be empty.
ReturnUnasked(n) ==
  /\ Moves(n, "asking", "returned")
  /\ answer' = [answer EXCEPT ![n] = Results(n)]
  /\ UNCHANGED <<command, output, permits, late, fetchVars, queueVars>>

\* The validator was empty, or has become so: the results there are, are the answer.
Return(n) ==
  /\ asker[n] = "resolved"
  /\ Moves(n, "asking", "returned")
  /\ answer' = [answer EXCEPT ![n] = Results(n)]
  /\ UNCHANGED <<command, output, permits, late, fetchVars, queueVars>>

Release(p) == permits' = [permits EXCEPT ![p[1].name] = @ + 1]

\* Mutant: the permit is given back in then(), which an error skips.
JobSettlesHolding(p, how) ==
  /\ Queue!Settle(p, how)
  /\ IF how = "done" THEN Release(p) ELSE UNCHANGED permits
  /\ UNCHANGED <<command, output, at, answer, late, fetchVars>>

\* A job settles; then() has collected its results, and finally() has given the permit
\* back, before the queue looks for more.
JobSettles(p, how) ==
  /\ Queue!Settle(p, how)
  /\ Release(p)
  /\ UNCHANGED <<command, output, at, answer, late, fetchVars>>

\* An event pushes a proxy, once each.
OtherPushed(o) ==
  /\ job[o] = "none"
  /\ Queue!Push(o)
  /\ NotesLate(o)
  /\ UNCHANGED <<command, output, at, permits, answer, fetchVars>>

OtherSettles(o, how) ==
  /\ Queue!Settle(o, how)
  /\ UNCHANGED <<command, output, at, permits, answer, late, fetchVars>>

EmptyBegins(e) ==
  /\ Queue!OnEmpty(e) \/ Queue!EmptyAtOnce(e)
  /\ UNCHANGED <<command, output, at, permits, answer, late, fetchVars>>

\* It may reject, and then answers nobody.
EmptyEnds(e) ==
  /\ Queue!EmptyFinished(e) \/ Queue!EmptyRejects(e)
  /\ UNCHANGED <<command, output, at, permits, answer, late, fetchVars>>

\* The tasks are over: the command joins the lists of the last ones and drops what
\* is in them twice.  A task that failed has none, of which JSON shows a null at most.
CommandEnds ==
  /\ command = "running"
  /\ \A n \in Names : at[n] \in Over
  /\ command' = "over"
  /\ output' = IF validate THEN {p[2] : p \in UNION {answer[n] : n \in Names}}
               ELSE {p[2] : p \in UNION {ListOf(n) : n \in {m \in Names : at[m] = "fetched"}}}
  /\ UNCHANGED <<at, permits, answer, late, fetchVars, queueVars>>

\* In csv the entry of a task without a result, if the runner leaves one, has no ip
\* to be printed, and the command ends with this error.
PrintFails ==
  /\ command = "running"
  /\ ~validate
  /\ \A n \in Names : at[n] \in Over
  /\ \E n \in Names : at[n] = "failed"
  /\ command' = "failed"
  /\ UNCHANGED <<output, at, permits, answer, late, fetchVars, queueVars>>

-----------------------------------------------------------------------------

Fetch(n) ==
  \/ \E d \in Registered : CreateWorker(n, d)
  \/ IndexAnswers(n)
  \/ FormAnswers(n)
  \/ \E S \in SUBSET Addresses : PageAnswers(n, S) \/ RoundAnswers(n, S)
  \/ RequestFails(n)

Validate(n) ==
  \/ \E p \in Proxies : Push(n, p)
  \/ ReturnNothing(n)
  \/ AskEmpty(n)
  \/ Return(n)

Ends == {"done", "failed"}

Next ==
  \/ \E query \in Queries, check \in BOOLEAN : Command(query, check)
  \/ \E n \in Names : Fetch(n) \/ Validate(n)
  \/ \E p \in Proxies, how \in Ends : JobSettles(p, how)
  \/ \E o \in Others : OtherPushed(o) \/ \E how \in Ends : OtherSettles(o, how)
  \/ \E e \in Empties : EmptyBegins(e) \/ EmptyEnds(e)
  \/ CommandEnds
  \/ PrintFails

Spec == Init /\ [][Next]_vars

\* Jobs settle (JobsEnd of ProxyValidator), but not surely those pushed while an
\* onEmpty() was about to stop the judge; onEmpty() is called and ends or rejects; tasks
\* go on.
\* No site is assumed to answer: the requests of the scrapers have no timeout.
Fairness ==
  /\ \A n \in Names : WF_vars(Validate(n))
  /\ \A p \in Proxies : WF_vars(p \notin late /\ \E how \in Ends : JobSettles(p, how))
  /\ \A o \in Others : WF_vars(o \notin late /\ \E how \in Ends : OtherSettles(o, how))
  /\ WF_vars(\E e \in Empties : EmptyBegins(e))
  /\ \A e \in Empties : WF_vars(EmptyEnds(e))

FairSpec == Spec /\ Fairness

-----------------------------------------------------------------------------
(* Properties *)

\* Every variable has its type.
TypeOK ==
  /\ command \in {"none", "running", "over", "failed"}
  /\ asked \subseteq Registered
  /\ validate \in BOOLEAN
  /\ output \subseteq Addresses
  /\ at \in [Names -> Places]
  /\ left \in [Names -> SUBSET Registered]
  /\ def \in [Names -> Registered]
  /\ pages \in [Names -> Nat]
  /\ found \in [Names -> SUBSET Addresses]
  /\ list \subseteq Proxies
  /\ listed \subseteq Proxies
  /\ permits \in [Names -> Nat]
  /\ answer \in [Names -> SUBSET Proxies]
  /\ late \subseteq Proxies \cup Others
  /\ job \in [Proxies \cup Others -> {"none", "pending"} \cup Ends]
  /\ dry \in BOOLEAN
  /\ emptying \subseteq Empties
  /\ isEmpty \in BOOLEAN
  /\ rejected \in BOOLEAN
  /\ asker \in [Names -> {"none", "waiting", "resolved", "stranded"}]

\* A validate task returns the results of all its proxies that have some, and none
\* of its jobs is still to settle, however many tasks and events share the
\* validator - unless one of its own was pushed while an onEmpty() was under way.
ResultsComplete ==
  \A n \in Names : at[n] = "returned" /\ ListOf(n) \cap late = {} =>
    /\ answer[n] = Results(n)
    /\ \A p \in ListOf(n) : job[p] \in Ends

\* What the sites have shown of the variants asked for, of the providers of which
\* no request has failed.
Shown == {p \in listed : p[1] \in asked /\ at[p[1].name] # "failed"}

\* What the command prints is all of it, all or nothing of each provider; after validation,
\* those with results.
OutputWhole ==
  command = "over" =>
    /\ ~validate => output = {p[2] : p \in Shown}
    /\ validate /\ late = {} => output = {p[2] : p \in {q \in Shown : job[q] = "done"}}
    /\ output \subseteq {p[2] : p \in Shown}

\* A task has at most Limit proxies at the validator, and has every permit back that
\* it does not need for one of them, however its jobs end.
PermitsAccounted ==
  \A n \in Names : permits[n] + Cardinality({p \in ListOf(n) : job[p] = "pending"}) = Limit

\* A validate task never waits for what cannot come: it can push or ask, one of its own
\* jobs is about to give it a permit, the validator has answered it, or there is a job,
\* an onEmpty() that is due or one under way at whose end the validator will - unless
\* the last one has rejected and no job came since.
TasksNeverStuck ==
  \A n \in Names :
    /\ at[n] = "pushing" =>
         /\ asker[n] = "none"
         /\ Todo(n) = {} \/ permits[n] > 0 \/ \E p \in ListOf(n) : job[p] = "pending"
    /\ at[n] = "asking" =>
         \/ asker[n] = "resolved"
         \/ asker[n] = "waiting" /\ (Queue!Pending # {} \/ dry \/ emptying # {} \/ rejected)

\* A validate task comes to its end, although it waits for the jobs of all others,
\* unless one was pushed while an onEmpty() was under way (and has lost the judge) or an
\* onEmpty() rejects - and then it does after the next job, if that one's onEmpty() ends.
TasksReturn ==
  \A n \in Names :
    at[n] \in {"pushing", "asking"} ~> at[n] = "returned" \/ late # {} \/ rejected
=============================================================================

-------------------------- MODULE ProxyTasksProofs --------------------------
(***************************************************************************)
(* Proofs about ProxyTasks: types, the lists the command prints, the       *)
(* results the validate tasks return, their permits and what they wait     *)
(* for, and their use of the validator, for any classes, pages and events. *)
(***************************************************************************)
EXTENDS ProxyTasks, FiniteSetTheorems, TLAPS

-----------------------------------------------------------------------------
(* Definitions and queries *)

\* A definition is its name and its type.
LEMMA RegisteredFacts ==
  /\ \A d \in Registered : d = [name |-> d.name, type |-> d.type] /\ d.name \in Names
                           /\ d.name # All /\ d.type # All
  /\ \A n \in Names : \E d \in Registered : d.name = n
  <1>1. ASSUME NEW d \in Registered
        PROVE  d = [name |-> d.name, type |-> d.type] /\ d.name \in Names
               /\ d.name # All /\ d.type # All
    <2>1. PICK c \in Classes : d \in Definitions(c)
      BY DEF Registered
    <2>2. PICK t \in IF c.types = {} THEN {"all"} ELSE c.types : d = [name |-> c.name, type |-> t]
      BY <2>1 DEF Definitions
    <2> QED
      BY <2>2, TasksAssumption DEF Names, All
  <1>2. ASSUME NEW n \in Names
        PROVE  \E d \in Registered : d.name = n
    <2>1. PICK c \in Classes : c.name = n
      BY DEF Names
    <2>2. PICK t : t \in IF c.types = {} THEN {"all"} ELSE c.types
      OBVIOUS
    <2>3. [name |-> c.name, type |-> t] \in Definitions(c)
      BY <2>2 DEF Definitions
    <2>4. [name |-> c.name, type |-> t] \in Registered
      BY <2>3 DEF Registered
    <2> QED
      BY <2>1, <2>4
  <1> QED
    BY <1>1, <1>2

\* The fetch task of n visits the variants the command has found for n.
LEMMA ChosenFacts ==
  ASSUME NEW variants \in SUBSET Registered, NEW n \in Names
  PROVE  Chosen(n, {d.type : d \in {v \in variants : v.name = n}}) = {v \in variants : v.name = n}
  <1> DEFINE T == {d.type : d \in {v \in variants : v.name = n}}
  <1>1. n # All /\ All \notin T
    BY RegisteredFacts
  <1>2. FindAll([name |-> n]) = {d \in Registered : d.name = n}
    BY <1>1 DEF FindAll
  <1>3. ASSUME NEW d \in Registered, d.name = n, d.type \in T
        PROVE  d \in variants
    <2>1. PICK v \in variants : v.name = n /\ v.type = d.type
      BY <1>3
    <2> QED
      BY <2>1, <1>3, RegisteredFacts
  <1> QED
    BY <1>1, <1>2, <1>3 DEF Chosen

-----------------------------------------------------------------------------
(* Type correctness *)

QueueTypeOK ==
  /\ job \in [Proxies \cup Others -> {"none", "pending"} \cup Ends]
  /\ dry \in BOOLEAN
  /\ emptying \subseteq Empties
  /\ isEmpty \in BOOLEAN
  /\ rejected \in BOOLEAN
  /\ asker \in [Names -> {"none", "waiting", "resolved", "stranded"}]

\* Every operation of the validator keeps its types.
LEMMA QueueTypes ==
  ASSUME QueueTypeOK
  PROVE  /\ \A j \in Proxies \cup Others :
              Queue!Push(j) \/ (\E how \in Ends : Queue!Settle(j, how)) => QueueTypeOK'
         /\ \A e \in Empties :
              (\/ Queue!OnEmpty(e) \/ Queue!EmptyAtOnce(e)
               \/ Queue!EmptyFinished(e) \/ Queue!EmptyRejects(e)) => QueueTypeOK'
         /\ \A n \in Names : Queue!Ask(n) => QueueTypeOK'
  <1>1. ASSUME NEW j \in Proxies \cup Others, Queue!Push(j)
        PROVE  QueueTypeOK'
    BY <1>1 DEF QueueTypeOK, Queue!Push, Ends
  <1>2. ASSUME NEW j \in Proxies \cup Others, NEW how \in Ends, Queue!Settle(j, how)
        PROVE  QueueTypeOK'
    <2>1. dry' \in BOOLEAN
      BY <1>2 DEF Queue!Settle
    <2> QED
      BY <1>2, <2>1 DEF QueueTypeOK, Queue!Settle, Ends
  <1>3. ASSUME NEW e \in Empties, Queue!OnEmpty(e)
        PROVE  QueueTypeOK'
    BY <1>3 DEF QueueTypeOK, Queue!OnEmpty
  <1>4. ASSUME NEW e \in Empties, Queue!EmptyAtOnce(e)
        PROVE  QueueTypeOK'
    BY <1>4 DEF QueueTypeOK, Queue!EmptyAtOnce, Queue!Wake
  <1>5. ASSUME NEW e \in Empties, Queue!EmptyFinished(e)
        PROVE  QueueTypeOK'
    BY <1>5 DEF QueueTypeOK, Queue!EmptyFinished, Queue!Wake
  <1>6. ASSUME NEW e \in Empties, Queue!EmptyRejects(e)
        PROVE  QueueTypeOK'
    BY <1>6 DEF QueueTypeOK, Queue!EmptyRejects
  <1>7. ASSUME NEW n \in Names, Queue!Ask(n)
        PROVE  QueueTypeOK'
    BY <1>7 DEF QueueTypeOK, Queue!Ask
  <1> QED
    BY <1>1, <1>2, <1>3, <1>4, <1>5, <1>6, <1>7

\* A worker that waits for a page has asked for it.
PagesLeft == \A n \in Names : at[n] = "paging" => pages[n] # 0

\* What get() leaves behind is of the right type.
LEMMA ContinueType ==
  ASSUME TypeOK, PagesLeft, NEW n \in Names, NEW k \in Nat, NEW S \in SUBSET Addresses,
         Continue(n, k, S)
  PROVE  /\ at' \in [Names -> Places]
         /\ pages' \in [Names -> Nat]
         /\ found' \in [Names -> SUBSET Addresses]
         /\ list' \subseteq Proxies
         /\ PagesLeft'
  <1>1. def[n] \in Registered
    BY DEF TypeOK
  <1>2. pages' \in [Names -> Nat] /\ found' \in [Names -> SUBSET Addresses]
    BY DEF TypeOK, Continue
  <1>3. at' \in [Names -> Places]
    BY DEF TypeOK, Continue, Got, Places, Over
  <1>4. list' \subseteq Proxies
    BY <1>1 DEF TypeOK, Continue, Got, Proxies
  <1>5. PagesLeft'
    BY DEF TypeOK, PagesLeft, Continue, Got
  <1> QED
    BY <1>2, <1>3, <1>4, <1>5

\* Every step of the command, a task, a job or onEmpty() keeps the types.
LEMMA TypeStep == TypeOK /\ PagesLeft /\ [Next]_vars => TypeOK' /\ PagesLeft'
  <1> SUFFICES ASSUME TypeOK, PagesLeft, [Next]_vars PROVE TypeOK' /\ PagesLeft'
    OBVIOUS
  <1> USE DEF fetchVars, queueVars
  <1>q. QueueTypeOK
    BY DEF TypeOK, QueueTypeOK
  <1>1. ASSUME NEW query \in Queries, NEW check \in BOOLEAN, Command(query, check)
        PROVE  TypeOK' /\ PagesLeft'
    <2>1. asked' \subseteq Registered
      BY <1>1 DEF Command, FindAll
    <2>2. left' \in [Names -> SUBSET Registered]
      BY <1>1 DEF Command, Chosen, FindAll
    <2>3. /\ at' \in [Names -> {"choosing", "none"}]
          /\ validate' \in BOOLEAN /\ command' = "running"
      BY <1>1 DEF Command
    <2>4. UNCHANGED <<output, def, pages, found, list, listed, permits, answer, late, queueVars>>
      BY <1>1 DEF Command
    <2>5. at' \in [Names -> Places] /\ PagesLeft'
      BY <2>3 DEF Places, Over, PagesLeft
    <2> QED
      BY <2>1, <2>2, <2>3, <2>4, <2>5 DEF TypeOK
  <1>2. ASSUME NEW n \in Names, NEW d \in Registered, CreateWorker(n, d)
        PROVE  TypeOK' /\ PagesLeft'
    BY <1>2 DEF TypeOK, PagesLeft, CreateWorker, Moves, Places
  <1>3. ASSUME NEW n \in Names, IndexAnswers(n)
        PROVE  TypeOK' /\ PagesLeft'
    <2>1. PICK k \in Nat : Continue(n, k, {})
      BY <1>3, TasksAssumption DEF IndexAnswers
    <2> QED
      BY <1>3, <2>1, ContinueType DEF TypeOK, IndexAnswers
  <1>4. ASSUME NEW n \in Names, FormAnswers(n)
        PROVE  TypeOK' /\ PagesLeft'
    <2>1. Continue(n, MaxRounds, {}) /\ MaxRounds \in Nat
      BY <1>4, TasksAssumption DEF FormAnswers
    <2> QED
      BY <1>4, <2>1, ContinueType DEF TypeOK, FormAnswers
  <1>5. ASSUME NEW n \in Names, NEW S \in SUBSET Addresses, PageAnswers(n, S) \/ RoundAnswers(n, S)
        PROVE  TypeOK' /\ PagesLeft'
    <2>1. PICK k : Continue(n, k, found[n] \cup S) /\ k \in {0, pages[n] - 1}
      BY <1>5 DEF PageAnswers, RoundAnswers
    <2>2. pages[n] \in Nat /\ found[n] \cup S \in SUBSET Addresses /\ def[n] \in Registered
      BY DEF TypeOK
    <2>3. pages[n] # 0
      BY <1>5 DEF PageAnswers, RoundAnswers, PagesLeft
    <2>4. k \in Nat
      BY <2>1, <2>2, <2>3
    <2>5. listed' \subseteq Proxies
      BY <1>5, <2>2, TasksAssumption DEF TypeOK, PageAnswers, RoundAnswers, Proxies
    <2>6. UNCHANGED <<command, output, asked, validate, left, def, permits, answer, late, queueVars>>
      BY <1>5 DEF PageAnswers, RoundAnswers
    <2> QED
      BY <2>1, <2>2, <2>4, <2>5, <2>6, ContinueType DEF TypeOK
  <1>6. ASSUME NEW n \in Names, RequestFails(n)
        PROVE  TypeOK' /\ PagesLeft'
    BY <1>6 DEF TypeOK, PagesLeft, RequestFails, Places, Over
  <1>7. ASSUME NEW n \in Names, NEW p \in Proxies, Push(n, p)
        PROVE  TypeOK' /\ PagesLeft'
    <2>1. QueueTypeOK'
      BY <1>q, <1>7, QueueTypes DEF Push
    <2>2. permits' \in [Names -> Nat] /\ late' \subseteq Proxies \cup Others
      BY <1>7 DEF TypeOK, Push, NotesLate
    <2>3. UNCHANGED <<command, output, at, answer, fetchVars>>
      BY <1>7 DEF Push
    <2> QED
      BY <2>1, <2>2, <2>3 DEF TypeOK, QueueTypeOK, PagesLeft
  <1>8. ASSUME NEW n \in Names, ReturnNothing(n)
        PROVE  TypeOK' /\ PagesLeft'
    BY <1>8 DEF TypeOK, PagesLeft, ReturnNothing, Moves, Places, Over
  <1>9. ASSUME NEW n \in Names, AskEmpty(n)
        PROVE  TypeOK' /\ PagesLeft'
    <2>1. QueueTypeOK'
      BY <1>q, <1>9, QueueTypes DEF AskEmpty
    <2>2. at' \in [Names -> Places] /\ PagesLeft'
      BY <1>9 DEF TypeOK, PagesLeft, AskEmpty, Moves, Places
    <2>3. UNCHANGED <<command, output, permits, answer, late, fetchVars>>
      BY <1>9 DEF AskEmpty
    <2> QED
      BY <2>1, <2>2, <2>3 DEF TypeOK, QueueTypeOK
  <1>10. ASSUME NEW n \in Names, Return(n)
         PROVE  TypeOK' /\ PagesLeft'
    <2>1. Results(n) \in SUBSET Proxies
      BY DEF TypeOK, Results, ListOf
    <2>2. answer' \in [Names -> SUBSET Proxies]
      BY <1>10, <2>1 DEF TypeOK, Return
    <2>3. at' \in [Names -> Places] /\ PagesLeft'
      BY <1>10 DEF TypeOK, PagesLeft, Return, Moves, Places, Over
    <2>4. UNCHANGED <<command, output, permits, late, fetchVars, queueVars>>
      BY <1>10 DEF Return
    <2> QED
      BY <2>2, <2>3, <2>4 DEF TypeOK
  <1>11. ASSUME NEW p \in Proxies, NEW how \in Ends, JobSettles(p, how)
         PROVE  TypeOK' /\ PagesLeft'
    <2>1. QueueTypeOK'
      BY <1>q, <1>11, QueueTypes DEF JobSettles
    <2>2. permits' \in [Names -> Nat]
      <3>1. p[1].name \in Names
        BY RegisteredFacts DEF Proxies
      <3> QED
        BY <1>11, <3>1 DEF TypeOK, JobSettles, Release
    <2>3. UNCHANGED <<command, output, at, answer, late, fetchVars>>
      BY <1>11 DEF JobSettles
    <2> QED
      BY <2>1, <2>2, <2>3 DEF TypeOK, QueueTypeOK, PagesLeft
  <1>12. ASSUME NEW o \in Others,
                OtherPushed(o) \/ (\E how \in Ends : OtherSettles(o, how))
         PROVE  TypeOK' /\ PagesLeft'
    <2>1. QueueTypeOK'
      BY <1>q, <1>12, QueueTypes DEF OtherPushed, OtherSettles
    <2>2. late' \subseteq Proxies \cup Others
      BY <1>12 DEF TypeOK, OtherPushed, OtherSettles, NotesLate
    <2>3. UNCHANGED <<command, output, at, permits, answer, fetchVars>>
      BY <1>12 DEF OtherPushed, OtherSettles
    <2> QED
      BY <2>1, <2>2, <2>3 DEF TypeOK, QueueTypeOK, PagesLeft
  <1>13. ASSUME NEW e \in Empties, EmptyBegins(e) \/ EmptyEnds(e)
         PROVE  TypeOK' /\ PagesLeft'
    <2>1. QueueTypeOK'
      BY <1>q, <1>13, QueueTypes DEF EmptyBegins, EmptyEnds
    <2>2. UNCHANGED <<command, output, at, permits, answer, late, fetchVars>>
      BY <1>13 DEF EmptyBegins, EmptyEnds
    <2> QED
      BY <2>1, <2>2 DEF TypeOK, QueueTypeOK, PagesLeft
  <1>14. ASSUME CommandEnds
         PROVE  TypeOK' /\ PagesLeft'
    <2>1. \A n \in Names : ListOf(n) \subseteq Proxies /\ answer[n] \subseteq Proxies
      BY DEF TypeOK, ListOf
    <2>2. output' \subseteq Addresses
      BY <1>14, <2>1 DEF CommandEnds, Proxies
    <2> QED
      BY <1>14, <2>2 DEF TypeOK, PagesLeft, CommandEnds
  <1>15. CASE PrintFails
    BY <1>15 DEF TypeOK, PagesLeft, PrintFails
  <1>16. CASE UNCHANGED vars
    BY <1>16 DEF TypeOK, PagesLeft, vars
  <1> QED
    BY <1>1, <1>2, <1>3, <1>4, <1>5, <1>6, <1>7, <1>8, <1>9, <1>10, <1>11, <1>12, <1>13, <1>14,
       <1>15, <1>16 DEF Next, Fetch, Validate

\* The types hold at the start.
LEMMA TypeInit == Init => TypeOK /\ PagesLeft
  <1> SUFFICES ASSUME Init PROVE TypeOK /\ PagesLeft
    OBVIOUS
  <1>1. def \in [Names -> Registered]
    BY RegisteredFacts DEF Init
  <1>2. Queue!Init
    BY DEF Init
  <1> QED
    BY <1>1, <1>2, TasksAssumption DEF Init, Queue!Init, TypeOK, PagesLeft, Places, Over

\* Every variable of the command, its tasks and the validator keeps its type.
THEOREM TypeCorrect == Spec => []TypeOK
  BY TypeInit, TypeStep, PTL DEF Spec

-----------------------------------------------------------------------------
(* The results of the validate tasks *)

Scraping == {"choosing", "index", "paging"}

\* A task deals with the variants of its own provider, and before the command there
\* is nothing.
NamesInv ==
  /\ \A n \in Names : def[n].name = n /\ \A d \in left[n] : d.name = n
  /\ command = "none" => list = {} /\ listed = {} /\ \A n \in Names : at[n] = "none"

\* A step of a fetch task touches no other task, no validate task and no job.
FetchFrame(n) ==
  /\ at[n] \in Scraping
  /\ at'[n] \in Scraping \cup {"pushing", "fetched", "failed"}
  /\ \A m \in Names \ {n} : at'[m] = at[m] /\ ListOf(m)' = ListOf(m)
  /\ UNCHANGED <<command, output, asked, validate, permits, answer, late, queueVars>>

\* get() adds to the list of its own task.
LEMMA ContinueFrame ==
  ASSUME TypeOK, NamesInv, NEW n \in Names, NEW k \in Nat, NEW S, Continue(n, k, S)
  PROVE  /\ at'[n] \in Scraping \cup {"pushing", "fetched", "failed"}
         /\ \A m \in Names \ {n} : at'[m] = at[m] /\ ListOf(m)' = ListOf(m)
  <1>1. at'[n] \in {"choosing", "paging", "pushing", "fetched"}
    BY DEF TypeOK, Continue, Got
  <1>2. ASSUME NEW m \in Names \ {n}
        PROVE  at'[m] = at[m] /\ ListOf(m)' = ListOf(m)
    <2>1. at'[m] = at[m]
      BY <1>2 DEF TypeOK, Continue, Got
    <2>2. list' = list \/ list' = list \cup ({def[n]} \X (S \cap Usable))
      BY DEF Continue, Got
    <2>3. \A p \in {def[n]} \X (S \cap Usable) : p[1].name # m
      BY <1>2 DEF NamesInv
    <2> QED
      BY <2>1, <2>2, <2>3 DEF ListOf
  <1> QED
    BY <1>1, <1>2 DEF Scraping

\* So do all steps of a fetch task.
LEMMA FetchFrames ==
  ASSUME TypeOK, PagesLeft, NamesInv, NEW n \in Names, Fetch(n)
  PROVE  FetchFrame(n) /\ NamesInv'
  <1> USE DEF fetchVars
  <1>1. ASSUME NEW d \in Registered, CreateWorker(n, d)
        PROVE  FetchFrame(n) /\ NamesInv'
    <2>1. FetchFrame(n)
      BY <1>1 DEF TypeOK, CreateWorker, Moves, FetchFrame, Scraping, ListOf
    <2>2. \A m \in Names : def'[m].name = m /\ \A v \in left'[m] : v.name = m
      BY <1>1 DEF TypeOK, NamesInv, CreateWorker
    <2>3. command # "none" /\ command' = command
      BY <1>1 DEF NamesInv, CreateWorker, Moves
    <2> QED
      BY <2>1, <2>2, <2>3 DEF NamesInv
  <1>2. ASSUME NEW k \in Nat, NEW S, Continue(n, k, S), at[n] \in {"index", "paging"},
               UNCHANGED <<command, output, asked, validate, left, def, permits, answer, late,
                           queueVars>>
        PROVE  FetchFrame(n) /\ NamesInv'
    <2>1. FetchFrame(n)
      BY <1>2, ContinueFrame DEF FetchFrame, Scraping
    <2>2. command # "none"
      BY <1>2 DEF NamesInv
    <2> QED
      BY <1>2, <2>1, <2>2 DEF NamesInv
  <1>3. ASSUME IndexAnswers(n)
        PROVE  FetchFrame(n) /\ NamesInv'
    <2>1. PICK k \in Nat : Continue(n, k, {})
      BY <1>3, TasksAssumption DEF IndexAnswers
    <2> QED
      BY <1>3, <2>1, <1>2 DEF IndexAnswers
  <1>4. ASSUME FormAnswers(n)
        PROVE  FetchFrame(n) /\ NamesInv'
    <2>1. Continue(n, MaxRounds, {}) /\ MaxRounds \in Nat
      BY <1>4, TasksAssumption DEF FormAnswers
    <2> QED
      BY <1>4, <2>1, <1>2 DEF FormAnswers
  <1>5. ASSUME NEW S \in SUBSET Addresses, PageAnswers(n, S) \/ RoundAnswers(n, S)
        PROVE  FetchFrame(n) /\ NamesInv'
    <2>1. PICK k : Continue(n, k, found[n] \cup S) /\ k \in {0, pages[n] - 1}
      BY <1>5 DEF PageAnswers, RoundAnswers
    <2>2. at[n] = "paging"
      BY <1>5 DEF PageAnswers, RoundAnswers
    <2>3. k \in Nat
      BY <2>1, <2>2 DEF TypeOK, PagesLeft
    <2>4. UNCHANGED <<command, output, asked, validate, left, def, permits, answer, late, queueVars>>
      BY <1>5 DEF PageAnswers, RoundAnswers
    <2> QED
      BY <2>1, <2>2, <2>3, <2>4, <1>2
  <1>6. ASSUME RequestFails(n)
        PROVE  FetchFrame(n) /\ NamesInv'
    <2>1. FetchFrame(n)
      BY <1>6 DEF TypeOK, RequestFails, FetchFrame, Scraping, ListOf
    <2>2. command # "none"
      BY <1>6 DEF NamesInv, RequestFails
    <2> QED
      BY <1>6, <2>1, <2>2 DEF NamesInv, RequestFails
  <1> QED
    BY <1>1, <1>3, <1>4, <1>5, <1>6 DEF Fetch

\* The command starts fetch tasks for variants of their own.
LEMMA CommandFrame ==
  ASSUME TypeOK, NamesInv, NEW query \in Queries, NEW check \in BOOLEAN, Command(query, check)
  PROVE  /\ NamesInv'
         /\ command = "none" /\ command' = "running"
         /\ asked' \subseteq Registered
         /\ \A n \in Names :
              \/ at'[n] = "choosing" /\ left'[n] = {d \in asked' : d.name = n}
              \/ at'[n] = "none" /\ left'[n] = {} /\ {d \in asked' : d.name = n} = {}
  <1> DEFINE V == FindAll(query)
  <1>1. V \subseteq Registered /\ asked' = V
    BY DEF FindAll, Command
  <1>2. ASSUME NEW n \in Names
        PROVE  \/ at'[n] = "choosing" /\ left'[n] = {d \in V : d.name = n}
               \/ at'[n] = "none" /\ left'[n] = {} /\ {d \in V : d.name = n} = {}
    <2>1. Chosen(n, {d.type : d \in {v \in V : v.name = n}}) = {v \in V : v.name = n}
      BY <1>1, ChosenFacts
    <2>2. CASE n \in {d.name : d \in V}
      BY <2>1, <2>2 DEF Command
    <2>3. CASE n \notin {d.name : d \in V}
      BY <2>3 DEF Command
    <2> QED
      BY <2>2, <2>3
  <1>3. NamesInv'
    BY <1>1, <1>2 DEF NamesInv, Command
  <1> QED
    BY <1>1, <1>2, <1>3 DEF Command

\* All that is left to settle was pushed while an onEmpty() was under way.
OnlyLate == \A p \in Proxies : job[p] = "pending" => p \in late

\* What the flag, an onEmpty() under way and one about to be called say of the jobs.
EmptyInv ==
  /\ isEmpty \/ emptying # {} => OnlyLate
  /\ dry => \A p \in Proxies : job[p] # "pending"

\* The jobs of n have settled, up to late ones.
Settled(n) == \A p \in ListOf(n) : p \notin late => job[p] \in Ends

\* What the place a validate task stands at says of its jobs and its results.
TaskInv(n) ==
  /\ asker[n] = "waiting" => at[n] = "asking"
  /\ asker[n] = "resolved" => at[n] \in {"asking", "returned"} /\ Settled(n)
  /\ at[n] = "asking" => Todo(n) = {}
  /\ at[n] # "returned" => answer[n] = {}
  /\ at[n] = "returned" =>
       /\ Todo(n) = {}
       /\ Settled(n)
       /\ answer[n] \subseteq ListOf(n)
       /\ ListOf(n) \cap late = {} => answer[n] = Results(n)

ResultInv == EmptyInv /\ \A n \in Names : TaskInv(n)

\* Tasks elsewhere do not notice what becomes of jobs that are not theirs, nor of
\* theirs that were pending, as long as those settle.
LEMMA TaskKeeps ==
  ASSUME TypeOK, NEW n \in Names, TaskInv(n),
         at'[n] = at[n], answer'[n] = answer[n], asker'[n] = asker[n],
         UNCHANGED list, late \subseteq late',
         \A p \in Proxies : job[p] # "none" => job'[p] # "none",
         \A p \in Proxies : job[p] \in Ends => job'[p] = job[p],
         at[n] = "returned" /\ ListOf(n) \cap late = {} =>
           \A p \in ListOf(n) : job'[p] = job[p] /\ p \notin late'
  PROVE  TaskInv(n)'
  <1>1. ListOf(n)' = ListOf(n) /\ ListOf(n) \subseteq Proxies
    BY DEF TypeOK, ListOf
  <1>2. Todo(n) = {} => Todo(n)' = {}
    BY <1>1 DEF Todo
  <1>3. Settled(n) => Settled(n)'
    BY <1>1 DEF Settled
  <1>4. at[n] = "returned" /\ ListOf(n)' \cap late' = {} => answer'[n] = Results(n)'
    <2> SUFFICES ASSUME at[n] = "returned", ListOf(n)' \cap late' = {}
                 PROVE  answer'[n] = Results(n)'
      OBVIOUS
    <2>1. ListOf(n) \cap late = {} /\ answer[n] = Results(n)
      BY <1>1 DEF TaskInv
    <2>2. Results(n)' = Results(n)
      BY <1>1, <2>1 DEF Results
    <2> QED
      BY <2>1, <2>2
  <1> QED
    BY <1>1, <1>2, <1>3, <1>4 DEF TaskInv

\* Nothing of the validator changes: the tasks know what they knew.
LEMMA ResultStutter ==
  ASSUME TypeOK, ResultInv, UNCHANGED <<queueVars, late, answer>>,
         \A n \in Names : at'[n] = at[n] /\ ListOf(n)' = ListOf(n)
  PROVE  ResultInv'
  <1>1. EmptyInv'
    BY DEF ResultInv, EmptyInv, OnlyLate, queueVars
  <1>2. ASSUME NEW n \in Names
        PROVE  TaskInv(n)'
    BY DEF ResultInv, TaskInv, Todo, Settled, Results, queueVars
  <1> QED
    BY <1>1, <1>2 DEF ResultInv

\* The steps of the command and of the fetch tasks.
LEMMA FetchResults ==
  ASSUME TypeOK, PagesLeft, NamesInv, ResultInv,
         \/ \E query \in Queries, check \in BOOLEAN : Command(query, check)
         \/ \E n \in Names : Fetch(n)
         \/ CommandEnds \/ PrintFails
  PROVE  NamesInv' /\ ResultInv'
  <1>1. ASSUME NEW query \in Queries, NEW check \in BOOLEAN, Command(query, check)
        PROVE  NamesInv' /\ ResultInv'
    <2>1. UNCHANGED <<queueVars, late, answer>> /\ command = "none"
      BY <1>1 DEF Command
    <2>2. EmptyInv'
      BY <2>1 DEF ResultInv, EmptyInv, OnlyLate, queueVars
    <2>3. ASSUME NEW n \in Names
          PROVE  TaskInv(n)'
      <3>1. at[n] = "none" /\ at'[n] \in {"choosing", "none"}
        BY <1>1, <2>1, CommandFrame DEF NamesInv
      <3> QED
        BY <2>1, <3>1 DEF ResultInv, TaskInv, queueVars
    <2> QED
      BY <1>1, <2>2, <2>3, CommandFrame DEF ResultInv
  <1>2. ASSUME NEW n \in Names, Fetch(n)
        PROVE  NamesInv' /\ ResultInv'
    <2>1. FetchFrame(n) /\ NamesInv'
      BY <1>2, FetchFrames
    <2>2. EmptyInv'
      BY <2>1 DEF FetchFrame, ResultInv, EmptyInv, OnlyLate, queueVars
    <2>3. ASSUME NEW m \in Names \ {n}
          PROVE  TaskInv(m)'
      BY <2>1 DEF FetchFrame, ResultInv, TaskInv, Todo, Settled, Results, queueVars
    <2>4. TaskInv(n)'
      BY <2>1 DEF FetchFrame, ResultInv, TaskInv, Scraping, queueVars
    <2> QED
      BY <2>1, <2>2, <2>3, <2>4 DEF ResultInv
  <1>3. ASSUME CommandEnds \/ PrintFails
        PROVE  NamesInv' /\ ResultInv'
    <2>1. UNCHANGED <<at, permits, answer, late, fetchVars, queueVars>> /\ command' # "none"
      BY <1>3 DEF CommandEnds, PrintFails
    <2>2. NamesInv'
      BY <2>1 DEF NamesInv, fetchVars
    <2> QED
      BY <2>1, <2>2, ResultStutter DEF ListOf, fetchVars
  <1> QED
    BY <1>1, <1>2, <1>3

\* The steps of the jobs and of onEmpty().
LEMMA JobResults ==
  ASSUME TypeOK, NamesInv, ResultInv,
         \/ \E p \in Proxies, how \in Ends : JobSettles(p, how)
         \/ \E o \in Others : OtherPushed(o) \/ \E how \in Ends : OtherSettles(o, how)
         \/ \E e \in Empties : EmptyBegins(e) \/ EmptyEnds(e)
  PROVE  NamesInv' /\ ResultInv'
  <1> USE DEF fetchVars
  <1>t. job \in [Proxies \cup Others -> {"none", "pending"} \cup Ends] /\ list \subseteq Proxies
    BY DEF TypeOK
  <1>1. ASSUME NEW j \in Proxies \cup Others, NEW how \in Ends, Queue!Settle(j, how),
               UNCHANGED <<command, output, at, answer, late, fetchVars>>
        PROVE  NamesInv' /\ ResultInv'
    <2>1. /\ job[j] = "pending"
          /\ job' = [job EXCEPT ![j] = how]
          /\ dry' = (Queue!Pending \subseteq {j})
          /\ UNCHANGED <<emptying, isEmpty, asker>>
      BY <1>1 DEF Queue!Settle
    <2>2. OnlyLate => OnlyLate'
      BY <1>1, <1>t, <2>1 DEF OnlyLate, Ends
    <2>3. dry' => \A p \in Proxies : job'[p] # "pending"
      BY <1>t, <2>1 DEF Queue!Pending, Ends
    <2>4. ASSUME NEW n \in Names
          PROVE  TaskInv(n)'
      <3>1. at[n] = "returned" /\ ListOf(n) \cap late = {} =>
              \A p \in ListOf(n) : job'[p] = job[p] /\ p \notin late'
        BY <1>1, <1>t, <2>1 DEF ResultInv, TaskInv, Settled, ListOf, Ends
      <3>2. \A p \in Proxies : job[p] # "none" => job'[p] # "none"
        BY <1>t, <2>1 DEF Ends
      <3>3. \A p \in Proxies : job[p] \in Ends => job'[p] = job[p]
        BY <1>t, <2>1 DEF Ends
      <3> QED
        BY <1>1, <2>1, <3>1, <3>2, <3>3, TaskKeeps DEF ResultInv
    <2> QED
      BY <1>1, <2>1, <2>2, <2>3, <2>4 DEF ResultInv, EmptyInv, NamesInv
  <1>2. ASSUME NEW o \in Others, OtherPushed(o)
        PROVE  NamesInv' /\ ResultInv'
    <2>1. /\ job[o] = "none"
          /\ job' = [job EXCEPT ![o] = "pending"]
          /\ ~isEmpty' /\ ~dry'
          /\ UNCHANGED <<emptying, asker, command, output, at, answer, fetchVars>>
          /\ late \subseteq late'
      BY <1>2 DEF OtherPushed, Queue!Push, NotesLate
    <2>2. \A p \in Proxies : job'[p] = job[p] /\ (p \in late' <=> p \in late)
      BY <1>2, <1>t, <2>1, OthersAssumption DEF OtherPushed, NotesLate
    <2>3. EmptyInv'
      BY <2>1, <2>2 DEF ResultInv, EmptyInv, OnlyLate
    <2>4. ASSUME NEW n \in Names
          PROVE  TaskInv(n)'
      BY <1>t, <2>1, <2>2, TaskKeeps DEF ResultInv, ListOf
    <2> QED
      BY <2>1, <2>3, <2>4 DEF ResultInv, NamesInv
  <1>3. ASSUME NEW e \in Empties,
               \/ Queue!OnEmpty(e) \/ Queue!EmptyAtOnce(e)
               \/ Queue!EmptyFinished(e) \/ Queue!EmptyRejects(e),
               UNCHANGED <<command, output, at, permits, answer, late, fetchVars>>
        PROVE  NamesInv' /\ ResultInv'
    <2>1. UNCHANGED job /\ OnlyLate /\ OnlyLate'
      BY <1>3 DEF ResultInv, EmptyInv, OnlyLate, Queue!OnEmpty, Queue!EmptyAtOnce,
         Queue!EmptyFinished, Queue!EmptyRejects
    <2>2. dry' => dry
      BY <1>3 DEF Queue!OnEmpty, Queue!EmptyAtOnce, Queue!EmptyFinished, Queue!EmptyRejects
    <2>3. EmptyInv'
      BY <2>1, <2>2 DEF ResultInv, EmptyInv
    <2>4. ASSUME NEW n \in Names
          PROVE  TaskInv(n)'
      <3>1. asker'[n] = asker[n] \/ (asker[n] = "waiting" /\ asker'[n] = "resolved")
        BY <1>3 DEF TypeOK, Queue!OnEmpty, Queue!EmptyAtOnce, Queue!EmptyFinished,
           Queue!EmptyRejects, Queue!Wake
      <3>2. ListOf(n)' = ListOf(n) /\ ListOf(n) \subseteq Proxies
        BY <1>3, <1>t DEF ListOf
      <3>3. CASE asker'[n] = asker[n]
        BY <1>3, <2>1, <3>2, <3>3 DEF ResultInv, TaskInv, Todo, Settled, Results
      <3>4. CASE asker[n] = "waiting" /\ asker'[n] = "resolved"
        <4>1. at[n] = "asking" /\ Todo(n) = {}
          BY <3>4 DEF ResultInv, TaskInv
        <4>2. Settled(n)'
          BY <1>3, <1>t, <2>1, <3>2, <4>1 DEF Settled, OnlyLate, Todo
        <4> QED
          BY <1>3, <2>1, <3>2, <3>4, <4>1, <4>2 DEF ResultInv, TaskInv, Todo, Results
      <3> QED
        BY <3>1, <3>3, <3>4
    <2> QED
      BY <1>3, <2>3, <2>4 DEF ResultInv, NamesInv
  <1>4. ASSUME NEW p \in Proxies, NEW how \in Ends, JobSettles(p, how)
        PROVE  NamesInv' /\ ResultInv'
    BY <1>1, <1>4 DEF JobSettles
  <1>5. ASSUME NEW o \in Others, NEW how \in Ends, OtherSettles(o, how)
        PROVE  NamesInv' /\ ResultInv'
    BY <1>1, <1>5 DEF OtherSettles
  <1>6. ASSUME NEW e \in Empties, EmptyBegins(e) \/ EmptyEnds(e)
        PROVE  NamesInv' /\ ResultInv'
    BY <1>3, <1>6 DEF EmptyBegins, EmptyEnds
  <1> QED
    BY <1>2, <1>4, <1>5, <1>6

\* The steps of a validate task.
LEMMA ValidateResults ==
  ASSUME TypeOK, NamesInv, ResultInv, NEW n \in Names, Validate(n)
  PROVE  NamesInv' /\ ResultInv'
  <1> USE DEF fetchVars, queueVars
  <1>t. /\ job \in [Proxies \cup Others -> {"none", "pending"} \cup Ends]
        /\ list \subseteq Proxies
        /\ at \in [Names -> Places] /\ answer \in [Names -> SUBSET Proxies]
        /\ asker \in [Names -> {"none", "waiting", "resolved", "stranded"}]
    BY DEF TypeOK
  <1>0. at[n] # "none" => command # "none"
    BY DEF NamesInv
  <1>1. ASSUME NEW p \in Proxies, Push(n, p)
        PROVE  NamesInv' /\ ResultInv'
    <2>1. /\ job[p] = "none" /\ p \in ListOf(n)
          /\ job' = [job EXCEPT ![p] = "pending"]
          /\ ~isEmpty' /\ ~dry'
          /\ UNCHANGED <<emptying, asker, command, output, at, answer, fetchVars>>
          /\ late' = IF emptying = {} THEN late ELSE late \cup {p}
          /\ at[n] = "pushing"
      BY <1>1 DEF Push, Queue!Push, NotesLate, Todo
    <2>2. EmptyInv'
      BY <1>t, <2>1 DEF ResultInv, EmptyInv, OnlyLate
    <2>3. ASSUME NEW m \in Names
          PROVE  TaskInv(m)'
      <3>1. at[m] = "returned" => p \notin ListOf(m)
        BY <2>1 DEF ListOf
      <3>2. at[m] = "returned" /\ ListOf(m) \cap late = {} =>
              \A q \in ListOf(m) : job'[q] = job[q] /\ q \notin late'
        BY <1>t, <2>1, <3>1 DEF ListOf
      <3>3. /\ \A q \in Proxies : job[q] # "none" => job'[q] # "none"
            /\ \A q \in Proxies : job[q] \in Ends => job'[q] = job[q]
        BY <1>t, <2>1 DEF Ends
      <3> QED
        BY <2>1, <3>2, <3>3, TaskKeeps DEF ResultInv
    <2> QED
      BY <2>1, <2>2, <2>3 DEF ResultInv, NamesInv
  <1>2. ASSUME ReturnNothing(n)
        PROVE  NamesInv' /\ ResultInv'
    <2>1. /\ ListOf(n) = {} /\ at[n] = "pushing" /\ at' = [at EXCEPT ![n] = "returned"]
          /\ UNCHANGED <<command, output, permits, answer, late, fetchVars, queueVars>>
      BY <1>2 DEF ReturnNothing, Moves
    <2>2. EmptyInv'
      BY <2>1 DEF ResultInv, EmptyInv, OnlyLate
    <2>3. ASSUME NEW m \in Names \ {n}
          PROVE  TaskInv(m)'
      BY <1>t, <2>1 DEF ResultInv, TaskInv, Todo, Settled, Results, ListOf
    <2>4. TaskInv(n)'
      <3>1. ListOf(n)' = {} /\ answer'[n] = {} /\ asker'[n] = asker[n] /\ at'[n] = "returned"
            /\ asker[n] # "waiting"
        BY <1>t, <2>1 DEF ResultInv, TaskInv, ListOf
      <3> QED
        BY <3>1 DEF TaskInv, Todo, Settled, Results
    <2> QED
      BY <1>0, <2>1, <2>2, <2>3, <2>4 DEF ResultInv, NamesInv
  <1>3. ASSUME AskEmpty(n)
        PROVE  NamesInv' /\ ResultInv'
    <2>1. /\ Todo(n) = {} /\ at[n] = "pushing" /\ at' = [at EXCEPT ![n] = "asking"]
          /\ asker' = [asker EXCEPT ![n] = IF isEmpty THEN "resolved" ELSE "waiting"]
          /\ UNCHANGED <<command, output, permits, answer, late, fetchVars, job, dry, emptying,
                         isEmpty, rejected>>
      BY <1>3 DEF AskEmpty, Moves, Queue!Ask
    <2>2. EmptyInv'
      BY <2>1 DEF ResultInv, EmptyInv, OnlyLate
    <2>3. ASSUME NEW m \in Names \ {n}
          PROVE  TaskInv(m)'
      BY <1>t, <2>1 DEF ResultInv, TaskInv, Todo, Settled, Results, ListOf
    <2>4. TaskInv(n)'
      <3>1. /\ ListOf(n)' = ListOf(n) /\ ListOf(n) \subseteq Proxies
            /\ answer'[n] = {} /\ at'[n] = "asking" /\ Todo(n)' = {}
            /\ asker'[n] = (IF isEmpty THEN "resolved" ELSE "waiting")
        BY <1>t, <2>1 DEF ResultInv, TaskInv, ListOf, Todo
      <3>2. isEmpty => Settled(n)'
        BY <1>t, <2>1, <3>1 DEF ResultInv, EmptyInv, OnlyLate, Settled, Todo
      <3> QED
        BY <3>1, <3>2 DEF TaskInv
    <2> QED
      BY <1>0, <2>1, <2>2, <2>3, <2>4 DEF ResultInv, NamesInv
  <1>4. ASSUME Return(n)
        PROVE  NamesInv' /\ ResultInv'
    <2>1. /\ asker[n] = "resolved" /\ at[n] = "asking"
          /\ at' = [at EXCEPT ![n] = "returned"]
          /\ answer' = [answer EXCEPT ![n] = Results(n)]
          /\ UNCHANGED <<command, output, permits, late, fetchVars, queueVars>>
      BY <1>4 DEF Return, Moves
    <2>2. EmptyInv'
      BY <2>1 DEF ResultInv, EmptyInv, OnlyLate
    <2>3. ASSUME NEW m \in Names \ {n}
          PROVE  TaskInv(m)'
      BY <1>t, <2>1 DEF ResultInv, TaskInv, Todo, Settled, Results, ListOf
    <2>4. TaskInv(n)'
      <3>1. Todo(n) = {} /\ Settled(n)
        BY <2>1 DEF ResultInv, TaskInv
      <3>2. /\ ListOf(n)' = ListOf(n) /\ Todo(n)' = Todo(n) /\ Settled(n)' = Settled(n)
            /\ Results(n)' = Results(n)
        BY <2>1 DEF ListOf, Todo, Settled, Results
      <3>3. answer'[n] = Results(n) /\ at'[n] = "returned" /\ asker'[n] = "resolved"
        BY <1>t, <2>1
      <3>4. Results(n) \subseteq ListOf(n)
        BY DEF Results
      <3> QED
        BY <3>1, <3>2, <3>3, <3>4 DEF TaskInv
    <2> QED
      BY <1>0, <2>1, <2>2, <2>3, <2>4 DEF ResultInv, NamesInv
  <1> QED
    BY <1>1, <1>2, <1>3, <1>4 DEF Validate

\* Every step keeps what is known of the tasks.
LEMMA ResultStep ==
  TypeOK /\ PagesLeft /\ NamesInv /\ ResultInv /\ [Next]_vars => NamesInv' /\ ResultInv'
  <1> SUFFICES ASSUME TypeOK, PagesLeft, NamesInv, ResultInv, [Next]_vars
               PROVE  NamesInv' /\ ResultInv'
    OBVIOUS
  <1>1. CASE UNCHANGED vars
    <2>1. UNCHANGED <<queueVars, late, answer>> /\ UNCHANGED <<command, at, list, listed, def, left>>
      BY <1>1 DEF vars, fetchVars
    <2> QED
      BY <2>1, ResultStutter DEF NamesInv, ListOf
  <1> QED
    BY <1>1, FetchResults, JobResults, ValidateResults DEF Next

\* At the start nothing is pending and no task has begun.
LEMMA ResultInit == Init => TypeOK /\ PagesLeft /\ NamesInv /\ ResultInv
  <1> SUFFICES ASSUME Init PROVE TypeOK /\ PagesLeft /\ NamesInv /\ ResultInv
    OBVIOUS
  <1>1. \A n \in Names : def[n] \in Registered /\ def[n].name = n
    BY RegisteredFacts DEF Init
  <1>2. Queue!Init
    BY DEF Init
  <1>3. TypeOK /\ PagesLeft
    BY TypeInit
  <1>4. NamesInv
    BY <1>1 DEF Init, NamesInv
  <1>5. EmptyInv
    BY <1>2 DEF Queue!Init, EmptyInv, OnlyLate
  <1>6. ASSUME NEW n \in Names
        PROVE  TaskInv(n)
    <2>1. at[n] = "none" /\ asker[n] = "none" /\ answer[n] = {}
      BY <1>2 DEF Init, Queue!Init
    <2> QED
      BY <2>1 DEF TaskInv
  <1> QED
    BY <1>3, <1>4, <1>5, <1>6 DEF ResultInv

\* However many tasks and events share the validator, a validate task returns the
\* results of all its proxies, unless one was pushed while an onEmpty() was under way.
THEOREM TasksGetResults == Spec => []ResultsComplete
  <1>1. TypeOK /\ ResultInv => ResultsComplete
    <2> SUFFICES ASSUME TypeOK, ResultInv, NEW n \in Names,
                        at[n] = "returned", ListOf(n) \cap late = {}
                 PROVE  answer[n] = Results(n) /\ \A p \in ListOf(n) : job[p] \in Ends
      BY DEF ResultsComplete
    <2> QED
      BY DEF ResultInv, TaskInv, Settled
  <1> QED
    BY <1>1, ResultInit, TypeStep, ResultStep, PTL DEF Spec

-----------------------------------------------------------------------------
(* The permits of the validate tasks *)

PendingOf(n) == {p \in ListOf(n) : job[p] = "pending"}

\* The permits a task does not have are with its proxies at the validator, which are
\* in the list.
PermitInv ==
  /\ \A p \in Proxies : job[p] = "pending" => p \in list
  /\ \A n \in Names :
       /\ IsFiniteSet(PendingOf(n))
       /\ permits[n] + Cardinality(PendingOf(n)) = Limit

\* The provider of a proxy has a name.
LEMMA ProxyNames == \A p \in Proxies : p[1].name \in Names
  BY RegisteredFacts DEF Proxies

\* A step that moves no permit and lets no job of a proxy begin or end.
LEMMA PermitStutter ==
  ASSUME TypeOK, PermitInv, UNCHANGED permits, list \subseteq list', list' \subseteq Proxies,
         \A p \in Proxies : job'[p] = "pending" <=> job[p] = "pending"
  PROVE  PermitInv'
  <1>1. ASSUME NEW n \in Names PROVE PendingOf(n)' = PendingOf(n)
    BY DEF PermitInv, PendingOf, ListOf
  <1> QED
    BY <1>1 DEF PermitInv

\* The fetch tasks only add to the list.
LEMMA FetchPermits ==
  ASSUME NEW n \in Names, Fetch(n)
  PROVE  list \subseteq list' /\ UNCHANGED <<permits, job>>
  <1>1. ASSUME NEW k, NEW S, Continue(n, k, S) PROVE list \subseteq list'
    BY <1>1 DEF Continue, Got
  <1>2. list \subseteq list'
    BY <1>1 DEF Fetch, CreateWorker, IndexAnswers, FormAnswers, PageAnswers, RoundAnswers,
       RequestFails
  <1>3. UNCHANGED <<permits, job>>
    BY DEF Fetch, CreateWorker, IndexAnswers, FormAnswers, PageAnswers, RoundAnswers,
       RequestFails, queueVars
  <1> QED
    BY <1>2, <1>3

\* A proxy that is pushed takes the permit.
LEMMA PushPermits ==
  ASSUME TypeOK, PermitInv, NEW n \in Names, NEW p \in Proxies, Push(n, p)
  PROVE  PermitInv'
  <1>1. /\ p \in ListOf(n) /\ job[p] = "none" /\ permits[n] > 0
        /\ permits' = [permits EXCEPT ![n] = @ - 1]
        /\ job' = [job EXCEPT ![p] = "pending"]
        /\ UNCHANGED list
    BY DEF Push, Todo, Queue!Push, fetchVars
  <1>2. p \in list /\ p[1].name = n /\ list \subseteq Proxies
    BY <1>1 DEF ListOf, TypeOK
  <1>3. \A q \in Proxies : job'[q] = IF q = p THEN "pending" ELSE job[q]
    BY <1>1 DEF TypeOK
  <1>4. PendingOf(n)' = PendingOf(n) \cup {p} /\ p \notin PendingOf(n)
    BY <1>1, <1>2, <1>3 DEF PendingOf, ListOf
  <1>5. IsFiniteSet(PendingOf(n)')
        /\ Cardinality(PendingOf(n)') = Cardinality(PendingOf(n)) + 1
    BY <1>4, FS_AddElement DEF PermitInv
  <1>6. permits[n] \in Nat /\ permits'[n] = permits[n] - 1 /\ Cardinality(PendingOf(n)) \in Nat
        /\ permits[n] + Cardinality(PendingOf(n)) = Limit
    BY <1>1, FS_CardinalityType DEF TypeOK, PermitInv
  <1>7. permits'[n] + Cardinality(PendingOf(n)') = Limit
    BY <1>5, <1>6, TasksAssumption
  <1>8. ASSUME NEW m \in Names \ {n}
        PROVE  PendingOf(m)' = PendingOf(m) /\ permits'[m] = permits[m]
    BY <1>1, <1>2, <1>3 DEF PendingOf, ListOf, TypeOK
  <1>9. \A q \in Proxies : job'[q] = "pending" => q \in list'
    BY <1>1, <1>2, <1>3 DEF PermitInv
  <1>10. ASSUME NEW m \in Names
         PROVE  IsFiniteSet(PendingOf(m)') /\ permits'[m] + Cardinality(PendingOf(m)') = Limit
    BY <1>5, <1>7, <1>8 DEF PermitInv
  <1> QED
    BY <1>9, <1>10 DEF PermitInv

\* A proxy whose job settles gives it back.
LEMMA SettlePermits ==
  ASSUME TypeOK, PermitInv, NEW p \in Proxies, NEW how \in Ends, JobSettles(p, how)
  PROVE  PermitInv'
  <1> DEFINE n == p[1].name
  <1>1. /\ job[p] = "pending"
        /\ permits' = [permits EXCEPT ![n] = @ + 1]
        /\ job' = [job EXCEPT ![p] = how]
        /\ UNCHANGED list
    BY DEF JobSettles, Release, Queue!Settle, fetchVars
  <1>2. p \in list /\ n \in Names /\ list \subseteq Proxies
    BY <1>1, ProxyNames DEF PermitInv, TypeOK
  <1> HIDE DEF n
  <1>n. p[1].name = n
    BY DEF n
  <1>3. \A q \in Proxies : job'[q] = IF q = p THEN how ELSE job[q]
    BY <1>1 DEF TypeOK
  <1>4. PendingOf(n)' = PendingOf(n) \ {p} /\ p \in PendingOf(n)
    BY <1>1, <1>2, <1>3, <1>n DEF PendingOf, ListOf, Ends
  <1>5. IsFiniteSet(PendingOf(n)')
        /\ Cardinality(PendingOf(n)') = Cardinality(PendingOf(n)) - 1
    BY <1>2, <1>4, FS_RemoveElement DEF PermitInv
  <1>6. permits[n] \in Nat /\ permits'[n] = permits[n] + 1 /\ Cardinality(PendingOf(n)) \in Nat
        /\ permits[n] + Cardinality(PendingOf(n)) = Limit
    BY <1>1, <1>2, FS_CardinalityType DEF TypeOK, PermitInv
  <1>7. permits'[n] + Cardinality(PendingOf(n)') = Limit
    BY <1>5, <1>6, TasksAssumption
  <1>8. ASSUME NEW m \in Names \ {n}
        PROVE  PendingOf(m)' = PendingOf(m) /\ permits'[m] = permits[m]
    BY <1>1, <1>2, <1>3, <1>n DEF PendingOf, ListOf, TypeOK
  <1>9. \A q \in Proxies : job'[q] = "pending" => q \in list'
    BY <1>1, <1>2, <1>3 DEF PermitInv, Ends
  <1>10. ASSUME NEW m \in Names
         PROVE  IsFiniteSet(PendingOf(m)') /\ permits'[m] + Cardinality(PendingOf(m)') = Limit
    BY <1>5, <1>7, <1>8 DEF PermitInv
  <1> QED
    BY <1>9, <1>10 DEF PermitInv

\* Every step keeps the account of the permits.
LEMMA PermitStep == TypeOK /\ PermitInv /\ TypeOK' /\ [Next]_vars => PermitInv'
  <1> SUFFICES ASSUME TypeOK, PermitInv, TypeOK', [Next]_vars PROVE PermitInv'
    OBVIOUS
  <1>0. list' \subseteq Proxies
    BY DEF TypeOK
  <1>1. CASE UNCHANGED permits /\ list \subseteq list' /\ UNCHANGED job
    BY <1>0, <1>1, PermitStutter
  <1>2. ASSUME NEW n \in Names, Validate(n), ~\E p \in Proxies : Push(n, p)
        PROVE  UNCHANGED <<permits, list, job>>
    BY <1>2 DEF Validate, ReturnNothing, AskEmpty, Queue!Ask, Return, fetchVars, queueVars
  <1>3. ASSUME NEW o \in Others, OtherPushed(o) \/ \E how \in Ends : OtherSettles(o, how)
        PROVE  PermitInv'
    <2>1. /\ UNCHANGED <<permits, list>>
          /\ \E to : job' = [job EXCEPT ![o] = to]
      BY <1>3 DEF OtherPushed, OtherSettles, Queue!Push, Queue!Settle, fetchVars
    <2>2. \A p \in Proxies : job'[p] = job[p]
      BY <2>1, OthersAssumption DEF TypeOK
    <2> QED
      BY <1>0, <2>1, <2>2, PermitStutter
  <1>4. ASSUME \/ \E query \in Queries, check \in BOOLEAN : Command(query, check)
               \/ \E e \in Empties : EmptyBegins(e) \/ EmptyEnds(e)
               \/ CommandEnds \/ PrintFails \/ UNCHANGED vars
        PROVE  UNCHANGED <<permits, list, job>>
    BY <1>4 DEF Command, EmptyBegins, EmptyEnds, Queue!OnEmpty, Queue!EmptyAtOnce,
       Queue!EmptyFinished, Queue!EmptyRejects, CommandEnds, PrintFails, vars, fetchVars, queueVars
  <1> QED
    BY <1>1, <1>2, <1>3, <1>4, FetchPermits, PushPermits, SettlePermits DEF Next, Validate

\* At the start all permits are there.
LEMMA PermitInit == Init => PermitInv
  <1> SUFFICES ASSUME Init PROVE PermitInv
    OBVIOUS
  <1>1. \A n \in Names : PendingOf(n) = {} /\ permits[n] = Limit
    BY DEF Init, PendingOf, ListOf
  <1>2. \A p \in Proxies : job[p] = "none"
    BY DEF Init, Queue!Init
  <1> QED
    BY <1>1, <1>2, FS_EmptySet, TasksAssumption DEF PermitInv

\* The semaphore of a validate task neither leaks permits nor hands out more than it has:
\* what is missing is exactly the number of its proxies at the validator.
THEOREM PermitsAreAccounted == Spec => []PermitsAccounted
  <1>1. PermitInv => PermitsAccounted
    BY DEF PermitInv, PendingOf, PermitsAccounted
  <1>2. TypeOK /\ PagesLeft /\ PermitInv /\ [Next]_vars => TypeOK' /\ PagesLeft' /\ PermitInv'
    BY TypeStep, PermitStep
  <1> QED
    BY <1>1, <1>2, TypeInit, PermitInit, PTL DEF Spec

-----------------------------------------------------------------------------
(* Those who wait for the validator *)

Wakers == Queue!Pending # {} \/ dry \/ emptying # {} \/ rejected

\* The validator wakes whoever waits; a task asks once, when it has pushed all it has.
AskInv ==
  /\ ~isEmpty => Wakers
  /\ \A n \in Names :
       /\ asker[n] = "waiting" => ~isEmpty
       /\ at[n] \notin {"asking", "returned"} => asker[n] = "none"
       /\ at[n] = "asking" => asker[n] \in {"waiting", "resolved"}

\* The steps of the validator that are no questions.
LEMMA QueueAsks ==
  ASSUME TypeOK, AskInv, UNCHANGED at,
         \/ \E j \in Proxies \cup Others :
              Queue!Push(j) \/ \E how \in Ends : Queue!Settle(j, how)
         \/ \E e \in Empties :
              \/ Queue!OnEmpty(e) \/ Queue!EmptyAtOnce(e)
              \/ Queue!EmptyFinished(e) \/ Queue!EmptyRejects(e)
  PROVE  AskInv'
  <1>t. job \in [Proxies \cup Others -> {"none", "pending"} \cup Ends]
    BY DEF TypeOK
  <1>1. ASSUME NEW j \in Proxies \cup Others, Queue!Push(j) PROVE AskInv'
    <2>1. UNCHANGED asker /\ ~isEmpty' /\ job'[j] = "pending"
      BY <1>1, <1>t DEF Queue!Push
    <2>2. Wakers'
      BY <2>1 DEF Wakers, Queue!Pending
    <2> QED
      BY <2>1, <2>2 DEF AskInv
  <1>2. ASSUME NEW j \in Proxies \cup Others, NEW how \in Ends, Queue!Settle(j, how)
        PROVE  AskInv'
    <2>1. /\ dry' = (Queue!Pending \subseteq {j}) /\ UNCHANGED <<emptying, isEmpty, asker>>
          /\ job' = [job EXCEPT ![j] = how]
      BY <1>2 DEF Queue!Settle
    <2>2. Wakers'
      <3>1. CASE Queue!Pending \subseteq {j}
        BY <2>1, <3>1 DEF Wakers
      <3>2. CASE ~(Queue!Pending \subseteq {j})
        <4>1. PICK k \in Queue!Pending : k # j
          BY <3>2
        <4>2. k \in Queue!Pending'
          BY <1>t, <2>1, <4>1 DEF Queue!Pending
        <4> QED
          BY <4>2 DEF Wakers
      <3> QED
        BY <3>1, <3>2
    <2> QED
      BY <2>1, <2>2 DEF AskInv
  <1>3. ASSUME NEW e \in Empties, Queue!OnEmpty(e) PROVE AskInv'
    <2>1. e \in emptying' /\ UNCHANGED <<isEmpty, asker>>
      BY <1>3 DEF Queue!OnEmpty
    <2> QED
      BY <2>1 DEF AskInv, Wakers
  <1>4. ASSUME NEW e \in Empties, Queue!EmptyAtOnce(e) \/ Queue!EmptyFinished(e) PROVE AskInv'
    <2>1. isEmpty' /\ \A n \in Names :
            asker'[n] = IF asker[n] = "waiting" THEN "resolved" ELSE asker[n]
      BY <1>4 DEF Queue!EmptyAtOnce, Queue!EmptyFinished, Queue!Wake
    <2> QED
      BY <2>1 DEF AskInv
  <1>5. ASSUME NEW e \in Empties, Queue!EmptyRejects(e) PROVE AskInv'
    <2>1. rejected' /\ UNCHANGED <<isEmpty, asker>>
      BY <1>5 DEF Queue!EmptyRejects
    <2> QED
      BY <2>1 DEF AskInv, Wakers
  <1> QED
    BY <1>1, <1>2, <1>3, <1>4, <1>5

\* The steps of a task.
LEMMA TaskAsks ==
  ASSUME TypeOK, PagesLeft, NamesInv, AskInv, NEW n \in Names, Fetch(n) \/ Validate(n)
  PROVE  AskInv'
  <1> USE DEF queueVars, fetchVars
  <1>1. CASE Fetch(n)
    <2>1. FetchFrame(n)
      BY <1>1, FetchFrames
    <2> QED
      BY <2>1 DEF FetchFrame, AskInv, Wakers, Queue!Pending, Scraping
  <1>2. ASSUME NEW p \in Proxies, Push(n, p) PROVE AskInv'
    BY <1>2, QueueAsks DEF Push
  <1>3. CASE ReturnNothing(n) \/ Return(n)
    <2>1. UNCHANGED <<job, dry, emptying, isEmpty, rejected, asker>> /\ at' = [at EXCEPT ![n] = "returned"]
      BY <1>3 DEF ReturnNothing, Return, Moves
    <2>2. Wakers' = Wakers
      BY <2>1 DEF Wakers, Queue!Pending
    <2>3. \A m \in Names : at'[m] = IF m = n THEN "returned" ELSE at[m]
      BY <2>1 DEF TypeOK
    <2> QED
      BY <2>1, <2>2, <2>3 DEF AskInv
  <1>4. CASE AskEmpty(n)
    <2>1. /\ UNCHANGED <<job, dry, emptying, isEmpty, rejected>> /\ at' = [at EXCEPT ![n] = "asking"]
          /\ asker' = [asker EXCEPT ![n] = IF isEmpty THEN "resolved" ELSE "waiting"]
      BY <1>4 DEF AskEmpty, Moves, Queue!Ask
    <2>2. Wakers' = Wakers
      BY <2>1 DEF Wakers, Queue!Pending
    <2>3. \A m \in Names : at'[m] = IF m = n THEN "asking" ELSE at[m]
      BY <2>1 DEF TypeOK
    <2>4. \A m \in Names :
            asker'[m] = IF m # n THEN asker[m] ELSE IF isEmpty THEN "resolved" ELSE "waiting"
      BY <2>1 DEF TypeOK
    <2> QED
      BY <2>1, <2>2, <2>3, <2>4 DEF AskInv
  <1> QED
    BY <1>1, <1>2, <1>3, <1>4 DEF Validate

\* Every step keeps something to wake the tasks that wait.
LEMMA AskStep ==
  TypeOK /\ PagesLeft /\ NamesInv /\ AskInv /\ [Next]_vars => AskInv'
  <1> SUFFICES ASSUME TypeOK, PagesLeft, NamesInv, AskInv, [Next]_vars PROVE AskInv'
    OBVIOUS
  <1>1. ASSUME UNCHANGED queueVars,
               \A n \in Names :
                 at'[n] = at[n] \/ (at[n] = "none" /\ at'[n] \in {"none", "choosing"})
        PROVE  AskInv'
    BY <1>1 DEF AskInv, Wakers, Queue!Pending, queueVars
  <1>2. ASSUME NEW query \in Queries, NEW check \in BOOLEAN, Command(query, check) PROVE AskInv'
    <2>1. UNCHANGED queueVars /\ command = "none"
      BY <1>2 DEF Command
    <2>2. \A n \in Names : at[n] = "none" /\ at'[n] \in {"none", "choosing"}
      BY <1>2, <2>1, CommandFrame DEF NamesInv
    <2> QED
      BY <1>1, <2>1, <2>2
  <1>3. CASE CommandEnds \/ PrintFails \/ UNCHANGED vars
    <2>1. UNCHANGED queueVars /\ UNCHANGED at
      BY <1>3 DEF CommandEnds, PrintFails, vars
    <2> QED
      BY <1>1, <2>1
  <1>4. CASE \/ \E p \in Proxies, how \in Ends : JobSettles(p, how)
             \/ \E o \in Others : OtherPushed(o) \/ \E how \in Ends : OtherSettles(o, how)
             \/ \E e \in Empties : EmptyBegins(e) \/ EmptyEnds(e)
    <2>1. /\ UNCHANGED at
          /\ \/ \E j \in Proxies \cup Others :
                  Queue!Push(j) \/ \E how \in Ends : Queue!Settle(j, how)
             \/ \E e \in Empties :
                  \/ Queue!OnEmpty(e) \/ Queue!EmptyAtOnce(e)
                  \/ Queue!EmptyFinished(e) \/ Queue!EmptyRejects(e)
      BY <1>4 DEF JobSettles, OtherPushed, OtherSettles, EmptyBegins, EmptyEnds
    <2> QED
      BY <2>1, QueueAsks
  <1> QED
    BY <1>2, <1>3, <1>4, TaskAsks DEF Next

\* No task waits for a permit that nobody holds or for an answer that nobody is going
\* to give, however the tasks, the events and onEmpty() interleave - unless the last
\* onEmpty() has rejected and no job came since.
THEOREM TasksAreNeverStuck == Spec => []TasksNeverStuck
  <1>1. Init => AskInv
    BY DEF Init, AskInv, Queue!Init
  <1>2. TypeOK /\ PermitInv /\ AskInv => TasksNeverStuck
    <2> SUFFICES ASSUME TypeOK, PermitInv, AskInv, NEW n \in Names
                 PROVE  /\ at[n] = "pushing" =>
                             /\ asker[n] = "none"
                             /\ \/ Todo(n) = {} \/ permits[n] > 0
                                \/ \E p \in ListOf(n) : job[p] = "pending"
                        /\ at[n] = "asking" =>
                             \/ asker[n] = "resolved"
                             \/ /\ asker[n] = "waiting"
                                /\ Queue!Pending # {} \/ dry \/ emptying # {} \/ rejected
      BY DEF TasksNeverStuck
    <2>1. permits[n] > 0 \/ \E p \in ListOf(n) : job[p] = "pending"
      <3> SUFFICES ASSUME ~\E p \in ListOf(n) : job[p] = "pending" PROVE permits[n] > 0
        OBVIOUS
      <3>1. PendingOf(n) = {}
        BY DEF PendingOf
      <3>2. permits[n] \in Nat /\ permits[n] + 0 = Limit
        BY <3>1, FS_EmptySet DEF PermitInv, TypeOK
      <3> QED
        BY <3>2, TasksAssumption
    <2>2. asker[n] = "waiting" => Queue!Pending # {} \/ dry \/ emptying # {} \/ rejected
      BY DEF AskInv, Wakers
    <2> QED
      BY <2>1, <2>2 DEF AskInv
  <1>3. TypeOK /\ PagesLeft /\ NamesInv /\ ResultInv /\ PermitInv /\ AskInv /\ [Next]_vars
          => TypeOK' /\ PagesLeft' /\ NamesInv' /\ ResultInv' /\ PermitInv' /\ AskInv'
    BY TypeStep, ResultStep, PermitStep, AskStep
  <1> QED
    BY <1>1, <1>2, <1>3, ResultInit, PermitInit, PTL DEF Spec

-----------------------------------------------------------------------------
(* The validator *)

\* What the tasks and the events do at the validator, and what it does by itself, are
\* steps of ValidatorQueue, which is what ProxyValidator is proved to implement: the
\* two models meet in one and the same interface.
THEOREM UsesValidatorQueue == Spec => Queue!Spec
  <1>1. Init => Queue!Init
    BY DEF Init
  <1>2. [Next]_vars => [Queue!Next]_(Queue!vars)
    <2> SUFFICES ASSUME [Next]_vars PROVE Queue!Next \/ UNCHANGED queueVars
      BY DEF queueVars, Queue!vars
    <2>1. CASE UNCHANGED queueVars
      BY <2>1
    <2>2. ASSUME NEW p \in Proxies, \E n \in Names : Push(n, p)
          PROVE  Queue!Next
      BY <2>2 DEF Push, Queue!Next
    <2>3. ASSUME NEW n \in Names, AskEmpty(n)
          PROVE  Queue!Next
      BY <2>3 DEF AskEmpty, Queue!Next
    <2>4. ASSUME NEW p \in Proxies, NEW how \in Ends, JobSettles(p, how)
          PROVE  Queue!Next
      BY <2>4 DEF JobSettles, Ends, Queue!Next
    <2>5. ASSUME NEW o \in Others, OtherPushed(o) \/ \E how \in Ends : OtherSettles(o, how)
          PROVE  Queue!Next
      BY <2>5 DEF OtherPushed, OtherSettles, Ends, Queue!Next
    <2>6. ASSUME NEW e \in Empties, EmptyBegins(e) \/ EmptyEnds(e)
          PROVE  Queue!Next
      BY <2>6 DEF EmptyBegins, EmptyEnds, Queue!Next
    <2>7. ASSUME NEW n \in Names, Fetch(n) \/ ReturnNothing(n) \/ Return(n)
          PROVE  UNCHANGED queueVars
      BY <2>7 DEF Fetch, CreateWorker, IndexAnswers, FormAnswers, PageAnswers, RoundAnswers,
         RequestFails, ReturnNothing, Return
    <2>8. CASE (\E query \in Queries, check \in BOOLEAN : Command(query, check))
               \/ CommandEnds \/ PrintFails \/ UNCHANGED vars
      BY <2>8 DEF Command, CommandEnds, PrintFails, vars
    <2> QED
      BY <2>1, <2>2, <2>3, <2>4, <2>5, <2>6, <2>7, <2>8 DEF Next, Validate
  <1> QED
    BY <1>1, <1>2, PTL DEF Spec, Queue!Spec

-----------------------------------------------------------------------------
(* The output *)

\* What a fetch task has of what its sites have shown: all, unless it failed; the
\* page it reads is with the worker.
Gathered(n) ==
  /\ left[n] \subseteq asked
  /\ at[n] \in {"index", "paging"} => def[n] \in asked
  /\ \A p \in Proxies : p[1].name = n =>
       /\ p \in list => p \in listed
       /\ p \in listed => p[1] \in asked /\ at[n] # "none"
       /\ at[n] = "paging" /\ p[1] = def[n] /\ p[2] \in found[n] \cap Usable => p \in listed
       /\ p \in listed /\ at[n] # "failed" =>
            p \in list \/ (at[n] = "paging" /\ p[1] = def[n] /\ p[2] \in found[n] \cap Usable)
  /\ at[n] \in {"pushing", "asking", "returned"} => validate
  /\ at[n] = "fetched" => ~validate

\* What is printed when the tasks are over.
OutInv ==
  command = "over" =>
    /\ \A n \in Names : at[n] \in Over
    /\ ~validate => output = {p[2] : p \in {q \in list : at[q[1].name] = "fetched"}}
    /\ validate => output = {p[2] : p \in UNION {answer[n] : n \in Names}}

OutputInv == OutInv /\ \A n \in Names : Gathered(n)

\* A page with the addresses S that leaves k more to ask for is not lost: what was
\* found joins the list or stays with the worker.
LEMMA ContinueGathers ==
  ASSUME TypeOK, NamesInv, NEW n \in Names, Gathered(n), NEW k \in Nat,
         NEW S \in SUBSET Addresses, NEW T \in SUBSET Addresses, Continue(n, k, S),
         at[n] \in {"index", "paging"}, at[n] = "index" => S = T, at[n] = "paging" => S = found[n] \cup T,
         listed' = listed \cup ({def[n]} \X (T \cap Usable)),
         UNCHANGED <<asked, validate, left, def>>
  PROVE  Gathered(n)'
  <1>t. /\ at \in [Names -> Places] /\ found \in [Names -> SUBSET Addresses]
        /\ list \subseteq Proxies /\ listed \subseteq Proxies /\ def[n].name = n
        /\ def[n] \in asked /\ validate \in BOOLEAN
    BY DEF TypeOK, NamesInv, Gathered
  <1>1. ASSUME NEW p \in Proxies, p[1].name = n
        PROVE  (p \in {def[n]} \X (T \cap Usable) <=> p[1] = def[n] /\ p[2] \in T \cap Usable)
               /\ (p \in {def[n]} \X (S \cap Usable) <=> p[1] = def[n] /\ p[2] \in S \cap Usable)
    BY <1>1 DEF Proxies
  <1>2. CASE Got(n, S) /\ found' = [found EXCEPT ![n] = {}]
    <2>1. /\ at'[n] \in {"choosing", "pushing", "fetched"}
          /\ at'[n] = "pushing" => validate
          /\ at'[n] = "fetched" => ~validate
          /\ list' = list \cup ({def[n]} \X (S \cap Usable))
      BY <1>t, <1>2 DEF Got
    <2>2. ASSUME NEW p \in Proxies, p[1].name = n
          PROVE  /\ p \in list' => p \in listed'
                 /\ p \in listed' => p[1] \in asked
                 /\ p \in listed' => p \in list'
      BY <1>t, <1>1, <2>1, <2>2 DEF Gathered
    <2> QED
      BY <2>1, <2>2 DEF Gathered
  <1>3. CASE at' = [at EXCEPT ![n] = "paging"] /\ found' = [found EXCEPT ![n] = S] /\ UNCHANGED list
    <2>1. at'[n] = "paging" /\ found'[n] = S
      BY <1>t, <1>3
    <2>2. ASSUME NEW p \in Proxies, p[1].name = n
          PROVE  /\ p \in list => p \in listed'
                 /\ p \in listed' => p[1] \in asked
                 /\ p[1] = def[n] /\ p[2] \in S \cap Usable => p \in listed'
                 /\ p \in listed' => p \in list \/ (p[1] = def[n] /\ p[2] \in S \cap Usable)
      BY <1>t, <1>1, <2>2 DEF Gathered
    <2> QED
      BY <1>t, <1>3, <2>1, <2>2 DEF Gathered
  <1> QED
    BY <1>2, <1>3 DEF Continue

\* A step of the fetch task of n loses nothing of n.
LEMMA FetchGathers ==
  ASSUME TypeOK, PagesLeft, NamesInv, NEW n \in Names, Gathered(n), Fetch(n)
  PROVE  Gathered(n)'
  <1> USE DEF fetchVars
  <1>t. at \in [Names -> Places] /\ left \in [Names -> SUBSET Registered]
        /\ def \in [Names -> Registered] /\ found \in [Names -> SUBSET Addresses]
    BY DEF TypeOK
  <1>1. ASSUME NEW d \in Registered, CreateWorker(n, d)
        PROVE  Gathered(n)'
    <2>1. /\ at[n] = "choosing" /\ at'[n] = "index" /\ d \in left[n]
          /\ left'[n] = left[n] \ {d} /\ def'[n] = d
          /\ UNCHANGED <<asked, validate, list, listed>>
      BY <1>t, <1>1 DEF CreateWorker, Moves
    <2> QED
      BY <2>1 DEF Gathered
  <1>2. ASSUME NEW k \in Nat, Continue(n, k, {}), at[n] = "index",
               UNCHANGED <<asked, validate, left, def, listed>>
        PROVE  Gathered(n)'
    <2>1. listed' = listed \cup ({def[n]} \X ({} \cap Usable))
      BY <1>2
    <2> QED
      BY <1>2, <2>1, ContinueGathers
  <1>3. ASSUME IndexAnswers(n)
        PROVE  Gathered(n)'
    <2>1. PICK k \in Nat : Continue(n, k, {})
      BY <1>3, TasksAssumption DEF IndexAnswers
    <2> QED
      BY <1>3, <2>1, <1>2 DEF IndexAnswers
  <1>4. ASSUME FormAnswers(n)
        PROVE  Gathered(n)'
    <2>1. Continue(n, MaxRounds, {}) /\ MaxRounds \in Nat
      BY <1>4, TasksAssumption DEF FormAnswers
    <2> QED
      BY <1>4, <2>1, <1>2 DEF FormAnswers
  <1>5. ASSUME NEW S \in SUBSET Addresses, PageAnswers(n, S) \/ RoundAnswers(n, S)
        PROVE  Gathered(n)'
    <2>1. PICK k : Continue(n, k, found[n] \cup S) /\ k \in {0, pages[n] - 1}
      BY <1>5 DEF PageAnswers, RoundAnswers
    <2>2. at[n] = "paging" /\ listed' = listed \cup ({def[n]} \X (S \cap Usable))
          /\ UNCHANGED <<asked, validate, left, def>>
      BY <1>5 DEF PageAnswers, RoundAnswers
    <2>3. k \in Nat
      BY <2>1, <2>2 DEF TypeOK, PagesLeft
    <2>4. found[n] \cup S \in SUBSET Addresses
      BY <1>t
    <2> QED
      BY <2>1, <2>2, <2>3, <2>4, ContinueGathers
  <1>6. ASSUME RequestFails(n)
        PROVE  Gathered(n)'
    <2>1. /\ at[n] \in {"index", "paging"} /\ at'[n] = "failed"
          /\ UNCHANGED <<asked, validate, left, def, list, listed>>
      BY <1>t, <1>6 DEF RequestFails
    <2> QED
      BY <2>1 DEF Gathered
  <1> QED
    BY <1>1, <1>3, <1>4, <1>5, <1>6 DEF Fetch

\* What other fetch tasks have of theirs is not touched.
LEMMA FetchElsewhere ==
  ASSUME TypeOK, NamesInv, NEW n \in Names, Fetch(n), NEW m \in Names \ {n}
  PROVE  /\ left'[m] = left[m] /\ def'[m] = def[m] /\ found'[m] = found[m]
         /\ \A p \in Proxies : p[1].name = m => (p \in listed' <=> p \in listed)
  <1> USE DEF fetchVars
  <1>t. /\ left \in [Names -> SUBSET Registered] /\ def \in [Names -> Registered]
        /\ found \in [Names -> SUBSET Addresses] /\ def[n].name = n
    BY DEF TypeOK, NamesInv
  <1>1. ASSUME NEW d \in Registered, CreateWorker(n, d)
        PROVE  /\ left'[m] = left[m] /\ def'[m] = def[m] /\ found'[m] = found[m]
               /\ UNCHANGED listed
    BY <1>t, <1>1 DEF CreateWorker
  <1>2. ASSUME NEW k, NEW S, Continue(n, k, S)
        PROVE  found'[m] = found[m]
    BY <1>t, <1>2 DEF Continue
  <1>3. ASSUME IndexAnswers(n) \/ FormAnswers(n)
        PROVE  found'[m] = found[m] /\ UNCHANGED <<left, def, listed>>
    <2>1. PICK k : Continue(n, k, {})
      BY <1>3 DEF IndexAnswers, FormAnswers
    <2> QED
      BY <1>2, <1>3, <2>1 DEF IndexAnswers, FormAnswers
  <1>4. ASSUME NEW S, PageAnswers(n, S) \/ RoundAnswers(n, S)
        PROVE  /\ found'[m] = found[m] /\ UNCHANGED <<left, def>>
               /\ \A p \in Proxies : p[1].name = m => (p \in listed' <=> p \in listed)
    <2>1. PICK k : Continue(n, k, found[n] \cup S)
      BY <1>4 DEF PageAnswers, RoundAnswers
    <2>2. /\ listed' = listed \cup ({def[n]} \X (S \cap Usable)) /\ UNCHANGED <<left, def>>
      BY <1>4 DEF PageAnswers, RoundAnswers
    <2>3. \A p \in {def[n]} \X (S \cap Usable) : p[1].name # m
      BY <1>t
    <2> QED
      BY <1>2, <2>1, <2>2, <2>3
  <1>5. ASSUME RequestFails(n)
        PROVE  found'[m] = found[m] /\ UNCHANGED <<left, def, listed>>
    BY <1>t, <1>5 DEF RequestFails
  <1> QED
    BY <1>1, <1>3, <1>4, <1>5 DEF Fetch

\* The command starts with nothing shown.
LEMMA CommandGathers ==
  ASSUME TypeOK, NamesInv, NEW query \in Queries, NEW check \in BOOLEAN, Command(query, check)
  PROVE  OutputInv'
  <1>1. /\ command = "none" /\ command' = "running" /\ list = {} /\ listed = {}
        /\ UNCHANGED <<list, listed>>
    BY DEF NamesInv, Command
  <1>2. ASSUME NEW n \in Names
        PROVE  Gathered(n)'
    <2>1. at'[n] \in {"choosing", "none"} /\ left'[n] \subseteq asked'
      BY CommandFrame
    <2> QED
      BY <1>1, <2>1 DEF Gathered
  <1> QED
    BY <1>1, <1>2 DEF OutputInv, OutInv

\* Steps that leave the lists alone, of jobs, onEmpty() and validate tasks.
LEMMA OutputKeeps ==
  ASSUME TypeOK, OutputInv, UNCHANGED <<command, output, fetchVars>>,
         \/ UNCHANGED <<at, answer>>
         \/ \E n \in Names : /\ at[n] \in {"pushing", "asking"}
                            /\ at'[n] \in {"pushing", "asking", "returned"}
                            /\ \A m \in Names \ {n} : at'[m] = at[m]
  PROVE  OutputInv'
  <1> USE DEF fetchVars
  <1>1. ASSUME NEW n \in Names
        PROVE  Gathered(n)'
    <2>1. at'[n] = at[n] \/ /\ at[n] \in {"pushing", "asking"}
                            /\ at'[n] \in {"pushing", "asking", "returned"}
      OBVIOUS
    <2> QED
      BY <2>1 DEF OutputInv, Gathered
  <1>2. CASE UNCHANGED <<at, answer>>
    BY <1>1, <1>2 DEF OutputInv, OutInv
  <1>3. CASE \E n \in Names : at[n] \in {"pushing", "asking"}
    <2>1. command # "over"
      BY <1>3 DEF OutputInv, OutInv, Over
    <2> QED
      BY <1>1, <2>1 DEF OutputInv, OutInv
  <1> QED
    BY <1>2, <1>3

\* Every step keeps what is known of the lists and the output.
LEMMA OutputStep ==
  TypeOK /\ PagesLeft /\ NamesInv /\ OutputInv /\ [Next]_vars => OutputInv'
  <1> SUFFICES ASSUME TypeOK, PagesLeft, NamesInv, OutputInv, [Next]_vars PROVE OutputInv'
    OBVIOUS
  <1> USE DEF fetchVars
  <1>t. at \in [Names -> Places]
    BY DEF TypeOK
  <1>1. ASSUME NEW query \in Queries, NEW check \in BOOLEAN, Command(query, check)
        PROVE  OutputInv'
    BY <1>1, CommandGathers
  <1>2. ASSUME NEW n \in Names, Fetch(n)
        PROVE  OutputInv'
    <2>1. FetchFrame(n)
      BY <1>2, FetchFrames
    <2>2. Gathered(n)'
      BY <1>2, FetchGathers DEF OutputInv
    <2>3. ASSUME NEW m \in Names \ {n}
          PROVE  Gathered(m)'
      <3>1. /\ left'[m] = left[m] /\ def'[m] = def[m] /\ found'[m] = found[m]
            /\ \A p \in Proxies : p[1].name = m => (p \in listed' <=> p \in listed)
        BY <1>2, FetchElsewhere
      <3>2. at'[m] = at[m] /\ \A p \in Proxies : p[1].name = m => (p \in list' <=> p \in list)
        BY <2>1 DEF FetchFrame, ListOf
      <3>3. UNCHANGED <<asked, validate>> /\ Gathered(m)
        BY <2>1 DEF FetchFrame, OutputInv
      <3> HIDE DEF fetchVars
      <3> QED
        BY <3>1, <3>2, <3>3 DEF Gathered
    <2>4. command # "over" /\ command' = command
      BY <2>1 DEF FetchFrame, OutputInv, OutInv, Scraping, Over
    <2> QED
      BY <2>2, <2>3, <2>4 DEF OutputInv, OutInv
  <1>3. ASSUME NEW n \in Names, Validate(n)
        PROVE  OutputInv'
    <2>1. ASSUME NEW p \in Proxies, Push(n, p)
          PROVE  UNCHANGED <<command, output, fetchVars>> /\ UNCHANGED <<at, answer>>
      BY <2>1 DEF Push
    <2>2. ASSUME ReturnNothing(n) \/ AskEmpty(n) \/ Return(n)
          PROVE  /\ UNCHANGED <<command, output, fetchVars>>
                 /\ at[n] \in {"pushing", "asking"}
                 /\ at'[n] \in {"pushing", "asking", "returned"}
                 /\ \A m \in Names \ {n} : at'[m] = at[m]
      BY <1>t, <2>2 DEF ReturnNothing, AskEmpty, Return, Moves
    <2> HIDE DEF fetchVars
    <2> QED
      BY <1>3, <2>1, <2>2, OutputKeeps DEF Validate
  <1>4. ASSUME \/ \E p \in Proxies, how \in Ends : JobSettles(p, how)
               \/ \E o \in Others : OtherPushed(o) \/ \E how \in Ends : OtherSettles(o, how)
               \/ \E e \in Empties : EmptyBegins(e) \/ EmptyEnds(e)
        PROVE  OutputInv'
    <2>1. UNCHANGED <<command, output, fetchVars>> /\ UNCHANGED <<at, answer>>
      BY <1>4 DEF JobSettles, OtherPushed, OtherSettles, EmptyBegins, EmptyEnds
    <2> QED
      BY <2>1, OutputKeeps
  <1>5. ASSUME CommandEnds
        PROVE  OutputInv'
    <2>1. /\ UNCHANGED <<at, answer, fetchVars>> /\ \A n \in Names : at[n] \in Over
      BY <1>5 DEF CommandEnds
    <2>2. \A n \in Names : Gathered(n)'
      BY <2>1 DEF OutputInv, Gathered
    <2>3. ~validate => output' = {p[2] : p \in {q \in list : at[q[1].name] = "fetched"}}
      <3>1. UNION {ListOf(n) : n \in {m \in Names : at[m] = "fetched"}}
              = {q \in list : at[q[1].name] = "fetched"}
        <4>1. \A q \in list : q[1].name \in Names
          BY RegisteredFacts DEF TypeOK, Proxies
        <4> QED
          BY <4>1 DEF ListOf
      <3> QED
        BY <1>5, <3>1 DEF CommandEnds
    <2>4. validate => output' = {p[2] : p \in UNION {answer[n] : n \in Names}}
      BY <1>5 DEF CommandEnds
    <2> QED
      BY <2>1, <2>2, <2>3, <2>4 DEF OutputInv, OutInv
  <1>6. ASSUME PrintFails
        PROVE  OutputInv'
    <2>1. UNCHANGED <<at, answer, fetchVars>> /\ command' # "over"
      BY <1>6 DEF PrintFails
    <2>2. \A n \in Names : Gathered(n)'
      BY <2>1 DEF OutputInv, Gathered
    <2> QED
      BY <2>1, <2>2 DEF OutputInv, OutInv
  <1>7. CASE UNCHANGED vars
    <2>1. UNCHANGED <<command, output, fetchVars>> /\ UNCHANGED <<at, answer>>
      BY <1>7 DEF vars
    <2> QED
      BY <2>1, OutputKeeps
  <1> QED
    BY <1>1, <1>2, <1>3, <1>4, <1>5, <1>6, <1>7 DEF Next

\* What is known when the tasks are over is what the command promises.
LEMMA OutputFollows ==
  ASSUME TypeOK, ResultInv, OutputInv, command = "over"
  PROVE  /\ ~validate => output = {p[2] : p \in Shown}
         /\ validate /\ late = {} => output = {p[2] : p \in {q \in Shown : job[q] = "done"}}
         /\ output \subseteq {p[2] : p \in Shown}
  <1>1. \A p \in Proxies : p[1].name \in Names
    BY RegisteredFacts DEF Proxies
  <1>2. list \subseteq Proxies /\ listed \subseteq Proxies /\ at \in [Names -> Places]
    BY DEF TypeOK
  <1>3. \A n \in Names : at[n] \in Over
    BY DEF OutputInv, OutInv
  <1>4. ASSUME NEW p \in Proxies
        PROVE  /\ p \in Shown => p \in list /\ at[p[1].name] \in {"fetched", "returned"}
               /\ p \in list /\ at[p[1].name] # "failed" => p \in Shown
    <2>1. Gathered(p[1].name) /\ at[p[1].name] \in Over
      BY <1>1, <1>3 DEF OutputInv
    <2> QED
      BY <2>1 DEF Gathered, Shown, Over
  <1>5. \A n \in Names : (at[n] = "fetched" => ~validate) /\ (at[n] = "returned" => validate)
    BY DEF OutputInv, Gathered
  <1>6. ~validate => {q \in list : at[q[1].name] = "fetched"} = Shown
    BY <1>1, <1>2, <1>4, <1>5 DEF Shown
  <1>7. UNION {answer[n] : n \in Names} \subseteq {q \in list : at[q[1].name] = "returned"}
    <2>1. ASSUME NEW n \in Names, NEW p \in answer[n]
          PROVE  p \in list /\ at[p[1].name] = "returned"
      <3>1. TaskInv(n) /\ answer[n] # {}
        BY DEF ResultInv
      <3>2. at[n] = "returned" /\ p \in ListOf(n)
        BY <3>1 DEF TaskInv
      <3> QED
        BY <3>2 DEF ListOf
    <2>2. ASSUME NEW p \in UNION {answer[n] : n \in Names}
          PROVE  p \in {q \in list : at[q[1].name] = "returned"}
      <3>1. PICK n \in Names : p \in answer[n]
        OBVIOUS
      <3> QED
        BY <2>1, <3>1
    <2> QED
      BY <2>2
  <1>8. validate /\ late = {} => UNION {answer[n] : n \in Names} = {q \in Shown : job[q] = "done"}
    <2> SUFFICES ASSUME validate, late = {}
                 PROVE  UNION {answer[n] : n \in Names} = {q \in Shown : job[q] = "done"}
      OBVIOUS
    <2>1. \A n \in Names : at[n] = "returned" => answer[n] = Results(n)
      BY DEF ResultInv, TaskInv
    <2>2. ASSUME NEW p \in Proxies
          PROVE  (\E n \in Names : p \in answer[n]) <=> p \in Shown /\ job[p] = "done"
      <3>1. ASSUME NEW n \in Names, p \in answer[n]
            PROVE  p \in Shown /\ job[p] = "done"
        <4>1. p \in list /\ at[p[1].name] = "returned" /\ at[n] = "returned"
          BY <1>7, <3>1 DEF ResultInv, TaskInv
        <4> QED
          BY <1>4, <2>1, <3>1, <4>1 DEF Results
      <3>2. ASSUME p \in Shown, job[p] = "done"
            PROVE  \E n \in Names : p \in answer[n]
        <4>1. p \in list /\ at[p[1].name] = "returned"
          BY <1>1, <1>4, <1>5, <3>2
        <4>2. p \in Results(p[1].name)
          BY <3>2, <4>1 DEF Results, ListOf
        <4> QED
          BY <1>1, <2>1, <4>1, <4>2
      <3> QED
        BY <3>1, <3>2
    <2>3. \A n \in Names : answer[n] \subseteq Proxies
      BY DEF TypeOK
    <2> QED
      BY <1>2, <2>2, <2>3 DEF Shown
  <1>9. output = {p[2] : p \in UNION {answer[n] : n \in Names}} \/ ~validate
    BY DEF OutputInv, OutInv
  <1>10. ~validate => output = {p[2] : p \in Shown}
    BY <1>6 DEF OutputInv, OutInv
  <1>11. UNION {answer[n] : n \in Names} \subseteq Shown
    BY <1>2, <1>4, <1>7
  <1>12. validate \in BOOLEAN
    BY DEF TypeOK
  <1>13. validate /\ late = {} => output = {p[2] : p \in {q \in Shown : job[q] = "done"}}
    BY <1>8, <1>9
  <1>14. output \subseteq {p[2] : p \in Shown}
    <2> DEFINE A == UNION {answer[n] : n \in Names}
    <2>1. A \subseteq Shown
      BY <1>11
    <2>2. output = {p[2] : p \in A} \/ output = {p[2] : p \in Shown}
      BY <1>9, <1>10
    <2> HIDE DEF A
    <2> QED
      BY <2>1, <2>2
  <1> QED
    BY <1>10, <1>13, <1>14

\* The command prints all that was shown of the providers of which no request failed,
\* whatever variants were asked for, and after validation those with results.
THEOREM CommandPrintsAll == Spec => []OutputWhole
  <1>1. Init => OutputInv
    <2> SUFFICES ASSUME Init PROVE OutputInv
      OBVIOUS
    <2>1. \A n \in Names : Gathered(n)
      BY DEF Init, Gathered
    <2> QED
      BY <2>1 DEF Init, OutputInv, OutInv
  <1>2. TypeOK /\ ResultInv /\ OutputInv => OutputWhole
    BY OutputFollows DEF OutputWhole
  <1> QED
    BY <1>1, <1>2, ResultInit, TypeStep, ResultStep, OutputStep, PTL DEF Spec
=============================================================================

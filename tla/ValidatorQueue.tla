--------------------------- MODULE ValidatorQueue ---------------------------
(***************************************************************************)
(* What the validator is to those who push proxies and ask isEmpty(): jobs *)
(* that are pending until they settle, a flag that says none is left, and  *)
(* callers that are woken whenever an onEmpty() has come to its end - also *)
(* one that began before their jobs were pushed.  An onEmpty() that        *)
(* rejects neither sets the flag nor wakes anybody.                        *)
(***************************************************************************)
EXTENDS FiniteSets

CONSTANTS
  Jobs,    \* workloads of the queue
  Empties, \* calls of onEmpty() that may be under way at once
  Askers   \* callers of isEmpty()

VARIABLES
  job,      \* none, pending, done or failed
  dry,      \* the queue is about to call onEmpty()
  emptying, \* the calls of onEmpty() under way
  isEmpty,  \* this._isEmpty
  rejected, \* history: the last onEmpty() to end has rejected, and no job came since
  asker     \* none, waiting, resolved, or stranded by shutdown()

vars == <<job, dry, emptying, isEmpty, rejected, asker>>

Init ==
  /\ job = [j \in Jobs |-> "none"]
  /\ dry = FALSE
  /\ emptying = {}
  /\ isEmpty = TRUE
  /\ rejected = FALSE
  /\ asker = [t \in Askers |-> "none"]

Pending == {j \in Jobs : job[j] = "pending"}

Push(j) ==
  /\ job[j] # "pending"
  /\ job' = [job EXCEPT ![j] = "pending"]
  /\ isEmpty' = FALSE
  /\ dry' = FALSE
  /\ rejected' = FALSE
  /\ UNCHANGED <<emptying, asker>>

Settle(j, how) ==
  /\ job[j] = "pending"
  /\ job' = [job EXCEPT ![j] = how]
  /\ dry' = (Pending \subseteq {j})
  /\ UNCHANGED <<emptying, isEmpty, rejected, asker>>

OnEmpty(e) ==
  /\ dry
  /\ e \notin emptying
  /\ dry' = FALSE
  /\ emptying' = emptying \cup {e}
  /\ UNCHANGED <<job, isEmpty, rejected, asker>>

\* Whoever waits goes on (to), or for good does not.
Wake(to) == asker' = [t \in Askers |-> IF asker[t] = "waiting" THEN to ELSE asker[t]]

EmptyFinished(e) ==
  /\ e \in emptying
  /\ emptying' = emptying \ {e}
  /\ isEmpty' = TRUE
  /\ rejected' = FALSE
  /\ Wake("resolved")
  /\ UNCHANGED <<job, dry>>

\* The connection could not be closed.
EmptyRejects(e) ==
  /\ e \in emptying
  /\ emptying' = emptying \ {e}
  /\ rejected' = TRUE
  /\ UNCHANGED <<job, dry, isEmpty, asker>>

\* With the judge asleep and no connection onEmpty() has nothing to wait for.
EmptyAtOnce(e) ==
  /\ dry
  /\ e \notin emptying
  /\ dry' = FALSE
  /\ isEmpty' = TRUE
  /\ rejected' = FALSE
  /\ Wake("resolved")
  /\ UNCHANGED <<job, emptying>>

Ask(t) ==
  /\ asker[t] = "none"
  /\ asker' = [asker EXCEPT ![t] = IF isEmpty THEN "resolved" ELSE "waiting"]
  /\ UNCHANGED <<job, dry, emptying, isEmpty, rejected>>

\* shutdown() removes the listeners.
Close == Wake("stranded") /\ UNCHANGED <<job, dry, emptying, isEmpty, rejected>>

Next ==
  \/ \E j \in Jobs : Push(j) \/ Settle(j, "done") \/ Settle(j, "failed")
  \/ \E e \in Empties : OnEmpty(e) \/ EmptyAtOnce(e) \/ EmptyFinished(e) \/ EmptyRejects(e)
  \/ \E t \in Askers : Ask(t)
  \/ Close

Spec == Init /\ [][Next]_vars
=============================================================================

---------------------------- MODULE JudgeService ----------------------------
(***************************************************************************)
(* What the judge is to the validator: a service that is woken by a job,   *)
(* possibly again by one that saw it asleep too, that serves jobs only     *)
(* while it is awake, and that falls asleep only when it serves nobody.    *)
(***************************************************************************)
CONSTANT Jobs

VARIABLES
  phase,  \* asleep, waking, awake, falling
  served  \* the jobs that rely on it

vars == <<phase, served>>

Init == phase = "asleep" /\ served = {}

Wake(j) ==
  /\ phase \in {"asleep", "awake"}
  /\ phase' = "waking"
  /\ served' = served \cup {j}

Up == phase = "waking" /\ phase' = "awake" /\ UNCHANGED served

Serve(j) ==
  /\ phase \in {"waking", "awake"}
  /\ served' = served \cup {j}
  /\ UNCHANGED phase

Leave(j) == served' = served \ {j} /\ UNCHANGED phase

Fall ==
  /\ phase = "awake" /\ served = {}
  /\ phase' = "falling"
  /\ UNCHANGED served

Down == phase = "falling" /\ phase' = "asleep" /\ UNCHANGED served

Next == Up \/ Fall \/ Down \/ \E j \in Jobs : Wake(j) \/ Serve(j) \/ Leave(j)

Spec == Init /\ [][Next]_vars
=============================================================================

---------------------------- MODULE FetchRequest ----------------------------
(***************************************************************************)
(* What doEnqueue() of ProxyRotator.ts promises about a request id: it is  *)
(* claimed by one caller at a time, the page that is fetched for it is     *)
(* worked off completely, and with the last workload - or at once, if the  *)
(* page is empty - the id is free for the next claim.                      *)
(***************************************************************************)
CONSTANTS
  Reqs,  \* request ids
  Rows   \* rows a page may hold

VARIABLES
  busy,  \* the request ids that are claimed
  out    \* the rows of each request id that are not worked off

vars == <<busy, out>>

Init ==
  /\ busy = {}
  /\ out = [r \in Reqs |-> {}]

\* A request id is free as soon as nothing of it is left.
ReleaseIfDone(r, left) == busy' = IF left = {} THEN busy \ {r} ELSE busy

Claim(r) ==
  /\ r \notin busy
  /\ busy' = busy \cup {r}
  /\ UNCHANGED out

Load(r, S) ==
  /\ r \in busy
  /\ out[r] = {}
  /\ out' = [out EXCEPT ![r] = S]
  /\ ReleaseIfDone(r, S)

Finish(r, k) ==
  /\ k \in out[r]
  /\ out' = [out EXCEPT ![r] = @ \ {k}]
  /\ ReleaseIfDone(r, out[r] \ {k})

Next ==
  \E r \in Reqs :
    \/ Claim(r)
    \/ \E S \in SUBSET Rows : Load(r, S)
    \/ \E k \in Rows : Finish(r, k)

Spec == Init /\ [][Next]_vars
=============================================================================

---------------------------- MODULE ClientRequest ----------------------------
(***************************************************************************)
(* What a proxy server promises a client connection.  A request ends with  *)
(* one answer that stands until the next request, failed uses of a proxy   *)
(* are repeated out of one budget per connection, and the answer "failed"  *)
(* is only given when that budget is spent or the request may not be       *)
(* repeated at all.  A server that is finalized may refuse a request.      *)
(***************************************************************************)
EXTENDS Integers

CONSTANTS
  Clients,     \* connections
  RepeatLimit  \* options.repeatLimit

VARIABLES
  busy,        \* connections with a request in progress
  repeatable,  \* those whose request may be repeated with another proxy
  repeats,     \* repeats made so far
  answer       \* how the latest request ended

vars == <<busy, repeatable, repeats, answer>>

Answers == {"none", "relayed", "nomatch", "failed"}

Init ==
  /\ busy = {}
  /\ repeatable \in SUBSET Clients
  /\ repeats = [c \in Clients |-> 0]
  /\ answer = [c \in Clients |-> "none"]

Begin(c) ==
  /\ c \notin busy
  /\ busy' = busy \cup {c}
  /\ repeatable' \in {repeatable \cup {c}, repeatable \ {c}}
  /\ answer' = [answer EXCEPT ![c] = "none"]
  /\ UNCHANGED repeats

Refuse(c) ==
  /\ c \notin busy
  /\ repeatable' \in {repeatable \cup {c}, repeatable \ {c}}
  /\ \E a \in {"none", "failed"} : answer' = [answer EXCEPT ![c] = a]
  /\ UNCHANGED <<busy, repeats>>

Repeat(c) ==
  /\ c \in busy \cap repeatable
  /\ repeats[c] < RepeatLimit
  /\ repeats' = [repeats EXCEPT ![c] = @ + 1]
  /\ UNCHANGED <<busy, repeatable, answer>>

Finish(c, a) ==
  /\ c \in busy
  /\ a = "failed" /\ c \in repeatable => repeats[c] = RepeatLimit
  /\ busy' = busy \ {c}
  /\ answer' = [answer EXCEPT ![c] = a]
  /\ UNCHANGED <<repeatable, repeats>>

Next ==
  \E c \in Clients :
    \/ Begin(c)
    \/ Refuse(c)
    \/ Repeat(c)
    \/ \E a \in Answers : Finish(c, a)

Spec == Init /\ [][Next]_vars
=============================================================================

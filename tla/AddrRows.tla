------------------------------ MODULE AddrRows ------------------------------
(***************************************************************************)
(* The rows the validator and the rotator share: IpAddr, IpAddrState and   *)
(* IpRotate.  ProxyValidator.store(), ProxyRotator.doLog() and the fetch   *)
(* of doEnqueue() each read rows, change the entities in memory and save   *)
(* them whole, with awaits in between that let the others in.              *)
(*                                                                         *)
(* The storage is external.  What is taken from it: a query and a save are *)
(* atomic, a transaction shows what it saved when it commits, a save sets  *)
(* all columns of a row to those of the entity, a second row of the same   *)
(* key is refused, and any call may fail.                                  *)
(***************************************************************************)
EXTENDS Integers

CONSTANTS
  Addrs,     \* ip and port
  Variants,  \* pairs of protocol_src and protocol_dest the judge tries
  Cycle,     \* 10: uses after which 'used' starts again
  Many,      \* 100: an address used more often may be blocked
  Share,     \* 15: per cent of successes that keep it from that
  MaxStores, MaxLogs, MaxFetches  \* bounds: calls of store(), doLog(), doEnqueue()

ASSUME RowsAssumption ==
  /\ \A v \in Variants : v = <<v[1], v[2]>>
  /\ Cycle \in Nat \ {0} /\ Many \in Nat /\ Share \in Nat
  /\ MaxStores \in Nat /\ MaxLogs \in Nat /\ MaxFetches \in Nat

Uses == Addrs \X {v[1] : v \in Variants}

AddrRow == [exists : BOOLEAN, validation_id : Nat, count_success : Nat, count_errors : Nat,
            blocked : BOOLEAN, to_delete : BOOLEAN]
RotateRow == [exists : BOOLEAN, inc : Nat, used : Nat, successes : Nat, errors : Nat]
StateRow == [store : Nat, of : Addrs, validation_id : Nat, variant : Variants, enabled : BOOLEAN]

NewAddr == [exists |-> FALSE, validation_id |-> 0, count_success |-> 0, count_errors |-> 0,
            blocked |-> FALSE, to_delete |-> FALSE]
NewRotate == [exists |-> FALSE, inc |-> 0, used |-> 0, successes |-> 0, errors |-> 0]

\* Calls on their way, with the entity of IpAddr as it was last read or saved.
Store == [id : Nat, at : {"read", "numbered", "failed"}, of : Addrs, row : AddrRow,
          enabled : SUBSET Variants, left : SUBSET Variants]
Log == [id : Nat, at : {"found", "counting"}, of : Uses, ok : BOOLEAN, row : AddrRow,
        rotate : RotateRow]

VARIABLES
  addr,       \* rows of IpAddr
  states,     \* rows of IpAddrState
  rotate,     \* rows of IpRotate
  storing,    \* calls of store()
  logging,    \* calls of doLog()
  fetching,   \* rows of IpRotate that calls of doEnqueue() hold, of the uses they found
  stores, logs, fetches,  \* calls so far
  begun,      \* history: numbers of validations given out for an address
  clobbered,  \* history: addresses of which a stale entity was saved
  torn,       \* history: addresses whose last store() failed on its way
  logged      \* history: outcomes committed for a use

rowVars == <<addr, states, rotate>>
callVars == <<storing, logging, fetching, stores, logs, fetches>>
vars == <<rowVars, callVars, begun, clobbered, torn, logged>>

Init ==
  /\ addr = [a \in Addrs |-> NewAddr]
  /\ states = {}
  /\ rotate = [u \in Uses |-> NewRotate]
  /\ storing = {} /\ logging = {} /\ fetching = {}
  /\ stores = 0 /\ logs = 0 /\ fetches = 0
  /\ begun = [a \in Addrs |-> 0]
  /\ clobbered = {}
  /\ torn = {}
  /\ logged = [u \in Uses |-> 0]

\* A row is saved: whether what it overwrites was known to the one who saves it.
SaveAddr(a, known, row) ==
  /\ addr' = [addr EXCEPT ![a] = row]
  /\ clobbered' = IF addr[a] = known THEN clobbered ELSE clobbered \cup {a}

\* A unique key has its row already.
Refused(entity, row) == ~entity.exists /\ row.exists

-----------------------------------------------------------------------------
(* store() *)

\* findOne(): the row, or a new entity.
StoreReads ==
  /\ stores < MaxStores
  /\ stores' = stores + 1
  /\ \E a \in Addrs, on \in SUBSET Variants :
       storing' = storing \cup
         {[id |-> stores', at |-> "read", of |-> a, row |-> addr[a], enabled |-> on,
           left |-> Variants]}
  /\ UNCHANGED <<rowVars, logging, fetching, logs, fetches, begun, clobbered, torn, logged>>

\* Mutant: only a new row is given a number.
NumberedOnce(row) ==
  [row EXCEPT !.exists = TRUE, !.validation_id = IF row.exists THEN row.validation_id ELSE 1]

\* The next number.
Numbered(row) == [row EXCEPT !.exists = TRUE, !.validation_id = row.validation_id + 1]

\* The row is saved with it.
StoreSavesNumber(c) ==
  /\ c.at = "read" /\ ~Refused(c.row, addr[c.of])
  /\ SaveAddr(c.of, c.row, Numbered(c.row))
  /\ begun' = [begun EXCEPT ![c.of] = begun[c.of] + 1]
  /\ storing' = (storing \ {c}) \cup {[c EXCEPT !.at = "numbered", !.row = Numbered(c.row)]}
  /\ UNCHANGED <<states, rotate, logging, fetching, stores, logs, fetches, torn, logged>>

\* One of the saves that Promise.all() waits for; the others go on when one has failed.
StoreSavesState(c) ==
  /\ c.at \in {"numbered", "failed"}
  /\ \E v \in c.left :
       /\ states' = states \cup
            {[store |-> c.id, of |-> c.of, validation_id |-> c.row.validation_id,
              variant |-> v, enabled |-> v \in c.enabled]}
       /\ storing' = (storing \ {c}) \cup {[c EXCEPT !.left = c.left \ {v}]}
  /\ UNCHANGED <<addr, rotate, logging, fetching, stores, logs, fetches, begun, clobbered,
                 torn, logged>>

\* Mutant: a failure does not end the series of successes.
StreakKept(row, on) ==
  IF on # {} THEN [row EXCEPT !.count_success = row.count_success + 1, !.count_errors = 0]
  ELSE [row EXCEPT !.count_errors = row.count_errors + 1]

\* Mutant: an address that works is unblocked.
StreakUnblocks(row, on) ==
  IF on # {} THEN [row EXCEPT !.count_success = row.count_success + 1, !.count_errors = 0,
                              !.blocked = FALSE]
  ELSE [row EXCEPT !.count_success = 0, !.count_errors = row.count_errors + 1]

\* Mutant: the number is taken once more.
StreakNumbers(row, on) ==
  IF on # {} THEN [row EXCEPT !.count_success = row.count_success + 1, !.count_errors = 0]
  ELSE [row EXCEPT !.count_success = 0, !.count_errors = row.count_errors + 1,
                   !.validation_id = row.validation_id + 1]

\* The series of successes or of errors goes on, or the other one begins.
Streak(row, on) ==
  IF on # {} THEN [row EXCEPT !.count_success = row.count_success + 1, !.count_errors = 0]
  ELSE [row EXCEPT !.count_success = 0, !.count_errors = row.count_errors + 1]

\* All states are saved: the row is saved with its series.
StoreEnds(c) ==
  /\ c.at = "numbered" /\ c.left = {}
  /\ SaveAddr(c.of, c.row, Streak(c.row, c.enabled))
  /\ torn' = torn \ {c.of}
  /\ storing' = storing \ {c}
  /\ UNCHANGED <<states, rotate, logging, fetching, stores, logs, fetches, begun, logged>>

\* A call of the storage fails, a second row for the address is refused, or nothing is
\* left to go on.
StoreFails(c) ==
  /\ \/ c.at = "numbered" /\ c.left # {}
        /\ \E v \in c.left :
             storing' = (storing \ {c}) \cup {[c EXCEPT !.at = "failed", !.left = c.left \ {v}]}
     \/ /\ c.at \in {"read", "failed"} \/ c.left = {}
        /\ storing' = storing \ {c}
  /\ torn' = IF c.at = "numbered" THEN torn \cup {c.of} ELSE torn
  /\ UNCHANGED <<rowVars, logging, fetching, stores, logs, fetches, begun, clobbered, logged>>

-----------------------------------------------------------------------------
(* doLog() *)

\* The address is known.
LogFinds ==
  /\ logs < MaxLogs
  /\ logs' = logs + 1
  /\ \E u \in Uses, ok \in BOOLEAN :
       /\ addr[u[1]].exists
       /\ logging' = logging \cup
            {[id |-> logs', at |-> "found", of |-> u, ok |-> ok, row |-> addr[u[1]],
              rotate |-> NewRotate]}
  /\ UNCHANGED <<rowVars, storing, fetching, stores, fetches, begun, clobbered, torn, logged>>

\* The transaction reads the statistics, or begins with new ones.
LogReads(c) ==
  /\ c.at = "found"
  /\ logging' = (logging \ {c}) \cup {[c EXCEPT !.at = "counting", !.rotate = rotate[c.of]]}
  /\ UNCHANGED <<rowVars, storing, fetching, stores, logs, fetches, begun, clobbered, torn,
                 logged>>

\* Mutant: 'used' does not start again.
CountedOn(r, ok) ==
  [exists |-> TRUE, inc |-> r.inc + 1, used |-> r.used + 1,
   successes |-> IF ok THEN r.successes + 1 ELSE r.successes,
   errors |-> IF ok THEN r.errors ELSE r.errors + 1]

\* _doLog()
Counted(r, ok) ==
  [exists |-> TRUE, inc |-> r.inc + 1,
   used |-> IF (r.inc + 1) % Cycle = 0 THEN 0 ELSE r.used + 1,
   successes |-> IF ok THEN r.successes + 1 ELSE r.successes,
   errors |-> IF ok THEN r.errors ELSE r.errors + 1]

Poor(r) == r.inc > Many /\ r.successes * 100 < Share * r.inc

Blocked(row, r) == [row EXCEPT !.blocked = TRUE, !.to_delete = row.to_delete \/ r.successes = 0]

\* The transaction commits the statistics, and the block of a poor address.
LogCommits(c) ==
  /\ c.at = "counting" /\ ~Refused(c.rotate, rotate[c.of])
  /\ LET r == Counted(c.rotate, c.ok)
     IN  /\ rotate' = [rotate EXCEPT ![c.of] = r]
         /\ IF Poor(r) THEN SaveAddr(c.of[1], c.row, Blocked(c.row, r))
            ELSE UNCHANGED <<addr, clobbered>>
  /\ logged' = [logged EXCEPT ![c.of] = logged[c.of] + 1]
  /\ logging' = logging \ {c}
  /\ UNCHANGED <<states, storing, fetching, stores, logs, fetches, begun, torn>>

\* It is rolled back, and the outcome is not counted.
LogFails(c) ==
  /\ logging' = logging \ {c}
  /\ UNCHANGED <<rowVars, storing, fetching, stores, logs, fetches, begun, clobbered, torn,
                 logged>>

-----------------------------------------------------------------------------
(* doEnqueue() *)

\* What fetch() joins: an enabled state of the current number.
Served(a, v) ==
  /\ ~addr[a].blocked /\ ~addr[a].to_delete
  /\ \E s \in states : s.of = a /\ s.variant = v /\ s.enabled
                       /\ s.validation_id = addr[a].validation_id

\* One row for an address, of one protocol_dest.  Offset, limit and the filters on level
\* and statistics leave some of it.
FetchReads ==
  /\ fetches < MaxFetches
  /\ fetches' = fetches + 1
  /\ \E v \in Variants :
     \E found \in SUBSET {u \in Uses : <<u[2], v[2]>> \in Variants /\ Served(u[1], <<u[2], v[2]>>)} :
       /\ \A t, u \in found : t[1] = u[1] => t = u
       /\ fetching' = fetching \cup {[id |-> fetches', rows |-> [u \in found |-> rotate[u]]]}
  /\ UNCHANGED <<rowVars, storing, logging, stores, logs, begun, clobbered, torn, logged>>

\* Mutant: a row handed out counts as used.
FetchedUsed(r) == [r EXCEPT !.exists = TRUE, !.inc = r.inc + 1, !.errors = r.errors + 1]

\* What attachRotateEntriesToIpAddr() makes of a row.
Fetched(r) == [r EXCEPT !.exists = TRUE]

\* One transaction saves the rows as the query has found them, new ones too.
FetchSaves(c) ==
  /\ \A u \in DOMAIN c.rows : ~Refused(c.rows[u], rotate[u])
  /\ rotate' = [u \in Uses |-> IF u \in DOMAIN c.rows THEN Fetched(c.rows[u]) ELSE rotate[u]]
  /\ fetching' = fetching \ {c}
  /\ UNCHANGED <<addr, states, storing, logging, stores, logs, fetches, begun, clobbered,
                 torn, logged>>

FetchFails(c) ==
  /\ fetching' = fetching \ {c}
  /\ UNCHANGED <<rowVars, storing, logging, stores, logs, fetches, begun, clobbered, torn,
                 logged>>

-----------------------------------------------------------------------------
StoreStep(c) == StoreSavesNumber(c) \/ StoreSavesState(c) \/ StoreEnds(c) \/ StoreFails(c)
LogStep(c) == LogReads(c) \/ LogCommits(c) \/ LogFails(c)
FetchStep(c) == FetchSaves(c) \/ FetchFails(c)

Next ==
  \/ StoreReads \/ \E c \in storing : StoreStep(c)
  \/ LogFinds \/ \E c \in logging : LogStep(c)
  \/ FetchReads \/ \E c \in fetching : FetchStep(c)

Spec == Init /\ [][Next]_vars

-----------------------------------------------------------------------------
(* Properties *)

\* Every variable has its type.
TypeOK ==
  /\ addr \in [Addrs -> AddrRow]
  /\ states \subseteq StateRow
  /\ rotate \in [Uses -> RotateRow]
  /\ storing \subseteq Store
  /\ logging \subseteq Log
  /\ \A c \in fetching : c.id \in 1 .. MaxFetches /\ DOMAIN c.rows \subseteq Uses
                         /\ \A u \in DOMAIN c.rows : c.rows[u] \in RotateRow
  /\ stores \in 0 .. MaxStores /\ logs \in 0 .. MaxLogs /\ fetches \in 0 .. MaxFetches
  /\ begun \in [Addrs -> Nat]
  /\ clobbered \subseteq Addrs /\ torn \subseteq Addrs
  /\ logged \in [Uses -> Nat]

\* Statistics add up in every row, however calls overwrite each other: a row is always
\* what some one call has made of another row.
StatisticsAgree ==
  \A u \in Uses : /\ rotate[u].inc = rotate[u].successes + rotate[u].errors
                  /\ rotate[u].used = rotate[u].inc % Cycle

\* Outcomes may be lost, but none is counted twice and none is made up.
NoneCountedTwice == \A u \in Uses : rotate[u].inc <= logged[u]

\* The validation ids an address gets are those of its validations one after the
\* other, as long as no stale entity of it was saved.
NumbersCount == \A a \in Addrs \ clobbered : addr[a].validation_id = begun[a]

\* So no two validations share one: fetch() joins states of a single validation, with
\* one row for a variant.
OneStateEach ==
  \A s, t \in states : s.of = t.of /\ s.of \notin clobbered
                       /\ s.validation_id = t.validation_id /\ s.variant = t.variant => s = t

\* A validation of the address has its number and is not done.
UnderWay(a) == \E c \in storing : c.of = a /\ c.at = "numbered"

\* When no validation of an address is on its way and the last one was not torn by a
\* failure, whether the row counts successes is whether fetch() finds an enabled state.
\* A validation after a torn one repairs the row.
RowMatchesStates ==
  \A a \in Addrs \ (clobbered \cup torn) :
    addr[a].exists /\ ~UnderWay(a) =>
      (addr[a].count_success > 0 <=>
         \E s \in states : s.of = a /\ s.enabled /\ s.validation_id = addr[a].validation_id)

\* A block stays, whatever validations find, unless a stale entity is saved.
BlocksStay ==
  [][\A a \in Addrs \ clobbered' :
       /\ addr[a].blocked => addr'[a].blocked
       /\ addr[a].to_delete => addr'[a].to_delete]_vars

\* Calls that save the same row follow one another: two validations of an address, a
\* validation and a log() of it, two log() of it, a log() and a fetch of one use.  The
\* code has nothing to see to this.
Serial ==
  /\ \A c, d \in storing : c.of = d.of /\ "failed" \notin {c.at, d.at} => c = d
  /\ \A c \in storing, d \in logging : c.of = d.of[1] => c.at = "failed"
  /\ \A c, d \in logging : c.of[1] = d.of[1] => c = d
  /\ \A c \in logging, d \in fetching : c.of \notin DOMAIN d.rows

\* No stale entity is saved, and the statistics count every outcome committed.
NothingLost == clobbered = {} /\ \A u \in Uses : rotate[u].inc = logged[u]
=============================================================================

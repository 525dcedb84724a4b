--------------------------- MODULE AddrRowsProofs ---------------------------
(***************************************************************************)
(* Theorems about AddrRows, for any number of addresses, variants and      *)
(* calls, and any thresholds: what the counters of a row keep however the  *)
(* calls overlap, and that nothing at all is lost when none do.            *)
(***************************************************************************)
EXTENDS AddrRows, TLAPS

(* What the operators make of a row. *)

LEMMA FieldTypes ==
  ASSUME NEW row \in AddrRow, NEW n \in Nat, NEW b \in BOOLEAN
  PROVE  /\ [row EXCEPT !.validation_id = n] \in AddrRow
         /\ [row EXCEPT !.count_success = n] \in AddrRow
         /\ [row EXCEPT !.count_errors = n] \in AddrRow
         /\ [row EXCEPT !.exists = b] \in AddrRow
         /\ [row EXCEPT !.blocked = b] \in AddrRow
         /\ [row EXCEPT !.to_delete = b] \in AddrRow
  <1>1. [row EXCEPT !.validation_id = n] \in AddrRow
    BY DEF AddrRow
  <1>2. [row EXCEPT !.count_success = n] \in AddrRow
    BY DEF AddrRow
  <1>3. [row EXCEPT !.count_errors = n] \in AddrRow
    BY DEF AddrRow
  <1>4. [row EXCEPT !.exists = b] \in AddrRow
    BY DEF AddrRow
  <1>5. [row EXCEPT !.blocked = b] \in AddrRow
    BY DEF AddrRow
  <1>6. [row EXCEPT !.to_delete = b] \in AddrRow
    BY DEF AddrRow
  <1> QED
    BY <1>1, <1>2, <1>3, <1>4, <1>5, <1>6

LEMMA NumberedRow ==
  ASSUME NEW row \in AddrRow
  PROVE  /\ Numbered(row) \in AddrRow
         /\ Numbered(row).validation_id = row.validation_id + 1
         /\ Numbered(row).blocked = row.blocked /\ Numbered(row).to_delete = row.to_delete
  <1>1. row.validation_id + 1 \in Nat
    BY DEF AddrRow
  <1>2. [[row EXCEPT !.exists = TRUE] EXCEPT !.validation_id = row.validation_id + 1] \in AddrRow
    BY <1>1, FieldTypes
  <1>3. Numbered(row) \in AddrRow
    BY <1>2 DEF Numbered
  <1>4. Numbered(row).validation_id = row.validation_id + 1
    BY DEF AddrRow, Numbered
  <1>5. Numbered(row).blocked = row.blocked
    BY DEF AddrRow, Numbered
  <1>6. Numbered(row).to_delete = row.to_delete
    BY DEF AddrRow, Numbered
  <1> QED
    BY <1>3, <1>4, <1>5, <1>6

LEMMA StreakRow ==
  ASSUME NEW row \in AddrRow, NEW on
  PROVE  /\ Streak(row, on) \in AddrRow
         /\ Streak(row, on).validation_id = row.validation_id
         /\ Streak(row, on).blocked = row.blocked
         /\ Streak(row, on).to_delete = row.to_delete
  <1>1. row.count_success + 1 \in Nat /\ row.count_errors + 1 \in Nat
    BY DEF AddrRow
  <1> DEFINE right == [[row EXCEPT !.count_success = row.count_success + 1]
                         EXCEPT !.count_errors = 0]
             wrong == [[row EXCEPT !.count_success = 0]
                         EXCEPT !.count_errors = row.count_errors + 1]
  <1>2. right \in AddrRow /\ wrong \in AddrRow
    BY <1>1, FieldTypes
  <1>3. right.validation_id = row.validation_id /\ wrong.validation_id = row.validation_id
    BY DEF AddrRow
  <1>4. right.blocked = row.blocked /\ wrong.blocked = row.blocked
    BY DEF AddrRow
  <1>5. right.to_delete = row.to_delete /\ wrong.to_delete = row.to_delete
    BY DEF AddrRow
  <1>6. Streak(row, on) = IF on # {} THEN right ELSE wrong
    BY DEF Streak
  <1> HIDE DEF right, wrong
  <1> QED
    BY <1>2, <1>3, <1>4, <1>5, <1>6

LEMMA BlockedRow ==
  ASSUME NEW row \in AddrRow, NEW r \in RotateRow
  PROVE  /\ Blocked(row, r) \in AddrRow
         /\ Blocked(row, r).validation_id = row.validation_id
         /\ Blocked(row, r).blocked
         /\ row.to_delete => Blocked(row, r).to_delete
  <1> DEFINE deleted == row.to_delete \/ r.successes = 0
  <1>1. deleted \in BOOLEAN
    BY DEF AddrRow
  <1>2. Blocked(row, r) = [[row EXCEPT !.blocked = TRUE] EXCEPT !.to_delete = deleted]
    BY DEF Blocked
  <1>3. row.to_delete => deleted
    OBVIOUS
  <1> HIDE DEF deleted
  <1>4. Blocked(row, r) \in AddrRow
    <2>1. [row EXCEPT !.blocked = TRUE] \in AddrRow
      BY FieldTypes
    <2> QED
      BY <1>1, <1>2, <2>1, FieldTypes
  <1>5. Blocked(row, r).validation_id = row.validation_id /\ Blocked(row, r).blocked
    BY <1>2 DEF AddrRow
  <1>6. Blocked(row, r).to_delete = deleted
    BY <1>2 DEF AddrRow
  <1> QED
    BY <1>3, <1>4, <1>5, <1>6

LEMMA FetchedRow ==
  ASSUME NEW r \in RotateRow
  PROVE  /\ Fetched(r) \in RotateRow
         /\ Fetched(r).inc = r.inc /\ Fetched(r).used = r.used
         /\ Fetched(r).successes = r.successes /\ Fetched(r).errors = r.errors
  BY DEF RotateRow, Fetched

LEMMA CountedRow ==
  ASSUME NEW r \in RotateRow, NEW ok \in BOOLEAN
  PROVE  /\ Counted(r, ok) \in RotateRow
         /\ Counted(r, ok).inc = r.inc + 1
         /\ Counted(r, ok).successes + Counted(r, ok).errors = r.successes + r.errors + 1
         /\ Counted(r, ok).used = IF (r.inc + 1) % Cycle = 0 THEN 0 ELSE r.used + 1
  <1>1. /\ r.inc + 1 \in Nat /\ r.used + 1 \in Nat
        /\ r.successes \in Nat /\ r.errors \in Nat
    BY DEF RotateRow
  <1> DEFINE used == IF (r.inc + 1) % Cycle = 0 THEN 0 ELSE r.used + 1
  <1>2. used \in Nat
    BY <1>1
  <1>3. Counted(r, ok) = [exists |-> TRUE, inc |-> r.inc + 1, used |-> used,
                          successes |-> IF ok THEN r.successes + 1 ELSE r.successes,
                          errors |-> IF ok THEN r.errors ELSE r.errors + 1]
    BY DEF Counted
  <1> HIDE DEF used
  <1>4. Counted(r, ok) \in RotateRow
    BY <1>1, <1>2, <1>3 DEF RotateRow
  <1>5. /\ Counted(r, ok).inc = r.inc + 1
        /\ Counted(r, ok).used = used
        /\ Counted(r, ok).successes + Counted(r, ok).errors = r.successes + r.errors + 1
    BY <1>1, <1>3
  <1> QED
    BY <1>4, <1>5 DEF used

-----------------------------------------------------------------------------
(* Types *)

LEMMA InitTypes == Init => TypeOK
  BY RowsAssumption DEF Init, TypeOK, AddrRow, RotateRow, NewAddr, NewRotate, Store, Log

LEMMA SaveAddrTypes ==
  ASSUME TypeOK, NEW a \in Addrs, NEW known, NEW row \in AddrRow, SaveAddr(a, known, row)
  PROVE  addr' \in [Addrs -> AddrRow] /\ clobbered' \subseteq Addrs
  BY DEF TypeOK, SaveAddr

LEMMA StoreTypes ==
  ASSUME TypeOK, NEW c \in storing, StoreStep(c)
  PROVE  TypeOK'
  <1>1. c \in Store /\ c.of \in Addrs /\ c.row \in AddrRow
    BY DEF TypeOK, Store
  <1>2. CASE StoreSavesNumber(c)
    <2>1. addr' \in [Addrs -> AddrRow] /\ clobbered' \subseteq Addrs
      BY <1>1, <1>2, NumberedRow, SaveAddrTypes DEF StoreSavesNumber
    <2>2. [c EXCEPT !.at = "numbered", !.row = Numbered(c.row)] \in Store
      BY <1>1, NumberedRow DEF Store
    <2>3. begun' \in [Addrs -> Nat]
      BY <1>1, <1>2 DEF StoreSavesNumber, TypeOK
    <2> QED
      BY <1>2, <2>1, <2>2, <2>3 DEF StoreSavesNumber, TypeOK
  <1>3. CASE StoreSavesState(c)
    <2>1. PICK v \in c.left :
            /\ states' = states \cup
                 {[store |-> c.id, of |-> c.of, validation_id |-> c.row.validation_id,
                   variant |-> v, enabled |-> v \in c.enabled]}
            /\ storing' = (storing \ {c}) \cup {[c EXCEPT !.left = c.left \ {v}]}
      BY <1>3 DEF StoreSavesState
    <2>2. [store |-> c.id, of |-> c.of, validation_id |-> c.row.validation_id,
           variant |-> v, enabled |-> v \in c.enabled] \in StateRow
      BY <1>1 DEF Store, AddrRow, StateRow
    <2>3. [c EXCEPT !.left = c.left \ {v}] \in Store
      BY <1>1 DEF Store
    <2> QED
      BY <1>3, <2>1, <2>2, <2>3 DEF StoreSavesState, TypeOK
  <1>4. CASE StoreEnds(c)
    <2>1. addr' \in [Addrs -> AddrRow] /\ clobbered' \subseteq Addrs
      BY <1>1, <1>4, StreakRow, SaveAddrTypes DEF StoreEnds
    <2> QED
      BY <1>4, <2>1 DEF StoreEnds, TypeOK
  <1>5. CASE StoreFails(c)
    <2>1. storing' \subseteq Store
      <3>1. \A v : [c EXCEPT !.at = "failed", !.left = c.left \ {v}] \in Store
        BY <1>1 DEF Store
      <3> QED
        BY <1>5, <3>1 DEF StoreFails, TypeOK
    <2>2. torn' \subseteq Addrs
      BY <1>1, <1>5 DEF StoreFails, TypeOK
    <2> QED
      BY <1>5, <2>1, <2>2 DEF StoreFails, rowVars, TypeOK
  <1> QED
    BY <1>2, <1>3, <1>4, <1>5 DEF StoreStep

LEMMA LogTypes ==
  ASSUME TypeOK, NEW c \in logging, LogStep(c)
  PROVE  TypeOK'
  <1>1. /\ c \in Log /\ c.of \in Uses /\ c.of[1] \in Addrs /\ c.ok \in BOOLEAN
        /\ c.row \in AddrRow /\ c.rotate \in RotateRow
    BY DEF TypeOK, Log, Uses
  <1>2. CASE LogReads(c)
    <2>1. [c EXCEPT !.at = "counting", !.rotate = rotate[c.of]] \in Log
      BY <1>1 DEF TypeOK, Log
    <2> QED
      BY <1>2, <2>1 DEF LogReads, rowVars, TypeOK
  <1>3. CASE LogCommits(c)
    <2> DEFINE r == Counted(c.rotate, c.ok)
    <2>1. r \in RotateRow
      BY <1>1, CountedRow
    <2>2. addr' \in [Addrs -> AddrRow] /\ clobbered' \subseteq Addrs
      <3>1. CASE Poor(r)
        <4>1. SaveAddr(c.of[1], c.row, Blocked(c.row, r))
          BY <1>3, <3>1 DEF LogCommits
        <4> HIDE DEF r
        <4> QED
          BY <1>1, <2>1, <4>1, BlockedRow, SaveAddrTypes
      <3>2. CASE ~Poor(r)
        BY <1>3, <3>2 DEF LogCommits, TypeOK
      <3> QED
        BY <3>1, <3>2
    <2>3. /\ rotate' = [rotate EXCEPT ![c.of] = r]
          /\ logged' = [logged EXCEPT ![c.of] = logged[c.of] + 1]
          /\ logging' = logging \ {c}
          /\ UNCHANGED <<states, storing, fetching, stores, logs, fetches, begun, torn>>
      BY <1>3 DEF LogCommits
    <2> HIDE DEF r
    <2>4. rotate' \in [Uses -> RotateRow]
      BY <1>1, <2>1, <2>3 DEF TypeOK
    <2>5. logged' \in [Uses -> Nat]
      BY <1>1, <2>3 DEF TypeOK
    <2> QED
      BY <2>2, <2>3, <2>4, <2>5 DEF TypeOK
  <1>4. CASE LogFails(c)
    BY <1>4 DEF LogFails, rowVars, TypeOK
  <1> QED
    BY <1>2, <1>3, <1>4 DEF LogStep

LEMMA FetchTypes ==
  ASSUME TypeOK, NEW c \in fetching, FetchStep(c)
  PROVE  TypeOK'
  <1>1. CASE FetchSaves(c)
    <2>1. \A u \in DOMAIN c.rows : Fetched(c.rows[u]) \in RotateRow
      BY FetchedRow DEF TypeOK
    <2>2. rotate' = [u \in Uses |-> IF u \in DOMAIN c.rows THEN Fetched(c.rows[u]) ELSE rotate[u]]
      BY <1>1 DEF FetchSaves
    <2>3. rotate' \in [Uses -> RotateRow]
      BY <2>1, <2>2 DEF TypeOK
    <2> QED
      BY <1>1, <2>3 DEF FetchSaves, TypeOK
  <1>2. CASE FetchFails(c)
    BY <1>2 DEF FetchFails, rowVars, TypeOK
  <1> QED
    BY <1>1, <1>2 DEF FetchStep

LEMMA CallTypes ==
  ASSUME TypeOK, StoreReads \/ LogFinds \/ FetchReads
  PROVE  TypeOK'
  <1>1. CASE StoreReads
    <2>1. PICK a \in Addrs, on \in SUBSET Variants :
            storing' = storing \cup
              {[id |-> stores', at |-> "read", of |-> a, row |-> addr[a], enabled |-> on,
                left |-> Variants]}
      BY <1>1 DEF StoreReads
    <2>2. stores' \in Nat /\ stores' \in 0 .. MaxStores
      BY <1>1, RowsAssumption DEF StoreReads, TypeOK
    <2>3. [id |-> stores', at |-> "read", of |-> a, row |-> addr[a], enabled |-> on,
           left |-> Variants] \in Store
      BY <2>2 DEF Store, TypeOK
    <2> QED
      BY <1>1, <2>1, <2>2, <2>3 DEF StoreReads, rowVars, TypeOK
  <1>2. CASE LogFinds
    <2>1. PICK u \in Uses, ok \in BOOLEAN :
            logging' = logging \cup
              {[id |-> logs', at |-> "found", of |-> u, ok |-> ok, row |-> addr[u[1]],
                rotate |-> NewRotate]}
      BY <1>2 DEF LogFinds
    <2>2. logs' \in Nat /\ logs' \in 0 .. MaxLogs
      BY <1>2, RowsAssumption DEF LogFinds, TypeOK
    <2>3. NewRotate \in RotateRow
      BY DEF NewRotate, RotateRow
    <2>4. u[1] \in Addrs /\ addr[u[1]] \in AddrRow
      BY DEF TypeOK, Uses
    <2>5. [id |-> logs', at |-> "found", of |-> u, ok |-> ok, row |-> addr[u[1]],
           rotate |-> NewRotate] \in Log
      BY <2>2, <2>3, <2>4 DEF Log
    <2> QED
      BY <1>2, <2>1, <2>2, <2>5 DEF LogFinds, rowVars, TypeOK
  <1>3. CASE FetchReads
    <2>1. PICK found \in SUBSET Uses :
            fetching' = fetching \cup {[id |-> fetches', rows |-> [u \in found |-> rotate[u]]]}
      BY <1>3 DEF FetchReads
    <2>2. fetches' \in 1 .. MaxFetches /\ fetches' \in 0 .. MaxFetches
      BY <1>3, RowsAssumption DEF FetchReads, TypeOK
    <2>3. \A u \in found : [w \in found |-> rotate[w]][u] \in RotateRow
      BY DEF TypeOK
    <2>4. \A c \in fetching' : c.id \in 1 .. MaxFetches /\ DOMAIN c.rows \subseteq Uses
                               /\ \A u \in DOMAIN c.rows : c.rows[u] \in RotateRow
      BY <2>1, <2>2, <2>3 DEF TypeOK
    <2> QED
      BY <1>3, <2>2, <2>4 DEF FetchReads, rowVars, TypeOK
  <1> QED
    BY <1>1, <1>2, <1>3

LEMMA StepTypes ==
  ASSUME TypeOK, [Next]_vars
  PROVE  TypeOK'
  <1>1. CASE UNCHANGED vars
    BY <1>1 DEF vars, rowVars, callVars, TypeOK
  <1>2. CASE Next
    BY <1>2, StoreTypes, LogTypes, FetchTypes, CallTypes DEF Next
  <1> QED
    BY <1>1, <1>2

\* Whatever calls overlap and fail, the rows and the calls have their types.
THEOREM TypeCorrect == Spec => []TypeOK
  BY InitTypes, StepTypes, PTL DEF Spec

-----------------------------------------------------------------------------
(* Statistics *)

LEMMA Remainders ==
  ASSUME NEW k \in Nat \ {0}, NEW n \in Nat
  PROVE  n % k \in 0 .. k - 1 /\ n = k * (n \div k) + (n % k) /\ n \div k \in Int
  OBVIOUS

LEMMA Remainder ==
  ASSUME NEW k \in Nat \ {0}, NEW q \in Int, NEW r \in 0 .. k - 1, NEW n \in Int, n = k * q + r
  PROVE  n % k = r
  OBVIOUS

LEMMA NextRemainder ==
  ASSUME NEW k \in Nat \ {0}, NEW n \in Nat, (n + 1) % k # 0
  PROVE  (n + 1) % k = (n % k) + 1
  <1> DEFINE q == n \div k
             r == n % k
  <1>1. r \in 0 .. k - 1 /\ q \in Int /\ n = k * q + r
    BY Remainders
  <1>2. r = n % k
    OBVIOUS
  <1> HIDE DEF q, r
  <1>3. CASE r + 1 < k
    <2>1. r + 1 \in 0 .. k - 1 /\ n + 1 = k * q + (r + 1) /\ n + 1 \in Int
      BY <1>1, <1>3
    <2>2. (n + 1) % k = r + 1
      BY <1>1, <2>1, Remainder
    <2> QED
      BY <1>2, <2>2
  <1>4. CASE r + 1 = k
    <2>1. n + 1 = k * (q + 1) + 0 /\ 0 \in 0 .. k - 1 /\ q + 1 \in Int /\ n + 1 \in Int
      BY <1>1, <1>4
    <2>2. (n + 1) % k = 0
      BY <2>1, Remainder
    <2> QED
      BY <2>2
  <1> QED
    BY <1>1, <1>3, <1>4

\* A row that outcomes of the use have made, no more than were committed.
Sound(r, n) ==
  /\ r.inc = r.successes + r.errors
  /\ r.used = r.inc % Cycle
  /\ r.inc <= n

\* Rows, and what calls hold of them.
RowsSound == \A u \in Uses : Sound(rotate[u], logged[u])
LogsSound == \A c \in logging : Sound(c.rotate, logged[c.of])
FetchesSound == \A c \in fetching : \A u \in DOMAIN c.rows : Sound(c.rows[u], logged[u])

CountInv == TypeOK /\ RowsSound /\ LogsSound /\ FetchesSound

LEMMA NewRowSound ==
  ASSUME NEW n \in Nat
  PROVE  Sound(NewRotate, n)
  BY RowsAssumption DEF NewRotate, Sound

LEMMA CountedSound ==
  ASSUME NEW r \in RotateRow, NEW ok \in BOOLEAN, NEW n \in Nat, Sound(r, n)
  PROVE  Sound(Counted(r, ok), n + 1)
  <1>1. r.inc \in Nat /\ r.successes \in Nat /\ r.errors \in Nat /\ Cycle \in Nat \ {0}
    BY RowsAssumption DEF RotateRow
  <1>2. (r.inc + 1) % Cycle # 0 => (r.inc + 1) % Cycle = (r.inc % Cycle) + 1
    BY <1>1, NextRemainder
  <1>3. Counted(r, ok).used = Counted(r, ok).inc % Cycle
    BY <1>2, CountedRow, Zenon DEF Sound
  <1> QED
    BY <1>1, <1>3, CountedRow DEF Sound

LEMMA InitCounts == Init => CountInv
  BY InitTypes, NewRowSound DEF Init, CountInv, RowsSound, LogsSound, FetchesSound

LEMMA StepCounts ==
  ASSUME CountInv, [Next]_vars
  PROVE  CountInv'
  <1>1. TypeOK /\ TypeOK'
    BY StepTypes DEF CountInv
  <1>2. CASE UNCHANGED vars
    BY <1>1, <1>2 DEF vars, rowVars, callVars, CountInv, RowsSound, LogsSound, FetchesSound
  <1>3. CASE StoreReads \/ \E c \in storing : StoreStep(c)
    <2>1. UNCHANGED <<rotate, logging, fetching, logged>>
      BY <1>3 DEF StoreReads, StoreStep, StoreSavesNumber, StoreSavesState, StoreEnds,
                  StoreFails, rowVars
    <2> QED
      BY <1>1, <2>1 DEF CountInv, RowsSound, LogsSound, FetchesSound
  <1>4. CASE LogFinds
    <2>1. PICK u \in Uses, ok \in BOOLEAN :
            logging' = logging \cup
              {[id |-> logs', at |-> "found", of |-> u, ok |-> ok, row |-> addr[u[1]],
                rotate |-> NewRotate]}
      BY <1>4 DEF LogFinds
    <2>2. UNCHANGED <<rotate, fetching, logged>>
      BY <1>4 DEF LogFinds, rowVars
    <2>3. Sound(NewRotate, logged[u])
      BY <1>1, NewRowSound DEF TypeOK
    <2>4. LogsSound'
      BY <2>1, <2>2, <2>3 DEF CountInv, LogsSound
    <2> QED
      BY <1>1, <2>2, <2>4 DEF CountInv, RowsSound, FetchesSound
  <1>5. ASSUME NEW c \in logging, LogReads(c)
        PROVE  CountInv'
    <2>1. logging' = (logging \ {c}) \cup {[c EXCEPT !.at = "counting", !.rotate = rotate[c.of]]}
      BY <1>5 DEF LogReads
    <2>2. UNCHANGED <<rotate, fetching, logged>>
      BY <1>5 DEF LogReads, rowVars
    <2>3. c \in Log /\ c.of \in Uses
      BY <1>1 DEF TypeOK, Log
    <2>4. \A d \in logging' : d \in logging \/ (d.of = c.of /\ d.rotate = rotate[c.of])
      BY <2>1, <2>3 DEF Log
    <2>5. LogsSound'
      BY <2>2, <2>3, <2>4 DEF CountInv, LogsSound, RowsSound
    <2> QED
      BY <1>1, <2>2, <2>5 DEF CountInv, RowsSound, FetchesSound
  <1>6. ASSUME NEW c \in logging, LogCommits(c)
        PROVE  CountInv'
    <2> DEFINE r == Counted(c.rotate, c.ok)
    <2>1. /\ c.of \in Uses /\ c.ok \in BOOLEAN /\ c.rotate \in RotateRow
          /\ logged[c.of] \in Nat
      BY <1>1 DEF TypeOK, Log
    <2>2. Sound(r, logged[c.of] + 1)
      BY <2>1, CountedSound DEF CountInv, LogsSound
    <2>3. /\ rotate' = [rotate EXCEPT ![c.of] = r]
          /\ logged' = [logged EXCEPT ![c.of] = logged[c.of] + 1]
          /\ logging' = logging \ {c} /\ fetching' = fetching
      BY <1>6 DEF LogCommits
    <2> HIDE DEF r
    <2>4. /\ rotate'[c.of] = r /\ logged'[c.of] = logged[c.of] + 1
          /\ \A u \in Uses : u # c.of => rotate'[u] = rotate[u] /\ logged'[u] = logged[u]
      BY <1>1, <2>1, <2>3 DEF TypeOK
    <2>5. \A u \in Uses : logged[u] \in Nat /\ logged'[u] \in Nat /\ logged[u] <= logged'[u]
      BY <1>1, <2>1, <2>4 DEF TypeOK
    <2>6. \A s \in RotateRow, u \in Uses : Sound(s, logged[u]) => Sound(s, logged'[u])
      BY <2>5 DEF RotateRow, Sound
    <2>7. RowsSound'
      BY <2>2, <2>4, Zenon DEF CountInv, RowsSound
    <2>8. LogsSound'
      <3>1. \A d \in logging' : d \in logging /\ d.rotate \in RotateRow /\ d.of \in Uses
        BY <1>1, <2>3 DEF TypeOK, Log
      <3> QED
        BY <2>6, <3>1, Zenon DEF CountInv, LogsSound
    <2>9. FetchesSound'
      <3>1. \A d \in fetching' : d \in fetching /\ DOMAIN d.rows \subseteq Uses
              /\ \A u \in DOMAIN d.rows : d.rows[u] \in RotateRow
        BY <1>1, <2>3 DEF TypeOK
      <3> QED
        BY <2>6, <3>1 DEF CountInv, FetchesSound
    <2> QED
      BY <1>1, <2>7, <2>8, <2>9 DEF CountInv
  <1>7. ASSUME NEW c \in logging, LogFails(c)
        PROVE  CountInv'
    BY <1>1, <1>7 DEF LogFails, rowVars, CountInv, RowsSound, LogsSound, FetchesSound
  <1>8. CASE FetchReads
    <2>1. PICK found \in SUBSET Uses :
            fetching' = fetching \cup {[id |-> fetches', rows |-> [u \in found |-> rotate[u]]]}
      BY <1>8 DEF FetchReads
    <2>2. UNCHANGED <<rotate, logging, logged>>
      BY <1>8 DEF FetchReads, rowVars
    <2>3. FetchesSound'
      BY <2>1, <2>2 DEF CountInv, RowsSound, FetchesSound
    <2> QED
      BY <1>1, <2>2, <2>3 DEF CountInv, RowsSound, LogsSound
  <1>9. ASSUME NEW c \in fetching, FetchSaves(c)
        PROVE  CountInv'
    <2>1. rotate' = [u \in Uses |-> IF u \in DOMAIN c.rows THEN Fetched(c.rows[u]) ELSE rotate[u]]
      BY <1>9 DEF FetchSaves
    <2>2. fetching' = fetching \ {c} /\ UNCHANGED <<logging, logged>>
      BY <1>9 DEF FetchSaves
    <2>3. \A u \in DOMAIN c.rows : Sound(Fetched(c.rows[u]), logged[u])
      BY <1>1, FetchedRow DEF TypeOK, CountInv, FetchesSound, Sound
    <2>4. RowsSound'
      BY <2>1, <2>2, <2>3 DEF CountInv, RowsSound
    <2> QED
      BY <1>1, <2>2, <2>4 DEF CountInv, LogsSound, FetchesSound
  <1>10. ASSUME NEW c \in fetching, FetchFails(c)
         PROVE  CountInv'
    BY <1>1, <1>10 DEF FetchFails, rowVars, CountInv, RowsSound, LogsSound, FetchesSound
  <1> QED
    BY <1>2, <1>3, <1>4, <1>5, <1>6, <1>7, <1>8, <1>9, <1>10 DEF Next, LogStep, FetchStep

\* Statistics add up and 'used' follows 'inc', whichever calls overwrite each other.
THEOREM StatisticsAddUp == Spec => []StatisticsAgree
  <1>1. CountInv => StatisticsAgree
    BY DEF CountInv, RowsSound, Sound, StatisticsAgree
  <1> QED
    BY <1>1, InitCounts, StepCounts, PTL DEF Spec

\* A lost update loses outcomes, but none is ever counted twice.
THEOREM OutcomesCountOnce == Spec => []NoneCountedTwice
  <1>1. CountInv => NoneCountedTwice
    BY DEF CountInv, RowsSound, Sound, NoneCountedTwice
  <1> QED
    BY <1>1, InitCounts, StepCounts, PTL DEF Spec

-----------------------------------------------------------------------------
(* Numbers of validations *)

\* store() has given its number, which its states take.
HasNumber(c) == c.at \in {"numbered", "failed"}

\* No two calls are the same.
OwnIds == \A c \in storing : c.id <= stores /\ \A d \in storing : c.id = d.id => c = d

\* Numbers in use were given out.
NumbersGiven ==
  /\ \A s \in states : s.of \notin clobbered => s.validation_id <= begun[s.of]
  /\ \A c \in storing : c.of \notin clobbered /\ HasNumber(c) => c.row.validation_id <= begun[c.of]

\* Two calls have different ones.
NumbersDiffer ==
  \A c, d \in storing :
    c.of \notin clobbered /\ c.of = d.of /\ HasNumber(c) /\ HasNumber(d)
      /\ c.row.validation_id = d.row.validation_id => c = d

\* The states of a call's number are those it has saved.
StatesSaved ==
  \A s \in states, c \in storing :
    s.of \notin clobbered /\ s.of = c.of /\ HasNumber(c)
      /\ s.validation_id = c.row.validation_id => s.variant \notin c.left

NumberInv ==
  /\ TypeOK
  /\ NumbersCount
  /\ OwnIds
  /\ NumbersGiven
  /\ NumbersDiffer
  /\ StatesSaved
  /\ OneStateEach

LEMMA InitNumbers == Init => NumberInv
  BY InitTypes DEF Init, NewAddr, NumberInv, NumbersCount, OwnIds, NumbersGiven, NumbersDiffer,
                   StatesSaved, OneStateEach

\* A row saved keeps what is said of numbers, if it keeps its own.
LEMMA SavedAddr ==
  ASSUME TypeOK, NEW a \in Addrs, NEW known \in AddrRow, NEW row, SaveAddr(a, known, row)
  PROVE  /\ clobbered \subseteq clobbered'
         /\ \A b \in Addrs : b # a => addr'[b] = addr[b]
         /\ addr'[a] = row
         /\ a \notin clobbered' => addr[a] = known
  BY DEF TypeOK, SaveAddr

LEMMA SaveNumberNumbers ==
  ASSUME NumberInv, NEW c \in storing, StoreSavesNumber(c), TypeOK'
  PROVE  NumberInv'
  <1> DEFINE row == Numbered(c.row)
             d == [c EXCEPT !.at = "numbered", !.row = row]
  <1>1. /\ c \in Store /\ c.of \in Addrs /\ c.row \in AddrRow /\ c.id \in Nat
        /\ c.row.validation_id \in Nat
    BY DEF NumberInv, TypeOK, Store, AddrRow
  <1>2. row \in AddrRow /\ row.validation_id = c.row.validation_id + 1
    BY <1>1, NumberedRow
  <1>3. /\ SaveAddr(c.of, c.row, row)
        /\ begun' = [begun EXCEPT ![c.of] = begun[c.of] + 1]
        /\ storing' = (storing \ {c}) \cup {d}
        /\ UNCHANGED <<states, stores>>
    BY DEF StoreSavesNumber
  <1> HIDE DEF row
  <1>4. d.id = c.id /\ d.of = c.of /\ d.row = row /\ d.left = c.left /\ d.at = "numbered"
    BY <1>1 DEF Store
  <1> HIDE DEF d
  <1>5. /\ clobbered \subseteq clobbered' /\ addr'[c.of] = row
        /\ \A b \in Addrs : b # c.of => addr'[b] = addr[b]
        /\ c.of \notin clobbered' => addr[c.of] = c.row
    BY <1>1, <1>3, SavedAddr DEF NumberInv
  <1>6. /\ begun'[c.of] = begun[c.of] + 1 /\ begun[c.of] \in Nat
        /\ \A b \in Addrs : b # c.of => begun'[b] = begun[b]
        /\ \A b \in Addrs : begun[b] \in Nat /\ begun[b] <= begun'[b]
    BY <1>1, <1>3 DEF NumberInv, TypeOK
  <1>7. c.of \notin clobbered' => c.of \notin clobbered /\ row.validation_id = begun[c.of] + 1
    BY <1>1, <1>2, <1>5 DEF NumberInv, NumbersCount
  <1>8. /\ \A s \in states : s.of \in Addrs /\ s.validation_id \in Nat
        /\ \A e \in storing : e.of \in Addrs /\ e.row.validation_id \in Nat
    BY DEF NumberInv, TypeOK, StateRow, Store, AddrRow
  <1>9. NumbersCount'
    BY <1>5, <1>6, <1>7 DEF NumberInv, NumbersCount
  <1>10. OwnIds'
    BY <1>3, <1>4 DEF NumberInv, OwnIds
  <1>11. NumbersGiven'
    <2>1. \A s \in states : s.of \notin clobbered' => s.validation_id <= begun'[s.of]
      BY <1>5, <1>6, <1>8 DEF NumberInv, NumbersGiven
    <2>2. \A e \in storing \ {c} :
            e.of \notin clobbered' /\ HasNumber(e) => e.row.validation_id <= begun'[e.of]
      BY <1>5, <1>6, <1>8 DEF NumberInv, NumbersGiven
    <2>3. d.of \notin clobbered' => d.row.validation_id <= begun'[d.of]
      BY <1>4, <1>6, <1>7
    <2> QED
      BY <1>3, <2>1, <2>2, <2>3 DEF NumbersGiven
  <1>12. NumbersDiffer'
    <2>1. \A e \in storing \ {c} :
            e.of = d.of /\ d.of \notin clobbered' /\ HasNumber(e) =>
              e.row.validation_id # d.row.validation_id
      BY <1>4, <1>6, <1>7, <1>8 DEF NumberInv, NumbersGiven
    <2>2. \A e, f \in storing \ {c} :
            e.of \notin clobbered' /\ e.of = f.of /\ HasNumber(e) /\ HasNumber(f)
              /\ e.row.validation_id = f.row.validation_id => e = f
      BY <1>5 DEF NumberInv, NumbersDiffer
    <2> QED
      BY <1>3, <2>1, <2>2, Zenon DEF NumbersDiffer
  <1>13. StatesSaved'
    <2>1. \A s \in states :
            s.of = d.of /\ s.of \notin clobbered' => s.validation_id # d.row.validation_id
      BY <1>4, <1>6, <1>7, <1>8 DEF NumberInv, NumbersGiven
    <2>2. \A s \in states, e \in storing \ {c} :
            s.of \notin clobbered' /\ s.of = e.of /\ HasNumber(e)
              /\ s.validation_id = e.row.validation_id => s.variant \notin e.left
      BY <1>5 DEF NumberInv, StatesSaved
    <2> QED
      BY <1>3, <2>1, <2>2, Zenon DEF StatesSaved
  <1>14. OneStateEach'
    BY <1>3, <1>5 DEF NumberInv, OneStateEach
  <1> QED
    BY <1>9, <1>10, <1>11, <1>12, <1>13, <1>14 DEF NumberInv

LEMMA ReadsNumbers ==
  ASSUME NumberInv, StoreReads, TypeOK'
  PROVE  NumberInv'
  <1>1. PICK a \in Addrs, on \in SUBSET Variants :
          storing' = storing \cup
            {[id |-> stores', at |-> "read", of |-> a, row |-> addr[a], enabled |-> on,
              left |-> Variants]}
    BY DEF StoreReads
  <1>2. stores' = stores + 1 /\ stores \in Nat /\ UNCHANGED <<addr, states, begun, clobbered>>
    BY DEF StoreReads, rowVars, NumberInv, TypeOK
  <1>3. \A c \in storing' : c \in storing \/ (c.id = stores' /\ ~HasNumber(c))
    BY <1>1 DEF HasNumber
  <1>4. OwnIds'
    <2>1. \A c \in storing : c.id \in Nat /\ c.id <= stores
      BY DEF NumberInv, TypeOK, Store, OwnIds
    <2> QED
      BY <1>1, <1>2, <2>1 DEF NumberInv, OwnIds
  <1>5. NumbersGiven' /\ NumbersDiffer' /\ StatesSaved'
    BY <1>2, <1>3, Zenon DEF NumberInv, NumbersGiven, NumbersDiffer, StatesSaved
  <1> QED
    BY <1>2, <1>4, <1>5 DEF NumberInv, NumbersCount, OneStateEach

LEMMA SaveStateNumbers ==
  ASSUME NumberInv, NEW c \in storing, StoreSavesState(c), TypeOK'
  PROVE  NumberInv'
  <1>1. PICK v \in c.left :
          /\ states' = states \cup
               {[store |-> c.id, of |-> c.of, validation_id |-> c.row.validation_id,
                 variant |-> v, enabled |-> v \in c.enabled]}
          /\ storing' = (storing \ {c}) \cup {[c EXCEPT !.left = c.left \ {v}]}
    BY DEF StoreSavesState
  <1> DEFINE d == [c EXCEPT !.left = c.left \ {v}]
             new == [store |-> c.id, of |-> c.of, validation_id |-> c.row.validation_id,
                     variant |-> v, enabled |-> v \in c.enabled]
  <1>2. c \in Store
    BY DEF NumberInv, TypeOK
  <1>3. /\ d.id = c.id /\ d.of = c.of /\ d.row = c.row /\ d.at = c.at
        /\ d.left = c.left \ {v}
    BY <1>2 DEF Store
  <1>4. new.of = c.of /\ new.validation_id = c.row.validation_id /\ new.variant = v
    OBVIOUS
  <1>5. states' = states \cup {new} /\ storing' = (storing \ {c}) \cup {d}
    BY <1>1
  <1>6. HasNumber(c) /\ HasNumber(d)
    BY <1>3 DEF HasNumber, StoreSavesState
  <1>7. UNCHANGED <<addr, stores, begun, clobbered>>
    BY DEF StoreSavesState
  <1> HIDE DEF d, new
  <1>8. OwnIds'
    BY <1>3, <1>5, <1>7 DEF NumberInv, OwnIds
  <1>9. NumbersGiven'
    BY <1>3, <1>4, <1>5, <1>6, <1>7 DEF NumberInv, NumbersGiven
  <1>10. NumbersDiffer'
    BY <1>3, <1>5, <1>6, <1>7, Zenon DEF NumberInv, NumbersDiffer
  <1>11. StatesSaved'
    <2>1. \A e \in storing \ {c} :
            c.of = e.of /\ c.of \notin clobbered /\ HasNumber(e) =>
              e.row.validation_id # c.row.validation_id
      BY <1>6, Zenon DEF NumberInv, NumbersDiffer
    <2>2. \A s \in states, e \in storing \ {c} :
            s.of \notin clobbered /\ s.of = e.of /\ HasNumber(e)
              /\ s.validation_id = e.row.validation_id => s.variant \notin e.left
      BY DEF NumberInv, StatesSaved
    <2>3. \A s \in states :
            s.of \notin clobbered /\ s.of = c.of
              /\ s.validation_id = c.row.validation_id => s.variant \notin c.left
      BY <1>6 DEF NumberInv, StatesSaved
    <2>4. \A e \in storing \ {c} :
            new.of \notin clobbered /\ new.of = e.of /\ HasNumber(e)
              /\ new.validation_id = e.row.validation_id => new.variant \notin e.left
      BY <1>4, <2>1
    <2>5. \A s \in states' :
            s.of \notin clobbered /\ s.of = d.of
              /\ s.validation_id = d.row.validation_id => s.variant \notin d.left
      BY <1>3, <1>4, <1>5, <2>3
    <2> QED
      BY <1>5, <1>7, <2>2, <2>4, <2>5, Zenon DEF StatesSaved
  <1>12. OneStateEach'
    <2>1. \A s \in states :
            s.of \notin clobbered /\ s.of = new.of /\ s.validation_id = new.validation_id =>
              s.variant # new.variant
      BY <1>4, <1>6 DEF NumberInv, StatesSaved
    <2> QED
      BY <1>5, <1>7, <2>1, Zenon DEF NumberInv, OneStateEach
  <1> QED
    BY <1>7, <1>8, <1>9, <1>10, <1>11, <1>12 DEF NumberInv, NumbersCount

\* A row is saved that keeps its number, and no call gets one.
LEMMA SavedKeepsNumbers ==
  ASSUME NumberInv, TypeOK', storing' \subseteq storing, UNCHANGED <<states, begun, stores>>,
         NEW a \in Addrs, NEW known \in AddrRow, NEW row, SaveAddr(a, known, row),
         row.validation_id = known.validation_id
  PROVE  NumberInv'
  <1>1. /\ clobbered \subseteq clobbered' /\ addr'[a] = row
        /\ \A b \in Addrs : b # a => addr'[b] = addr[b]
        /\ a \notin clobbered' => addr[a] = known
    BY SavedAddr DEF NumberInv
  <1>2. NumbersCount'
    BY <1>1 DEF NumberInv, NumbersCount
  <1>3. OwnIds' /\ NumbersGiven' /\ NumbersDiffer'
    BY <1>1 DEF NumberInv, OwnIds, NumbersGiven, NumbersDiffer
  <1>4. StatesSaved' /\ OneStateEach'
    BY <1>1 DEF NumberInv, StatesSaved, OneStateEach
  <1> QED
    BY <1>2, <1>3, <1>4 DEF NumberInv

\* No row of an address is saved, and calls only end or fail.
LEMMA CallsEndNumbers ==
  ASSUME NumberInv, TypeOK', UNCHANGED <<addr, states, begun, stores, clobbered>>,
         \A d \in storing' : \E c \in storing :
           d.id = c.id /\ d.of = c.of /\ d.row = c.row /\ d.left \subseteq c.left
             /\ (HasNumber(d) => HasNumber(c)),
         \A d, e \in storing' : d.id = e.id => d = e
  PROVE  NumberInv'
  <1>1. NumbersCount' /\ OneStateEach'
    BY DEF NumberInv, NumbersCount, OneStateEach
  <1>2. OwnIds'
    BY DEF NumberInv, OwnIds
  <1>3. NumbersGiven' /\ StatesSaved'
    BY DEF NumberInv, NumbersGiven, StatesSaved
  <1>4. NumbersDiffer'
    BY DEF NumberInv, NumbersDiffer
  <1> QED
    BY <1>1, <1>2, <1>3, <1>4 DEF NumberInv

LEMMA StoreEndsNumbers ==
  ASSUME NumberInv, NEW c \in storing, StoreEnds(c) \/ StoreFails(c), TypeOK'
  PROVE  NumberInv'
  <1>1. c \in Store /\ c.of \in Addrs /\ c.row \in AddrRow
    BY DEF NumberInv, TypeOK, Store
  <1>2. CASE StoreEnds(c)
    BY <1>1, <1>2, StreakRow, SavedKeepsNumbers DEF StoreEnds
  <1>3. CASE StoreFails(c)
    <2>1. UNCHANGED <<addr, states, begun, stores, clobbered>>
      BY <1>3 DEF StoreFails, rowVars
    <2>2. CASE storing' = storing \ {c}
      BY <2>1, <2>2, CallsEndNumbers DEF NumberInv, OwnIds
    <2>3. ASSUME c.at = "numbered", NEW v \in c.left,
                 storing' = (storing \ {c}) \cup {[c EXCEPT !.at = "failed", !.left = c.left \ {v}]}
          PROVE  NumberInv'
      <3> DEFINE d == [c EXCEPT !.at = "failed", !.left = c.left \ {v}]
      <3>1. d.id = c.id /\ d.of = c.of /\ d.row = c.row /\ d.left \subseteq c.left
        BY <1>1 DEF Store
      <3>2. storing' = (storing \ {c}) \cup {d} /\ HasNumber(c)
        BY <2>3 DEF HasNumber
      <3> HIDE DEF d
      <3>3. \A e, f \in storing' : e.id = f.id => e = f
        BY <3>1, <3>2 DEF NumberInv, OwnIds
      <3> QED
        BY <2>1, <3>1, <3>2, <3>3, CallsEndNumbers
    <2> QED
      BY <1>3, <2>2, <2>3 DEF StoreFails
  <1> QED
    BY <1>2, <1>3

LEMMA StepNumbers ==
  ASSUME NumberInv, [Next]_vars
  PROVE  NumberInv'
  <1>1. TypeOK /\ TypeOK'
    BY StepTypes DEF NumberInv
  <1>2. ASSUME UNCHANGED <<addr, states, begun, stores, clobbered, storing>>
        PROVE  NumberInv'
    BY <1>1, <1>2 DEF NumberInv, NumbersCount, OwnIds, NumbersGiven, NumbersDiffer, StatesSaved,
                      OneStateEach
  <1>3. CASE UNCHANGED vars
    BY <1>2, <1>3 DEF vars, rowVars, callVars
  <1>4. CASE StoreReads
    BY <1>1, <1>4, ReadsNumbers
  <1>5. ASSUME NEW c \in storing, StoreStep(c)
        PROVE  NumberInv'
    BY <1>1, <1>5, SaveNumberNumbers, SaveStateNumbers, StoreEndsNumbers DEF StoreStep
  <1>6. CASE LogFinds \/ FetchReads
    BY <1>2, <1>6 DEF LogFinds, FetchReads, rowVars
  <1>7. ASSUME NEW c \in logging, LogStep(c)
        PROVE  NumberInv'
    <2>1. CASE LogReads(c) \/ LogFails(c)
      BY <1>2, <2>1 DEF LogReads, LogFails, rowVars
    <2>2. CASE LogCommits(c)
      <3> DEFINE r == Counted(c.rotate, c.ok)
      <3>1. /\ c.of[1] \in Addrs /\ c.row \in AddrRow /\ c.ok \in BOOLEAN
            /\ c.rotate \in RotateRow
        BY <1>1 DEF TypeOK, Log, Uses
      <3>2. r \in RotateRow
        BY <3>1, CountedRow
      <3>3. IF Poor(r) THEN SaveAddr(c.of[1], c.row, Blocked(c.row, r))
            ELSE UNCHANGED <<addr, clobbered>>
        BY <2>2 DEF LogCommits
      <3>4. UNCHANGED <<states, begun, stores, storing>>
        BY <2>2 DEF LogCommits
      <3> HIDE DEF r
      <3>5. Blocked(c.row, r).validation_id = c.row.validation_id
        BY <3>1, <3>2, BlockedRow
      <3>6. CASE Poor(r)
        BY <1>1, <3>1, <3>3, <3>4, <3>5, <3>6, SavedKeepsNumbers
      <3>7. CASE ~Poor(r)
        BY <1>2, <3>3, <3>4, <3>7
      <3> QED
        BY <3>6, <3>7
    <2> QED
      BY <1>7, <2>1, <2>2 DEF LogStep
  <1>8. ASSUME NEW c \in fetching, FetchStep(c)
        PROVE  NumberInv'
    BY <1>2, <1>8 DEF FetchStep, FetchSaves, FetchFails, rowVars
  <1> QED
    BY <1>3, <1>4, <1>5, <1>6, <1>7, <1>8 DEF Next

\* As long as no stale entity of an address is saved, its validations have the numbers
\* 1, 2, ... however they overlap.
THEOREM NumbersAreValidations == Spec => []NumbersCount
  <1>1. NumberInv => NumbersCount
    BY DEF NumberInv
  <1> QED
    BY <1>1, InitNumbers, StepNumbers, PTL DEF Spec

\* And the fetch finds one state for a variant, of one validation.
THEOREM StatesAreOfOne == Spec => []OneStateEach
  <1>1. NumberInv => OneStateEach
    BY DEF NumberInv
  <1> QED
    BY <1>1, InitNumbers, StepNumbers, PTL DEF Spec

-----------------------------------------------------------------------------
(* Blocks *)

LEMMA SavedKeepsBlocks ==
  ASSUME TypeOK, NEW a \in Addrs, NEW known \in AddrRow, NEW row, SaveAddr(a, known, row),
         known.blocked => row.blocked, known.to_delete => row.to_delete
  PROVE  \A b \in Addrs \ clobbered' : /\ addr[b].blocked => addr'[b].blocked
                                       /\ addr[b].to_delete => addr'[b].to_delete
  BY SavedAddr

LEMMA StepBlocks ==
  ASSUME TypeOK, [Next]_vars
  PROVE  \A a \in Addrs \ clobbered' : /\ addr[a].blocked => addr'[a].blocked
                                       /\ addr[a].to_delete => addr'[a].to_delete
  <1> DEFINE Kept == \A a \in Addrs \ clobbered' :
                       /\ addr[a].blocked => addr'[a].blocked
                       /\ addr[a].to_delete => addr'[a].to_delete
  <1> SUFFICES Kept
    OBVIOUS
  <1>1. ASSUME addr' = addr
        PROVE  Kept
    BY <1>1
  <1>2. ASSUME NEW c \in storing, StoreStep(c)
        PROVE  Kept
    <2>1. c.of \in Addrs /\ c.row \in AddrRow
      BY DEF TypeOK, Store
    <2>2. CASE StoreSavesNumber(c)
      <3>1. SaveAddr(c.of, c.row, Numbered(c.row))
        BY <2>2 DEF StoreSavesNumber
      <3> QED
        BY <2>1, <3>1, NumberedRow, SavedKeepsBlocks
    <2>3. CASE StoreEnds(c)
      <3>1. SaveAddr(c.of, c.row, Streak(c.row, c.enabled))
        BY <2>3 DEF StoreEnds
      <3> QED
        BY <2>1, <3>1, StreakRow, SavedKeepsBlocks
    <2>4. CASE StoreSavesState(c) \/ StoreFails(c)
      BY <1>1, <2>4 DEF StoreSavesState, StoreFails, rowVars
    <2> QED
      BY <1>2, <2>2, <2>3, <2>4 DEF StoreStep
  <1>3. ASSUME NEW c \in logging, LogStep(c)
        PROVE  Kept
    <2>1. CASE LogReads(c) \/ LogFails(c)
      BY <1>1, <2>1 DEF LogReads, LogFails, rowVars
    <2>2. CASE LogCommits(c)
      <3> DEFINE r == Counted(c.rotate, c.ok)
      <3>1. /\ c.of[1] \in Addrs /\ c.row \in AddrRow /\ c.ok \in BOOLEAN
            /\ c.rotate \in RotateRow
        BY DEF TypeOK, Log, Uses
      <3>2. r \in RotateRow
        BY <3>1, CountedRow
      <3>3. IF Poor(r) THEN SaveAddr(c.of[1], c.row, Blocked(c.row, r))
            ELSE UNCHANGED <<addr, clobbered>>
        BY <2>2 DEF LogCommits
      <3> HIDE DEF r
      <3>4. CASE Poor(r)
        BY <3>1, <3>2, <3>3, <3>4, BlockedRow, SavedKeepsBlocks
      <3>5. CASE ~Poor(r)
        BY <1>1, <3>3, <3>5
      <3> QED
        BY <3>4, <3>5
    <2> QED
      BY <1>3, <2>1, <2>2 DEF LogStep
  <1>4. ASSUME NEW c \in fetching, FetchStep(c)
        PROVE  Kept
    BY <1>1, <1>4 DEF FetchStep, FetchSaves, FetchFails, rowVars
  <1>5. CASE StoreReads \/ LogFinds \/ FetchReads \/ UNCHANGED vars
    BY <1>1, <1>5 DEF StoreReads, LogFinds, FetchReads, vars, rowVars
  <1> HIDE DEF Kept
  <1> QED
    BY <1>2, <1>3, <1>4, <1>5 DEF Next

\* Only saving a stale entity undoes a block.
THEOREM BlocksAreKept == Spec => BlocksStay
  <1>1. TypeOK /\ [Next]_vars =>
          [\A a \in Addrs \ clobbered' :
             /\ addr[a].blocked => addr'[a].blocked
             /\ addr[a].to_delete => addr'[a].to_delete]_vars
    BY StepBlocks
  <1> QED
    BY <1>1, InitTypes, StepTypes, PTL DEF Spec, BlocksStay

-----------------------------------------------------------------------------
(* Rows and their states *)

\* What the rows made of a row say of successes.
LEMMA CountedSuccess ==
  ASSUME NEW row \in AddrRow, NEW on, NEW r
  PROVE  /\ Streak(row, on).count_success > 0 <=> on # {}
         /\ Blocked(row, r).count_success = row.count_success
         /\ Blocked(row, r).exists = row.exists
  <1>1. row.count_success \in Nat
    BY DEF AddrRow
  <1>2. CASE on # {}
    <2>1. Streak(row, on).count_success = row.count_success + 1
      BY <1>2 DEF Streak, AddrRow
    <2> QED
      BY <1>1, <1>2, <2>1 DEF Blocked, AddrRow
  <1>3. CASE on = {}
    <2>1. Streak(row, on).count_success = 0
      BY <1>3 DEF Streak, AddrRow
    <2> QED
      BY <1>1, <1>3, <2>1 DEF Blocked, AddrRow
  <1> QED
    BY <1>2, <1>3

\* The enabled states of an address and a number.
EnabledOf(a, n) == {s \in states : s.of = a /\ s.enabled /\ s.validation_id = n}

Current(c, a) == c.of = a /\ c.row.validation_id = addr[a].validation_id

Unread == \A c \in storing : c.at = "read" => c.left = Variants

\* A call under way has saved what it has found but for what is left.
SavedSoFar(c) ==
  c.at = "numbered" /\ c.of \notin clobbered =>
    /\ \A v \in c.enabled \ c.left : \E s \in EnabledOf(c.of, c.row.validation_id) : s.variant = v
    /\ \A s \in EnabledOf(c.of, c.row.validation_id) : s.variant \in c.enabled

\* Either the row has the number of a call under way, or it tells of its states, and
\* nobody adds to those.
RowTells(a) ==
  a \notin clobbered \cup torn /\ addr[a].exists =>
    \/ \E c \in storing : Current(c, a) /\ c.at = "numbered"
    \/ /\ addr[a].count_success > 0 <=> EnabledOf(a, addr[a].validation_id) # {}
       /\ \A c \in storing : HasNumber(c) => ~Current(c, a)

MatchInv ==
  /\ Unread
  /\ \A c \in storing : SavedSoFar(c)
  /\ \A a \in Addrs : RowTells(a)

\* A number is given: it is fresh.
LEMMA SaveNumberMatches ==
  ASSUME NumberInv, MatchInv, NEW c \in storing, StoreSavesNumber(c)
  PROVE  MatchInv'
  <1> DEFINE row == Numbered(c.row)
             d == [c EXCEPT !.at = "numbered", !.row = row]
  <1>1. /\ c \in Store /\ c.of \in Addrs /\ c.row \in AddrRow /\ c.at = "read"
        /\ c.row.validation_id \in Nat /\ c.enabled \subseteq Variants
    BY DEF NumberInv, TypeOK, Store, AddrRow, StoreSavesNumber
  <1>2. row.validation_id = c.row.validation_id + 1
    BY <1>1, NumberedRow
  <1>3. /\ SaveAddr(c.of, c.row, row)
        /\ storing' = (storing \ {c}) \cup {d}
        /\ UNCHANGED <<states, torn>>
    BY DEF StoreSavesNumber
  <1> HIDE DEF row
  <1>4. /\ d.of = c.of /\ d.row = row /\ d.left = c.left /\ d.at = "numbered"
        /\ d.enabled = c.enabled
    BY <1>1 DEF Store
  <1> HIDE DEF d
  <1>5. /\ clobbered \subseteq clobbered' /\ addr'[c.of] = row
        /\ \A b \in Addrs : b # c.of => addr'[b] = addr[b]
        /\ c.of \notin clobbered' => addr[c.of] = c.row
    BY <1>1, <1>3, SavedAddr DEF NumberInv
  <1>6. \A a, n : EnabledOf(a, n)' = EnabledOf(a, n)
    BY <1>3 DEF EnabledOf
  <1>7. c.of \notin clobbered' => EnabledOf(c.of, row.validation_id) = {}
    <2>1. \A s \in states : s.validation_id \in Nat
      BY DEF NumberInv, TypeOK, StateRow
    <2>2. c.of \notin clobbered' => row.validation_id = begun[c.of] + 1 /\ begun[c.of] \in Nat
      BY <1>1, <1>2, <1>5 DEF NumberInv, NumbersCount, TypeOK
    <2> QED
      BY <1>5, <2>1, <2>2 DEF NumberInv, NumbersGiven, EnabledOf
  <1>8. Unread'
    BY <1>3, <1>4 DEF MatchInv, Unread
  <1>9. ASSUME NEW e \in storing'
        PROVE  SavedSoFar(e)'
    <2>1. CASE e \in storing \ {c}
      BY <1>5, <1>6, <2>1 DEF MatchInv, SavedSoFar
    <2>2. CASE e = d
      <3>1. c.enabled \ c.left = {}
        BY <1>1 DEF MatchInv, Unread
      <3> QED
        BY <1>4, <1>6, <1>7, <2>2, <3>1 DEF SavedSoFar
    <2> QED
      BY <1>3, <2>1, <2>2
  <1>10. ASSUME NEW a \in Addrs
         PROVE  RowTells(a)'
    <2>1. CASE a = c.of
      <3>1. Current(d, a)' /\ d \in storing'
        BY <1>3, <1>4, <1>5, <2>1 DEF Current
      <3> QED
        BY <1>4, <3>1 DEF RowTells
    <2>2. CASE a # c.of
      <3>1. addr'[a] = addr[a] /\ (a \notin clobbered' => a \notin clobbered) /\ torn' = torn
        BY <1>3, <1>5, <2>2
      <3>2. \A e \in storing \ {c} : Current(e, a)' = Current(e, a)
        BY <3>1 DEF Current
      <3>3. ~Current(c, a) /\ ~Current(d, a)'
        BY <1>4, <2>2 DEF Current
      <3>4. EnabledOf(a, addr[a].validation_id)' = EnabledOf(a, addr[a].validation_id)
        BY <3>1 DEF EnabledOf, StoreSavesNumber
      <3> QED
        BY <1>3, <3>1, <3>2, <3>3, <3>4 DEF MatchInv, RowTells, HasNumber
    <2> QED
      BY <2>1, <2>2
  <1> QED
    BY <1>8, <1>9, <1>10 DEF MatchInv

\* A state is saved: no other call has its number.
LEMMA SaveStateMatches ==
  ASSUME NumberInv, MatchInv, NEW c \in storing, StoreSavesState(c)
  PROVE  MatchInv'
  <1>1. PICK v \in c.left :
          /\ states' = states \cup
               {[store |-> c.id, of |-> c.of, validation_id |-> c.row.validation_id,
                 variant |-> v, enabled |-> v \in c.enabled]}
          /\ storing' = (storing \ {c}) \cup {[c EXCEPT !.left = c.left \ {v}]}
    BY DEF StoreSavesState
  <1> DEFINE d == [c EXCEPT !.left = c.left \ {v}]
             new == [store |-> c.id, of |-> c.of, validation_id |-> c.row.validation_id,
                     variant |-> v, enabled |-> v \in c.enabled]
  <1>2. c \in Store /\ HasNumber(c) /\ c.at # "read"
    BY DEF NumberInv, TypeOK, StoreSavesState, HasNumber
  <1>3. /\ d.of = c.of /\ d.row = c.row /\ d.at = c.at /\ d.enabled = c.enabled
        /\ d.left = c.left \ {v}
    BY <1>2 DEF Store
  <1>4. /\ new.of = c.of /\ new.validation_id = c.row.validation_id /\ new.variant = v
        /\ new.enabled = (v \in c.enabled)
    OBVIOUS
  <1>5. states' = states \cup {new} /\ storing' = (storing \ {c}) \cup {d}
    BY <1>1
  <1>6. UNCHANGED <<addr, clobbered, torn>>
    BY DEF StoreSavesState
  <1> HIDE DEF d, new
  <1>7. \A a, n : /\ EnabledOf(a, n) \subseteq EnabledOf(a, n)'
                  /\ EnabledOf(a, n)' \subseteq EnabledOf(a, n) \cup {new}
                  /\ a # c.of \/ n # c.row.validation_id => EnabledOf(a, n)' = EnabledOf(a, n)
    BY <1>4, <1>5 DEF EnabledOf
  <1>8. Unread'
    BY <1>2, <1>3, <1>5 DEF MatchInv, Unread
  <1>9. ASSUME NEW e \in storing'
        PROVE  SavedSoFar(e)'
    <2>1. CASE e \in storing \ {c}
      <3>1. e.at = "numbered" /\ e.of \notin clobbered =>
              e.of # c.of \/ e.row.validation_id # c.row.validation_id
        BY <1>2, <2>1 DEF NumberInv, NumbersDiffer, HasNumber
      <3> QED
        BY <1>6, <1>7, <2>1, <3>1 DEF MatchInv, SavedSoFar
    <2>2. CASE e = d
      <3> SUFFICES ASSUME c.at = "numbered", c.of \notin clobbered
                   PROVE  SavedSoFar(d)'
        BY <1>3, <1>6, <2>2 DEF SavedSoFar
      <3>1. /\ \A w \in c.enabled \ c.left :
                 \E s \in EnabledOf(c.of, c.row.validation_id) : s.variant = w
            /\ \A s \in EnabledOf(c.of, c.row.validation_id) : s.variant \in c.enabled
        BY DEF MatchInv, SavedSoFar
      <3>2. v \in c.enabled => new \in EnabledOf(c.of, c.row.validation_id)'
        BY <1>4, <1>5 DEF EnabledOf
      <3>3. \A s \in EnabledOf(c.of, c.row.validation_id)' : s.variant \in c.enabled
        <4>1. new \in EnabledOf(c.of, c.row.validation_id)' => v \in c.enabled
          BY <1>4 DEF EnabledOf
        <4> QED
          BY <1>4, <1>7, <3>1, <4>1
      <3>4. ASSUME NEW w \in c.enabled \ d.left
            PROVE  \E s \in EnabledOf(c.of, c.row.validation_id)' : s.variant = w
        <4>1. CASE w = v
          BY <1>4, <3>2, <3>4, <4>1
        <4>2. CASE w # v
          BY <1>3, <1>7, <3>1, <3>4, <4>2
        <4> QED
          BY <4>1, <4>2
      <3>5. EnabledOf(d.of, d.row.validation_id)' = EnabledOf(c.of, c.row.validation_id)'
        BY <1>3
      <3> QED
        BY <1>3, <3>3, <3>4, <3>5 DEF SavedSoFar
    <2> QED
      BY <1>5, <2>1, <2>2
  <1>10. ASSUME NEW a \in Addrs
         PROVE  RowTells(a)'
    <2> SUFFICES ASSUME a \notin clobbered \cup torn, addr[a].exists
                 PROVE  \/ \E e \in storing' : Current(e, a)' /\ e.at = "numbered"
                        \/ /\ addr[a].count_success > 0 <=> EnabledOf(a, addr[a].validation_id)' # {}
                           /\ \A e \in storing' : HasNumber(e) => ~Current(e, a)'
      BY <1>6 DEF RowTells, EnabledOf
    <2>0. /\ \A e \in storing \ {c} : Current(e, a)' = Current(e, a)
          /\ Current(d, a)' = Current(c, a)
      BY <1>3, <1>6 DEF Current
    <2>1. CASE \E e \in storing : Current(e, a) /\ e.at = "numbered"
      BY <1>3, <1>5, <2>0, <2>1
    <2>2. CASE /\ addr[a].count_success > 0 <=> EnabledOf(a, addr[a].validation_id) # {}
               /\ \A e \in storing : HasNumber(e) => ~Current(e, a)
      <3>1. a # c.of \/ addr[a].validation_id # c.row.validation_id
        BY <1>2, <2>2 DEF Current
      <3>2. EnabledOf(a, addr[a].validation_id)' = EnabledOf(a, addr[a].validation_id)
        BY <1>6, <1>7, <3>1 DEF EnabledOf
      <3>3. \A e \in storing' : HasNumber(e) => ~Current(e, a)'
        BY <1>2, <1>5, <2>0, <2>2
      <3> QED
        BY <1>6, <2>2, <3>2, <3>3
    <2> QED
      BY <2>1, <2>2 DEF MatchInv, RowTells
  <1> QED
    BY <1>8, <1>9, <1>10 DEF MatchInv

\* Saved states stay saved.
LEMMA SavedSoFarKept ==
  ASSUME states' = states, clobbered \subseteq clobbered', NEW c, SavedSoFar(c)
  PROVE  SavedSoFar(c)'
  <1>1. \A a, n : EnabledOf(a, n)' = EnabledOf(a, n)
    BY DEF EnabledOf
  <1> QED
    BY <1>1 DEF SavedSoFar

\* A row goes on to tell of its states when neither it nor the calls with its number
\* change.
LEMMA RowTellsKept ==
  ASSUME states' = states, NEW a, RowTells(a),
         a \notin clobbered' \cup torn' =>
           /\ a \notin clobbered \cup torn
           /\ addr'[a].validation_id = addr[a].validation_id
           /\ addr'[a].count_success = addr[a].count_success
           /\ addr'[a].exists = addr[a].exists
           /\ \A e \in storing : e.of = a /\ e.at = "numbered" => e \in storing',
         \A e \in storing' : e.of = a /\ HasNumber(e) => e \in storing
  PROVE  RowTells(a)'
  <1> SUFFICES ASSUME a \notin clobbered' \cup torn', addr'[a].exists
               PROVE  \/ \E e \in storing' : Current(e, a)' /\ e.at = "numbered"
                      \/ /\ addr'[a].count_success > 0 <=> EnabledOf(a, addr[a].validation_id)' # {}
                         /\ \A e \in storing' : HasNumber(e) => ~Current(e, a)'
    BY DEF RowTells, EnabledOf
  <1>1. EnabledOf(a, addr[a].validation_id)' = EnabledOf(a, addr[a].validation_id)
    BY DEF EnabledOf
  <1>2. \A e : Current(e, a)' <=> Current(e, a)
    BY DEF Current
  <1>3. CASE \E e \in storing : Current(e, a) /\ e.at = "numbered"
    BY <1>2, <1>3 DEF Current
  <1>4. CASE /\ addr[a].count_success > 0 <=> EnabledOf(a, addr[a].validation_id) # {}
             /\ \A e \in storing : HasNumber(e) => ~Current(e, a)
    <2>1. addr'[a].count_success > 0 <=> EnabledOf(a, addr[a].validation_id)' # {}
      BY <1>1, <1>4
    <2>2. \A e \in storing' : HasNumber(e) => ~Current(e, a)'
      BY <1>2, <1>4 DEF Current
    <2> QED
      BY <2>1, <2>2
  <1> QED
    BY <1>3, <1>4 DEF RowTells

\* The validation is done: its row counts what its states are.
LEMMA StoreEndsMatches ==
  ASSUME NumberInv, MatchInv, NEW c \in storing, StoreEnds(c)
  PROVE  MatchInv'
  <1> DEFINE row == Streak(c.row, c.enabled)
  <1>1. /\ c.of \in Addrs /\ c.row \in AddrRow /\ c.at = "numbered" /\ c.left = {}
        /\ HasNumber(c)
    BY DEF NumberInv, TypeOK, Store, StoreEnds, HasNumber
  <1>2. /\ row.validation_id = c.row.validation_id
        /\ row.count_success > 0 <=> c.enabled # {}
    BY <1>1, StreakRow, CountedSuccess
  <1>3. /\ SaveAddr(c.of, c.row, row)
        /\ storing' = storing \ {c} /\ torn' = torn \ {c.of} /\ states' = states
    BY DEF StoreEnds
  <1> HIDE DEF row
  <1>4. /\ clobbered \subseteq clobbered' /\ addr'[c.of] = row
        /\ \A b \in Addrs : b # c.of => addr'[b] = addr[b]
    BY <1>1, <1>3, SavedAddr DEF NumberInv
  <1>5. Unread'
    BY <1>3 DEF MatchInv, Unread
  <1>6. \A e \in storing' : SavedSoFar(e)'
    BY <1>3, <1>4, SavedSoFarKept DEF MatchInv
  <1>7. ASSUME NEW a \in Addrs
        PROVE  RowTells(a)'
    <2>1. CASE a # c.of
      BY <1>3, <1>4, <2>1, RowTellsKept DEF MatchInv
    <2>2. CASE a = c.of
      <3> SUFFICES ASSUME c.of \notin clobbered
                   PROVE  /\ addr'[a].count_success > 0 <=> EnabledOf(a, c.row.validation_id)' # {}
                          /\ \A e \in storing' : HasNumber(e) => ~Current(e, a)'
        BY <1>2, <1>4, <2>2 DEF RowTells, EnabledOf
      <3>1. c.enabled # {} <=> EnabledOf(a, c.row.validation_id) # {}
        BY <1>1, <2>2 DEF MatchInv, SavedSoFar
      <3>2. EnabledOf(a, c.row.validation_id)' = EnabledOf(a, c.row.validation_id)
        BY <1>3 DEF EnabledOf
      <3>3. addr'[a].count_success > 0 <=> EnabledOf(a, c.row.validation_id)' # {}
        BY <1>2, <1>4, <2>2, <3>1, <3>2
      <3>4. \A e \in storing' : HasNumber(e) => ~Current(e, a)'
        BY <1>1, <1>2, <1>3, <1>4, <2>2 DEF NumberInv, NumbersDiffer, Current
      <3> QED
        BY <3>3, <3>4
    <2> QED
      BY <2>1, <2>2
  <1> QED
    BY <1>5, <1>6, <1>7 DEF MatchInv

\* It fails: what it leaves is torn.
LEMMA StoreFailsMatches ==
  ASSUME NumberInv, MatchInv, NEW c \in storing, StoreFails(c)
  PROVE  MatchInv'
  <1>1. c \in Store
    BY DEF NumberInv, TypeOK
  <1>2. /\ states' = states /\ addr' = addr /\ clobbered' = clobbered
        /\ torn' = IF c.at = "numbered" THEN torn \cup {c.of} ELSE torn
    BY DEF StoreFails, rowVars
  <1>3. CASE storing' = storing \ {c}
    <2>1. Unread' /\ \A e \in storing' : SavedSoFar(e)'
      BY <1>2, <1>3, SavedSoFarKept DEF MatchInv, Unread
    <2>2. \A a \in Addrs : RowTells(a)'
      BY <1>2, <1>3, RowTellsKept DEF MatchInv
    <2> QED
      BY <2>1, <2>2 DEF MatchInv
  <1>4. ASSUME c.at = "numbered", NEW v \in c.left,
               storing' = (storing \ {c}) \cup {[c EXCEPT !.at = "failed", !.left = c.left \ {v}]}
        PROVE  MatchInv'
    <2> DEFINE d == [c EXCEPT !.at = "failed", !.left = c.left \ {v}]
    <2>1. d.of = c.of /\ d.at = "failed"
      BY <1>1 DEF Store
    <2>2. storing' = (storing \ {c}) \cup {d}
      BY <1>4
    <2> HIDE DEF d
    <2>3. Unread'
      BY <2>1, <2>2 DEF MatchInv, Unread
    <2>4. ASSUME NEW e \in storing'
          PROVE  SavedSoFar(e)'
      <3>1. CASE e = d
        BY <2>1, <3>1 DEF SavedSoFar
      <3>2. CASE e # d
        BY <1>2, <2>2, <3>2, SavedSoFarKept DEF MatchInv
      <3> QED
        BY <3>1, <3>2
    <2>5. ASSUME NEW a \in Addrs
          PROVE  RowTells(a)'
      <3>1. CASE a = c.of
        BY <1>2, <1>4, <3>1 DEF RowTells
      <3>2. CASE a # c.of
        BY <1>2, <2>1, <2>2, <3>2, RowTellsKept DEF MatchInv
      <3> QED
        BY <3>1, <3>2
    <2> QED
      BY <2>3, <2>4, <2>5 DEF MatchInv
  <1> QED
    BY <1>3, <1>4 DEF StoreFails

\* It begins.
LEMMA StoreReadsMatches ==
  ASSUME MatchInv, StoreReads
  PROVE  MatchInv'
  <1>1. PICK d : d.at = "read" /\ d.left = Variants /\ storing' = storing \cup {d}
    BY DEF StoreReads
  <1>2. UNCHANGED <<addr, states, clobbered, torn>>
    BY DEF StoreReads, rowVars
  <1>3. Unread'
    BY <1>1 DEF MatchInv, Unread
  <1>4. SavedSoFar(d)'
    BY <1>1 DEF SavedSoFar
  <1>5. \A e \in storing' : SavedSoFar(e)'
    BY <1>1, <1>2, <1>4, SavedSoFarKept DEF MatchInv
  <1>6. \A b \in Addrs : RowTells(b)'
    BY <1>1, <1>2, RowTellsKept DEF MatchInv, HasNumber
  <1> QED
    BY <1>3, <1>5, <1>6 DEF MatchInv

\* A block changes nothing of this.
LEMMA LogCommitsMatches ==
  ASSUME NumberInv, MatchInv, NEW c \in logging, LogCommits(c)
  PROVE  MatchInv'
  <1> DEFINE r == Counted(c.rotate, c.ok)
             row == Blocked(c.row, r)
             a == c.of[1]
  <1>1. a \in Addrs /\ c.row \in AddrRow /\ r \in RotateRow
    BY CountedRow DEF NumberInv, TypeOK, Log, Uses
  <1>2. UNCHANGED <<states, storing, torn>>
    BY DEF LogCommits
  <1>3. SaveAddr(a, c.row, row) \/ UNCHANGED <<addr, clobbered>>
    BY DEF LogCommits
  <1> HIDE DEF r
  <1>4. /\ row.validation_id = c.row.validation_id
        /\ row.count_success = c.row.count_success
        /\ row.exists = c.row.exists
    BY <1>1, BlockedRow, CountedSuccess
  <1> HIDE DEF row, a
  <1>5. /\ clobbered \subseteq clobbered'
        /\ \A b \in Addrs \ clobbered' : /\ addr'[b].validation_id = addr[b].validation_id
                                         /\ addr'[b].count_success = addr[b].count_success
                                         /\ addr'[b].exists = addr[b].exists
    <2>1. CASE SaveAddr(a, c.row, row)
      <3>1. /\ clobbered \subseteq clobbered' /\ addr'[a] = row
            /\ \A b \in Addrs : b # a => addr'[b] = addr[b]
            /\ a \notin clobbered' => addr[a] = c.row
        BY <1>1, <2>1, SavedAddr DEF NumberInv
      <3> QED
        BY <1>4, <3>1
    <2>2. CASE UNCHANGED <<addr, clobbered>>
      BY <2>2
    <2> QED
      BY <1>3, <2>1, <2>2
  <1>6. Unread' /\ \A e \in storing' : SavedSoFar(e)'
    BY <1>2, <1>5, SavedSoFarKept DEF MatchInv, Unread
  <1>7. \A b \in Addrs : RowTells(b)'
    BY <1>2, <1>5, RowTellsKept DEF MatchInv
  <1> QED
    BY <1>6, <1>7 DEF MatchInv

LEMMA StepMatches ==
  ASSUME NumberInv, MatchInv, [Next]_vars
  PROVE  MatchInv'
  <1>1. ASSUME UNCHANGED <<addr, states, clobbered, torn, storing>>
        PROVE  MatchInv'
    <2>1. Unread' /\ \A e \in storing' : SavedSoFar(e)'
      BY <1>1, SavedSoFarKept DEF MatchInv, Unread
    <2>2. \A b \in Addrs : RowTells(b)'
      BY <1>1, RowTellsKept DEF MatchInv
    <2> QED
      BY <2>1, <2>2 DEF MatchInv
  <1>2. CASE UNCHANGED vars
    BY <1>1, <1>2 DEF vars, rowVars, callVars
  <1>3. CASE StoreReads
    BY <1>3, StoreReadsMatches
  <1>4. ASSUME NEW c \in storing, StoreStep(c)
        PROVE  MatchInv'
    BY <1>4, SaveNumberMatches, SaveStateMatches, StoreEndsMatches, StoreFailsMatches
       DEF StoreStep
  <1>5. CASE LogFinds \/ FetchReads
    BY <1>1, <1>5 DEF LogFinds, FetchReads, rowVars
  <1>6. ASSUME NEW c \in logging, LogStep(c)
        PROVE  MatchInv'
    BY <1>1, <1>6, LogCommitsMatches DEF LogStep, LogReads, LogFails, rowVars
  <1>7. ASSUME NEW c \in fetching, FetchStep(c)
        PROVE  MatchInv'
    BY <1>1, <1>7 DEF FetchStep, FetchSaves, FetchFails, rowVars
  <1> QED
    BY <1>2, <1>3, <1>4, <1>5, <1>6, <1>7 DEF Next

\* When no validation of an address is on its way and the last one did not fail half
\* way, the row of IpAddr counts successes just when the fetch finds an enabled state
\* of its number.
THEOREM RowsTellOfStates == Spec => []RowMatchesStates
  <1>1. Init => NumberInv /\ MatchInv
    BY InitNumbers DEF Init, NewAddr, MatchInv, Unread, RowTells
  <1>2. MatchInv => RowMatchesStates
    BY DEF MatchInv, RowTells, RowMatchesStates, UnderWay, Current, EnabledOf
  <1>3. NumberInv /\ MatchInv /\ [Next]_vars => (NumberInv /\ MatchInv)'
    BY StepNumbers, StepMatches
  <1> QED
    BY <1>1, <1>2, <1>3, PTL DEF Spec

-----------------------------------------------------------------------------
(* Calls that do not overlap *)

\* What a call holds is what the row is, or would be refused.
StoresFresh == \A c \in storing : c.at # "failed" => c.row = addr[c.of]
LogsFresh == \A c \in logging : c.row = addr[c.of[1]]
CountsFresh == \A c \in logging : c.at = "counting" => c.rotate = rotate[c.of]
FetchesFresh ==
  \A c \in fetching : \A u \in DOMAIN c.rows :
    c.rows[u] = rotate[u] \/ Refused(c.rows[u], rotate[u])

FreshInv == NothingLost /\ StoresFresh /\ LogsFresh /\ CountsFresh /\ FetchesFresh

LEMMA StoreFresh ==
  ASSUME TypeOK, FreshInv, Serial, NEW c \in storing, StoreStep(c)
  PROVE  FreshInv'
  <1>1. c \in Store /\ c.of \in Addrs
    BY DEF TypeOK, Store
  <1>2. UNCHANGED <<rotate, logging, fetching, logged>>
    BY DEF StoreStep, StoreSavesNumber, StoreSavesState, StoreEnds, StoreFails, rowVars
  <1>3. ASSUME c.at # "failed", NEW row, SaveAddr(c.of, c.row, row)
        PROVE  /\ clobbered' = {} /\ addr'[c.of] = row
               /\ \A a \in Addrs : a # c.of => addr'[a] = addr[a]
               /\ \A d \in storing \ {c} : d.at # "failed" => d.row = addr'[d.of]
               /\ \A d \in logging : d.row = addr'[d.of[1]]
    <2>1. addr[c.of] = c.row /\ clobbered = {}
      BY <1>3 DEF FreshInv, StoresFresh, LogsFresh, CountsFresh, FetchesFresh,
           NothingLost
    <2>2. /\ clobbered' = {} /\ addr'[c.of] = row
          /\ \A a \in Addrs : a # c.of => addr'[a] = addr[a]
      BY <1>1, <1>3, <2>1 DEF SaveAddr, TypeOK
    <2>3. ASSUME NEW d \in storing \ {c}, d.at # "failed"
          PROVE  d.row = addr'[d.of]
      <3>1. d.of \in Addrs /\ d.of # c.of
        BY <1>3, <2>3 DEF Serial, TypeOK, Store
      <3> QED
        BY <2>2, <2>3, <3>1 DEF FreshInv, StoresFresh, LogsFresh, CountsFresh, FetchesFresh
    <2>4. ASSUME NEW d \in logging
          PROVE  d.row = addr'[d.of[1]]
      <3>1. d.of[1] \in Addrs /\ d.of[1] # c.of
        BY <1>3 DEF Serial, TypeOK, Log, Uses
      <3>2. d.row = addr[d.of[1]]
        BY Zenon DEF FreshInv, LogsFresh
      <3> QED
        BY <2>2, <3>1, <3>2
    <2> QED
      BY <2>2, <2>3, <2>4
  <1>4. CASE StoreSavesNumber(c)
    <2> DEFINE row == Numbered(c.row)
               d == [c EXCEPT !.at = "numbered", !.row = row]
    <2>1. SaveAddr(c.of, c.row, row) /\ storing' = (storing \ {c}) \cup {d} /\ c.at = "read"
      BY <1>4 DEF StoreSavesNumber
    <2> HIDE DEF row
    <2>2. d.of = c.of /\ d.row = row
      BY <1>1 DEF Store
    <2> HIDE DEF d
    <2> QED
      <3>1. \A e \in storing' : e \in storing \ {c} \/ e = d
        BY <2>1
      <3>2. StoresFresh'
        BY <1>3, <2>1, <2>2, <3>1, Zenon DEF StoresFresh
      <3>3. LogsFresh'
        BY <1>2, <1>3, <2>1 DEF LogsFresh
      <3> QED
        BY <1>2, <1>3, <2>1, <3>2, <3>3 DEF FreshInv, CountsFresh, FetchesFresh, NothingLost
  <1>5. CASE StoreEnds(c)
    <2>1. /\ SaveAddr(c.of, c.row, Streak(c.row, c.enabled)) /\ storing' = storing \ {c}
          /\ c.at # "failed"
      BY <1>5 DEF StoreEnds
    <2>2. StoresFresh'
      BY <1>3, <2>1 DEF StoresFresh
    <2>3. LogsFresh'
      BY <1>2, <1>3, <2>1 DEF LogsFresh
    <2> QED
      BY <1>2, <1>3, <2>1, <2>2, <2>3 DEF FreshInv, CountsFresh, FetchesFresh, NothingLost
  <1>6. CASE StoreSavesState(c) \/ StoreFails(c)
    <2>1. UNCHANGED <<addr, clobbered>>
      BY <1>6 DEF StoreSavesState, StoreFails, rowVars
    <2>2. \A d \in storing' :
            d \in storing \/ d.at = "failed" \/ (d.at = c.at /\ d.of = c.of /\ d.row = c.row)
      <3>1. CASE StoreSavesState(c)
        <4>1. PICK v \in c.left : storing' = (storing \ {c}) \cup {[c EXCEPT !.left = c.left \ {v}]}
          BY <3>1 DEF StoreSavesState
        <4> QED
          BY <1>1, <4>1 DEF Store
      <3>2. CASE storing' = storing \ {c}
        BY <3>2
      <3>3. ASSUME NEW v, storing' = (storing \ {c}) \cup
                                       {[c EXCEPT !.at = "failed", !.left = c.left \ {v}]}
            PROVE  \A d \in storing' : d \in storing \/ d.at = "failed"
        BY <1>1, <3>3 DEF Store
      <3> QED
        BY <1>6, <3>1, <3>2, <3>3 DEF StoreFails
    <2> QED
      BY <1>2, <2>1, <2>2 DEF FreshInv, StoresFresh, LogsFresh, CountsFresh, FetchesFresh,
           NothingLost
  <1> QED
    BY <1>4, <1>5, <1>6 DEF StoreStep

LEMMA LogFresh ==
  ASSUME TypeOK, FreshInv, Serial, NEW c \in logging, LogStep(c)
  PROVE  FreshInv'
  <1>1. c \in Log /\ c.of \in Uses /\ c.of[1] \in Addrs /\ c.row \in AddrRow
        /\ c.rotate \in RotateRow /\ c.ok \in BOOLEAN
    BY DEF TypeOK, Log, Uses
  <1>2. UNCHANGED <<storing, fetching>>
    BY DEF LogStep, LogReads, LogCommits, LogFails
  <1>3. CASE LogReads(c)
    <2> DEFINE d == [c EXCEPT !.at = "counting", !.rotate = rotate[c.of]]
    <2>1. logging' = (logging \ {c}) \cup {d} /\ UNCHANGED <<addr, rotate, clobbered, logged>>
      BY <1>3 DEF LogReads, rowVars
    <2>2. d.of = c.of /\ d.row = c.row /\ d.rotate = rotate[c.of]
      BY <1>1 DEF Log
    <2> HIDE DEF d
    <2> QED
      BY <1>2, <2>1, <2>2 DEF FreshInv, StoresFresh, LogsFresh, CountsFresh, FetchesFresh,
           NothingLost
  <1>4. CASE LogCommits(c)
    <2> DEFINE r == Counted(c.rotate, c.ok)
    <2>1. /\ rotate' = [rotate EXCEPT ![c.of] = r]
          /\ logged' = [logged EXCEPT ![c.of] = logged[c.of] + 1]
          /\ logging' = logging \ {c}
          /\ c.at = "counting"
          /\ \/ SaveAddr(c.of[1], c.row, Blocked(c.row, r))
             \/ UNCHANGED <<addr, clobbered>>
      BY <1>4 DEF LogCommits
    <2>2. c.rotate = rotate[c.of] /\ c.row = addr[c.of[1]] /\ clobbered = {}
      BY <2>1, Zenon DEF FreshInv, LogsFresh, CountsFresh, NothingLost
    <2>3. r.inc = rotate[c.of].inc + 1
      BY <2>2 DEF Counted
    <2> HIDE DEF r
    <2>4. clobbered' = {} /\ \A a \in Addrs : a # c.of[1] => addr'[a] = addr[a]
      BY <1>1, <2>1, <2>2 DEF SaveAddr, TypeOK
    <2>5. \A u \in Uses : u # c.of => rotate'[u] = rotate[u] /\ logged'[u] = logged[u]
      BY <2>1 DEF TypeOK
    <2>6. NothingLost'
      <3>1. rotate'[c.of].inc = logged'[c.of]
        BY <1>1, <2>1, <2>3 DEF FreshInv, NothingLost, TypeOK
      <3>2. \A u \in Uses : rotate'[u].inc = logged'[u]
        BY <2>5, <3>1 DEF FreshInv, NothingLost
      <3> QED
        BY <2>4, <3>2 DEF NothingLost
    <2>7. ASSUME NEW d \in storing', d.at # "failed"
          PROVE  d.row = addr'[d.of]
      <3>1. d \in storing /\ d.of \in Addrs /\ d.of # c.of[1]
        BY <1>2, <2>7 DEF Serial, TypeOK, Store
      <3> QED
        BY <2>4, <2>7, <3>1 DEF FreshInv, StoresFresh, LogsFresh, CountsFresh, FetchesFresh
    <2>8. ASSUME NEW d \in logging'
          PROVE  d.row = addr'[d.of[1]] /\ (d.at = "counting" => d.rotate = rotate'[d.of])
      <3>1. d \in logging /\ d # c
        BY <2>1
      <3>2. d.of \in Uses /\ d.of[1] \in Addrs /\ d.of[1] # c.of[1]
        BY <3>1 DEF Serial, TypeOK, Log, Uses
      <3>3. d.row = addr[d.of[1]] /\ (d.at = "counting" => d.rotate = rotate[d.of])
        BY <3>1, Zenon DEF FreshInv, LogsFresh, CountsFresh
      <3>4. d.of # c.of
        BY <3>2
      <3> QED
        BY <2>4, <2>5, <3>2, <3>3, <3>4
    <2>9. ASSUME NEW d \in fetching', NEW u \in DOMAIN d.rows
          PROVE  d.rows[u] = rotate'[u] \/ Refused(d.rows[u], rotate'[u])
      <3>1. d \in fetching /\ u \in Uses /\ u # c.of
        BY <1>2 DEF Serial, TypeOK
      <3> QED
        BY <2>5, <3>1 DEF FreshInv, StoresFresh, LogsFresh, CountsFresh, FetchesFresh
    <2> QED
      BY <2>6, <2>7, <2>8, <2>9 DEF FreshInv, StoresFresh, LogsFresh, CountsFresh, FetchesFresh
  <1>5. CASE LogFails(c)
    BY <1>5 DEF LogFails, rowVars, FreshInv, StoresFresh, LogsFresh, CountsFresh,
                FetchesFresh, NothingLost
  <1> QED
    BY <1>3, <1>4, <1>5 DEF LogStep

LEMMA FetchFresh ==
  ASSUME TypeOK, FreshInv, Serial, NEW c \in fetching, FetchStep(c)
  PROVE  FreshInv'
  <1>1. UNCHANGED <<addr, storing, logging, clobbered, logged>>
    BY DEF FetchStep, FetchSaves, FetchFails, rowVars
  <1>2. CASE FetchSaves(c)
    <2>1. /\ \A u \in DOMAIN c.rows : ~Refused(c.rows[u], rotate[u])
          /\ rotate' = [u \in Uses |-> IF u \in DOMAIN c.rows THEN Fetched(c.rows[u]) ELSE rotate[u]]
          /\ fetching' = fetching \ {c}
      BY <1>2 DEF FetchSaves
    <2>2. DOMAIN c.rows \subseteq Uses
      BY DEF TypeOK
    <2>3. ASSUME NEW u \in Uses
          PROVE  /\ rotate'[u].inc = rotate[u].inc
                 /\ u \notin DOMAIN c.rows => rotate'[u] = rotate[u]
                 /\ rotate'[u] = rotate[u] \/ (~rotate[u].exists /\ rotate'[u].exists)
      <3>1. CASE u \notin DOMAIN c.rows
        BY <2>1, <3>1
      <3>2. CASE u \in DOMAIN c.rows
        <4>1. c.rows[u] = rotate[u] /\ rotate[u] \in RotateRow
          BY <2>1, <3>2 DEF FreshInv, StoresFresh, LogsFresh, CountsFresh, FetchesFresh, TypeOK
        <4>2. rotate'[u] = [rotate[u] EXCEPT !.exists = TRUE]
          BY <2>1, <3>2, <4>1 DEF Fetched
        <4>3. rotate[u].exists => rotate'[u] = rotate[u]
          BY <4>1, <4>2 DEF RotateRow
        <4>4. rotate'[u].exists /\ rotate'[u].inc = rotate[u].inc
          BY <4>1, <4>2 DEF RotateRow
        <4> QED
          BY <3>2, <4>3, <4>4
      <3> QED
        BY <3>1, <3>2
    <2>4. NothingLost'
      BY <1>1, <2>3 DEF FreshInv, NothingLost
    <2>5. ASSUME NEW d \in logging', d.at = "counting"
          PROVE  d.rotate = rotate'[d.of]
      <3>1. d \in logging /\ d.of \in Uses /\ d.of \notin DOMAIN c.rows
        BY <1>1 DEF Serial, TypeOK, Log
      <3>2. d.rotate = rotate[d.of]
        BY <2>5, <3>1, Zenon DEF FreshInv, CountsFresh
      <3> QED
        BY <2>3, <3>1, <3>2
    <2>6. ASSUME NEW d \in fetching', NEW u \in DOMAIN d.rows
          PROVE  d.rows[u] = rotate'[u] \/ Refused(d.rows[u], rotate'[u])
      <3>1. d \in fetching /\ u \in Uses
        BY <2>1 DEF TypeOK
      <3>2. d.rows[u] = rotate[u] \/ (~d.rows[u].exists /\ rotate[u].exists)
        BY <3>1 DEF FreshInv, StoresFresh, LogsFresh, CountsFresh, FetchesFresh, Refused
      <3> QED
        BY <2>3, <3>1, <3>2 DEF Refused
    <2> QED
      BY <1>1, <2>4, <2>5, <2>6 DEF FreshInv, StoresFresh, LogsFresh, CountsFresh, FetchesFresh
  <1>3. CASE FetchFails(c)
    BY <1>1, <1>3 DEF FetchFails, rowVars, FreshInv, StoresFresh, LogsFresh, CountsFresh,
                      FetchesFresh, NothingLost
  <1> QED
    BY <1>2, <1>3 DEF FetchStep

\* A call that begins reads the rows as they are.
LEMMA CallFresh ==
  ASSUME TypeOK, FreshInv, StoreReads \/ LogFinds \/ FetchReads
  PROVE  FreshInv'
  <1>1. UNCHANGED <<addr, rotate, clobbered, logged>>
    BY DEF StoreReads, LogFinds, FetchReads, rowVars
  <1>2. CASE StoreReads
    <2>1. UNCHANGED <<logging, fetching>> /\ \A d \in storing' : d \in storing \/ d.row = addr[d.of]
      BY <1>2 DEF StoreReads
    <2> QED
      BY <1>1, <2>1 DEF FreshInv, StoresFresh, LogsFresh, CountsFresh, FetchesFresh,
           NothingLost
  <1>3. CASE LogFinds
    <2>1. /\ UNCHANGED <<storing, fetching>>
          /\ \A d \in logging' : d \in logging \/ (d.at = "found" /\ d.row = addr[d.of[1]])
      BY <1>3 DEF LogFinds
    <2> QED
      BY <1>1, <2>1 DEF FreshInv, StoresFresh, LogsFresh, CountsFresh, FetchesFresh,
           NothingLost
  <1>4. CASE FetchReads
    <2>1. PICK found \in SUBSET Uses :
            fetching' = fetching \cup {[id |-> fetches', rows |-> [u \in found |-> rotate[u]]]}
      BY <1>4 DEF FetchReads
    <2>2. UNCHANGED <<storing, logging>>
      BY <1>4 DEF FetchReads
    <2>3. \A d \in fetching' : d \in fetching \/ \A u \in DOMAIN d.rows : d.rows[u] = rotate[u]
      BY <2>1
    <2> QED
      BY <1>1, <2>2, <2>3 DEF FreshInv, StoresFresh, LogsFresh, CountsFresh, FetchesFresh,
           NothingLost
  <1> QED
    BY <1>2, <1>3, <1>4

\* Blocks, numbers and outcomes are lost in one way only: by calls that overlap on a row.
\* As long as none do, no stale entity is saved, whatever fails, and IpRotate counts
\* every outcome that was committed, although doEnqueue() saves its rows back as well.
THEOREM SerialCallsLoseNothing == Spec /\ []Serial => []NothingLost
  <1>1. Init => FreshInv
    BY DEF Init, FreshInv, StoresFresh, LogsFresh, CountsFresh, FetchesFresh, NothingLost,
           NewRotate
  <1>2. TypeOK /\ FreshInv /\ Serial /\ [Next]_vars => FreshInv'
    <2> SUFFICES ASSUME TypeOK, FreshInv, Serial, [Next]_vars PROVE FreshInv'
      OBVIOUS
    <2>1. CASE UNCHANGED vars
      BY <2>1 DEF vars, rowVars, callVars, FreshInv, StoresFresh, LogsFresh, CountsFresh,
                  FetchesFresh, NothingLost
    <2> QED
      BY <2>1, StoreFresh, LogFresh, FetchFresh, CallFresh DEF Next
  <1>3. FreshInv => NothingLost
    BY DEF FreshInv
  <1> QED
    BY <1>1, <1>2, <1>3, TypeCorrect, PTL DEF Spec
=============================================================================

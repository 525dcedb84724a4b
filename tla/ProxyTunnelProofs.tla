------------------------- MODULE ProxyTunnelProofs -------------------------
(***************************************************************************)
(* Theorems of ProxyTunnel, for any number of pieces: the stream, the      *)
(* owner of the socket, and the answer a waiting request gets.             *)
(***************************************************************************)
EXTENDS ProxyTunnel, SequenceTheorems, TLAPS

\* The pieces i to j are a sequence.
LEMMA PiecesType ==
  ASSUME NEW i \in Nat, NEW j \in Nat, i <= j + 1
  PROVE  /\ Pieces(i, j) \in Seq(Nat)
         /\ Len(Pieces(i, j)) = (j + 1) - i
         /\ \A k \in 1 .. (j + 1) - i : Pieces(i, j)[k] = i + k - 1
  <1> DEFINE n == (j + 1) - i
  <1>1. n \in Nat
    OBVIOUS
  <1>2. \A k \in 1 .. n : i + k - 1 \in Nat
    OBVIOUS
  <1>3. Pieces(i, j) = [k \in 1 .. n |-> i + k - 1]
    BY DEF Pieces
  <1> HIDE DEF n
  <1>4. Pieces(i, j) \in Seq(Nat) /\ Len(Pieces(i, j)) = n /\ \A k \in 1 .. n : Pieces(i, j)[k] = i + k - 1
    BY <1>1, <1>2, <1>3
  <1> QED
    BY <1>4 DEF n

\* What follows the pieces i to j continues them.
LEMMA PiecesFollow ==
  ASSUME NEW i \in Nat, NEW j \in Nat, NEW k \in Nat, i <= j + 1, j <= k
  PROVE  Pieces(i, j) \o Pieces(j + 1, k) = Pieces(i, k)
  <1> DEFINE A == Pieces(i, j)
             B == Pieces(j + 1, k)
             C == Pieces(i, k)
  <1>1. /\ A \in Seq(Nat) /\ Len(A) = (j + 1) - i
        /\ \A n \in 1 .. (j + 1) - i : A[n] = i + n - 1
    BY PiecesType
  <1>2. /\ B \in Seq(Nat) /\ Len(B) = k - j
        /\ \A n \in 1 .. k - j : B[n] = j + n
    <2>1. j + 1 \in Nat /\ j + 1 <= k + 1 /\ (k + 1) - (j + 1) = k - j
      OBVIOUS
    <2>2. /\ B \in Seq(Nat) /\ Len(B) = (k + 1) - (j + 1)
          /\ \A n \in 1 .. (k + 1) - (j + 1) : B[n] = (j + 1) + n - 1
      BY <2>1, PiecesType
    <2>3. \A n \in 1 .. k - j : (j + 1) + n - 1 = j + n
      OBVIOUS
    <2> HIDE DEF B
    <2> QED
      BY <2>1, <2>2, <2>3
  <1>3. /\ C \in Seq(Nat) /\ Len(C) = (k + 1) - i
        /\ \A n \in 1 .. (k + 1) - i : C[n] = i + n - 1
    <2>1. i <= k + 1
      OBVIOUS
    <2> QED
      BY <2>1, PiecesType
  <1> HIDE DEF A, B, C
  <1>4. A \o B \in Seq(Nat) /\ Len(A \o B) = Len(C)
    <2>1. A \o B \in Seq(Nat) /\ Len(A \o B) = Len(A) + Len(B)
      BY <1>1, <1>2, ConcatProperties
    <2> QED
      BY <1>1, <1>2, <1>3, <2>1
  <1>5. ASSUME NEW n \in 1 .. Len(C)
        PROVE  (A \o B)[n] = C[n]
    <2>1. (A \o B)[n] = IF n <= Len(A) THEN A[n] ELSE B[n - Len(A)]
      <3>1. n \in 1 .. Len(A) + Len(B)
        BY <1>1, <1>2, <1>3
      <3> QED
        BY <1>1, <1>2, <3>1, ConcatProperties
    <2>2. CASE n <= Len(A)
      <3>1. n \in 1 .. (j + 1) - i /\ n \in 1 .. (k + 1) - i
        BY <1>1, <1>3, <2>2
      <3> QED
        BY <1>1, <1>3, <2>1, <2>2, <3>1
    <2>3. CASE ~(n <= Len(A))
      <3>1. n - Len(A) \in 1 .. k - j /\ n \in 1 .. (k + 1) - i /\ j + (n - Len(A)) = i + n - 1
        BY <1>1, <1>3, <2>3
      <3> QED
        BY <1>2, <1>3, <2>1, <2>3, <3>1
    <2> QED
      BY <2>2, <2>3
  <1>6. A \o B = C
    BY <1>3, <1>4, <1>5, SeqEqual
  <1> QED
    BY <1>6 DEF A, B, C

\* Of no pieces.
LEMMA NoPieces ==
  ASSUME NEW j \in Nat
  PROVE  Pieces(j + 1, j) = <<>>
  <1>1. Pieces(j + 1, j) \in Seq(Nat) /\ Len(Pieces(j + 1, j)) = 0
    BY PiecesType
  <1> QED
    BY <1>1, EmptySeq

-----------------------------------------------------------------------------
(* The invariant *)

First == IF status = "ok" THEN head + 1 ELSE 1

\* While connect() listens it has all that was read, and no end of a head is in it;
\* with a 200 nothing follows the head before the client has the socket.
TunnelInv ==
  /\ TypeOK
  /\ status = "none" <=> head = 0
  /\ hearing => /\ request = "waiting" /\ answer = "none"
                /\ buffers = Pieces(1, taken)
                /\ head = 0 \/ taken < head
                /\ status = "ok" => arrived = head
  /\ answer = "socket" => ~hearing /\ head # 0 /\ head <= taken /\ seen = Pieces(First, taken)
  /\ request = "waiting" => hearing
  /\ request = "attached" => answer = "socket"
  /\ SocketOwned

\* Every step keeps it.
LEMMA TunnelStep == TunnelInv /\ [Next]_vars => TunnelInv'
  <1> SUFFICES ASSUME TunnelInv, [Next]_vars PROVE TunnelInv'
    OBVIOUS
  <1> USE DEF wireVars
  <1>t. TypeOK
    BY DEF TunnelInv
  <1>n. arrived \in Nat /\ head \in Nat /\ taken \in Nat /\ head <= arrived /\ taken <= arrived
    BY <1>t DEF TypeOK
  <1>f. taken < arrived => Pieces(1, taken) \o Pieces(taken + 1, arrived) = Pieces(1, arrived)
    <2>1. 1 \in Nat /\ 1 <= taken + 1
      BY <1>n
    <2> QED
      BY <1>n, <2>1, PiecesFollow
  <1>1. CASE Arrives
    <2>1. TypeOK'
      BY <1>t, <1>1 DEF TypeOK, Arrives
    <2>2. /\ UNCHANGED <<sock, buffers, taken, hearing, aborting, answer, request, seen>>
          /\ arrived' = arrived + 1
          /\ UNCHANGED <<head, status>> \/ (status = "none" /\ head' = arrived + 1 /\ status' \in {"ok", "refused"})
          /\ status = "ok" => request = "attached"
      BY <1>1 DEF Arrives
    <2>3. answer = "socket" => UNCHANGED <<head, status>> /\ First' = First
      BY <2>2 DEF TunnelInv, First
    <2> QED
      BY <1>n, <2>1, <2>2, <2>3 DEF TunnelInv, SocketOwned
  <1>2. CASE KeepBuffering
    <2>1. /\ hearing /\ head = 0 /\ taken' = arrived /\ taken < arrived
          /\ buffers' = buffers \o Pieces(taken + 1, arrived)
          /\ UNCHANGED <<sock, hearing, aborting, answer, request, seen, arrived, head, status>>
      BY <1>2 DEF KeepBuffering
    <2>2. buffers' = Pieces(1, arrived)
      BY <1>f, <2>1 DEF TunnelInv
    <2>3. buffers' \in Seq(Nat)
      BY <1>n, <2>2, PiecesType
    <2>4. TypeOK'
      BY <1>t, <1>n, <2>1, <2>3 DEF TypeOK
    <2> QED
      BY <2>1, <2>2, <2>4 DEF TunnelInv, SocketOwned
  <1>3. CASE HandOver
    <2>1. /\ hearing /\ head # 0 /\ taken' = arrived /\ taken < arrived
          /\ ~hearing' /\ hearing' \in BOOLEAN /\ request' = "attached" /\ buffers' = <<>>
          /\ seen' = IF status = "ok" THEN <<>> ELSE buffers \o Pieces(taken + 1, arrived)
          /\ UNCHANGED <<sock, aborting, arrived, head, status>>
      BY <1>3 DEF HandOver
    <2>2. answer' = "socket"
      BY <1>3 DEF HandOver, Fn, TunnelInv
    <2>3. seen' = Pieces(First, arrived)'
      <3>1. CASE status = "ok"
        <4>1. arrived = head
          BY <2>1, <3>1 DEF TunnelInv
        <4> QED
          BY <1>n, <2>1, <3>1, <4>1, NoPieces DEF First, Pieces
      <3>2. CASE status # "ok"
        <4>1. buffers \o Pieces(taken + 1, arrived) = Pieces(1, arrived)
          BY <1>f, <2>1 DEF TunnelInv
        <4> QED
          BY <2>1, <3>2, <4>1 DEF First, Pieces
      <3> QED
        BY <3>1, <3>2
    <2>4. seen' \in Seq(Nat) /\ buffers' \in Seq(Nat)
      <3>1. First \in Nat /\ First <= arrived + 1
        BY <1>n, <2>1 DEF First
      <3>2. Pieces(First, arrived) \in Seq(Nat)
        BY <1>n, <3>1, PiecesType
      <3>3. seen' = Pieces(First, arrived)
        BY <2>1, <2>3 DEF First, Pieces
      <3>4. seen' \in Seq(Nat)
        BY <3>2, <3>3
      <3>5. buffers' \in Seq(Nat)
        BY <2>1, EmptySeq
      <3> QED
        BY <3>4, <3>5
    <2>5. TypeOK'
      BY <1>t, <1>n, <2>1, <2>2, <2>4 DEF TypeOK
    <2> QED
      BY <1>n, <2>1, <2>2, <2>3, <2>5 DEF TunnelInv, SocketOwned, Pieces
  <1>4. CASE Fails
    <2>1. /\ sock' = "closed" /\ request' = "failed" /\ ~hearing' /\ hearing' \in BOOLEAN
          /\ UNCHANGED <<buffers, taken, aborting, seen, arrived, head, status>>
      BY <1>4 DEF Fails
    <2>2. answer' = answer \/ answer' = "error"
      BY <1>4 DEF Fails, Fn
    <2>3. TypeOK'
      BY <1>t, <2>1, <2>2 DEF TypeOK
    <2> QED
      BY <2>1, <2>2, <2>3 DEF TunnelInv, SocketOwned, First
  <1>5. CASE FarEnds
    <2>1. /\ sock' = "closed" /\ request' = IF request = "attached" THEN "over" ELSE request
          /\ UNCHANGED <<buffers, taken, hearing, aborting, answer, seen, arrived, head, status>>
      BY <1>5 DEF FarEnds
    <2>2. TypeOK'
      BY <1>t, <2>1 DEF TypeOK
    <2> QED
      BY <2>1, <2>2 DEF TunnelInv, SocketOwned, First
  <1>6. CASE Aborts
    <2>1. /\ sock' = "closed" /\ ~hearing' /\ hearing' \in BOOLEAN /\ aborting' \in BOOLEAN
          /\ request' = IF request \in {"waiting", "attached"} THEN "aborted" ELSE request
          /\ answer' = IF answer = "none" THEN "error" ELSE answer
          /\ UNCHANGED <<buffers, taken, seen, arrived, head, status>>
      BY <1>6 DEF Aborts, GiveUp, Fn
    <2>2. TypeOK'
      BY <1>t, <2>1 DEF TypeOK
    <2> QED
      BY <2>1, <2>2 DEF TunnelInv, SocketOwned, First
  <1>7. CASE Reads
    <2>1. /\ request = "attached" /\ taken' = arrived /\ taken < arrived
          /\ seen' = seen \o Pieces(taken + 1, arrived)
          /\ UNCHANGED <<sock, buffers, hearing, aborting, answer, request, arrived, head, status>>
      BY <1>7 DEF Reads
    <2>2. answer = "socket" /\ ~hearing /\ head <= taken /\ seen = Pieces(First, taken)
      BY <2>1 DEF TunnelInv
    <2>3. First \in Nat /\ First <= taken + 1 /\ First' = First
      BY <1>n, <2>1, <2>2 DEF First
    <2>4. seen' = Pieces(First, arrived)
      BY <1>n, <2>1, <2>2, <2>3, PiecesFollow
    <2>5. seen' \in Seq(Nat)
      <3>1. First <= arrived + 1
        BY <1>n, <2>1, <2>3
      <3> QED
        BY <1>n, <2>3, <2>4, <3>1, PiecesType
    <2>6. TypeOK'
      BY <1>t, <1>n, <2>1, <2>5 DEF TypeOK
    <2> QED
      BY <1>n, <2>1, <2>2, <2>3, <2>4, <2>6 DEF TunnelInv, SocketOwned
  <1>8. CASE UNCHANGED vars
    BY <1>8 DEF vars, TunnelInv, TypeOK, SocketOwned, First
  <1> QED
    BY <1>1, <1>2, <1>3, <1>4, <1>5, <1>6, <1>7, <1>8 DEF Next

\* It holds at the start.
LEMMA TunnelInit == Init => TunnelInv
  <1> SUFFICES ASSUME Init PROVE TunnelInv
    OBVIOUS
  <1>1. Pieces(1, 0) = <<>>
    BY NoPieces
  <1>2. <<>> \in Seq(Nat)
    OBVIOUS
  <1> QED
    BY <1>1, <1>2 DEF Init, TunnelInv, TypeOK, SocketOwned

\* Whatever the pieces, a client reads the answer of a refusing proxy, or what comes
\* through the tunnel, whole and in order.
THEOREM AnswerReplayed == Spec => []StreamWhole
  <1>1. TunnelInv => StreamWhole
    BY DEF TunnelInv, StreamWhole, First
  <1> QED
    BY <1>1, TunnelInit, TunnelStep, PTL DEF Spec

\* An open socket to the proxy always has one owner who hears of its errors.
THEOREM SocketHasOwner == Spec => []SocketOwned
  <1>1. TunnelInv => SocketOwned
    BY DEF TunnelInv
  <1> QED
    BY <1>1, TunnelInit, TunnelStep, PTL DEF Spec

-----------------------------------------------------------------------------
(* The answer, and the way out *)

\* A request waits exactly as long as connect() listens and has not called fn(), and
\* can be aborted until it has been.
AnswerInv == StaysAbortable /\ AnsweredForGood

LEMMA AnswerStep == TunnelInv /\ AnswerInv /\ [Next]_vars => AnswerInv'
  <1> SUFFICES ASSUME TunnelInv, AnswerInv, [Next]_vars PROVE AnswerInv'
    OBVIOUS
  <1> USE DEF AnswerInv, StaysAbortable, AnsweredForGood
  <1>1. CASE UNCHANGED <<aborting, answer, request>>
    BY <1>1
  <1>2. CASE HandOver
    BY <1>2 DEF HandOver, Fn, TunnelInv
  <1>3. CASE Fails
    <2>1. request' = "failed" /\ (hearing => answer = "none")
      BY <1>3 DEF Fails, TunnelInv
    <2>2. CASE hearing
      BY <1>3, <2>1, <2>2 DEF Fails, Fn
    <2>3. CASE ~hearing
      <3>1. answer' = answer /\ request # "waiting"
        BY <1>3, <2>3 DEF Fails, TunnelInv
      <3> QED
        BY <2>1, <3>1
    <2> QED
      BY <2>2, <2>3
  <1>4. CASE FarEnds
    BY <1>4 DEF FarEnds, TunnelInv
  <1>5. CASE Aborts
    <2>1. request' = IF request \in {"waiting", "attached"} THEN "aborted" ELSE request
      BY <1>5 DEF Aborts, GiveUp
    <2>2. answer' = IF answer = "none" THEN "error" ELSE answer
      BY <1>5 DEF Aborts, Fn
    <2> QED
      BY <2>1, <2>2
  <1> QED
    BY <1>1, <1>2, <1>3, <1>4, <1>5 DEF Next, Arrives, KeepBuffering, Reads, vars

LEMMA AnswerInvariant == Spec => [](TunnelInv /\ AnswerInv)
  <1>1. Init => AnswerInv
    BY DEF Init, AnswerInv, StaysAbortable, AnsweredForGood
  <1> QED
    BY <1>1, AnswerStep, TunnelInit, TunnelStep, PTL DEF Spec

\* A request whose proxy closed before its answer was complete waits on, but can be
\* aborted, by its timeout at the latest.
THEOREM AbortsAreHeard == Spec => []StaysAbortable
  <1>1. AnswerInv => StaysAbortable
    BY DEF AnswerInv
  <1> QED
    BY <1>1, AnswerInvariant, PTL

\* Whatever closes, fails or is aborted first, fn() is called by then, and a request
\* that was refused its socket has failed or was given up.
THEOREM AnswersAreForGood == Spec => []AnsweredForGood
  <1>1. AnswerInv => AnsweredForGood
    BY DEF AnswerInv
  <1> QED
    BY <1>1, AnswerInvariant, PTL
=============================================================================

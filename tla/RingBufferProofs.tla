--------------------------- MODULE RingBufferProofs ---------------------------
(***************************************************************************)
(* For every capacity N, every set of strings and every client that keeps  *)
(* a cell free (MaxFill < N), RingBufferClient implements the queue of     *)
(* ByteFifo.  The assumption is needed: at MaxFill = N TLC refutes it.     *)
(***************************************************************************)
EXTENDS RingBufferClient, StringRingBufferProofs

IInv == WellFormed(ring) /\ Stored(ring)

(* Whatever the client and however full it makes the buffer, begin_ stays in
   0 .. N and size_ in 0 .. N: no index of data_ is out of bounds.         *)
THEOREM TypeCorrect == Spec => []TypeOK
  <1>1. Init => TypeOK
    BY EmptyRingProps DEF Init, TypeOK, WellFormed
  <1>2. TypeOK /\ [Next]_ring => TypeOK'
    <2> SUFFICES ASSUME ring \in Ring, [Next]_ring
                 PROVE  ring' \in Ring
      BY DEF TypeOK
    <2>1. ASSUME NEW s \in Strings, Insert(s) \/ InsertTooMuch(s)
          PROVE  ring' \in Ring
      <3>1. s \in Seq(Byte)
        BY ClientAssumption
      <3>2. ring' = InsertInto(ring, s).ring
        BY <2>1 DEF Insert, InsertTooMuch
      <3>3. Len(s) \in Nat /\ ring.size_ \in Nat /\ N \in Nat
        BY <3>1, LenProperties, EndValue
      <3> QED
        BY <3>1, <3>2, <3>3, InsertResult DEF Extends
    <2>2. ASSUME NEW n \in 0 .. N + 1, Discard(n)
          PROVE  ring' \in Ring
      <3>1. ring' = DiscardFrom(ring, n).ring
        BY <2>2 DEF Discard
      <3> QED
        BY <3>1, DiscardInRing
    <2>3. CASE UNCHANGED ring
      BY <2>3
    <2> QED
      BY <2>1, <2>2, <2>3 DEF Next
  <1> QED
    BY <1>1, <1>2, PTL DEF Spec

(* Whatever the client, insert throws exactly when the string does not fit
   and discard exactly when it is asked for more than is held.             *)
THEOREM ThrowsCorrectly == Spec => []ThrowsExactlyWithoutRoom
  <1>1. TypeOK => ThrowsExactlyWithoutRoom
    <2> SUFFICES ASSUME ring \in Ring
                 PROVE  ThrowsExactlyWithoutRoom
      BY DEF TypeOK
    <2>1. ASSUME NEW s \in Strings
          PROVE  InsertInto(ring, s).threw <=> ~Fits(s)
      <3>1. /\ s \in Seq(Byte) /\ Len(s) \in Nat /\ ring.size_ \in Nat /\ N \in Nat
        BY ClientAssumption, LenProperties, EndValue
      <3>2. ring.size_ + Len(s) <= N \/ ring.size_ + Len(s) > N
        BY <3>1
      <3> QED
        BY <3>1, <3>2, InsertResult DEF Fits
    <2>2. ASSUME NEW n \in 0 .. N + 1
          PROVE  DiscardFrom(ring, n).threw <=> n > ring.size_
      BY DiscardInRing
    <2> QED
      BY <2>1, <2>2 DEF ThrowsExactlyWithoutRoom
  <1> QED
    BY <1>1, TypeCorrect, PTL

(* In whatever layout the buffer is, what it counts as its own was written. *)
Written == ring \in Ring /\ Stored(ring)

LEMMA WrittenInvariant == Spec => []Written
  <1>1. Init => Written
    BY EmptyRingProps DEF Init, Written, WellFormed
  <1>2. Written /\ [Next]_ring => Written'
    <2> SUFFICES ASSUME ring \in Ring, Stored(ring), [Next]_ring
                 PROVE  ring' \in Ring /\ Stored(ring')
      BY DEF Written
    <2>1. ASSUME NEW s \in Strings, Insert(s) \/ InsertTooMuch(s)
          PROVE  ring' \in Ring /\ Stored(ring')
      <3>1. s \in Seq(Byte) /\ ring' = InsertInto(ring, s).ring
        BY <2>1, ClientAssumption DEF Insert, InsertTooMuch
      <3> QED
        BY <3>1, InsertStored
    <2>2. ASSUME NEW n \in 0 .. N + 1, Discard(n)
          PROVE  ring' \in Ring /\ Stored(ring')
      <3>1. ring' = DiscardFrom(ring, n).ring /\ n \in Nat
        BY <2>2 DEF Discard
      <3> QED
        BY <3>1, DiscardStored
    <2>3. CASE UNCHANGED ring
      BY <2>3
    <2> QED
      BY <2>1, <2>2, <2>3 DEF Next
  <1> QED
    BY <1>1, <1>2, PTL DEF Spec

(* Also a buffer filled to its last cell, in whatever layout, holds written
   characters only: peek never reads a cell of data_ before its first write
   (string_ring_buffer.hpp:130 gives it no initial value).                 *)
THEOREM NeverUnwritten == Spec => []PeekIsWritten
  <1>1. Written => PeekIsWritten
    <2> SUFFICES ASSUME ring \in Ring, Stored(ring) PROVE PeekIsWritten
      BY DEF Written
    <2>1. Peek(ring) \in Seq(Byte)
      BY PeekWritten
    <2> QED
      BY <2>1 DEF PeekIsWritten
  <1> QED
    BY <1>1, WrittenInvariant, PTL

(* Each operation that leaves the buffer well formed does to the characters
   held what the queue's action does.  Only a successful insert may leave it
   otherwise: full, and not from the first cell on.                        *)
LEMMA InsertStep ==
  ASSUME IInv, NEW s \in Strings, Insert(s), WellFormed(ring')
  PROVE  IInv' /\ Fifo!Accept(s)
  <1>1. /\ s \in Seq(Byte) /\ ring \in Ring /\ Len(s) \in Nat /\ ring.size_ \in Nat
        /\ N \in Nat /\ MaxFill \in 0 .. N
    BY ClientAssumption, LenProperties, EndValue DEF IInv, WellFormed
  <1>2. ring.size_ + Len(s) <= N /\ ring' = InsertInto(ring, s).ring
    BY <1>1 DEF Insert
  <1>3. Extends(ring, ring', s)
    BY <1>1, <1>2, InsertResult
  <1>4. Stored(ring') /\ Peek(ring') = Peek(ring) \o s
    BY <1>1, <1>3, ExtendsPeek DEF IInv, WellFormed
  <1>5. Len(Peek(ring)) = ring.size_
    BY PeekProps DEF IInv
  <1> QED
    BY <1>1, <1>2, <1>4, <1>5 DEF IInv, Fifo!Accept

LEMMA InsertLeavesRoom ==
  ASSUME MaxFill < N, IInv, NEW s \in Strings, Insert(s)
  PROVE  WellFormed(ring')
  <1>1. /\ s \in Seq(Byte) /\ ring \in Ring /\ Len(s) \in Nat /\ ring.size_ \in Nat
        /\ N \in Nat /\ MaxFill \in Nat
    BY ClientAssumption, LenProperties, EndValue DEF IInv, WellFormed
  <1>2. ring.size_ + Len(s) < N /\ ring' = InsertInto(ring, s).ring
    BY <1>1 DEF Insert
  <1>3. Extends(ring, ring', s)
    BY <1>1, <1>2, InsertResult
  <1> QED
    BY <1>1, <1>2, <1>3 DEF Extends, WellFormed

LEMMA InsertTooMuchStep ==
  ASSUME IInv, NEW s \in Strings, InsertTooMuch(s)
  PROVE  IInv' /\ Fifo!Refuse(s)
  <1>1. /\ s \in Seq(Byte) /\ ring \in Ring /\ Len(s) \in Nat /\ ring.size_ \in Nat
        /\ N \in Nat /\ (ring.size_ = N => ring.begin_ = 0)
    BY ClientAssumption, LenProperties, EndValue DEF IInv, WellFormed
  <1>2. ring.size_ + Len(s) > N /\ ring' = InsertInto(ring, s).ring
    BY <1>1 DEF InsertTooMuch, Fits
  <1>3. PICK k \in 0 .. Len(s) - 1 : Extends(ring, ring', SubSeq(s, 1, k))
    BY <1>1, <1>2, InsertResult
  <1>4. WellFormed(ring')
    BY <1>1, <1>2, InsertResult
  <1>5. SubSeq(s, 1, k) \in Seq(Byte) /\ Len(SubSeq(s, 1, k)) = k
    BY <1>1, CutProps
  <1>6. Stored(ring') /\ Peek(ring') = Peek(ring) \o SubSeq(s, 1, k)
    BY <1>3, <1>4, <1>5, ExtendsPeek DEF IInv, WellFormed
  <1>7. Len(Peek(ring)) = ring.size_ /\ ring.size_ + k <= N
    BY <1>3, <1>4, <1>5, PeekProps, EndValue DEF IInv, Extends, WellFormed
  <1> QED
    BY <1>1, <1>2, <1>4, <1>6, <1>7 DEF IInv, Fifo!Refuse, Fifo!Front

LEMMA DiscardStep ==
  ASSUME IInv, NEW n \in 0 .. N + 1, Discard(n)
  PROVE  IInv' /\ (UNCHANGED ring \/ \E m \in 0 .. N : Fifo!Drop(m))
  <1>1. ring.size_ \in 0 .. N /\ N \in Nat /\ ring' = DiscardFrom(ring, n).ring
    BY EndValue DEF IInv, WellFormed, Discard
  <1>2. CASE n > ring.size_
    BY <1>1, <1>2, DiscardResult DEF IInv
  <1>3. CASE n <= ring.size_
    <2>1. WellFormed(ring') /\ Drops(ring, ring', n)
      BY <1>1, <1>3, DiscardResult DEF IInv
    <2>2. Stored(ring') /\ Peek(ring') = SubSeq(Peek(ring), n + 1, Len(Peek(ring)))
      BY <1>1, <1>3, <2>1, DropsPeek DEF IInv
    <2>3. Len(Peek(ring)) = ring.size_
      BY PeekProps DEF IInv
    <2> QED
      BY <1>1, <1>3, <2>1, <2>2, <2>3 DEF IInv, Fifo!Drop, Fifo!WithoutFront
  <1> QED
    BY <1>1, <1>2, <1>3

LEMMA IInvInvariant ==
  ASSUME MaxFill < N
  PROVE  Spec => []IInv
  <1>1. Init => IInv
    BY EmptyRingProps DEF Init, IInv
  <1>2. IInv /\ [Next]_ring => IInv'
    <2> SUFFICES ASSUME IInv, [Next]_ring
                 PROVE  IInv'
      OBVIOUS
    <2>1. ASSUME NEW s \in Strings, Insert(s)
          PROVE  IInv'
      BY <2>1, InsertLeavesRoom, InsertStep
    <2>2. ASSUME NEW s \in Strings, InsertTooMuch(s)
          PROVE  IInv'
      BY <2>2, InsertTooMuchStep
    <2>3. ASSUME NEW n \in 0 .. N + 1, Discard(n)
          PROVE  IInv'
      BY <2>3, DiscardStep
    <2>4. CASE UNCHANGED ring
      BY <2>4 DEF IInv
    <2> QED
      BY <2>1, <2>2, <2>3, <2>4 DEF Next
  <1> QED
    BY <1>1, <1>2, PTL DEF Spec

(* As long as a cell is kept free, peek returns everything that is held.   *)
THEOREM PeekComplete ==
  ASSUME MaxFill < N
  PROVE  Spec => []PeekReturnsAll
  <1>1. IInv => PeekReturnsAll
    <2> SUFFICES ASSUME IInv
                 PROVE  PeekReturnsAll
      OBVIOUS
    <2>1. Peek(ring) \in Seq(Byte) /\ Len(Peek(ring)) = ring.size_
      BY PeekProps DEF IInv
    <2> QED
      BY <2>1 DEF PeekReturnsAll
  <1> QED
    BY <1>1, IInvInvariant, PTL

LEMMA FifoStep ==
  ASSUME IInv, WellFormed(ring'), [Next]_ring
  PROVE  Fifo!Next \/ Peek(ring)' = Peek(ring)
  <1>1. ASSUME NEW s \in Strings, Insert(s)
        PROVE  Fifo!Next
    BY <1>1, InsertStep DEF Fifo!Next
  <1>2. ASSUME NEW s \in Strings, InsertTooMuch(s)
        PROVE  Fifo!Next
    BY <1>2, InsertTooMuchStep DEF Fifo!Next
  <1>3. ASSUME NEW n \in 0 .. N + 1, Discard(n)
        PROVE  Fifo!Next \/ UNCHANGED ring
    BY <1>3, DiscardStep DEF Fifo!Next
  <1>4. UNCHANGED ring => Peek(ring)' = Peek(ring)
    BY DEF Peek, Slice, End
  <1> QED
    BY <1>1, <1>2, <1>3, <1>4 DEF Next

(* Whatever the client: a buffer that is not full, or full from its first
   cell on, behaves as a queue up to the step that fills it otherwise.  So
   that layout is the only one in which peek and discard may go wrong
   (string_ring_buffer.hpp:74, 94).                                        *)
THEOREM QueueUnlessMisfilled ==
  Spec => Fifo!Init /\ [][WellFormed(ring) /\ WellFormed(ring)' => Fifo!Next]_(Peek(ring))
  <1>1. Init => Fifo!Init
    BY EmptyRingProps DEF Init, Fifo!Init
  <1>2. Written /\ [Next]_ring
          => [WellFormed(ring) /\ WellFormed(ring)' => Fifo!Next]_(Peek(ring))
    <2> SUFFICES ASSUME Written, [Next]_ring, WellFormed(ring), WellFormed(ring)'
                 PROVE  Fifo!Next \/ Peek(ring)' = Peek(ring)
      OBVIOUS
    <2> QED
      BY FifoStep DEF IInv, Written
  <1> QED
    BY <1>1, <1>2, WrittenInvariant, PTL DEF Spec

(* As long as a cell is kept free, the buffer is a first-in first-out queue. *)
THEOREM RingImplementsFifo ==
  ASSUME MaxFill < N
  PROVE  Spec => ImplementsFifo
  <1>1. Init => Fifo!Init
    BY EmptyRingProps DEF Init, Fifo!Init
  <1>2. IInv /\ IInv' /\ [Next]_ring => [Fifo!Next]_(Peek(ring))
    BY FifoStep DEF IInv
  <1> QED
    BY <1>1, <1>2, IInvInvariant, PTL DEF Spec, ImplementsFifo, Fifo!Spec
===============================================================================

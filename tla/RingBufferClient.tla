--------------------------- MODULE RingBufferClient ---------------------------
(***************************************************************************)
(* One StringRingBuffer and a client that calls insert and discard on it   *)
(* in every order, with every string of Strings and every count, the       *)
(* calls that throw included.                                              *)
(*                                                                         *)
(* MaxFill is how full the client's successful inserts make the buffer.    *)
(* IRLoggerParser::push_data fills it completely (MaxFill = N); a client   *)
(* that always leaves a cell free has MaxFill = N - 1.                     *)
(***************************************************************************)
EXTENDS StringRingBuffer

CONSTANTS Strings, MaxFill

ASSUME ClientAssumption == Strings \subseteq Seq(Byte) /\ MaxFill \in 0 .. N

VARIABLE ring

Fits(s) == ring.size_ + Len(s) <= N

Insert(s) ==
  /\ ring.size_ + Len(s) <= MaxFill
  /\ ring' = InsertInto(ring, s).ring

\* A call that has no room throws, and may have stored part of the string.
InsertTooMuch(s) ==
  /\ ~Fits(s)
  /\ ring' = InsertInto(ring, s).ring

Discard(n) == ring' = DiscardFrom(ring, n).ring

Init == ring = EmptyRing

Next ==
  \/ \E s \in Strings : Insert(s) \/ InsertTooMuch(s)
  \/ \E n \in 0 .. N + 1 : Discard(n)

Spec == Init /\ [][Next]_ring

-------------------------------------------------------------------------------
(* Properties *)

\* The members keep their ranges; begin_ may be N but never more.
TypeOK == ring \in Ring

\* insert throws exactly when the string does not fit in the free cells,
\* whatever the layout of the buffer (both sides of the wrap, the recursive
\* call, a full buffer), and discard exactly when it is asked for too much.
ThrowsExactlyWithoutRoom ==
  /\ \A s \in Strings : InsertInto(ring, s).threw <=> ~Fits(s)
  /\ \A n \in 0 .. N + 1 : DiscardFrom(ring, n).threw <=> n > ring.size_

\* peek never returns a cell of data_ that no insert has written: data_ has no
\* initializer (line 130), so such a read is of an indeterminate value.
PeekIsWritten ==
  \A i \in DOMAIN Peek(ring) : Peek(ring)[i] \in Byte

\* peek returns the whole of what the buffer holds ("Get the current string
\* in the buffer", line 67): as many characters as size() counts.
PeekReturnsAll == Len(Peek(ring)) = ring.size_

\* The buffer implements the queue it is documented to be.
Fifo == INSTANCE ByteFifo WITH Capacity <- N, contents <- Peek(ring)

ImplementsFifo == Fifo!Spec
===============================================================================

------------------------------- MODULE ByteFifo -------------------------------
(***************************************************************************)
(* What a bounded byte queue promises to its client: bytes leave from the  *)
(* front in the order in which they were accepted at the back.  This is    *)
(* the abstract specification of StringRingBuffer ("FIFO Ring buffer for   *)
(* string data", string_ring_buffer.hpp:19).                               *)
(*                                                                         *)
(* A string that does not fit is refused, but the promise is the weak one: *)
(* the queue may keep a proper prefix of a refused string.  What it held   *)
(* before the refusal is never disturbed.                                  *)
(***************************************************************************)
EXTENDS Naturals, Sequences

CONSTANTS
  Capacity,  \* how many bytes the queue can hold
  Strings    \* the strings a client may offer

VARIABLE contents  \* the bytes held, the oldest first

Front(s, n)     == SubSeq(s, 1, n)
WithoutFront(s, n) == SubSeq(s, n + 1, Len(s))

Accept(s) ==
  /\ Len(contents) + Len(s) <= Capacity
  /\ contents' = contents \o s

Refuse(s) ==
  /\ Len(contents) + Len(s) > Capacity
  /\ \E k \in 0 .. Len(s) - 1 :
       /\ Len(contents) + k <= Capacity
       /\ contents' = contents \o Front(s, k)

Drop(n) ==
  /\ n <= Len(contents)
  /\ contents' = WithoutFront(contents, n)

Init == contents = << >>

Next ==
  \/ \E s \in Strings : Accept(s) \/ Refuse(s)
  \/ \E n \in 0 .. Capacity : Drop(n)

Spec == Init /\ [][Next]_contents
===============================================================================

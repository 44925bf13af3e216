--------------------------- MODULE StringRingBuffer ---------------------------
(***************************************************************************)
(* The class StringRingBuffer<N> (string_ring_buffer.hpp) as operators on  *)
(* the value of one buffer object: the record of its three members.  The   *)
(* class has no lock ("not thread safe", line 21), so a member function is *)
(* one indivisible operation; the modules that use a buffer say who calls  *)
(* it and when.                                                            *)
(*                                                                         *)
(* A member function that may throw returns an outcome: the buffer it      *)
(* leaves behind, and whether std::out_of_range was thrown.                *)
(***************************************************************************)
EXTENDS Naturals, Sequences

CONSTANTS
  N,         \* the template parameter: the number of cells of data_
  Byte,      \* the characters a client stores
  Unwritten  \* what a cell of data_ holds before the first write to it

ASSUME RingAssumption == N \in Nat \ {0} /\ Unwritten \notin Byte

Cell == 0 .. N - 1

\* begin_ ranges up to N, not N - 1: see DiscardFrom.
Ring == [begin_ : 0 .. N, size_ : 0 .. N, data_ : [Cell -> Byte \cup {Unwritten}]]

EmptyRing == [begin_ |-> 0, size_ |-> 0, data_ |-> [c \in Cell |-> Unwritten]]

\* Index of the first unfilled cell; begin_ + size_ may reach 2 * N.
End(r) == (r.begin_ + r.size_) % N

-------------------------------------------------------------------------------
(* peek() *)

\* std::string(&data_.data()[at], n)
Slice(r, at, n) == [i \in 1 .. n |-> r.data_[at + i - 1]]

PeekMutated(r) ==  \* bug: the head of data_ is left out
  IF r.size_ = 0 THEN << >> ELSE
    Slice(r, r.begin_, (IF r.begin_ < End(r) THEN End(r) ELSE N) - r.begin_)

\* When begin_ = End(r) and the buffer is not empty, it is full: the string
\* is then the tail of data_ followed by its head.
Peek(r) ==
  IF r.size_ = 0 THEN << >>
  ELSE IF r.begin_ < End(r)
       THEN Slice(r, r.begin_, End(r) - r.begin_)
       ELSE Slice(r, r.begin_, N - r.begin_) \o Slice(r, 0, End(r))

-------------------------------------------------------------------------------
(* insert(string) *)

Done(r)   == [ring |-> r, threw |-> FALSE]
Thrown(r) == [ring |-> r, threw |-> TRUE]

CopyInMutated(r, s) ==  \* bug: size_ is added to before end() is used
  [r EXCEPT
     !.size_ = @ + Len(s),
     !.data_ = [c \in Cell |-> LET at == (End(r) + Len(s)) % N
                               IN  IF c \in at .. at + Len(s) - 1
                                   THEN s[c - at + 1] ELSE r.data_[c]]]

\* string.copy(&data_.data()[end()], ...); size_ += ...
CopyIn(r, s) ==
  [r EXCEPT
     !.size_ = @ + Len(s),
     !.data_ = [c \in Cell |-> IF c \in End(r) .. End(r) + Len(s) - 1
                               THEN s[c - End(r) + 1]
                               ELSE r.data_[c]]]

InsertBehindMutated(r, s) ==  \* bug: the last free cell is not used
  IF r.size_ = N
  THEN IF s = << >> THEN Done(r) ELSE Thrown(r)
  ELSE IF Len(s) >= r.begin_ - End(r) THEN Thrown(r) ELSE Done(CopyIn(r, s))

\* A full buffer, and a buffer whose free cells are the ones between end()
\* and begin_.  This is also where the recursive call of insert arrives: the
\* call before it has written up to the last cell of data_.
InsertBehind(r, s) ==
  IF r.size_ = N
  THEN IF s = << >> THEN Done(r) ELSE Thrown(r)
  ELSE IF Len(s) > r.begin_ - End(r) THEN Thrown(r) ELSE Done(CopyIn(r, s))

InsertInto(r, s) ==
  IF r.size_ # N /\ r.begin_ <= End(r)
  THEN LET room == N - End(r)
       IN  IF Len(s) <= room
           THEN Done(CopyIn(r, s))
           ELSE InsertBehind(CopyIn(r, SubSeq(s, 1, room)),
                             SubSeq(s, room + 1, Len(s)))
  ELSE InsertBehind(r, s)

-------------------------------------------------------------------------------
(* discard(bytes) *)

AdvanceMutated(r, n) ==  \* bug: begin_ does not wrap
  [r EXCEPT !.begin_ = @ + n, !.size_ = @ - n]

\* The branch begin_ <= end().
Advance(r, n) ==
  [r EXCEPT !.begin_ = IF r.begin_ + n >= N THEN 0 ELSE @ + n,
            !.size_  = @ - n]

DiscardFromUnwrapped(r, n) ==  \* bug: discard does not go on from cell 0
  IF n > r.size_ THEN Thrown(r)
  ELSE IF r.begin_ <= End(r) THEN Done(Advance(r, n))
  ELSE Done([r EXCEPT !.begin_ = @ + n, !.size_ = @ - n])

DiscardFromMutated(r, n) ==  \* bug: the bytes before the wrap are not counted
  IF n > r.size_ THEN Thrown(r)
  ELSE IF r.begin_ <= End(r) THEN Done(Advance(r, n))
  ELSE LET tail == N - r.begin_
       IN  IF n <= tail
           THEN Done([r EXCEPT !.begin_ = @ + n, !.size_ = @ - n])
           ELSE Done(Advance([r EXCEPT !.begin_ = 0], n - tail))

\* The other branch discards up to the last cell and, when there is more to
\* discard, goes on from cell 0.  When there is not, begin_ may be left at N.
DiscardFrom(r, n) ==
  IF n > r.size_ THEN Thrown(r)
  ELSE IF r.begin_ <= End(r) THEN Done(Advance(r, n))
  ELSE LET tail == N - r.begin_
       IN  IF n <= tail
           THEN Done([r EXCEPT !.begin_ = @ + n, !.size_ = @ - n])
           ELSE Done(Advance([r EXCEPT !.begin_ = 0, !.size_ = @ - tail], n - tail))
===============================================================================

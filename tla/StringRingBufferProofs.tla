------------------------ MODULE StringRingBufferProofs ------------------------
(***************************************************************************)
(* What insert, peek and discard of a StringRingBuffer of any capacity do  *)
(* to the characters it holds.  The modules about its clients cite these   *)
(* lemmas.                                                                 *)
(***************************************************************************)
EXTENDS StringRingBuffer, SequenceTheorems, TLAPS

(* What the proofs need beyond the type: a full buffer starts at cell
   0, the one layout in which peek and discard handle a full buffer.       *)
WellFormed(r) == r \in Ring /\ (r.size_ = N => r.begin_ = 0)

(* The cell of the character number i, counted from 0, of a buffer that
   begins at cell b.                                                       *)
Slot(b, i) == IF b + i < N THEN b + i ELSE b + i - N

(* The characters held have been written.                                  *)
Stored(r) == \A i \in 0 .. r.size_ - 1 : r.data_[Slot(r.begin_, i)] \in Byte

(* r2 holds what r holds, followed by s.                                   *)
Extends(r, r2, s) ==
  /\ r2 \in Ring
  /\ r2.begin_ = r.begin_
  /\ r2.size_ = r.size_ + Len(s)
  /\ \A i \in 0 .. r.size_ - 1 : r2.data_[Slot(r.begin_, i)] = r.data_[Slot(r.begin_, i)]
  /\ \A i \in 1 .. Len(s) : r2.data_[Slot(r.begin_, r.size_ + i - 1)] = s[i]

-------------------------------------------------------------------------------
(* Where end() is, without the remainder.                                  *)

LEMMA ModSum ==
  ASSUME NEW m \in Nat \ {0}, NEW b \in 0 .. m, NEW z \in 0 .. m
  PROVE  (b + z) % m = IF b + z < m THEN b + z
                       ELSE IF b + z < 2 * m THEN b + z - m ELSE 0
  <1>1. CASE b + z < m
    BY <1>1
  <1>2. CASE b + z >= m /\ b + z < 2 * m
    BY <1>2
  <1>3. CASE b + z = 2 * m
    BY <1>3
  <1> QED
    BY <1>1, <1>2, <1>3

LEMMA EndValue ==
  ASSUME NEW r \in Ring
  PROVE  /\ N \in Nat /\ N > 0
         /\ r.begin_ \in 0 .. N /\ r.size_ \in 0 .. N
         /\ r.data_ \in [Cell -> Byte \cup {Unwritten}]
         /\ End(r) = IF r.begin_ + r.size_ < N THEN r.begin_ + r.size_
                     ELSE IF r.begin_ + r.size_ < 2 * N THEN r.begin_ + r.size_ - N
                     ELSE 0
         /\ End(r) \in Cell
  <1>1. /\ N \in Nat \ {0} /\ r.begin_ \in 0 .. N /\ r.size_ \in 0 .. N
        /\ r.data_ \in [Cell -> Byte \cup {Unwritten}]
    BY RingAssumption DEF Ring
  <1>2. (r.begin_ + r.size_) % N =
           IF r.begin_ + r.size_ < N THEN r.begin_ + r.size_
           ELSE IF r.begin_ + r.size_ < 2 * N THEN r.begin_ + r.size_ - N
           ELSE 0
    <2>1. N \in Nat \ {0} /\ r.begin_ \in 0 .. N /\ r.size_ \in 0 .. N
      BY <1>1
    <2> QED
      BY <2>1, ModSum, Zenon
  <1>3. End(r) = IF r.begin_ + r.size_ < N THEN r.begin_ + r.size_
                 ELSE IF r.begin_ + r.size_ < 2 * N THEN r.begin_ + r.size_ - N
                 ELSE 0
    BY <1>2, Zenon DEF End
  <1> QED
    BY <1>1, <1>3 DEF Cell

LEMMA SlotRange ==
  ASSUME NEW r \in Ring, NEW i \in 0 .. N - 1
  PROVE  Slot(r.begin_, i) \in Cell
  BY EndValue DEF Slot, Cell

-------------------------------------------------------------------------------
(* peek *)

LEMMA SliceProps ==
  ASSUME NEW r \in Ring, NEW at \in Nat, NEW n \in Nat, at + n <= N,
         \A i \in 1 .. n : r.data_[at + i - 1] \in Byte
  PROVE  /\ Slice(r, at, n) \in Seq(Byte)
         /\ Len(Slice(r, at, n)) = n
         /\ \A i \in 1 .. n : Slice(r, at, n)[i] = r.data_[at + i - 1]
  BY DEF Slice

(* peek returns the characters held, in the order of their slots.          *)
LEMMA PeekProps ==
  ASSUME NEW r, WellFormed(r), Stored(r)
  PROVE  /\ Peek(r) \in Seq(Byte)
         /\ Len(Peek(r)) = r.size_
         /\ \A i \in 1 .. r.size_ : Peek(r)[i] = r.data_[Slot(r.begin_, i - 1)]
  <1>1. r \in Ring /\ (r.size_ = N => r.begin_ = 0)
    BY DEF WellFormed
  <1>2. \A i \in 1 .. r.size_ : r.data_[Slot(r.begin_, i - 1)] \in Byte
    BY <1>1, EndValue DEF Stored
  <1>3. CASE r.size_ = 0
    BY <1>1, <1>3, EndValue DEF Peek
  <1>4. CASE r.size_ # 0 /\ r.begin_ < End(r)
    <2>1. End(r) = r.begin_ + r.size_ /\ r.begin_ + r.size_ <= N
      BY <1>1, <1>4, EndValue DEF Cell
    <2>2. \A i \in 1 .. r.size_ : Slot(r.begin_, i - 1) = r.begin_ + i - 1
      BY <1>1, <2>1, EndValue DEF Slot
    <2>3. Peek(r) = Slice(r, r.begin_, r.size_)
      BY <1>1, <1>4, <2>1, EndValue DEF Peek
    <2>4. r.begin_ \in Nat /\ r.size_ \in Nat
      BY <1>1, EndValue
    <2>5. \A i \in 1 .. r.size_ : r.data_[r.begin_ + i - 1] \in Byte
      BY <1>2, <2>2
    <2>6. /\ Slice(r, r.begin_, r.size_) \in Seq(Byte)
          /\ Len(Slice(r, r.begin_, r.size_)) = r.size_
          /\ \A i \in 1 .. r.size_ :
               Slice(r, r.begin_, r.size_)[i] = r.data_[r.begin_ + i - 1]
      BY <1>1, <2>1, <2>4, <2>5, SliceProps
    <2> QED
      BY <2>2, <2>3, <2>6
  <1>5. CASE r.size_ # 0 /\ ~(r.begin_ < End(r))
    <2> DEFINE first == Slice(r, r.begin_, N - r.begin_)
               second == Slice(r, 0, End(r))
               k == N - r.begin_
    <2>1. End(r) = r.size_ - k /\ k \in 0 .. N /\ End(r) \in Nat
      BY <1>1, <1>5, EndValue DEF Cell
    <2>2. \A i \in 1 .. k : Slot(r.begin_, i - 1) = r.begin_ + i - 1 /\ i \in 1 .. r.size_
      BY <1>1, <2>1, EndValue DEF Slot
    <2>3. \A i \in 1 .. End(r) : Slot(r.begin_, k + i - 1) = 0 + i - 1 /\ k + i \in 1 .. r.size_
      BY <1>1, <2>1, EndValue DEF Slot
    <2>4. \A i \in 1 .. k : r.data_[r.begin_ + i - 1] \in Byte
      BY <1>2, <2>2
    <2>5. \A i \in 1 .. End(r) : r.data_[0 + i - 1] \in Byte
      <3> TAKE i \in 1 .. End(r)
      <3>1. k + i \in 1 .. r.size_ /\ Slot(r.begin_, (k + i) - 1) = 0 + i - 1
        BY <2>1, <2>3
      <3> QED
        BY <1>2, <3>1
    <2>6. /\ first \in Seq(Byte) /\ Len(first) = k
          /\ \A i \in 1 .. k : first[i] = r.data_[r.begin_ + i - 1]
      <3>1. r.begin_ \in Nat /\ k \in Nat /\ r.begin_ + k <= N
        BY <1>1, <2>1, EndValue
      <3> QED
        BY <1>1, <2>4, <3>1, SliceProps
    <2>7. /\ second \in Seq(Byte) /\ Len(second) = End(r)
          /\ \A i \in 1 .. End(r) : second[i] = r.data_[0 + i - 1]
      <3>1. 0 \in Nat /\ End(r) \in Nat /\ 0 + End(r) <= N
        BY <1>1, EndValue DEF Cell
      <3> HIDE DEF k
      <3> QED
        BY <1>1, <2>5, <3>1, SliceProps
    <2>8. Peek(r) = first \o second
      BY <1>5 DEF Peek
    <2> HIDE DEF first, second, k
    <2>9. /\ Peek(r) \in Seq(Byte) /\ Len(Peek(r)) = k + End(r)
          /\ \A i \in 1 .. k + End(r) :
               Peek(r)[i] = IF i <= k THEN first[i] ELSE second[i - k]
      <3>1. /\ first \o second \in Seq(Byte)
            /\ Len(first \o second) = Len(first) + Len(second)
            /\ \A i \in 1 .. Len(first) + Len(second) :
                 (first \o second)[i] =
                   IF i <= Len(first) THEN first[i] ELSE second[i - Len(first)]
        BY <2>6, <2>7, ConcatProperties, Zenon
      <3> QED
        BY <2>6, <2>7, <2>8, <3>1, Zenon
    <2>10. k + End(r) = r.size_ /\ r.size_ \in Nat
      BY <1>1, <2>1, EndValue
    <2>11. ASSUME NEW i \in 1 .. r.size_
           PROVE  Peek(r)[i] = r.data_[Slot(r.begin_, i - 1)]
      <3>1. CASE i <= k
        BY <2>1, <2>2, <2>6, <2>9, <2>10, <3>1
      <3>2. CASE i > k
        <4>1. i - k \in 1 .. End(r) /\ k + (i - k) - 1 = i - 1
          BY <2>1, <2>10, <3>2
        <4>2. Slot(r.begin_, k + (i - k) - 1) = 0 + (i - k) - 1
          BY <2>3, <4>1
        <4> QED
          BY <2>1, <2>7, <2>9, <2>10, <3>2, <4>1, <4>2
      <3> QED
        BY <2>1, <2>10, <3>1, <3>2
    <2> QED
      BY <2>9, <2>10, <2>11
  <1> QED
    BY <1>3, <1>4, <1>5
-------------------------------------------------------------------------------
(* A string cut in two.                                                    *)

LEMMA CutProps ==
  ASSUME NEW s \in Seq(Byte), NEW k \in 0 .. Len(s)
  PROVE  /\ SubSeq(s, 1, k) \in Seq(Byte) /\ Len(SubSeq(s, 1, k)) = k
         /\ SubSeq(s, k + 1, Len(s)) \in Seq(Byte)
         /\ Len(SubSeq(s, k + 1, Len(s))) = Len(s) - k
         /\ \A i \in 1 .. Len(s) - k : SubSeq(s, k + 1, Len(s))[i] = s[k + i]
         /\ SubSeq(s, 1, k) \o SubSeq(s, k + 1, Len(s)) = s
  <1>1. Len(s) \in Nat /\ k \in Nat /\ k <= Len(s)
    BY LenProperties
  <1>2. SubSeq(s, 1, k) \in Seq(Byte) /\ Len(SubSeq(s, 1, k)) = k
    OBVIOUS
  <1>3. /\ SubSeq(s, k + 1, Len(s)) \in Seq(Byte)
        /\ Len(SubSeq(s, k + 1, Len(s))) = Len(s) - k
        /\ \A i \in 1 .. Len(s) - k : SubSeq(s, k + 1, Len(s))[i] = s[k + i]
    OBVIOUS
  <1>4. SubSeq(s, 1, k) \o SubSeq(s, k + 1, Len(s)) = s
    <2>1. 1 \in 1 .. Len(s) + 1 /\ k \in 1 - 1 .. Len(s) /\ Len(s) \in k .. Len(s)
      BY <1>1
    <2> QED
      BY <2>1, ConcatAdjacentSubSeq, SubSeqFull, Zenon
  <1> QED
    BY <1>2, <1>3, <1>4

-------------------------------------------------------------------------------
(* insert *)

LEMMA ExtendsSelf ==
  ASSUME NEW r \in Ring
  PROVE  Extends(r, r, << >>)
  BY EndValue DEF Extends

LEMMA ExtendsTwice ==
  ASSUME NEW r \in Ring, NEW r1, NEW r2, NEW s \in Seq(Byte), NEW t \in Seq(Byte),
         Extends(r, r1, s), Extends(r1, r2, t)
  PROVE  Extends(r, r2, s \o t)
  <1>1. /\ s \o t \in Seq(Byte) /\ Len(s \o t) = Len(s) + Len(t)
        /\ Len(s) \in Nat /\ Len(t) \in Nat
        /\ \A i \in 1 .. Len(s) + Len(t) :
             (s \o t)[i] = IF i <= Len(s) THEN s[i] ELSE t[i - Len(s)]
    BY ConcatProperties, LenProperties
  <1>2. /\ r1 \in Ring /\ r2 \in Ring
        /\ r.size_ \in Nat /\ r1.size_ = r.size_ + Len(s)
        /\ r2.size_ = r.size_ + Len(s \o t)
        /\ r1.begin_ = r.begin_ /\ r2.begin_ = r.begin_
    BY <1>1, EndValue DEF Extends
  <1>3. \A i : Slot(r1.begin_, i) = Slot(r.begin_, i)
    BY <1>2 DEF Slot
  <1>4. ASSUME NEW i \in 0 .. r.size_ - 1
        PROVE  r2.data_[Slot(r.begin_, i)] = r.data_[Slot(r.begin_, i)]
    <2>1. i \in 0 .. r1.size_ - 1
      BY <1>1, <1>2
    <2> QED
      BY <1>3, <2>1 DEF Extends
  <1>5. ASSUME NEW i \in 1 .. Len(s \o t)
        PROVE  r2.data_[Slot(r.begin_, r.size_ + i - 1)] = (s \o t)[i]
    <2>1. CASE i <= Len(s)
      <3>1. i \in 1 .. Len(s) /\ r.size_ + i - 1 \in 0 .. r1.size_ - 1
        BY <1>1, <1>2, <2>1
      <3> QED
        BY <1>1, <1>3, <2>1, <3>1 DEF Extends
    <2>2. CASE i > Len(s)
      <3>1. i - Len(s) \in 1 .. Len(t) /\ r1.size_ + (i - Len(s)) - 1 = r.size_ + i - 1
        BY <1>1, <1>2, <2>2
      <3>2. r2.data_[Slot(r1.begin_, r1.size_ + (i - Len(s)) - 1)] = t[i - Len(s)]
        BY <3>1 DEF Extends
      <3> QED
        BY <1>1, <1>3, <2>2, <3>1, <3>2
    <2> QED
      BY <1>1, <2>1, <2>2
  <1> QED
    BY <1>2, <1>4, <1>5 DEF Extends

(* The free cells from end() on are the slots after the last character, and
   they are not the slots of the characters held.                          *)
LEMMA FreeSlots ==
  ASSUME NEW b \in 0 .. N, NEW z \in 0 .. N, NEW e, NEW l \in Nat,
         z + l <= N, e + l <= N,
         e = IF b + z < N THEN b + z
             ELSE IF b + z < 2 * N THEN b + z - N
             ELSE 0
  PROVE  /\ \A i \in 1 .. l : /\ Slot(b, z + i - 1) = e + i - 1
                             /\ e + i - 1 \in Cell
         /\ \A i \in 0 .. z - 1 : /\ Slot(b, i) \notin e .. e + l - 1
                                 /\ Slot(b, i) \in Cell
  BY RingAssumption DEF Slot, Cell

(* A copy that does not pass the last cell of data_.                       *)
LEMMA CopyInExtends ==
  ASSUME NEW r \in Ring, NEW s \in Seq(Byte),
         r.size_ + Len(s) <= N, End(r) + Len(s) <= N
  PROVE  Extends(r, CopyIn(r, s), s)
  <1> DEFINE r2 == CopyIn(r, s)
  <1>1. Len(s) \in Nat /\ \A i \in 1 .. Len(s) : s[i] \in Byte
    BY LenProperties, ElementOfSeq
  <1>2. /\ r2.begin_ = r.begin_
        /\ r2.size_ = r.size_ + Len(s)
        /\ r2.data_ = [c \in Cell |-> IF c \in End(r) .. End(r) + Len(s) - 1
                                      THEN s[c - End(r) + 1] ELSE r.data_[c]]
        /\ r2 = [begin_ |-> r2.begin_, size_ |-> r2.size_, data_ |-> r2.data_]
    <2> DEFINE d == [c \in Cell |-> IF c \in End(r) .. End(r) + Len(s) - 1
                                   THEN s[c - End(r) + 1] ELSE r.data_[c]]
    <2>1. r2 = [r EXCEPT !.size_ = r.size_ + Len(s), !.data_ = d]
      BY Zenon DEF CopyIn
    <2> HIDE DEF d, r2
    <2>2. /\ r2.begin_ = r.begin_ /\ r2.size_ = r.size_ + Len(s) /\ r2.data_ = d
          /\ r2 = [begin_ |-> r2.begin_, size_ |-> r2.size_, data_ |-> r2.data_]
      BY <2>1 DEF Ring
    <2> QED
      BY <2>2, Zenon DEF d
  <1> HIDE DEF r2
  <1>0. /\ N \in Nat /\ r.begin_ \in 0 .. N /\ r.size_ \in 0 .. N
        /\ End(r) = IF r.begin_ + r.size_ < N THEN r.begin_ + r.size_
                    ELSE IF r.begin_ + r.size_ < 2 * N THEN r.begin_ + r.size_ - N
                    ELSE 0
    BY EndValue
  <1>3. r2.data_ \in [Cell -> Byte \cup {Unwritten}]
    <2>1. ASSUME NEW c \in Cell
          PROVE  (IF c \in End(r) .. End(r) + Len(s) - 1
                  THEN s[c - End(r) + 1] ELSE r.data_[c]) \in Byte \cup {Unwritten}
      <3>1. c \in End(r) .. End(r) + Len(s) - 1 => c - End(r) + 1 \in 1 .. Len(s)
        BY <1>1, EndValue DEF Cell
      <3> QED
        BY <1>1, <3>1, EndValue
    <2> QED
      BY <1>2, <2>1
  <1>4. r2.size_ \in 0 .. N
    BY <1>1, <1>2, EndValue
  <1>5. r2 \in Ring
    BY <1>2, <1>3, <1>4, EndValue DEF Ring
  <1>6. ASSUME NEW i \in 0 .. r.size_ - 1
        PROVE  r2.data_[Slot(r.begin_, i)] = r.data_[Slot(r.begin_, i)]
    <2>1. Slot(r.begin_, i) \in Cell /\ Slot(r.begin_, i) \notin End(r) .. End(r) + Len(s) - 1
      BY <1>0, <1>1, FreeSlots
    <2> QED
      BY <1>2, <2>1
  <1>7. ASSUME NEW i \in 1 .. Len(s)
        PROVE  r2.data_[Slot(r.begin_, r.size_ + i - 1)] = s[i]
    <2>1. /\ Slot(r.begin_, r.size_ + i - 1) = End(r) + i - 1
          /\ End(r) + i - 1 \in Cell
          /\ End(r) + i - 1 \in End(r) .. End(r) + Len(s) - 1
          /\ (End(r) + i - 1) - End(r) + 1 = i
      <3>1. /\ Slot(r.begin_, r.size_ + i - 1) = End(r) + i - 1
            /\ End(r) + i - 1 \in Cell
        BY <1>0, <1>1, FreeSlots
      <3> QED
        BY <1>0, <1>1, <3>1
    <2> QED
      BY <1>2, <2>1
  <1> QED
    BY <1>2, <1>5, <1>6, <1>7 DEF Extends, r2
(* Where the free cells are those between end() and begin_, insert writes
   the whole string or nothing.                                            *)
LEMMA InsertBehindResult ==
  ASSUME NEW r \in Ring, NEW s \in Seq(Byte),
         r.size_ = N \/ r.begin_ - End(r) = N - r.size_
  PROVE  /\ r.size_ + Len(s) <= N => /\ ~InsertBehind(r, s).threw
                                     /\ Extends(r, InsertBehind(r, s).ring, s)
         /\ r.size_ + Len(s) > N => /\ InsertBehind(r, s).threw
                                    /\ InsertBehind(r, s).ring = r
  <1>1. /\ N \in Nat /\ r.begin_ \in 0 .. N /\ r.size_ \in 0 .. N /\ End(r) \in Nat
        /\ Len(s) \in Nat
    BY EndValue, LenProperties DEF Cell
  <1>2. CASE r.size_ = N /\ s = << >>
    <2>1. Len(s) = 0
      BY <1>2
    <2>2. InsertBehind(r, s) = Done(r)
      BY <1>2 DEF InsertBehind
    <2> QED
      BY <1>1, <1>2, <2>1, <2>2, ExtendsSelf DEF Done
  <1>3. CASE r.size_ = N /\ s # << >>
    <2>1. Len(s) > 0
      BY <1>1, <1>3, EmptySeq
    <2>2. InsertBehind(r, s) = Thrown(r)
      BY <1>3 DEF InsertBehind
    <2> QED
      BY <1>1, <1>3, <2>1, <2>2 DEF Thrown
  <1>4. CASE r.size_ # N /\ r.size_ + Len(s) <= N
    <2>1. ~(Len(s) > r.begin_ - End(r)) /\ End(r) + Len(s) <= N
      BY <1>1, <1>4
    <2>2. InsertBehind(r, s) = Done(CopyIn(r, s))
      BY <1>4, <2>1 DEF InsertBehind
    <2> QED
      BY <1>1, <1>4, <2>1, <2>2, CopyInExtends DEF Done
  <1>5. CASE r.size_ # N /\ r.size_ + Len(s) > N
    <2>1. Len(s) > r.begin_ - End(r)
      BY <1>1, <1>5
    <2>2. InsertBehind(r, s) = Thrown(r)
      BY <1>5, <2>1 DEF InsertBehind
    <2> QED
      BY <1>1, <1>5, <2>2 DEF Thrown
  <1> QED
    BY <1>1, <1>2, <1>3, <1>4, <1>5

(* insert of any string into any buffer: it is stored whole when it fits; if
   not, insert throws, having stored a proper prefix of it.                *)
LEMMA InsertResult ==
  ASSUME NEW r \in Ring, NEW s \in Seq(Byte)
  PROVE  /\ r.size_ + Len(s) <= N => /\ ~InsertInto(r, s).threw
                                     /\ Extends(r, InsertInto(r, s).ring, s)
         /\ r.size_ + Len(s) > N =>
              /\ InsertInto(r, s).threw
              /\ \E k \in 0 .. Len(s) - 1 :
                   Extends(r, InsertInto(r, s).ring, SubSeq(s, 1, k))
              /\ (r.size_ = N => r.begin_ = 0) =>
                   WellFormed(InsertInto(r, s).ring)
  <1>1. /\ N \in Nat /\ r.begin_ \in 0 .. N /\ r.size_ \in 0 .. N /\ Len(s) \in Nat
        /\ End(r) = IF r.begin_ + r.size_ < N THEN r.begin_ + r.size_
                    ELSE IF r.begin_ + r.size_ < 2 * N THEN r.begin_ + r.size_ - N
                    ELSE 0
        /\ End(r) \in 0 .. N - 1
    BY EndValue, LenProperties DEF Cell
  <1>2. CASE ~(r.size_ # N /\ r.begin_ <= End(r))
    <2>1. InsertInto(r, s) = InsertBehind(r, s)
      BY <1>2 DEF InsertInto
    <2>2. r.size_ = N \/ r.begin_ - End(r) = N - r.size_
      BY <1>1, <1>2
    <2>3. r.size_ + Len(s) > N => 0 \in 0 .. Len(s) - 1 /\ SubSeq(s, 1, 0) = << >>
      BY <1>1
    <2>4. r.size_ + Len(s) <= N => /\ ~InsertInto(r, s).threw
                                  /\ Extends(r, InsertInto(r, s).ring, s)
      BY <2>1, <2>2, InsertBehindResult
    <2>5. r.size_ + Len(s) > N => InsertInto(r, s).threw /\ InsertInto(r, s).ring = r
      BY <2>1, <2>2, InsertBehindResult
    <2> QED
      BY <2>3, <2>4, <2>5, ExtendsSelf DEF WellFormed
  <1>3. CASE r.size_ # N /\ r.begin_ <= End(r)
    <2> DEFINE room == N - End(r)
               s1 == SubSeq(s, 1, room)
               s2 == SubSeq(s, room + 1, Len(s))
               r1 == CopyIn(r, s1)
    <2>1. /\ End(r) = r.begin_ + r.size_ /\ r.begin_ + r.size_ < N
          /\ room \in 1 .. N /\ room = N - r.begin_ - r.size_
      BY <1>1, <1>3
    <2>2. CASE Len(s) <= room
      <3>1. InsertInto(r, s) = Done(CopyIn(r, s))
        BY <1>3, <2>2 DEF InsertInto
      <3>2. r.size_ + Len(s) <= N /\ End(r) + Len(s) <= N
        BY <1>1, <2>1, <2>2
      <3> QED
        BY <1>1, <3>1, <3>2, CopyInExtends DEF Done
    <2>3. CASE Len(s) > room
      <3>1. InsertInto(r, s) = InsertBehind(r1, s2)
        BY <1>1, <1>3, <2>1, <2>3 DEF InsertInto
      <3>2. /\ s1 \in Seq(Byte) /\ Len(s1) = room
            /\ s2 \in Seq(Byte) /\ Len(s2) = Len(s) - room
            /\ s1 \o s2 = s
        <4>1. room \in 0 .. Len(s)
          BY <1>1, <2>1, <2>3
        <4> HIDE DEF room
        <4> QED
          BY <4>1, CutProps
      <3>5. Extends(r, r1, s1)
        <4> HIDE DEF room, s1, s2
        <4>1. r.size_ + Len(s1) <= N /\ End(r) + Len(s1) <= N
          <5>1. Len(s1) = N - r.begin_ - r.size_ /\ End(r) = r.begin_ + r.size_
            BY <2>1, <3>2
          <5> QED
            BY <1>1, <5>1
        <4> QED
          BY <3>2, <4>1, CopyInExtends
      <3> HIDE DEF room, s1, s2, r1
      <3>6. /\ r1 \in Ring /\ r1.begin_ = r.begin_ /\ r1.size_ = N - r.begin_
            /\ End(r1) = 0
        <4>1. r1 \in Ring /\ r1.begin_ = r.begin_ /\ r1.size_ = N - r.begin_
          BY <1>1, <2>1, <3>2, <3>5 DEF Extends
        <4> QED
          BY <1>1, <2>1, <4>1, EndValue
      <3>7. r1.begin_ - End(r1) = N - r1.size_
        BY <1>1, <3>6
      <3>8. ASSUME r.size_ + Len(s) <= N
            PROVE  /\ ~InsertInto(r, s).threw
                   /\ Extends(r, InsertInto(r, s).ring, s)
        <4>1. r1.size_ + Len(s2) <= N
          <5>1. r1.size_ = N - r.begin_ /\ Len(s2) = Len(s) - room
            BY <3>2, <3>6
          <5> QED
            BY <1>1, <2>1, <3>8, <5>1
        <4>2. ~InsertInto(r, s).threw /\ Extends(r1, InsertInto(r, s).ring, s2)
          BY <3>1, <3>2, <3>6, <3>7, <4>1, InsertBehindResult
        <4> QED
          BY <3>2, <3>5, <4>2, ExtendsTwice
      <3>9. ASSUME r.size_ + Len(s) > N
            PROVE  /\ InsertInto(r, s).threw
                   /\ \E k \in 0 .. Len(s) - 1 :
                        Extends(r, InsertInto(r, s).ring, SubSeq(s, 1, k))
                   /\ WellFormed(InsertInto(r, s).ring)
        <4>1. r1.size_ + Len(s2) > N
          <5>1. r1.size_ = N - r.begin_ /\ Len(s2) = Len(s) - room
            BY <3>2, <3>6
          <5> QED
            BY <1>1, <2>1, <3>9, <5>1
        <4>2. InsertInto(r, s).threw /\ InsertInto(r, s).ring = r1
          BY <3>1, <3>2, <3>6, <3>7, <4>1, InsertBehindResult
        <4>3. room \in 0 .. Len(s) - 1 /\ (r1.size_ = N => r1.begin_ = 0)
          BY <1>1, <2>1, <2>3, <3>6
        <4> QED
          BY <3>5, <3>6, <4>2, <4>3 DEF WellFormed, s1
      <3> QED
        BY <1>1, <3>8, <3>9
    <2> QED
      BY <1>1, <2>1, <2>2, <2>3
  <1> QED
    BY <1>2, <1>3

(* Inserting a string that is stored whole appends it to what peek returns. *)
LEMMA ExtendsPeek ==
  ASSUME NEW r, NEW r2, NEW s \in Seq(Byte),
         WellFormed(r), Stored(r), Extends(r, r2, s), r2.size_ = N => r2.begin_ = 0
  PROVE  WellFormed(r2) /\ Stored(r2) /\ Peek(r2) = Peek(r) \o s
  <1>1. /\ r \in Ring /\ r2 \in Ring
        /\ r.size_ \in Nat /\ Len(s) \in Nat /\ \A i \in 1 .. Len(s) : s[i] \in Byte
        /\ r2.begin_ = r.begin_ /\ r2.size_ = r.size_ + Len(s)
    BY EndValue, LenProperties, ElementOfSeq DEF WellFormed, Extends
  <1>2. ASSUME NEW i \in 0 .. r2.size_ - 1
        PROVE  r2.data_[Slot(r.begin_, i)] =
                 IF i < r.size_ THEN r.data_[Slot(r.begin_, i)] ELSE s[i - r.size_ + 1]
    <2>1. CASE i < r.size_
      <3>1. i \in 0 .. r.size_ - 1
        BY <1>1, <2>1
      <3> QED
        BY <2>1, <3>1 DEF Extends
    <2>2. CASE ~(i < r.size_)
      <3>1. i - r.size_ + 1 \in 1 .. Len(s) /\ r.size_ + (i - r.size_ + 1) - 1 = i
        BY <1>1, <2>2
      <3>2. r2.data_[Slot(r.begin_, r.size_ + (i - r.size_ + 1) - 1)] = s[i - r.size_ + 1]
        BY <3>1 DEF Extends
      <3> QED
        BY <2>2, <3>1, <3>2
    <2> QED
      BY <2>1, <2>2
  <1>3. WellFormed(r2) /\ Stored(r2)
    <2>1. ASSUME NEW i \in 0 .. r2.size_ - 1
          PROVE  r2.data_[Slot(r.begin_, i)] \in Byte
      <3>1. /\ i < r.size_ => i \in 0 .. r.size_ - 1
            /\ ~(i < r.size_) => i - r.size_ + 1 \in 1 .. Len(s)
        BY <1>1
      <3> QED
        BY <1>1, <1>2, <3>1 DEF Stored
    <2> QED
      BY <1>1, <2>1 DEF WellFormed, Stored
  <1>4. /\ Peek(r) \in Seq(Byte) /\ Len(Peek(r)) = r.size_
        /\ \A i \in 1 .. r.size_ : Peek(r)[i] = r.data_[Slot(r.begin_, i - 1)]
    BY PeekProps
  <1>5. /\ Peek(r2) \in Seq(Byte) /\ Len(Peek(r2)) = r2.size_
        /\ \A i \in 1 .. r2.size_ : Peek(r2)[i] = r2.data_[Slot(r.begin_, i - 1)]
    BY <1>1, <1>3, PeekProps
  <1>6. /\ Peek(r) \o s \in Seq(Byte) /\ Len(Peek(r) \o s) = r2.size_
        /\ \A i \in 1 .. r2.size_ :
             (Peek(r) \o s)[i] = IF i <= r.size_ THEN Peek(r)[i] ELSE s[i - r.size_]
    <2>1. /\ Peek(r) \o s \in Seq(Byte)
          /\ Len(Peek(r) \o s) = Len(Peek(r)) + Len(s)
          /\ \A i \in 1 .. Len(Peek(r)) + Len(s) :
               (Peek(r) \o s)[i] =
                 IF i <= Len(Peek(r)) THEN Peek(r)[i] ELSE s[i - Len(Peek(r))]
      BY <1>4, ConcatProperties, Zenon
    <2> QED
      BY <1>1, <1>4, <2>1, Zenon
  <1>7. ASSUME NEW i \in 1 .. r2.size_
        PROVE  Peek(r2)[i] = (Peek(r) \o s)[i]
    <2>1. /\ i - 1 \in 0 .. r2.size_ - 1 /\ (i - 1) - r.size_ + 1 = i - r.size_
          /\ i - 1 < r.size_ <=> i <= r.size_
          /\ i <= r.size_ => i \in 1 .. r.size_
      BY <1>1
    <2>2. Peek(r2)[i] = IF i - 1 < r.size_ THEN r.data_[Slot(r.begin_, i - 1)]
                        ELSE s[(i - 1) - r.size_ + 1]
      BY <1>2, <1>5, <2>1
    <2> QED
      BY <1>4, <1>6, <2>1, <2>2
  <1> QED
    BY <1>3, <1>5, <1>6, <1>7, SeqEqual

-------------------------------------------------------------------------------
(* discard *)

(* r2 holds what r holds, without its first n characters.                  *)
Drops(r, r2, n) ==
  /\ r2 \in Ring
  /\ r2.size_ = r.size_ - n
  /\ r2.data_ = r.data_
  /\ \A i \in 0 .. r.size_ - n - 1 : Slot(r2.begin_, i) = Slot(r.begin_, i + n)

LEMMA UpdateDrops ==
  ASSUME NEW r \in Ring, NEW n \in Nat, NEW b \in 0 .. N, NEW z \in 0 .. N,
         z = r.size_ - n, z = N => b = 0,
         \A i \in 0 .. z - 1 : Slot(b, i) = Slot(r.begin_, i + n)
  PROVE  /\ WellFormed([r EXCEPT !.begin_ = b, !.size_ = z])
         /\ Drops(r, [r EXCEPT !.begin_ = b, !.size_ = z], n)
  <1> DEFINE r2 == [r EXCEPT !.begin_ = b, !.size_ = z]
  <1>1. r2 \in Ring /\ r2.begin_ = b /\ r2.size_ = z /\ r2.data_ = r.data_
    BY DEF Ring
  <1> HIDE DEF r2
  <1>2. WellFormed(r2) /\ Drops(r, r2, n)
    BY <1>1, Zenon DEF WellFormed, Drops
  <1> QED
    BY <1>2 DEF r2

LEMMA DiscardResult ==
  ASSUME NEW r, WellFormed(r), NEW n \in Nat
  PROVE  /\ n <= r.size_ => /\ ~DiscardFrom(r, n).threw
                            /\ WellFormed(DiscardFrom(r, n).ring)
                            /\ Drops(r, DiscardFrom(r, n).ring, n)
         /\ n > r.size_ => DiscardFrom(r, n).threw /\ DiscardFrom(r, n).ring = r
  <1>1. /\ r \in Ring /\ (r.size_ = N => r.begin_ = 0)
        /\ N \in Nat \ {0} /\ r.begin_ \in 0 .. N /\ r.size_ \in 0 .. N
        /\ End(r) = IF r.begin_ + r.size_ < N THEN r.begin_ + r.size_
                    ELSE IF r.begin_ + r.size_ < 2 * N THEN r.begin_ + r.size_ - N
                    ELSE 0
    BY EndValue DEF WellFormed
  <1>2. CASE n > r.size_
    <2>1. DiscardFrom(r, n) = Thrown(r)
      BY <1>2 DEF DiscardFrom
    <2> QED
      BY <1>1, <1>2, <2>1 DEF Thrown
  <1>3. CASE n <= r.size_ /\ r.begin_ <= End(r)
    <2> DEFINE b == IF r.begin_ + n >= N THEN 0 ELSE r.begin_ + n
               r2 == [r EXCEPT !.begin_ = b, !.size_ = r.size_ - n]
    <2>1. DiscardFrom(r, n) = Done(r2)
      BY <1>1, <1>3 DEF DiscardFrom, Advance
    <2>2. /\ b \in 0 .. N /\ r.size_ - n \in 0 .. N
          /\ r.size_ - n = N => b = 0
          /\ \A i \in 0 .. r.size_ - n - 1 : Slot(b, i) = Slot(r.begin_, i + n)
      BY <1>1, <1>3 DEF Slot
    <2> HIDE DEF b
    <2>4. WellFormed(r2) /\ Drops(r, r2, n)
      BY <1>1, <2>2, UpdateDrops
    <2> HIDE DEF r2
    <2>5. ~DiscardFrom(r, n).threw /\ DiscardFrom(r, n).ring = r2
      BY <2>1 DEF Done
    <2> QED
      BY <1>1, <1>3, <2>4, <2>5
  <1>4. CASE n <= r.size_ /\ ~(r.begin_ <= End(r)) /\ n <= N - r.begin_
    <2> DEFINE b == r.begin_ + n
               r2 == [r EXCEPT !.begin_ = b, !.size_ = r.size_ - n]
    <2>1. DiscardFrom(r, n) = Done(r2)
      BY <1>1, <1>4 DEF DiscardFrom
    <2>2. /\ b \in 0 .. N /\ r.size_ - n \in 0 .. N
          /\ r.size_ - n = N => b = 0
          /\ \A i \in 0 .. r.size_ - n - 1 : Slot(b, i) = Slot(r.begin_, i + n)
      BY <1>1, <1>4 DEF Slot
    <2> HIDE DEF b
    <2>4. WellFormed(r2) /\ Drops(r, r2, n)
      BY <1>1, <2>2, UpdateDrops
    <2> HIDE DEF r2
    <2>5. ~DiscardFrom(r, n).threw /\ DiscardFrom(r, n).ring = r2
      BY <2>1 DEF Done
    <2> QED
      BY <1>1, <1>4, <2>4, <2>5
  <1>5. CASE n <= r.size_ /\ ~(r.begin_ <= End(r)) /\ ~(n <= N - r.begin_)
    <2> DEFINE b == n - (N - r.begin_)
               r2 == [r EXCEPT !.begin_ = b, !.size_ = r.size_ - n]
    <2>1. ~(0 + b >= N) /\ 0 + b = b /\ (r.size_ - (N - r.begin_)) - b = r.size_ - n
      BY <1>1, <1>5
    <2>2. DiscardFrom(r, n) = Done(r2)
      <3> DEFINE tail == N - r.begin_
                 r1 == [r EXCEPT !.begin_ = 0, !.size_ = r.size_ - tail]
      <3>1. DiscardFrom(r, n) = Done(Advance(r1, n - tail))
        <4>1. ~(n > r.size_)
          BY <1>1, <1>5
        <4> QED
          BY <1>5, <4>1, Zenon DEF DiscardFrom
      <3>2. r1.begin_ = 0 /\ r1.size_ = r.size_ - tail
        BY <1>1 DEF Ring
      <3>3. Advance(r1, b) = [r1 EXCEPT !.begin_ = b, !.size_ = r.size_ - n]
        BY <2>1, <3>2, Zenon DEF Advance
      <3>4. [r1 EXCEPT !.begin_ = b, !.size_ = r.size_ - n] = r2
        BY <1>1 DEF Ring
      <3> QED
        BY <3>1, <3>3, <3>4
    <2>3. /\ b \in 0 .. N /\ r.size_ - n \in 0 .. N
          /\ r.size_ - n = N => b = 0
          /\ \A i \in 0 .. r.size_ - n - 1 : Slot(b, i) = Slot(r.begin_, i + n)
      BY <1>1, <1>5 DEF Slot
    <2> HIDE DEF b
    <2>4. WellFormed(r2) /\ Drops(r, r2, n)
      BY <1>1, <2>3, UpdateDrops
    <2> HIDE DEF r2
    <2>5. ~DiscardFrom(r, n).threw /\ DiscardFrom(r, n).ring = r2
      BY <2>2 DEF Done
    <2> QED
      BY <1>1, <1>5, <2>4, <2>5
  <1> QED
    BY <1>1, <1>2, <1>3, <1>4, <1>5

LEMMA DropsPeek ==
  ASSUME NEW r, NEW r2, NEW n \in 0 .. r.size_,
         WellFormed(r), Stored(r), WellFormed(r2), Drops(r, r2, n)
  PROVE  /\ Stored(r2)
         /\ Peek(r2) = SubSeq(Peek(r), n + 1, Len(Peek(r)))
  <1>1. /\ r.size_ \in Nat /\ n \in 0 .. r.size_ /\ r2.size_ = r.size_ - n
        /\ r2.data_ = r.data_
    BY EndValue DEF WellFormed, Drops
  <1>2. \A i \in 0 .. r2.size_ - 1 : /\ Slot(r2.begin_, i) = Slot(r.begin_, i + n)
                                    /\ i + n \in 0 .. r.size_ - 1
    BY <1>1 DEF Drops
  <1>3. Stored(r2)
    BY <1>1, <1>2 DEF Stored
  <1>4. /\ Peek(r) \in Seq(Byte) /\ Len(Peek(r)) = r.size_
        /\ \A i \in 1 .. r.size_ : Peek(r)[i] = r.data_[Slot(r.begin_, i - 1)]
    BY PeekProps
  <1>5. /\ Peek(r2) \in Seq(Byte) /\ Len(Peek(r2)) = r2.size_
        /\ \A i \in 1 .. r2.size_ : Peek(r2)[i] = r2.data_[Slot(r2.begin_, i - 1)]
    BY <1>3, PeekProps
  <1> DEFINE s == Peek(r)
             rest == SubSeq(s, n + 1, Len(s))
  <1>6. /\ rest \in Seq(Byte) /\ Len(rest) = r.size_ - n
        /\ \A i \in 1 .. r.size_ - n : rest[i] = s[n + i]
    <2> HIDE DEF s
    <2>1. s \in Seq(Byte) /\ n \in 0 .. Len(s) /\ Len(s) = r.size_
      BY <1>1, <1>4 DEF s
    <2>2. /\ rest \in Seq(Byte) /\ Len(rest) = Len(s) - n
          /\ \A i \in 1 .. Len(s) - n : rest[i] = s[n + i]
      BY <2>1, CutProps
    <2> QED
      BY <2>1, <2>2
  <1> HIDE DEF rest
  <1>7. ASSUME NEW i \in 1 .. r2.size_
        PROVE  Peek(r2)[i] = rest[i]
    <2>1. /\ i - 1 \in 0 .. r2.size_ - 1 /\ n + i \in 1 .. r.size_
          /\ (i - 1) + n = (n + i) - 1 /\ i \in 1 .. r.size_ - n
      BY <1>1
    <2> QED
      BY <1>1, <1>2, <1>4, <1>5, <1>6, <2>1
  <1>8. Peek(r2) = rest
    BY <1>1, <1>5, <1>6, <1>7, SeqEqual
  <1> QED
    BY <1>3, <1>8 DEF rest

(* Of a buffer in any layout, the full ones that WellFormed excludes
   included, only the ranges of the members are certain.                   *)
LEMMA DiscardInRing ==
  ASSUME NEW r \in Ring, NEW n \in Nat
  PROVE  /\ DiscardFrom(r, n).ring \in Ring
         /\ DiscardFrom(r, n).threw <=> n > r.size_
  <1>1. /\ N \in Nat \ {0} /\ r.begin_ \in 0 .. N /\ r.size_ \in 0 .. N
        /\ End(r) \in 0 .. N - 1
        /\ End(r) = IF r.begin_ + r.size_ < N THEN r.begin_ + r.size_
                    ELSE IF r.begin_ + r.size_ < 2 * N THEN r.begin_ + r.size_ - N
                    ELSE 0
    BY EndValue DEF Cell
  <1>2. ASSUME NEW q \in Ring, NEW b \in 0 .. N, NEW z \in 0 .. N
        PROVE  [q EXCEPT !.begin_ = b, !.size_ = z] \in Ring
    BY DEF Ring
  <1>3. ASSUME NEW q \in Ring, NEW m \in Nat, m <= q.size_
        PROVE  Advance(q, m) \in Ring
    <2> DEFINE b == IF q.begin_ + m >= N THEN 0 ELSE q.begin_ + m
    <2>1. q.begin_ \in 0 .. N /\ q.size_ \in 0 .. N
      BY DEF Ring
    <2>2. b \in 0 .. N /\ q.size_ - m \in 0 .. N
      BY <1>1, <1>3, <2>1
    <2>3. Advance(q, m) = [q EXCEPT !.begin_ = b, !.size_ = q.size_ - m]
      BY Zenon DEF Advance
    <2> QED
      BY <1>2, <2>2, <2>3
  <1>4. CASE n > r.size_
    BY <1>4 DEF DiscardFrom, Thrown
  <1>5. CASE ~(n > r.size_) /\ r.begin_ <= End(r)
    <2>1. DiscardFrom(r, n) = Done(Advance(r, n))
      BY <1>5, Zenon DEF DiscardFrom
    <2> QED
      BY <1>1, <1>3, <1>5, <2>1 DEF Done
  <1>6. CASE ~(n > r.size_) /\ ~(r.begin_ <= End(r)) /\ n <= N - r.begin_
    <2> DEFINE r2 == [r EXCEPT !.begin_ = r.begin_ + n, !.size_ = r.size_ - n]
    <2>1. DiscardFrom(r, n) = Done(r2)
      BY <1>6, Zenon DEF DiscardFrom
    <2>2. r.begin_ + n \in 0 .. N /\ r.size_ - n \in 0 .. N
      BY <1>1, <1>6
    <2>3. r2 \in Ring
      BY <1>2, <2>2
    <2> HIDE DEF r2
    <2> QED
      BY <1>6, <2>1, <2>3 DEF Done
  <1>7. CASE ~(n > r.size_) /\ ~(r.begin_ <= End(r)) /\ ~(n <= N - r.begin_)
    <2> DEFINE tail == N - r.begin_
               r1 == [r EXCEPT !.begin_ = 0, !.size_ = r.size_ - tail]
    <2>1. DiscardFrom(r, n) = Done(Advance(r1, n - tail))
      BY <1>7, Zenon DEF DiscardFrom
    <2>2. 0 \in 0 .. N /\ r.size_ - tail \in 0 .. N /\ n - tail \in Nat
          /\ n - tail <= r.size_ - tail
      BY <1>1, <1>7
    <2>3. r1 \in Ring /\ r1.size_ = r.size_ - tail
      BY <1>2, <2>2 DEF Ring
    <2> HIDE DEF r1, tail
    <2>4. Advance(r1, n - tail) \in Ring
      BY <1>3, <2>2, <2>3
    <2> QED
      BY <1>7, <2>1, <2>4 DEF Done
  <1> QED
    BY <1>4, <1>5, <1>6, <1>7

LEMMA EmptyRingProps ==
  WellFormed(EmptyRing) /\ Stored(EmptyRing) /\ Peek(EmptyRing) = << >>
  <1>1. EmptyRing \in Ring /\ EmptyRing.begin_ = 0 /\ EmptyRing.size_ = 0
    BY RingAssumption DEF EmptyRing, Ring
  <1> QED
    BY <1>1 DEF WellFormed, Stored, Peek

-------------------------------------------------------------------------------
(* A buffer in any layout, full or not: what peek returns has been written. *)

LEMMA FullIsWritten ==
  ASSUME NEW r \in Ring, Stored(r), r.size_ = N
  PROVE  \A c \in Cell : r.data_[c] \in Byte
  <1> SUFFICES ASSUME NEW c \in Cell PROVE r.data_[c] \in Byte
    OBVIOUS
  <1>1. N \in Nat /\ r.begin_ \in 0 .. N /\ c \in 0 .. N - 1
    BY EndValue DEF Cell
  <1> DEFINE i == IF c < r.begin_ THEN c + N - r.begin_ ELSE c - r.begin_
  <1>2. i \in 0 .. N - 1 /\ Slot(r.begin_, i) = c
    BY <1>1 DEF Slot
  <1> HIDE DEF i
  <1> QED
    BY <1>2 DEF Stored

LEMMA PeekWritten ==
  ASSUME NEW r \in Ring, Stored(r)
  PROVE  Peek(r) \in Seq(Byte)
  <1>1. CASE r.size_ # N
    BY <1>1, PeekProps DEF WellFormed
  <1>2. CASE r.size_ = N
    <2>1. /\ N \in Nat /\ N > 0 /\ r.begin_ \in 0 .. N
          /\ End(r) = IF r.begin_ < N THEN r.begin_ ELSE 0
      BY <1>2, EndValue
    <2>2. \A c \in 0 .. N - 1 : r.data_[c] \in Byte
      BY <1>2, FullIsWritten DEF Cell
    <2>3. Slice(r, r.begin_, N - r.begin_) \in Seq(Byte)
      <3> DEFINE k == N - r.begin_
      <3>1. r.begin_ \in Nat /\ k \in Nat /\ r.begin_ + k <= N
        BY <2>1
      <3>2. \A i \in 1 .. k : r.data_[r.begin_ + i - 1] \in Byte
        BY <2>1, <2>2
      <3> HIDE DEF k
      <3>3. Slice(r, r.begin_, k) \in Seq(Byte)
        BY <3>1, <3>2, SliceProps
      <3> QED
        BY <3>3 DEF k
    <2>5. Slice(r, 0, End(r)) \in Seq(Byte)
      <3>1. 0 \in Nat /\ End(r) \in Nat /\ 0 + End(r) <= N
        BY <2>1
      <3>2. \A i \in 1 .. End(r) : r.data_[0 + i - 1] \in Byte
        BY <2>1, <2>2
      <3> QED
        BY <3>1, <3>2, SliceProps
    <2>4. Peek(r) = Slice(r, r.begin_, N - r.begin_) \o Slice(r, 0, End(r))
      <3>1. r.size_ # 0 /\ ~(r.begin_ < End(r))
        BY <1>2, <2>1
      <3> QED
        BY <3>1, Zenon DEF Peek
    <2> QED
      BY <2>3, <2>4, <2>5, ConcatProperties
  <1> QED
    BY <1>1, <1>2

LEMMA ExtendsStored ==
  ASSUME NEW r \in Ring, NEW r2, NEW s \in Seq(Byte), Stored(r), Extends(r, r2, s)
  PROVE  r2 \in Ring /\ Stored(r2)
  <1>2. /\ Len(s) \in Nat /\ r.size_ \in Nat /\ \A i \in 1 .. Len(s) : s[i] \in Byte
        /\ r2 \in Ring /\ r2.size_ = r.size_ + Len(s) /\ r2.begin_ = r.begin_
        /\ \A i \in 0 .. r.size_ - 1 : r2.data_[Slot(r.begin_, i)] = r.data_[Slot(r.begin_, i)]
        /\ \A i \in 1 .. Len(s) : r2.data_[Slot(r.begin_, r.size_ + i - 1)] = s[i]
    BY LenProperties, ElementOfSeq, EndValue DEF Extends
  <1>3. ASSUME NEW i \in 0 .. r2.size_ - 1
        PROVE  r2.data_[Slot(r2.begin_, i)] \in Byte
    <2>1. CASE i < r.size_
      <3>1. i \in 0 .. r.size_ - 1
        BY <1>2, <2>1
      <3>2. r.data_[Slot(r.begin_, i)] \in Byte
        BY <3>1 DEF Stored
      <3> QED
        BY <1>2, <3>1, <3>2
    <2>2. CASE i >= r.size_
      <3>1. i - r.size_ + 1 \in 1 .. Len(s) /\ r.size_ + (i - r.size_ + 1) - 1 = i
        BY <1>2, <2>2
      <3> QED
        BY <1>2, <3>1
    <2> QED
      BY <1>2, <2>1, <2>2
  <1> QED
    BY <1>2, <1>3 DEF Stored

LEMMA InsertStored ==
  ASSUME NEW r \in Ring, Stored(r), NEW s \in Seq(Byte)
  PROVE  /\ r.size_ + Len(s) <= N => ~InsertInto(r, s).threw
         /\ InsertInto(r, s).ring \in Ring /\ Stored(InsertInto(r, s).ring)
  <1>1. r.size_ \in Nat /\ Len(s) \in Nat /\ N \in Nat
    BY LenProperties, EndValue
  <1>2. CASE r.size_ + Len(s) <= N
    BY <1>2, InsertResult, ExtendsStored
  <1>3. CASE r.size_ + Len(s) > N
    <2> DEFINE r2 == InsertInto(r, s).ring
    <2>1. PICK k \in 0 .. Len(s) - 1 : Extends(r, r2, SubSeq(s, 1, k))
      BY <1>3, InsertResult
    <2> DEFINE t == SubSeq(s, 1, k)
    <2>2. t \in Seq(Byte)
      BY <1>1, CutProps
    <2>3. Extends(r, r2, t)
      BY <2>1
    <2> HIDE DEF r2, t
    <2>4. r2 \in Ring /\ Stored(r2)
      BY <2>2, <2>3, ExtendsStored
    <2>5. ~(r.size_ + Len(s) <= N)
      BY <1>1, <1>3
    <2> QED
      BY <2>4, <2>5 DEF r2
  <1> QED
    BY <1>1, <1>2, <1>3

LEMMA DiscardKeepsData ==
  ASSUME NEW r \in Ring, NEW n \in Nat
  PROVE  DiscardFrom(r, n).ring.data_ = r.data_
  BY DEF DiscardFrom, Advance, Done, Thrown, Ring

LEMMA DiscardStored ==
  ASSUME NEW r \in Ring, Stored(r), NEW n \in Nat
  PROVE  DiscardFrom(r, n).ring \in Ring /\ Stored(DiscardFrom(r, n).ring)
  <1> DEFINE r2 == DiscardFrom(r, n).ring
  <1>1. r2 \in Ring
    BY DiscardInRing
  <1>2. r.size_ \in 0 .. N /\ N \in Nat
    BY EndValue
  <1>3. CASE n > r.size_
    BY <1>3 DEF DiscardFrom, Thrown
  <1>4. CASE n <= r.size_ /\ r.size_ = N
    <2>1. \A c \in Cell : r2.data_[c] \in Byte
      BY <1>4, FullIsWritten, DiscardKeepsData
    <2>2. r2.size_ \in 0 .. N
      BY <1>1, EndValue
    <2>3. \A i \in 0 .. r2.size_ - 1 : Slot(r2.begin_, i) \in Cell
      BY <1>1, <1>2, <2>2, SlotRange
    <2> QED
      BY <1>1, <2>1, <2>3 DEF Stored
  <1>5. CASE n <= r.size_ /\ r.size_ # N
    <2>1. WellFormed(r) /\ n \in 0 .. r.size_
      BY <1>2, <1>5 DEF WellFormed
    <2>2. WellFormed(r2) /\ Drops(r, r2, n)
      BY <1>5, <2>1, DiscardResult
    <2> QED
      BY <1>1, <2>1, <2>2, DropsPeek
  <1> QED
    BY <1>2, <1>3, <1>4, <1>5

-------------------------------------------------------------------------------
(* A buffer in any layout: sizes.  They make the loop of push_data end.     *)

LEMMA DiscardShrinks ==
  ASSUME NEW r \in Ring, NEW n \in Nat, n <= r.size_
  PROVE  DiscardFrom(r, n).ring.size_ = r.size_ - n
  <1>1. /\ N \in Nat /\ r.begin_ \in 0 .. N /\ r.size_ \in 0 .. N
    BY EndValue
  <1>2. ASSUME NEW q, NEW m, DOMAIN q = {"begin_", "size_", "data_"}
        PROVE  Advance(q, m).size_ = q.size_ - m
    BY <1>2 DEF Advance
  <1>3. DOMAIN r = {"begin_", "size_", "data_"}
    BY DEF Ring
  <1>4. CASE r.begin_ <= End(r)
    <2>1. DiscardFrom(r, n) = Done(Advance(r, n))
      BY <1>1, <1>4 DEF DiscardFrom
    <2> QED
      BY <1>2, <1>3, <2>1 DEF Done
  <1>5. CASE ~(r.begin_ <= End(r)) /\ n <= N - r.begin_
    BY <1>1, <1>3, <1>5 DEF DiscardFrom, Done
  <1>6. CASE ~(r.begin_ <= End(r)) /\ ~(n <= N - r.begin_)
    <2> DEFINE tail == N - r.begin_
               r1 == [r EXCEPT !.begin_ = 0, !.size_ = @ - tail]
    <2>1. DiscardFrom(r, n) = Done(Advance(r1, n - tail))
      BY <1>1, <1>6 DEF DiscardFrom
    <2>2. DOMAIN r1 = {"begin_", "size_", "data_"} /\ r1.size_ = r.size_ - tail
      BY <1>3
    <2> HIDE DEF r1
    <2>3. Advance(r1, n - tail).size_ = r.size_ - tail - (n - tail)
      BY <1>2, <2>2
    <2> QED
      BY <1>1, <2>1, <2>3 DEF Done
  <1> QED
    BY <1>4, <1>5, <1>6

\* peek never returns more than size_ characters (in one layout it returns fewer).
LEMMA PeekBound ==
  ASSUME NEW r \in Ring, Stored(r)
  PROVE  Len(Peek(r)) <= r.size_
  <1>1. CASE r.size_ # N
    BY <1>1, PeekProps, EndValue DEF WellFormed
  <1>2. CASE r.size_ = N
    <2>1. /\ N \in Nat /\ N > 0 /\ r.begin_ \in 0 .. N
          /\ End(r) = IF r.begin_ < N THEN r.begin_ ELSE 0
          /\ \A c \in 0 .. N - 1 : r.data_[c] \in Byte
      BY <1>2, EndValue, FullIsWritten DEF Cell
    <2>2. Peek(r) = Slice(r, r.begin_, N - r.begin_) \o Slice(r, 0, End(r))
      BY <1>2, <2>1 DEF Peek
    <2>3. \A i \in 1 .. N - r.begin_ : r.data_[r.begin_ + i - 1] \in Byte
      BY <2>1
    <2>4. /\ Slice(r, r.begin_, N - r.begin_) \in Seq(Byte)
          /\ Len(Slice(r, r.begin_, N - r.begin_)) = N - r.begin_
      <3>1. r.begin_ \in Nat /\ N - r.begin_ \in Nat /\ r.begin_ + (N - r.begin_) <= N
        BY <2>1
      <3> QED
        BY <2>3, <3>1, SliceProps
    <2>5. Slice(r, 0, End(r)) \in Seq(Byte) /\ Len(Slice(r, 0, End(r))) = End(r)
      <3>1. /\ 0 \in Nat /\ End(r) \in Nat /\ 0 + End(r) <= N
            /\ \A i \in 1 .. End(r) : r.data_[0 + i - 1] \in Byte
        BY <2>1
      <3> QED
        BY <3>1, SliceProps
    <2>6. Len(Peek(r)) = (N - r.begin_) + End(r)
      BY <2>2, <2>4, <2>5, ConcatProperties
    <2> QED
      BY <1>2, <2>1, <2>6
  <1> QED
    BY <1>1, <1>2

\* A string that starts with s is cut within s.
LEMMA CutFront ==
  ASSUME NEW s \in Seq(Byte), NEW t \in Seq(Byte), NEW n \in 0 .. Len(s)
  PROVE  /\ s \o t \in Seq(Byte) /\ Len(s \o t) = Len(s) + Len(t)
         /\ \A i \in 1 .. Len(s) : (s \o t)[i] = s[i]
         /\ SubSeq(s \o t, 1, n) = SubSeq(s, 1, n)
         /\ SubSeq(s \o t, n + 1, Len(s \o t)) = SubSeq(s, n + 1, Len(s)) \o t
  <1>1. Len(s) \in Nat /\ Len(t) \in Nat /\ n \in Nat /\ n <= Len(s)
    BY LenProperties
  <1>2. /\ s \o t \in Seq(Byte) /\ Len(s \o t) = Len(s) + Len(t)
        /\ \A i \in 1 .. Len(s) + Len(t) :
             (s \o t)[i] = IF i <= Len(s) THEN s[i] ELSE t[i - Len(s)]
    BY ConcatProperties
  <1>3. SubSeq(s \o t, 1, n) = SubSeq(s, 1, n)
    <2> DEFINE a == SubSeq(s \o t, 1, n)
               b == SubSeq(s, 1, n)
    <2>1. n \in 0 .. Len(s \o t)
      BY <1>1, <1>2
    <2>2. /\ a \in Seq(Byte) /\ Len(a) = n
          /\ b \in Seq(Byte) /\ Len(b) = n
      BY <1>2, <2>1, CutProps
    <2>3. ASSUME NEW i \in 1 .. n PROVE a[i] = b[i]
      <3>1. /\ i \in 1 .. Len(s) /\ i \in 1 .. Len(s) + Len(t) /\ i <= Len(s)
            /\ 1 + i - 1 = i
        BY <1>1
      <3>2. a[i] = (s \o t)[i] /\ b[i] = s[i]
        BY <1>1, <1>2, <3>1
      <3> QED
        BY <1>2, <3>1, <3>2
    <2> HIDE DEF a, b
    <2> QED
      BY <2>2, <2>3, SeqEqual
  <1>4. SubSeq(s \o t, n + 1, Len(s \o t)) = SubSeq(s, n + 1, Len(s)) \o t
    <2> DEFINE a == SubSeq(s \o t, n + 1, Len(s \o t))
               c == SubSeq(s, n + 1, Len(s))
    <2>1. n \in 0 .. Len(s \o t)
      BY <1>1, <1>2
    <2>2. /\ a \in Seq(Byte) /\ Len(a) = Len(s) + Len(t) - n
          /\ \A i \in 1 .. Len(s) + Len(t) - n : a[i] = (s \o t)[n + i]
      BY <1>2, <2>1, CutProps
    <2>3. /\ c \in Seq(Byte) /\ Len(c) = Len(s) - n
          /\ \A i \in 1 .. Len(s) - n : c[i] = s[n + i]
      BY CutProps
    <2> HIDE DEF a, c
    <2>4. /\ c \o t \in Seq(Byte) /\ Len(c \o t) = Len(c) + Len(t)
          /\ \A i \in 1 .. Len(c) + Len(t) :
               (c \o t)[i] = IF i <= Len(c) THEN c[i] ELSE t[i - Len(c)]
      BY <2>3, ConcatProperties
    <2>5. ASSUME NEW i \in 1 .. Len(s) + Len(t) - n PROVE a[i] = (c \o t)[i]
      <3>1. /\ n + i \in 1 .. Len(s) + Len(t) /\ i \in 1 .. Len(c) + Len(t)
            /\ i \in Nat
        BY <1>1, <2>3
      <3>2. CASE i <= Len(s) - n
        <4>1. n + i <= Len(s) /\ i \in 1 .. Len(s) - n
          BY <1>1, <3>1, <3>2
        <4> QED
          BY <1>2, <2>2, <2>3, <2>4, <3>1, <3>2, <4>1
      <3>3. CASE ~(i <= Len(s) - n)
        <4>1. ~(n + i <= Len(s)) /\ (n + i) - Len(s) = i - Len(c)
          BY <1>1, <2>3, <3>1, <3>3
        <4> QED
          BY <1>2, <2>2, <2>3, <2>4, <3>1, <3>3, <4>1
      <3> QED
        BY <3>2, <3>3
    <2>6. Len(a) = Len(c \o t) /\ Len(a) = Len(s) + Len(t) - n
      BY <1>1, <2>2, <2>3, <2>4
    <2> QED
      BY <2>2, <2>4, <2>5, <2>6, SeqEqual DEF a, c
  <1>5. \A i \in 1 .. Len(s) : (s \o t)[i] = s[i]
    BY <1>1, <1>2
  <1> QED
    BY <1>2, <1>3, <1>4, <1>5
===============================================================================

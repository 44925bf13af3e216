------------------------- MODULE IRLoggerParserProofs -------------------------
(***************************************************************************)
(* For a buffer of any size, and any bytes and chunks: no call of          *)
(* push_data is out of range or goes on for ever, and as long as the       *)
(* buffer is not full from another cell than its first, it hands over all  *)
(* lines, whole and in order, overlong ones and exceptions included.  With *)
(* such a buffer TLC refutes that (see ImplementsLineStream).              *)
(***************************************************************************)
EXTENDS IRLoggerParser, StringRingBufferProofs

-------------------------------------------------------------------------------
(* The invariant: whatever the buffer's layout, what it holds was written.  *)

Written == buffer_ \in Ring /\ Stored(buffer_)

IInv == TypeOK /\ Written /\ NeverOutOfRange

LEMMA CutAtEnd ==
  ASSUME NEW s \in Seq(Byte), NEW n \in Stream!FirstEnds(s)
  PROVE  /\ n \in 1 .. Len(s) /\ Len(s) \in Nat
         /\ SubSeq(s, 1, n - 1) \in Seq(Byte)
         /\ PastNL(n - 1) = n
  <1>1. n \in 1 .. Len(s) /\ Len(s) \in Nat
    BY LenProperties DEF Stream!FirstEnds
  <1>2. n - 1 \in 0 .. Len(s)
    BY <1>1
  <1> QED
    BY <1>1, <1>2, CutProps DEF PastNL

\* What one step leaves of the stream: `data` and `call` keep their types.
LEMMA ReportProps ==
  ASSUME NEW kind, NEW text
  PROVE  Report(kind, text).kind = kind /\ Report(kind, text).text = text
  BY DEF Report, Stream!Report

LEMMA InsertFrontStep ==
  ASSUME IInv, NEW k \in 0 .. Len(data), buffer_.size_ + k <= N, NEW next,
         next \in {"drain", "drain_then_push"}, InsertFront(k, next)
  PROVE  IInv'
  <1> DEFINE s == SubSeq(data, 1, k)
  <1>1. /\ data \in Seq(Byte) /\ buffer_ \in Ring /\ Stored(buffer_)
    BY DEF IInv, TypeOK, Written
  <1>2. s \in Seq(Byte) /\ Len(s) = k /\ SubSeq(data, k + 1, Len(data)) \in Seq(Byte)
    BY <1>1, CutProps
  <1> HIDE DEF s
  <1>3. /\ ~InsertInto(buffer_, s).threw
        /\ InsertInto(buffer_, s).ring \in Ring /\ Stored(InsertInto(buffer_, s).ring)
    BY <1>1, <1>2, InsertStored
  <1>4. /\ buffer_' = InsertInto(buffer_, s).ring
        /\ data' = SubSeq(data, k + 1, Len(data))
        /\ pc' = next /\ UNCHANGED call
    BY <1>3 DEF InsertFront, s
  <1>5. pc' \in {"drain", "drain_then_push"}
    BY <1>4
  <1>6. Written'
    BY <1>3, <1>4 DEF Written
  <1> QED
    BY <1>2, <1>4, <1>5, <1>6 DEF IInv, TypeOK, Written, NeverOutOfRange

LEMMA InitInv == Init => IInv
<1> SUFFICES ASSUME Init PROVE IInv
  OBVIOUS
<1>1. Written
  BY EmptyRingProps DEF Init, Written, WellFormed
<1>2. call.kind = "none" /\ call.text = << >>
  BY ReportProps, Zenon DEF Init
<1>3. << >> \in Seq(Byte)
  OBVIOUS
<1>4. data = << >> /\ pc = "idle"
  BY Zenon DEF Init
<1>5. TypeOK
  BY <1>1, <1>2, <1>3, <1>4, Zenon DEF TypeOK, Written
<1> QED
  BY <1>1, <1>4, <1>5 DEF IInv, NeverOutOfRange

LEMMA StepInv == IInv /\ [Next]_vars => IInv'
<1> SUFFICES ASSUME IInv, [Next]_vars PROVE IInv'
  OBVIOUS
<1>0. /\ TypeOK /\ Written /\ data \in Seq(Byte) /\ Len(data) \in Nat /\ N \in Nat
      /\ buffer_ \in Ring /\ Stored(buffer_) /\ buffer_.size_ \in 0 .. N
      /\ Peek(buffer_) \in Seq(Byte)
  BY PeekWritten, LenProperties, EndValue DEF IInv, TypeOK, Written
<1>1. ASSUME NEW s \in Chunks, PushData(s) PROVE IInv'
  BY <1>1, ParserAssumption DEF PushData, IInv, TypeOK, Written, NeverOutOfRange
<1>2. CASE InsertAll
  <2>1. SubSeq(data, 1, Len(data)) = data /\ Len(data) \in 0 .. Len(data)
    BY <1>0
  <2> QED
    BY <1>0, <1>2, <2>1, InsertFrontStep DEF InsertAll
<1>3. CASE InsertSubset
  <2> DEFINE k == IF Len(data) < Room THEN Len(data) ELSE Room
  <2>1. k \in 0 .. Len(data) /\ buffer_.size_ + k <= N
    BY <1>0 DEF Room
  <2> HIDE DEF k
  <2>2. InsertFront(k, "drain_then_push")
    BY <1>3 DEF InsertSubset, k
  <2> QED
    BY <2>1, <2>2, InsertFrontStep
<1>4. CASE DumpBuffer
  <2>1. DiscardFrom(buffer_, Dumped).ring \in Ring /\ Stored(DiscardFrom(buffer_, Dumped).ring)
    BY <1>0, DiscardStored DEF Dumped
  <2>2. Written' /\ pc' \in {"fill", "thrown"} /\ data' \in Seq(Byte)
    <3>1. \/ Returns("fill") /\ buffer_' = DiscardFrom(buffer_, Dumped).ring
          \/ Throws /\ UNCHANGED buffer_
      BY <1>4, Zenon DEF DumpBuffer
    <3>2. Written'
      BY <1>0, <2>1, <3>1, Zenon DEF Written
    <3>3. << >> \in Seq(Byte)
      OBVIOUS
    <3>4. pc' \in {"fill", "thrown"} /\ data' \in Seq(Byte)
      BY <1>0, <3>1, <3>3, Zenon DEF Returns, Throws
    <3> QED
      BY <3>2, <3>4
  <2>3. call'.kind = "overflow" /\ call'.text \in Seq(Byte)
    BY <1>0, <1>4, ReportProps DEF DumpBuffer
  <2> QED
    BY <2>2, <2>3 DEF IInv, TypeOK, Written, NeverOutOfRange
<1>5. CASE NoLineLeft
  BY <1>5 DEF NoLineLeft, IInv, TypeOK, Written, NeverOutOfRange
<1>6. CASE TryParse
  <2>1. PICK n \in Stream!FirstEnds(Peek(buffer_)) :
          /\ buffer_' = DiscardFrom(buffer_, PastNL(n - 1)).ring
          /\ \/ call' = Report("parsed", SubSeq(Peek(buffer_), 1, n - 1))
             \/ call' = Report("failed", SubSeq(Peek(buffer_), 1, n - 1))
          /\ Returns(pc) \/ Throws
    BY <1>6 DEF TryParse, FirstEnds
  <2>2. PastNL(n - 1) \in Nat /\ SubSeq(Peek(buffer_), 1, n - 1) \in Seq(Byte)
    BY <1>0, CutAtEnd
  <2>3. Written'
    BY <1>0, <2>1, <2>2, DiscardStored DEF Written
  <2>4. call'.kind \in {"parsed", "failed"} /\ call'.text \in Seq(Byte)
    <3>1. CASE call' = Report("parsed", SubSeq(Peek(buffer_), 1, n - 1))
      <4>1. call'.kind = "parsed" /\ call'.text = SubSeq(Peek(buffer_), 1, n - 1)
        BY <3>1, ReportProps
      <4> QED
        BY <2>2, <4>1
    <3>2. CASE call' = Report("failed", SubSeq(Peek(buffer_), 1, n - 1))
      <4>1. call'.kind = "failed" /\ call'.text = SubSeq(Peek(buffer_), 1, n - 1)
        BY <3>2, ReportProps
      <4> QED
        BY <2>2, <4>1
    <3> QED
      BY <2>1, <3>1, <3>2, Zenon
  <2>5. pc' \in {"drain", "drain_then_push", "thrown"} /\ data' \in Seq(Byte)
    <3>1. << >> \in Seq(Byte)
      OBVIOUS
    <3>2. pc \in {"drain", "drain_then_push"}
      BY <1>6, Zenon DEF TryParse, Draining
    <3> QED
      BY <1>0, <2>1, <3>1, <3>2, Zenon DEF Returns, Throws
  <2> QED
    BY <2>3, <2>4, <2>5 DEF IInv, TypeOK, Written, NeverOutOfRange
<1>7. CASE UNCHANGED vars
  BY <1>7 DEF vars, IInv, TypeOK, Written, NeverOutOfRange
<1> QED
  BY <1>1, <1>2, <1>3, <1>4, <1>5, <1>6, <1>7 DEF Next

LEMMA Invariance == Spec => []IInv
  BY InitInv, StepInv, PTL DEF Spec

\* The variables of IRLoggerParser keep their types, and the callback is told of bytes
\* that were pushed, never of cells of data_ that were not written.
THEOREM TypeCorrect == Spec => []TypeOK
<1>1. IInv => TypeOK
  BY DEF IInv
<1> QED
  BY <1>1, Invariance, PTL

\* push_data never lets the buffer throw std::out_of_range: what it inserts fits
\* (irlogger_parser.cpp:51, irlogger_parser.cpp:72), also when the buffer is full.
THEOREM InRange == Spec => []NeverOutOfRange
<1>1. IInv => NeverOutOfRange
  BY DEF IInv
<1> QED
  BY <1>1, Invariance, PTL

-------------------------------------------------------------------------------
(* The stages of push_data: no line is left in the buffer between two       *)
(* calls or passes, a dump leaves it empty, and only a pass of the overflow *)
(* branch leaves something to store.                                        *)

Stages ==
  /\ pc \in {"idle", "push"} => FirstEnds = {}
  /\ pc = "fill" => buffer_.size_ = 0 /\ data # << >>
  /\ pc \in {"idle", "drain", "thrown"} => data = << >>

\* The size of what push_data has in hand; what InsertSubset takes.
LEMMA Sizes ==
  ASSUME IInv
  PROVE  /\ buffer_ \in Ring /\ Stored(buffer_) /\ data \in Seq(Byte)
         /\ Len(data) \in Nat /\ (Len(data) = 0 <=> data = << >>)
         /\ N \in Nat /\ N > 0 /\ buffer_.size_ \in 0 .. N
         /\ Peek(buffer_) \in Seq(Byte) /\ Len(Peek(buffer_)) \in 0 .. buffer_.size_
  <1>1. /\ buffer_ \in Ring /\ Stored(buffer_) /\ data \in Seq(Byte)
        /\ N \in Nat /\ N > 0 /\ buffer_.size_ \in 0 .. N
    BY EndValue DEF IInv, TypeOK, Written
  <1>2. Len(data) \in Nat /\ (Len(data) = 0 <=> data = << >>)
    BY <1>1, LenProperties, EmptySeq
  <1>3. Peek(buffer_) \in Seq(Byte) /\ Len(Peek(buffer_)) <= buffer_.size_
    BY <1>1, PeekWritten, PeekBound
  <1>4. Len(Peek(buffer_)) \in Nat
    BY <1>3, LenProperties
  <1> QED
    BY <1>1, <1>2, <1>3, <1>4

\* What an insert of the first k bytes does, the buffer having room for them.
LEMMA InsertFrontEffect ==
  ASSUME IInv, NEW k \in 0 .. Len(data), buffer_.size_ + k <= N, NEW next,
         InsertFront(k, next)
  PROVE  /\ Extends(buffer_, buffer_', SubSeq(data, 1, k))
         /\ data' = SubSeq(data, k + 1, Len(data)) /\ data' \in Seq(Byte)
         /\ Len(data') = Len(data) - k
         /\ pc' = next /\ call' = call
  <1> DEFINE s == SubSeq(data, 1, k)
  <1>1. /\ s \in Seq(Byte) /\ Len(s) = k
        /\ SubSeq(data, k + 1, Len(data)) \in Seq(Byte)
        /\ Len(SubSeq(data, k + 1, Len(data))) = Len(data) - k
    BY Sizes, CutProps
  <1> HIDE DEF s
  <1>2. /\ ~InsertInto(buffer_, s).threw
        /\ Extends(buffer_, InsertInto(buffer_, s).ring, s)
    BY <1>1, Sizes, InsertResult
  <1>3. /\ buffer_' = InsertInto(buffer_, s).ring
        /\ data' = SubSeq(data, k + 1, Len(data))
        /\ pc' = next /\ call' = call
    BY <1>2 DEF InsertFront, s
  <1> QED
    BY <1>1, <1>2, <1>3 DEF s

LEMMA InsertAllEffect ==
  ASSUME IInv, InsertAll
  PROVE  /\ Extends(buffer_, buffer_', data) /\ data' = << >>
         /\ pc = "push" /\ pc' = "drain" /\ call' = call
  <1>1. Len(data) \in 0 .. Len(data) /\ buffer_.size_ + Len(data) <= N
    BY Sizes DEF InsertAll
  <1>2. InsertFront(Len(data), "drain") /\ pc = "push"
    BY DEF InsertAll
  <1>3. /\ Extends(buffer_, buffer_', SubSeq(data, 1, Len(data)))
        /\ data' \in Seq(Byte) /\ Len(data') = Len(data) - Len(data)
        /\ pc' = "drain" /\ call' = call
    BY <1>1, <1>2, InsertFrontEffect
  <1>4. SubSeq(data, 1, Len(data)) = data /\ data' = << >>
    BY <1>3, Sizes, EmptySeq
  <1> QED
    BY <1>2, <1>3, <1>4

LEMMA InsertSubsetEffect ==
  ASSUME IInv, Stages, InsertSubset
  PROVE  \E k \in 1 .. Len(data) :
           /\ buffer_.size_ + k <= N
           /\ Extends(buffer_, buffer_', SubSeq(data, 1, k))
           /\ data' = SubSeq(data, k + 1, Len(data)) /\ data' \in Seq(Byte)
           /\ Len(data') = Len(data) - k
           /\ pc \in {"push", "fill"} /\ pc' = "drain_then_push" /\ call' = call
  <1> DEFINE k == IF Len(data) < Room THEN Len(data) ELSE Room
  <1>1. InsertFront(k, "drain_then_push") /\ pc \in {"push", "fill"}
    BY DEF InsertSubset
  <1>2. Len(data) > 0 /\ Room > 0 /\ Room = N - buffer_.size_
    BY Sizes DEF InsertSubset, Stages, Room
  <1>3. k \in 1 .. Len(data) /\ buffer_.size_ + k <= N /\ k \in 0 .. Len(data)
    BY <1>2, Sizes
  <1> HIDE DEF k
  <1>4. /\ Extends(buffer_, buffer_', SubSeq(data, 1, k))
        /\ data' = SubSeq(data, k + 1, Len(data)) /\ data' \in Seq(Byte)
        /\ Len(data') = Len(data) - k
        /\ pc' = "drain_then_push" /\ call' = call
    BY <1>1, <1>3, InsertFrontEffect
  <1> QED
    BY <1>1, <1>3, <1>4

LEMMA DumpEffect ==
  ASSUME IInv, DumpBuffer
  PROVE  /\ pc = "push" /\ buffer_.size_ = N /\ data # << >>
         /\ call' = Report("overflow", Peek(buffer_))
         /\ \/ /\ pc' = "fill" /\ data' = data
               /\ buffer_' \in Ring /\ buffer_'.size_ = 0
            \/ pc' = "thrown" /\ data' = << >> /\ buffer_' = buffer_
  <1>1. /\ pc = "push" /\ buffer_.size_ + Len(data) > N /\ buffer_.size_ = N
        /\ call' = Report("overflow", Peek(buffer_))
        /\ \/ Returns("fill") /\ buffer_' = DiscardFrom(buffer_, Dumped).ring
           \/ Throws /\ UNCHANGED buffer_
    BY Zenon DEF DumpBuffer
  <1>2. data # << >>
    BY <1>1, Sizes
  <1>3. /\ DiscardFrom(buffer_, Dumped).ring \in Ring
        /\ DiscardFrom(buffer_, Dumped).ring.size_ = 0
    <2>1. Dumped \in Nat /\ Dumped <= buffer_.size_ /\ buffer_.size_ - Dumped = 0
      BY Sizes DEF Dumped
    <2> QED
      BY <2>1, Sizes, DiscardInRing, DiscardShrinks
  <1> QED
    BY <1>1, <1>2, <1>3, Zenon DEF Returns, Throws

LEMMA TryParseEffect ==
  ASSUME IInv, TryParse
  PROVE  \E n \in FirstEnds :
           /\ pc \in {"drain", "drain_then_push"}
           /\ n \in 1 .. Len(Peek(buffer_)) /\ n <= buffer_.size_
           /\ buffer_' = DiscardFrom(buffer_, n).ring
           /\ buffer_'.size_ = buffer_.size_ - n
           /\ \/ /\ Parses(SubSeq(Peek(buffer_), 1, n - 1))
                 /\ call' = Report("parsed", SubSeq(Peek(buffer_), 1, n - 1))
                 /\ pc' = pc /\ data' = data
              \/ /\ call' = Report("failed", SubSeq(Peek(buffer_), 1, n - 1))
                 /\ \/ pc' = pc /\ data' = data
                    \/ pc' = "thrown" /\ data' = << >>
  <1>1. PICK n \in Stream!FirstEnds(Peek(buffer_)) :
          /\ buffer_' = DiscardFrom(buffer_, PastNL(n - 1)).ring
          /\ \/ /\ Parses(SubSeq(Peek(buffer_), 1, n - 1))
                /\ call' = Report("parsed", SubSeq(Peek(buffer_), 1, n - 1))
                /\ Returns(pc)
             \/ /\ call' = Report("failed", SubSeq(Peek(buffer_), 1, n - 1))
                /\ Returns(pc) \/ Throws
    BY Zenon DEF TryParse, FirstEnds
  <1>2. n \in 1 .. Len(Peek(buffer_)) /\ PastNL(n - 1) = n
    BY Sizes, CutAtEnd
  <1>3. n \in Nat /\ n <= buffer_.size_
    BY <1>2, Sizes
  <1>4. /\ buffer_' = DiscardFrom(buffer_, n).ring
        /\ buffer_'.size_ = buffer_.size_ - n
    BY <1>1, <1>2, <1>3, Sizes, DiscardShrinks
  <1>5. pc \in {"drain", "drain_then_push"}
    BY Zenon DEF TryParse, Draining
  <1> QED
    BY <1>1, <1>2, <1>3, <1>4, <1>5, Zenon DEF Returns, Throws, FirstEnds

LEMMA StagesInit == Init => Stages
<1> SUFFICES ASSUME Init PROVE Stages
  OBVIOUS
<1>1. Peek(buffer_) = << >> /\ data = << >> /\ pc = "idle"
  BY EmptyRingProps DEF Init
<1> QED
  BY <1>1 DEF Stages, FirstEnds, Stream!FirstEnds

LEMMA StagesStep == IInv /\ Stages /\ [Next]_vars => Stages'
<1> SUFFICES ASSUME IInv, Stages, [Next]_vars PROVE Stages'
  OBVIOUS
<1>1. ASSUME NEW s \in Chunks, PushData(s) PROVE Stages'
  BY <1>1 DEF PushData, Stages, FirstEnds
<1>2. CASE InsertAll
  BY <1>2, InsertAllEffect DEF Stages
<1>3. CASE InsertSubset
  BY <1>3, InsertSubsetEffect DEF Stages
<1>4. CASE DumpBuffer
  BY <1>4, DumpEffect DEF Stages
<1>5. CASE NoLineLeft
  BY <1>5 DEF NoLineLeft, Draining, Stages, FirstEnds
<1>6. CASE TryParse
  <2>1. /\ pc \in {"drain", "drain_then_push"}
        /\ \/ pc' = pc /\ data' = data
           \/ pc' = "thrown" /\ data' = << >>
    BY <1>6, TryParseEffect, Zenon
  <2> QED
    BY <2>1 DEF Stages
<1>7. CASE UNCHANGED vars
  BY <1>7 DEF vars, Stages, FirstEnds
<1> QED
  BY <1>1, <1>2, <1>3, <1>4, <1>5, <1>6, <1>7 DEF Next

LEMMA StagesInvariance == Spec => [](IInv /\ Stages)
  BY Invariance, StagesInit, StagesStep, PTL DEF Spec

-------------------------------------------------------------------------------
(* push_data cannot go on for ever.                                         *)

LEMMA StageValues ==
  /\ pc = "drain_then_push" => StagesLeft = 4
  /\ pc = "push" => StagesLeft = 3
  /\ pc = "fill" => StagesLeft = 2
  /\ pc = "drain" => StagesLeft = 1
  /\ pc \in {"idle", "thrown"} => StagesLeft = 0
  BY DEF StagesLeft

LEMMA AdvanceStep ==
  ASSUME IInv, Stages, Next, pc # "idle"
  PROVE  \/ Len(data') < Len(data)
         \/ Len(data') = Len(data) /\ StagesLeft' < StagesLeft
         \/ data' = data /\ StagesLeft' = StagesLeft /\ buffer_'.size_ < buffer_.size_
<1>0. /\ pc' = "push" => StagesLeft' = 3
      /\ pc' = "fill" => StagesLeft' = 2
      /\ pc' = "drain" => StagesLeft' = 1
      /\ pc' \in {"idle", "thrown"} => StagesLeft' = 0
  BY DEF StagesLeft
<1>1. CASE InsertAll
  BY <1>0, <1>1, InsertAllEffect, StageValues, Sizes, EmptySeq
<1>2. CASE InsertSubset
  <2>1. PICK k \in 1 .. Len(data) : Len(data') = Len(data) - k
    BY <1>2, InsertSubsetEffect
  <2> QED
    BY <2>1, Sizes
<1>3. CASE DumpBuffer
  BY <1>0, <1>3, DumpEffect, StageValues, Sizes, EmptySeq
<1>4. CASE NoLineLeft
  <2>1. /\ data' = data
        /\ \/ pc = "drain" /\ pc' = "idle"
           \/ pc = "drain_then_push" /\ pc' = "push"
    BY <1>4 DEF NoLineLeft, Draining
  <2> QED
    BY <1>0, <2>1, StageValues
<1>5. CASE TryParse
  <2>1. PICK n \in FirstEnds :
          /\ n \in 1 .. Len(Peek(buffer_))
          /\ buffer_'.size_ = buffer_.size_ - n
          /\ pc \in {"drain", "drain_then_push"}
          /\ \/ pc' = pc /\ data' = data
             \/ pc' = "thrown" /\ data' = << >>
    BY <1>5, TryParseEffect, Zenon
  <2>2. CASE pc' = pc /\ data' = data
    <3>1. StagesLeft' = StagesLeft
      BY <2>2 DEF StagesLeft
    <3> QED
      BY <2>1, <2>2, <3>1, Sizes
  <2>3. CASE pc' = "thrown" /\ data' = << >>
    <3>1. StagesLeft' < StagesLeft
      BY <1>0, <2>1, <2>3, StageValues
    <3>2. Len(data') = 0
      BY <2>3, EmptySeq
    <3> QED
      BY <3>1, <3>2, Sizes
  <2> QED
    BY <2>1, <2>2, <2>3
<1> QED
  BY <1>1, <1>2, <1>3, <1>4, <1>5 DEF Next, PushData

\* For a buffer of any size and a chunk of any length: no step of push_data can be
\* repeated for ever, so that the loop of its overflow branch
\* (irlogger_parser.cpp:53) and the one of try_parse (irlogger_parser.cpp:81) end.
THEOREM PushEnds == Spec => PushAdvances
<1>1. IInv /\ Stages /\ [Next]_vars =>
        [pc # "idle" =>
           \/ Len(data') < Len(data)
           \/ Len(data') = Len(data) /\ StagesLeft' < StagesLeft
           \/ data' = data /\ StagesLeft' = StagesLeft
              /\ buffer_'.size_ < buffer_.size_]_vars
  BY AdvanceStep
<1> QED
  BY <1>1, StagesInvariance, PTL DEF Spec, PushAdvances

-------------------------------------------------------------------------------
(* The refinement.  As long as the buffer is not full from a cell other     *)
(* than its first, peek returns all it holds, and each action of push_data  *)
(* is one of LineStream or changes nothing that the stream sees.            *)

LEMMA Sound ==
  ASSUME IInv, ~Misfilled
  PROVE  /\ WellFormed(buffer_) /\ Len(Peek(buffer_)) = buffer_.size_
         /\ data = << >> => Held = Peek(buffer_)
  <1>1. WellFormed(buffer_)
    BY Sizes DEF Misfilled, WellFormed
  <1>2. Len(Peek(buffer_)) = buffer_.size_
    BY <1>1, Sizes, PeekProps
  <1>3. data = << >> => Held = Peek(buffer_)
    BY Sizes, ConcatEmptySeq DEF Held
  <1> QED
    BY <1>1, <1>2, <1>3

\* A cut of the buffer is a cut of all that is held.
LEMMA HeldCut ==
  ASSUME IInv, NEW n \in 0 .. Len(Peek(buffer_))
  PROVE  /\ Held \in Seq(Byte) /\ Len(Held) = Len(Peek(buffer_)) + Len(data)
         /\ \A i \in 1 .. Len(Peek(buffer_)) : Held[i] = Peek(buffer_)[i]
         /\ SubSeq(Held, 1, n) = SubSeq(Peek(buffer_), 1, n)
         /\ SubSeq(Held, n + 1, Len(Held))
              = SubSeq(Peek(buffer_), n + 1, Len(Peek(buffer_))) \o data
  BY Sizes, CutFront DEF Held

\* push_data takes a string: Receive.
LEMMA StreamPush ==
  ASSUME IInv, Stages, ~Misfilled, NEW s \in Chunks, PushData(s)
  PROVE  Stream!Receive(s)
  <1>1. /\ pc = "idle" /\ data = << >> /\ FirstEnds = {}
        /\ data' = s /\ buffer_' = buffer_ /\ call' = call
    BY DEF PushData, Stages
  <1>2. Held = Peek(buffer_) /\ Held' = Peek(buffer_) \o s
    BY <1>1, Sound DEF Held
  <1> QED
    BY <1>1, <1>2 DEF Stream!Receive, Stream!HasLine, FirstEnds

\* Bytes go from data to the buffer: a stutter.
LEMMA StreamStore ==
  ASSUME IInv, IInv', ~Misfilled, ~Misfilled', NEW k \in 0 .. Len(data),
         Extends(buffer_, buffer_', SubSeq(data, 1, k)),
         data' = SubSeq(data, k + 1, Len(data))
  PROVE  Held' = Held
  <1> DEFINE s == SubSeq(data, 1, k)
             t == SubSeq(data, k + 1, Len(data))
  <1>1. s \in Seq(Byte) /\ t \in Seq(Byte) /\ s \o t = data
    BY Sizes, CutProps
  <1>2. buffer_'.size_ = N => buffer_'.begin_ = 0
    BY DEF Misfilled
  <1>3. Extends(buffer_, buffer_', s) /\ data' = t
    OBVIOUS
  <1> HIDE DEF s, t
  <1>4. Peek(buffer_') = Peek(buffer_) \o s
    BY <1>1, <1>2, <1>3, Sizes, Sound, ExtendsPeek
  <1>5. Held' = (Peek(buffer_) \o s) \o t
    BY <1>3, <1>4 DEF Held
  <1>6. (Peek(buffer_) \o s) \o t = Peek(buffer_) \o (s \o t)
    <2>1. Peek(buffer_) \in Seq(Byte) /\ s \in Seq(Byte) /\ t \in Seq(Byte)
      BY <1>1, Sizes
    <2>2. ASSUME NEW u \in Seq(Byte), NEW v \in Seq(Byte), NEW w \in Seq(Byte)
          PROVE  (u \o v) \o w = u \o (v \o w)
      BY ConcatAssociative
    <2> QED
      BY <2>1, <2>2
  <1> QED
    BY <1>1, <1>5, <1>6 DEF Held

\* The full buffer is dumped, or the callback throws instead: Dump, DumpAndThrow.
LEMMA StreamDump ==
  ASSUME IInv, IInv', Stages, ~Misfilled, ~Misfilled', DumpBuffer
  PROVE  Stream!Dump \/ Stream!DumpAndThrow
  <1>1. /\ pc = "push" /\ buffer_.size_ = N /\ data # << >>
        /\ call' = Report("overflow", Peek(buffer_))
        /\ \/ /\ pc' = "fill" /\ data' = data
              /\ buffer_' \in Ring /\ buffer_'.size_ = 0
           \/ pc' = "thrown" /\ data' = << >> /\ buffer_' = buffer_
    BY DumpEffect, Zenon
  <1>2. Len(Peek(buffer_)) = N /\ Len(data) > 0 /\ FirstEnds = {}
    BY <1>1, Sizes, Sound DEF Stages
  <1>3. N \in 0 .. Len(Peek(buffer_)) /\ N \in Nat
    BY <1>2, Sizes
  <1>4. SubSeq(Peek(buffer_), 1, N) = Peek(buffer_)
        /\ SubSeq(Peek(buffer_), N + 1, N) = << >>
    <2>1. /\ SubSeq(Peek(buffer_), N + 1, Len(Peek(buffer_))) \in Seq(Byte)
          /\ Len(SubSeq(Peek(buffer_), N + 1, Len(Peek(buffer_)))) = Len(Peek(buffer_)) - N
      BY <1>3, Sizes, CutProps
    <2>2. SubSeq(Peek(buffer_), N + 1, N) = << >>
      BY <1>2, <1>3, <2>1, EmptySeq
    <2>3. SubSeq(Peek(buffer_), 1, Len(Peek(buffer_))) = Peek(buffer_)
      BY Sizes, SubSeqFull
    <2> QED
      BY <1>2, <2>2, <2>3
  <1>5. /\ SubSeq(Held, 1, N) = Peek(buffer_) /\ Len(Held) > N
        /\ SubSeq(Held, N + 1, Len(Held)) = data
    <2>1. << >> \o data = data /\ SubSeq(Peek(buffer_), N + 1, Len(Peek(buffer_))) = << >>
      BY <1>2, <1>4, Sizes, ConcatEmptySeq
    <2>2. /\ SubSeq(Held, 1, N) = SubSeq(Peek(buffer_), 1, N)
          /\ SubSeq(Held, N + 1, Len(Held))
               = SubSeq(Peek(buffer_), N + 1, Len(Peek(buffer_))) \o data
          /\ Len(Held) = N + Len(data)
      BY <1>2, <1>3, HeldCut
    <2>3. Len(Held) > N
      BY <1>2, <1>3, <2>2, Sizes
    <2> QED
      BY <1>4, <2>1, <2>2, <2>3, Zenon
  <1>6. ~Stream!HasLine(SubSeq(Held, 1, N))
    BY <1>2, <1>5 DEF Stream!HasLine, FirstEnds
  <1>7. call' = Stream!Report("overflow", SubSeq(Held, 1, N))
    BY <1>1, <1>5 DEF Report
  <1>8. CASE pc' = "fill" /\ data' = data /\ buffer_'.size_ = 0
    <2>1. Peek(buffer_') = << >>
      BY <1>8 DEF Peek
    <2>2. Held' = data
      BY <1>8, <2>1, Sizes, ConcatEmptySeq DEF Held
    <2> QED
      BY <1>5, <1>6, <1>7, <2>2 DEF Stream!Dump
  <1>9. CASE data' = << >> /\ buffer_' = buffer_
    <2>1. Held' = Peek(buffer_)
      BY <1>9, Sizes, ConcatEmptySeq DEF Held
    <2> QED
      BY <1>5, <1>6, <1>7, <2>1 DEF Stream!DumpAndThrow
  <1> QED
    BY <1>1, <1>8, <1>9

\* A line is handed over, or the callback throws for good: Deliver, DeliverAndThrow.
LEMMA StreamParse ==
  ASSUME IInv, IInv', Stages, ~Misfilled, ~Misfilled', TryParse
  PROVE  Stream!Deliver \/ Stream!DeliverAndThrow
  <1>1. PICK n \in FirstEnds :
          /\ n \in 1 .. Len(Peek(buffer_)) /\ n <= buffer_.size_
          /\ buffer_' = DiscardFrom(buffer_, n).ring
          /\ \/ /\ Parses(SubSeq(Peek(buffer_), 1, n - 1))
                /\ call' = Report("parsed", SubSeq(Peek(buffer_), 1, n - 1))
                /\ pc' = pc /\ data' = data
             \/ /\ call' = Report("failed", SubSeq(Peek(buffer_), 1, n - 1))
                /\ \/ pc' = pc /\ data' = data
                   \/ pc' = "thrown" /\ data' = << >>
    BY TryParseEffect, Zenon
  <1> DEFINE p    == Peek(buffer_)
             rest == SubSeq(p, n + 1, Len(p))
  <1>2. /\ n \in Nat /\ n \in 0 .. Len(p) /\ n - 1 \in 0 .. Len(p) /\ n \in 0 .. buffer_.size_
        /\ p \in Seq(Byte) /\ Len(p) \in Nat /\ data \in Seq(Byte) /\ Len(data) \in Nat
    BY <1>1, Sizes
  <1>3. WellFormed(buffer_') /\ Drops(buffer_, buffer_', n)
    BY <1>1, <1>2, Sound, DiscardResult
  <1>4. Peek(buffer_') = rest
    BY <1>2, <1>3, Sizes, Sound, DropsPeek
  <1>5. rest \in Seq(Byte) /\ Len(rest) = Len(p) - n
    BY <1>2, CutProps
  <1>6. /\ Stream!UpTo(Held, n) = SubSeq(p, 1, n - 1)
        /\ Stream!Beyond(Held, n) = rest \o data
    BY <1>2, HeldCut DEF Stream!UpTo, Stream!Beyond
  <1>7. n \in Stream!FirstEnds(Held)
    <2>1. /\ n \in 1 .. Len(p) /\ p[n] = NL
          /\ \A i \in 1 .. n - 1 : p[i] # NL
      BY <1>1 DEF FirstEnds, Stream!FirstEnds
    <2>2. Len(Held) = Len(p) + Len(data) /\ \A i \in 1 .. Len(p) : Held[i] = p[i]
      BY <1>2, HeldCut
    <2> QED
      BY <1>2, <2>1, <2>2 DEF Stream!FirstEnds
  <1>8. CASE data' = data
    <2>1. Held' = Stream!Beyond(Held, n)
      BY <1>4, <1>6, <1>8 DEF Held
    <2>2. call' \in Stream!LineCalls(Stream!UpTo(Held, n))
      BY <1>1, <1>6, Zenon DEF Report, Stream!LineCalls
    <2> QED
      BY <1>7, <2>1, <2>2 DEF Stream!Deliver
  <1>9. CASE data' = << >> /\ call' = Report("failed", SubSeq(p, 1, n - 1))
    <2>1. Held' = rest
      BY <1>4, <1>5, <1>9, ConcatEmptySeq DEF Held
    <2>2. SubSeq(rest \o data, 1, Len(rest)) = rest
      <3>1. Len(rest) \in 0 .. Len(rest)
        BY <1>2, <1>5
      <3>2. SubSeq(rest \o data, 1, Len(rest)) = SubSeq(rest, 1, Len(rest))
        BY <1>2, <1>5, <3>1, CutFront
      <3> QED
        BY <1>5, <3>2, SubSeqFull
    <2>3. Len(rest) \in 0 .. Len(rest \o data)
      BY <1>2, <1>5, ConcatProperties
    <2>4. call' = Stream!Report("failed", Stream!UpTo(Held, n))
      BY <1>6, <1>9 DEF Report
    <2>5. \E k \in 0 .. Len(Stream!Beyond(Held, n)) :
            Held' = SubSeq(Stream!Beyond(Held, n), 1, k)
      BY <1>6, <2>1, <2>2, <2>3
    <2> QED
      BY <1>7, <2>4, <2>5 DEF Stream!DeliverAndThrow
  <1> QED
    BY <1>1, <1>8, <1>9

LEMMA StreamInit == Init => Stream!Init
<1> SUFFICES ASSUME Init PROVE Stream!Init
  OBVIOUS
<1>1. Peek(buffer_) = << >> /\ data = << >> /\ call = Report("none", << >>)
  BY EmptyRingProps DEF Init
<1>2. << >> \o << >> = << >>
  BY ConcatEmptySeq, EmptySeq
<1> QED
  BY <1>1, <1>2 DEF Stream!Init, Held, Report

LEMMA StreamStep ==
  ASSUME IInv, IInv', Stages, [Next]_vars, ~Misfilled, ~Misfilled'
  PROVE  Stream!Next \/ UNCHANGED <<Held, call>>
<1>1. ASSUME NEW s \in Chunks, PushData(s) PROVE Stream!Next
  BY <1>1, StreamPush DEF Stream!Next
<1>2. CASE InsertAll
  <2>1. /\ Extends(buffer_, buffer_', data) /\ data' = << >> /\ call' = call
    BY <1>2, InsertAllEffect
  <2>2. /\ SubSeq(data, 1, Len(data)) = data
        /\ SubSeq(data, Len(data) + 1, Len(data)) = << >>
        /\ Len(data) \in 0 .. Len(data)
    BY Sizes, CutProps, SubSeqFull, EmptySeq
  <2> QED
    BY <2>1, <2>2, StreamStore
<1>3. CASE InsertSubset
  <2>1. PICK k \in 1 .. Len(data) :
          /\ Extends(buffer_, buffer_', SubSeq(data, 1, k))
          /\ data' = SubSeq(data, k + 1, Len(data)) /\ call' = call
    BY <1>3, InsertSubsetEffect, Zenon
  <2>2. k \in 0 .. Len(data)
    BY Sizes
  <2> QED
    BY <2>1, <2>2, StreamStore
<1>4. CASE DumpBuffer
  BY <1>4, StreamDump DEF Stream!Next
<1>5. CASE NoLineLeft
  BY <1>5 DEF NoLineLeft, Held
<1>6. CASE TryParse
  BY <1>6, StreamParse DEF Stream!Next
<1>7. CASE UNCHANGED vars
  BY <1>7 DEF vars, Held
<1> QED
  BY <1>1, <1>2, <1>3, <1>4, <1>5, <1>6, <1>7 DEF Next

\* Of a buffer of any size, every step that neither begins nor ends with a full
\* buffer off its first cell is one of the line stream: only there can push_data
\* lose a line, tear it apart or report it out of order (irlogger_parser.hpp:20).
THEOREM LinesDelivered == Spec => LinesUnlessMisfilled
<1>1. Init => Stream!Init
  BY StreamInit
<1>2. IInv /\ IInv' /\ Stages /\ [Next]_vars =>
        [~Misfilled /\ ~Misfilled' => Stream!Next]_<<Held, call>>
  BY StreamStep
<1> QED
  BY <1>1, <1>2, StagesInvariance, PTL DEF Spec, LinesUnlessMisfilled

\* A parser that never gets into that state keeps the promise of its header
\* (irlogger_parser.hpp:20) altogether, whatever overflows and whatever throws.
THEOREM StreamWithoutMisfill == Spec /\ []~Misfilled => ImplementsLineStream
<1>1. Spec => Stream!Init /\ [][~Misfilled /\ ~Misfilled' => Stream!Next]_<<Held, call>>
  BY LinesDelivered DEF LinesUnlessMisfilled
<1>2. ~Misfilled /\ ~Misfilled' /\ [~Misfilled /\ ~Misfilled' => Stream!Next]_<<Held, call>>
        => [Stream!Next]_<<Held, call>>
  OBVIOUS
<1> QED
  BY <1>1, <1>2, PTL DEF ImplementsLineStream, Stream!Spec

\* Whatever is pushed leaves a cell of the buffer free.
Roomy == pc = "push" => buffer_.size_ + Len(data) < N

FreeCell == buffer_.size_ < N /\ pc # "fill"

LEMMA RoomyStep ==
  ASSUME IInv, Stages, Roomy, FreeCell, [Next]_vars
  PROVE  FreeCell'
<1> USE DEF FreeCell
<1>1. ASSUME NEW s \in Chunks, PushData(s) PROVE FreeCell'
  BY <1>1 DEF PushData
<1>2. CASE InsertAll
  <2>1. buffer_'.size_ = buffer_.size_ + Len(data) /\ pc = "push" /\ pc' = "drain"
    BY <1>2, InsertAllEffect DEF Extends
  <2> QED
    BY <2>1 DEF Roomy
<1>3. CASE InsertSubset \/ DumpBuffer
  <2>1. pc = "push" /\ buffer_.size_ + Len(data) > N
    BY <1>3 DEF InsertSubset, DumpBuffer
  <2> QED
    BY <2>1, Sizes DEF Roomy
<1>4. CASE NoLineLeft
  BY <1>4 DEF NoLineLeft
<1>5. CASE TryParse
  <2>1. PICK n \in FirstEnds :
          /\ n \in 1 .. Len(Peek(buffer_))
          /\ buffer_'.size_ = buffer_.size_ - n
          /\ pc \in {"drain", "drain_then_push"} /\ (pc' = pc \/ pc' = "thrown")
    BY <1>5, TryParseEffect, Zenon
  <2> QED
    BY <2>1, Sizes
<1>6. CASE UNCHANGED vars
  BY <1>6 DEF vars
<1> QED
  BY <1>1, <1>2, <1>3, <1>4, <1>5, <1>6 DEF Next

\* Bytes that always leave a cell of the buffer free reach the callback line by line,
\* whole, once and in order (irlogger_parser.hpp:20).
THEOREM StreamWhileRoomy == Spec /\ []Roomy => ImplementsLineStream
<1>1. Init => FreeCell
  BY RingAssumption DEF Init, EmptyRing, FreeCell
<1>2. IInv /\ Stages /\ Roomy /\ FreeCell /\ [Next]_vars => FreeCell'
  BY RoomyStep
<1>3. IInv /\ FreeCell => ~Misfilled
  BY Sizes DEF Misfilled, FreeCell
<1> QED
  BY <1>1, <1>2, <1>3, StagesInvariance, StreamWithoutMisfill, PTL DEF Spec
===============================================================================

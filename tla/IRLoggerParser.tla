---------------------------- MODULE IRLoggerParser ----------------------------
(***************************************************************************)
(* The class IRLoggerParser: the bytes of evo::IRLogger's pipe go into a   *)
(* ring buffer of N = STRING_BUFFER_SIZE cells, and each line found in it  *)
(* goes to the logging callback.  The class is not thread safe: one thread *)
(* calls push_data.  The steps of one call are separate actions, because   *)
(* the callback runs between them and may throw (it calls into Python).    *)
(*                                                                         *)
(* A line "has the form of a log line" when it begins with Header: this    *)
(* stands for the regular expression of parse_line.                        *)
(***************************************************************************)
EXTENDS StringRingBuffer

CONSTANTS
  NL, Header,        \* two of the bytes
  Chunks,            \* the strings push_data may be called with
  CallbackMayThrow

ASSUME ParserAssumption ==
  /\ {NL, Header} \subseteq Byte /\ NL # Header
  /\ Chunks \subseteq Seq(Byte)
  /\ CallbackMayThrow \in BOOLEAN

VARIABLES
  buffer_,  \* the ring buffer
  data,     \* the part of push_data's argument that is not in buffer_ yet
  pc,       \* where push_data is: see TypeOK
  call      \* the last call of logging_callback_

vars == <<buffer_, data, pc, call>>

-------------------------------------------------------------------------------
(* parse_line and the calls of the callback *)

Parses(line) == line # << >> /\ Head(line) = Header

Held == Peek(buffer_) \o data

Stream == INSTANCE LineStream WITH Capacity <- N, held <- Held

Report(kind, text) == Stream!Report(kind, text)

\* The callback returned, or threw and the exception leaves push_data.  It also
\* ends the only thread that calls push_data (irlogger_to_spd_posix.cpp:219).
Returns(next) == pc' = next /\ UNCHANGED data
Throws        == CallbackMayThrow /\ pc' = "thrown" /\ data' = << >>

-------------------------------------------------------------------------------
(* push_data *)

PushData(s) ==
  /\ pc = "idle"
  /\ data' = s /\ pc' = "push"
  /\ UNCHANGED <<buffer_, call>>

\* buffer_.insert throws std::out_of_range when it has no room; nothing here
\* catches it.
InsertFront(k, next) ==
  LET outcome == InsertInto(buffer_, SubSeq(data, 1, k))
  IN  /\ buffer_' = outcome.ring
      /\ data' = SubSeq(data, k + 1, Len(data))
      /\ pc' = IF outcome.threw THEN "out_of_range" ELSE next
      /\ UNCHANGED call

InsertAll ==
  /\ pc = "push"
  /\ buffer_.size_ + Len(data) <= N
  /\ InsertFront(Len(data), "drain")

NothingDumped == 0  \* bug: the dumped bytes stay in the buffer
Dumped == buffer_.size_

\* The buffer is full and more data arrives.
DumpBuffer ==
  /\ pc = "push"
  /\ buffer_.size_ + Len(data) > N
  /\ buffer_.size_ = N
  /\ call' = Report("overflow", Peek(buffer_))
  /\ \/ Returns("fill") /\ buffer_' = DiscardFrom(buffer_, Dumped).ring
     \/ Throws /\ UNCHANGED buffer_

WholeBuffer == N  \* bug: the bytes held already are not counted
Room == N - buffer_.size_

InsertSubset ==
  /\ \/ pc = "push" /\ buffer_.size_ + Len(data) > N /\ buffer_.size_ # N
     \/ pc = "fill"
  /\ InsertFront(IF Len(data) < Room THEN Len(data) ELSE Room, "drain_then_push")

Draining == pc \in {"drain", "drain_then_push"}

-------------------------------------------------------------------------------
(* try_parse *)

\* buffer_contents.find("\n"), counted from 1.
FirstEnds == Stream!FirstEnds(Peek(buffer_))

\* try_parse returns false: push_data ends, or calls itself with the rest.
NoLineLeft ==
  /\ Draining
  /\ FirstEnds = {}
  /\ pc' = IF pc = "drain" THEN "idle" ELSE "push"
  /\ UNCHANGED <<buffer_, data, call>>

UpToNL(index) == index  \* bug: the NL stays in the buffer
PastNL(index) == index + 1

\* A line is discarded from the buffer before the callback sees it.
TryParse ==
  /\ Draining
  /\ \E n \in FirstEnds :
       LET index == n - 1
           line  == SubSeq(Peek(buffer_), 1, index)
       IN  /\ buffer_' = DiscardFrom(buffer_, PastNL(index)).ring
           /\ \/ /\ Parses(line)
                 /\ call' = Report("parsed", line)
                 /\ Returns(pc)
              \* Not a log line; or the callback threw on one, inside the try.
              \/ /\ ~Parses(line) \/ CallbackMayThrow
                 /\ call' = Report("failed", line)
                 /\ Returns(pc) \/ Throws

Init ==
  /\ buffer_ = EmptyRing /\ data = << >> /\ pc = "idle"
  /\ call = Report("none", << >>)

Next ==
  \/ \E s \in Chunks : PushData(s)
  \/ InsertAll \/ DumpBuffer \/ InsertSubset
  \/ NoLineLeft \/ TryParse

\* push_data is straight-line code of one thread: it goes on.
Fairness == WF_vars(InsertAll \/ DumpBuffer \/ InsertSubset \/ NoLineLeft \/ TryParse)

Spec == Init /\ [][Next]_vars /\ Fairness

-------------------------------------------------------------------------------
(* Properties *)

\* The ranges of the members, the steps push_data can be in, and the callback
\* only ever being told of bytes that were pushed.
TypeOK ==
  /\ buffer_ \in Ring
  /\ data \in Seq(Byte)
  /\ pc \in {"idle", "push", "fill", "drain", "drain_then_push",
            "thrown", "out_of_range"}
  /\ call.kind \in {"none", "parsed", "failed", "overflow"}
  /\ call.text \in Seq(Byte)

\* No call of push_data, however long its argument and however full the buffer,
\* makes the buffer throw: the overflow branch always makes room first.
NeverOutOfRange == pc # "out_of_range"

\* Every step of push_data leaves fewer bytes to store, or goes on to a later stage
\* of the same pass (NoLineLeft begins the next one), or takes a line from the
\* buffer: no step can be taken for ever, each pass of the overflow branch takes at
\* least one byte, and each try_parse that returns true removes a line.
StagesLeft ==
  CASE pc = "drain_then_push" -> 4
    [] pc = "push"  -> 3
    [] pc = "fill"  -> 2
    [] pc = "drain" -> 1
    [] OTHER        -> 0

PushAdvances ==
  [][pc # "idle" =>
       \/ Len(data') < Len(data)
       \/ Len(data') = Len(data) /\ StagesLeft' < StagesLeft
       \/ data' = data /\ StagesLeft' = StagesLeft /\ buffer_'.size_ < buffer_.size_]_vars

\* So every call of push_data returns or lets the callback's exception through.
PushReturns == pc = "push" ~> pc \in {"idle", "thrown"}

\* Lines reach the callback whole, in order, and before more bytes are taken
\* ("automatically calling the callback", irlogger_parser.hpp:20).
ImplementsLineStream == Stream!Spec

\* The buffer is full, and its first byte is not in the first cell of data_: the one
\* layout from which StringRingBuffer::discard may go to a wrong place, and (with
\* begin_ = N) in which peek sees nothing.
Misfilled == buffer_.size_ = N /\ buffer_.begin_ # 0

\* Nothing else loses lines, or cuts them wrongly: every step that does not begin or
\* end with such a buffer is one of the line stream, the overflow branch and
\* exceptions of the callback included.
LinesUnlessMisfilled ==
  Stream!Init /\ [][~Misfilled /\ ~Misfilled' => Stream!Next]_<<Held, call>>
===============================================================================

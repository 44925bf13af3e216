---------------------------- MODULE LogPathProofs ----------------------------
(***************************************************************************)
(* In the build with the real library, the writer opens the pipe that was  *)
(* made for it, whatever the length of a second, of Period and of the      *)
(* delays, when the way from one look at the clock to the other takes less *)
(* than Period: provided that sleep_until is not late by so much that less *)
(* than Period is left again.                                              *)
(*                                                                         *)
(* What makes it so is RoomLeft: until the writer has looked at the clock, *)
(* what is left of the second and what the program has used up since it    *)
(* looked make up at least Period.  So the second does not end before      *)
(* Period is used up.                                                      *)
(***************************************************************************)
EXTENDS LogPath, TLAPS

OnTime == build = "real" /\ delay < Period

RoomLeft == OnTime /\ pc \in {"name_pipe", "writer"} => Second - tick + delay >= Period

PipeIsOfThisSecond == OnTime /\ pc = "writer" => pipe = second

IInv == TypeOK /\ RoomLeft /\ PipeIsOfThisSecond /\ LibraryOpensThePipe

LEMMA NextTickIs ==
  ASSUME NEW t \in 0 .. Second - 1
  PROVE  NextTick(t) = IF t + 1 = Second THEN 0 ELSE t + 1
  BY LogPathAssumption DEF NextTick

\* The variables of LogPath keep their types, in both builds.
THEOREM TypeCorrect == Spec => []TypeOK
<1>1. Init => TypeOK
  BY LogPathAssumption DEF Init, TypeOK, NoName
<1>2. TypeOK /\ [Next]_vars => TypeOK'
  <2> SUFFICES ASSUME TypeOK, [Next]_vars PROVE TypeOK'
    OBVIOUS
  <2> USE LogPathAssumption DEF TypeOK, AtEndOfSecond, Datestring
  <2>1. CASE Tick
    BY <2>1, NextTickIs DEF Tick
  <2>2. CASE WaitForPipe
    BY <2>2 DEF WaitForPipe, WaitIfAtEndOfSecond
  <2>3. CASE NamePipe
    BY <2>3 DEF NamePipe
  <2>4. CASE WaitForLog
    BY <2>4 DEF WaitForLog, WaitIfAtEndOfSecond
  <2>5. CASE NameLog
    BY <2>5 DEF NameLog
  <2>6. CASE UNCHANGED vars
    BY <2>6 DEF vars
  <2> QED
    BY <2>1, <2>2, <2>3, <2>4, <2>5, <2>6 DEF Next
<1> QED
  BY <1>1, <1>2, PTL DEF Spec

\* evo::IRLogger computes the name of the pipe that irlogger_log_path computed
\* (irlogger_to_spd_posix.cpp:274), when the way takes less than its Period.
THEOREM NamesAgree ==
  ASSUME MaxOversleep <= Second - Period
  PROVE  Spec => []LibraryOpensThePipe
<1> USE LogPathAssumption
<1>1. Init => IInv
  BY DEF Init, IInv, TypeOK, NoName, OnTime, RoomLeft, PipeIsOfThisSecond, LibraryOpensThePipe
<1>2. ASSUME IInv, [Next]_vars PROVE IInv'
  <2> USE <1>2 DEF IInv, TypeOK, OnTime, RoomLeft, PipeIsOfThisSecond, LibraryOpensThePipe,
                AtEndOfSecond, Datestring
  \* While the program is on time, there is always a tick left.
  <2>1. CASE Tick
    <3>1. pc \in {"name_pipe", "writer", "name_log"} /\ delay < MaxDelay
      BY <2>1 DEF Tick
    <3>2. CASE ~OnTime' \/ pc = "name_log"
      BY <2>1, <3>2, NextTickIs DEF Tick
    <3>3. CASE OnTime' /\ pc # "name_log"
      <4>1. OnTime /\ tick + 1 # Second
        BY <2>1, <3>1, <3>3, NextTickIs DEF Tick
      <4> QED
        BY <2>1, <3>1, <3>3, <4>1, NextTickIs DEF Tick
    <3> QED
      BY <3>2, <3>3
  <2>2. CASE WaitForPipe
    BY <2>2 DEF WaitForPipe, WaitIfAtEndOfSecond
  <2>3. CASE NamePipe
    BY <2>3 DEF NamePipe
  <2>4. CASE WaitForLog
    BY <2>4 DEF WaitForLog, WaitIfAtEndOfSecond
  <2>5. CASE NameLog
    BY <2>5 DEF NameLog
  <2>6. CASE UNCHANGED vars
    BY <2>6 DEF vars
  <2> QED
    BY <2>1, <2>2, <2>3, <2>4, <2>5, <2>6, <1>2 DEF Next
<1>3. IInv => LibraryOpensThePipe
  BY DEF IInv
<1> QED
  BY <1>1, <1>2, <1>3, PTL DEF Spec

-------------------------------------------------------------------------------
(* The build does not matter for the second result: once the pipe has its  *)
(* name the second ends once at most.  When it has ended already, what has *)
(* passed of the new one is no more than the program has used up.          *)

Passed == delay + (IF pc = "name_log" THEN MaxOversleep ELSE 0)

EndsOnce ==
  pc \in {"writer", "name_log"} => second = pipe \/ (second = pipe + 1 /\ tick <= Passed)

MInv == TypeOK /\ EndsOnce /\ MissesByOneAtMost

\* Also the mocked writer, which sleeps on its own, opens the file of the very next
\* second at worst (irlogger_to_spd_posix.cpp:303), when the way takes less than what
\* is left of a second without Period.
THEOREM NeverFarOff ==
  ASSUME MaxDelay <= Second - Period
  PROVE  Spec => []MissesByOneAtMost
<1> USE LogPathAssumption
<1>1. Init => MInv
  BY DEF Init, MInv, TypeOK, NoName, EndsOnce, MissesByOneAtMost
<1>2. ASSUME TypeOK', MInv, [Next]_vars PROVE MInv'
  <2> USE <1>2 DEF MInv, TypeOK, EndsOnce, Passed, MissesByOneAtMost, AtEndOfSecond, Datestring
  <2>1. CASE Tick
    <3>1. CASE tick + 1 = Second
      <4>1. pc \in {"writer", "name_log"} => second = pipe
        BY <2>1, <3>1 DEF Tick
      <4> QED
        BY <2>1, <3>1, <4>1, NextTickIs DEF Tick
    <3>2. CASE tick + 1 # Second
      BY <2>1, <3>2, NextTickIs DEF Tick
    <3> QED
      BY <3>1, <3>2
  <2>2. CASE WaitForPipe
    BY <2>2 DEF WaitForPipe, WaitIfAtEndOfSecond
  <2>3. CASE NamePipe
    BY <2>3 DEF NamePipe
  <2>4. CASE WaitForLog
    <3>1. AtEndOfSecond => second = pipe
      BY <2>4 DEF WaitForLog, WaitIfAtEndOfSecond
    <3>2. pc = "writer" /\ pc' = "name_log" /\ UNCHANGED <<build, pipe, log>>
      BY <2>4 DEF WaitForLog, WaitIfAtEndOfSecond
    <3>3. CASE AtEndOfSecond
      <4>1. second' = second + 1 /\ tick' <= MaxOversleep /\ delay' = 0
        BY <2>4, <3>3 DEF WaitForLog, WaitIfAtEndOfSecond
      <4> QED
        BY <3>1, <3>2, <3>3, <4>1
    <3>4. CASE ~AtEndOfSecond
      <4>1. UNCHANGED <<second, tick, delay>>
        BY <2>4, <3>4 DEF WaitForLog, WaitIfAtEndOfSecond
      <4> QED
        BY <3>2, <4>1
    <3> QED
      BY <3>3, <3>4
  <2>5. CASE NameLog
    BY <2>5 DEF NameLog
  <2>6. CASE UNCHANGED vars
    BY <2>6 DEF vars
  <2> QED
    BY <2>1, <2>2, <2>3, <2>4, <2>5, <2>6 DEF Next
<1>3. MInv => MissesByOneAtMost
  BY DEF MInv
<1> QED
  BY <1>1, <1>2, <1>3, TypeCorrect, PTL DEF Spec
===============================================================================

------------------------------- MODULE LogPath -------------------------------
(***************************************************************************)
(* Two parties must agree on the name of a file that neither tells the     *)
(* other.  IRLoggerToSpd::impl first computes the name evo::IRLogger will  *)
(* use (irlogger_log_path: the second the clock shows) and creates a pipe  *)
(* of that name; then evo::IRLogger computes it for itself, from a clock   *)
(* that has moved on.  To keep both in one second, irlogger_log_path       *)
(* sleeps when less than Period is left of the current one.                *)
(*                                                                         *)
(* The clock is a pair: the second, and the tick in it (0 .. Second - 1).  *)
(* In the mocked build (IR_IMAGER_MOCK) the writer calls irlogger_log_path *)
(* too, and may sleep.                                                     *)
(***************************************************************************)
EXTENDS Integers

CONSTANTS
  Second,      \* ticks in a second
  Period,      \* delay_if_at_end_of_second
  MaxDelay,    \* bound: ticks the program spends on its way, when not asleep
  MaxOversleep,\* bound: ticks by which sleep_until may be late
  Builds       \* which of the builds "real" and "mock" are looked at

ASSUME LogPathAssumption ==
  /\ Second \in Nat \ {0} /\ Period \in 0 .. Second
  /\ MaxDelay \in Nat /\ MaxOversleep \in Nat
  /\ MaxDelay + MaxOversleep < Second
  /\ Builds \subseteq {"real", "mock"}

NoName == -1

VARIABLES
  build,         \* the build of the program
  second, tick,  \* the system clock
  pc,            \* the thread that constructs IRLoggerToSpd::impl
  delay,         \* ticks spent since the clock was first looked at, or since waking
  pipe,          \* the second in the name of the pipe
  log            \* the second in the name that the writer opens

vars == <<build, second, tick, pc, delay, pipe, log>>

NoCarry(t) == t + 1  \* bug: the fraction of a second is not cut off
NextTick(t) == (t + 1) % Second

\* Time passes while the thread does anything but sleep.
Tick ==
  /\ pc \in {"name_pipe", "writer", "name_log"}
  /\ delay < MaxDelay
  /\ delay' = delay + 1
  /\ tick' = NextTick(tick)
  /\ second' = IF tick + 1 = Second THEN second + 1 ELSE second
  /\ UNCHANGED <<build, pc, pipe, log>>

Never == FALSE  \* bug: no sleep at the end of a second
AtEndOfSecond == Second - tick < Period

\* wait_if_at_end_of_second, called at `from`: next_second(now) - now < period.
WaitIfAtEndOfSecond(from, next) ==
  /\ pc = from
  /\ pc' = next
  /\ UNCHANGED <<build, pipe, log>>
  /\ IF AtEndOfSecond
     THEN \E late \in 0 .. MaxOversleep :
            second' = second + 1 /\ tick' = late /\ delay' = 0
     ELSE UNCHANGED <<second, tick, delay>>

WaitForPipe == WaitIfAtEndOfSecond("start", "name_pipe")

Rounded == IF 2 * tick >= Second THEN second + 1 ELSE second  \* bug: not cut off
Datestring == second

\* evo_irlogger_datestring(system_clock::now()) shows the seconds.
NamePipe ==
  /\ pc = "name_pipe"
  /\ pipe' = Datestring
  /\ pc' = "writer"
  /\ UNCHANGED <<build, second, tick, delay, log>>

\* The writer is started: the constructor of IRLoggerImpl.
WaitForLog ==
  /\ build = "mock"
  /\ WaitIfAtEndOfSecond("writer", "name_log")

NameLog ==
  /\ pc = (IF build = "mock" THEN "name_log" ELSE "writer")
  /\ log' = Datestring
  /\ pc' = "done"
  /\ UNCHANGED <<build, second, tick, delay, pipe>>

Init ==
  /\ build \in Builds
  /\ second = 0 /\ tick \in 0 .. Second - 1
  /\ pc = "start" /\ delay = 0
  /\ pipe = NoName /\ log = NoName

Next == Tick \/ WaitForPipe \/ NamePipe \/ WaitForLog \/ NameLog

Spec == Init /\ [][Next]_vars

-------------------------------------------------------------------------------
(* Properties *)

TypeOK ==
  /\ build \in Builds
  /\ second \in Nat /\ tick \in 0 .. Second - 1
  /\ pc \in {"start", "name_pipe", "writer", "name_log", "done"}
  /\ delay \in 0 .. MaxDelay
  /\ pipe \in Nat \cup {NoName} /\ log \in Nat \cup {NoName}

\* evo::IRLogger opens the pipe that was made for it, not a new file beside it ("to
\* avoid race-conditions", irlogger_to_spd_posix.cpp:272), when the way to it takes
\* less than the time that is kept free.
LibraryOpensThePipe ==
  build = "real" /\ pc = "done" /\ delay < Period => log = pipe

\* The mocked writer may open another file, as its own call of irlogger_log_path
\* may sleep: it is that of the very next second, never an older one.
MissesByOneAtMost == pc = "done" => log \in {pipe, pipe + 1}
===============================================================================

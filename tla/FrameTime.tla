------------------------------- MODULE FrameTime -------------------------------
(***************************************************************************)
(* The time an image comes with.  get_frame_monotonic returns it on the    *)
(* steady clock: that of the camera's frame, or in the mocked IRImager the *)
(* time of the call.  get_frame converts it with clock_cast, which looks   *)
(* at both clocks, one after the other; Python may also convert it by      *)
(* itself, and later (monotonic_to_system_clock).                          *)
(*                                                                         *)
(* The steady clock stops while the machine is suspended, the system clock *)
(* may be set, and time goes on between any two steps.  Every clock, and   *)
(* the timestamp of the camera, is cut to whole units (nanoseconds).  All  *)
(* calls drop the GIL, so streaming may start or stop at any time.         *)
(***************************************************************************)
EXTENDS Integers

CONSTANTS
  Impls,     \* which of "real" and "mock" are looked at
  Unit,      \* ticks in the unit of the clocks
  MaxTime,   \* bound: ticks
  MaxLapse,  \* bound: ticks awake between clock_cast's two readings
  Settings   \* what the system clock may be set to be ahead by

ASSUME TimeAssumption ==
  /\ Impls \subseteq {"real", "mock"}
  /\ Unit \in Nat \ {0} /\ MaxTime \in Nat /\ MaxLapse \in Nat
  /\ Settings \subseteq Int

VARIABLES
  impl,        \* the implementation of IRImager
  streaming_,  \* the flag of the mock, or whether the device streams
  now,         \* ticks that have passed
  slept,       \* those of them in which the machine was suspended
  setting,     \* how much the system clock is ahead
  frame,       \* the last frame of the camera: `now` and `slept` when it was taken
  pc,          \* "idle", "get", "got", "read": in the call; "done": it returns a time
  image,       \* the frame of which the caller has the image
  steady_time, \* its time, as get_frame_monotonic returned it
  sys_now,     \* clock_cast: the first reading, when, and of what setting
  result       \* what clock_cast returned

clocks == <<now, slept, setting>>
camera == <<impl, streaming_, frame>>
held   == <<image, steady_time>>
cast   == <<sys_now, result>>
vars   == <<clocks, camera, pc, held, cast>>

Whole(t) == t - (t % Unit)  \* std::chrono::floor

steady_clock == Whole(now - slept)
system_clock == Whole(now + setting)

Frame == [at |-> now, slept |-> slept]
NoFrame == [at |-> -1, slept |-> 0]

Awake == now - slept

-------------------------------------------------------------------------------
(* Time *)

\* Ticks awake since clock_cast's first reading.
Lapse == Awake - sys_now.awake

Tick ==
  /\ now < MaxTime /\ now' = now + 1
  /\ pc = "read" => Lapse < MaxLapse
  /\ UNCHANGED <<slept, setting, camera, pc, held, cast>>

Suspend ==
  /\ now < MaxTime /\ now' = now + 1 /\ slept' = slept + 1
  /\ UNCHANGED <<setting, camera, pc, held, cast>>

SetClock ==
  /\ setting' \in Settings
  /\ UNCHANGED <<now, slept, camera, pc, held, cast>>

-------------------------------------------------------------------------------
(* The camera *)

StartStopStreaming ==
  /\ streaming_' \in BOOLEAN
  /\ UNCHANGED <<clocks, impl, frame, pc, held, cast>>

Capture ==
  /\ impl = "real" /\ streaming_
  /\ frame' = Frame
  /\ UNCHANGED <<clocks, impl, streaming_, pc, held, cast>>

-------------------------------------------------------------------------------
(* get_frame_monotonic *)

GetFrame ==
  /\ pc = "idle"
  /\ pc' = "get"
  /\ UNCHANGED <<clocks, camera, held, cast>>

\* Not streaming, or anything else that fails in the real one.
GetFrameThrows ==
  /\ pc = "get"
  /\ impl = "mock" => ~streaming_
  /\ pc' = "idle"
  /\ UNCHANGED <<clocks, camera, held, cast>>

MockTimeOnSystemClock == system_clock  \* bug: system_clock::now()
MockTime == steady_clock

MockGetFrame ==
  /\ impl = "mock" /\ pc = "get" /\ streaming_
  /\ image' = Frame /\ steady_time' = MockTime
  /\ pc' = "got"
  /\ UNCHANGED <<clocks, camera, cast>>

InSeconds(t) == t - (t % (3 * Unit))  \* bug: floor<> of a coarser unit
RoundedUp(t) == Whole(t + Unit - 1)  \* bug: ceil<>
InNanoseconds(t) == Whole(t)

\* ir_device_->getFrame.  The image follows, and time passes until it is there.
RealGetFrame ==
  /\ impl = "real" /\ pc = "get" /\ streaming_ /\ frame # NoFrame
  /\ image' = frame /\ steady_time' = InNanoseconds(frame.at - frame.slept)
  /\ pc' = "got"
  /\ UNCHANGED <<clocks, camera, cast>>

\* get_frame_monotonic was called by Python, which has the steady time now.
ReturnMonotonic ==
  /\ pc = "got"
  /\ pc' = "idle"
  /\ UNCHANGED <<clocks, camera, held, cast>>

-------------------------------------------------------------------------------
(* clock_cast, from get_frame or of the time of the last image *)

ReadSystemClock ==
  /\ pc = "got" \/ (pc = "idle" /\ image # NoFrame)
  /\ sys_now' = [shown |-> system_clock, setting |-> setting, awake |-> Awake]
  /\ pc' = "read"
  /\ UNCHANGED <<clocks, camera, held, result>>

Swapped(sdy_now) == steady_time + sdy_now - sys_now.shown  \* bug: the clocks are swapped
ClockCast(sdy_now) == steady_time - sdy_now + sys_now.shown

ReadSteadyClock ==
  /\ pc = "read"
  /\ result' = ClockCast(steady_clock)
  /\ pc' = "done"
  /\ UNCHANGED <<clocks, camera, held, sys_now>>

Return ==
  /\ pc = "done"
  /\ pc' = "idle"
  /\ UNCHANGED <<clocks, camera, held, cast>>

-------------------------------------------------------------------------------

Init ==
  /\ impl \in Impls /\ streaming_ = FALSE
  /\ now = 0 /\ slept = 0 /\ setting \in Settings
  /\ frame = NoFrame /\ image = NoFrame /\ steady_time = 0
  /\ pc = "idle" /\ result = 0
  /\ sys_now = [shown |-> 0, setting |-> 0, awake |-> 0]

Next ==
  \/ Tick \/ Suspend \/ SetClock
  \/ StartStopStreaming \/ Capture
  \/ GetFrame \/ GetFrameThrows \/ MockGetFrame \/ RealGetFrame \/ ReturnMonotonic
  \/ ReadSystemClock \/ ReadSteadyClock \/ Return

Spec == Init /\ [][Next]_vars

-------------------------------------------------------------------------------
(* Properties *)

TypeOK ==
  /\ impl \in Impls /\ streaming_ \in BOOLEAN
  /\ now \in 0 .. MaxTime /\ slept \in 0 .. now /\ setting \in Settings
  /\ frame \in [at : -1 .. now, slept : 0 .. slept]
  /\ image \in [at : -1 .. now, slept : 0 .. slept]
  /\ pc \in {"idle", "get", "got", "read", "done"}
  /\ steady_time \in Nat /\ result \in Int
  /\ sys_now \in [shown : Int, setting : Settings \cup {0}, awake : 0 .. Awake]

\* When the image was taken, by the system clock as it was set at the first reading.
TakenAt == image.at + sys_now.setting

\* The result is early by no more than the lapse between the readings, and what
\* the clocks cut off ("The approximate time the image was taken",
\* irimager_class.hpp:95).
HardlyEarly ==
  pc = "done" => TakenAt - result <= MaxLapse + 2 * (Unit - 1)

\* It is late only by the time for which the machine was suspended since the image
\* was taken ("the monotonic time may not have increased", chrono.hpp:32).
LateByTheSleep ==
  pc = "done" => result - TakenAt <= slept - image.slept + Unit - 1

\* No image is from the future of the clock it is dated by.
NotFromTheFuture == pc = "done" => result <= sys_now.shown

\* Of two images the later one never has the earlier steady time, whatever becomes
\* of the system clock ("assert steady_time_2 > steady_time", test_irimager.py:97).
SteadyTimesAscend ==
  [][image' # image /\ image # NoFrame => steady_time' >= steady_time]_vars
===============================================================================

---------------------------- MODULE FrameTimeProofs ----------------------------
(***************************************************************************)
(* For clocks of any unit, any settings of the system clock, any bound on  *)
(* the lapse between clock_cast's two readings, and sleep at any moment:   *)
(* how far the time of an image may be off, and that steady times ascend.  *)
(*                                                                         *)
(* The invariant (IInv) ties the steady time held to the frame it is of,   *)
(* and the first reading of clock_cast to the clocks.                      *)
(***************************************************************************)
EXTENDS FrameTime, TLAPS

LEMMA WholeProps ==
  ASSUME NEW t \in Int
  PROVE  Whole(t) \in Int /\ Whole(t) <= t /\ t <= Whole(t) + Unit - 1
  <1>1. t % Unit \in 0 .. Unit - 1
    BY TimeAssumption
  <1> QED
    BY <1>1, TimeAssumption DEF Whole

LEMMA ProductsInOrder ==
  ASSUME NEW u \in Nat, NEW p \in Int, NEW q \in Int, u * p < u * q + u
  PROVE  p <= q
  <1>1. CASE p > q
    <2>1. PICK d \in Nat : p = q + 1 + d
      <3>1. p - (q + 1) \in Nat
        BY <1>1
      <3> QED
        BY <3>1
    <2>2. u * p = u * q + u + u * d
      BY <2>1
    <2>3. u * d \in Nat /\ u * q \in Int
      OBVIOUS
    <2> QED
      BY <2>2, <2>3
  <1> QED
    BY <1>1

LEMMA ProductsFollow ==
  ASSUME NEW u \in Nat, NEW p \in Int, NEW q \in Int, p <= q
  PROVE  u * p <= u * q
  <1>1. PICK d \in Nat : q = p + d
    <2>1. q - p \in Nat
      OBVIOUS
    <2> QED
      BY <2>1
  <1>2. u * q = u * p + u * d /\ u * d \in Nat /\ u * p \in Int
    BY <1>1
  <1> QED
    BY <1>2

LEMMA WholeMonotone ==
  ASSUME NEW s \in Int, NEW t \in Int, s <= t
  PROVE  Whole(s) <= Whole(t)
  <1> DEFINE p == s \div Unit
             q == t \div Unit
  <1>1. p \in Int /\ q \in Int /\ Whole(s) = Unit * p /\ Whole(t) = Unit * q
    BY TimeAssumption DEF Whole
  <1> HIDE DEF p, q
  <1>2. Unit * p < Unit * q + Unit
    BY <1>1, WholeProps, TimeAssumption
  <1>3. p <= q
    BY <1>1, <1>2, ProductsInOrder, TimeAssumption
  <1> QED
    BY <1>1, <1>3, ProductsFollow, TimeAssumption

LEMMA WholePositive ==
  ASSUME NEW t \in Nat
  PROVE  Whole(t) \in Nat
  <1>1. Whole(0) = 0
    BY TimeAssumption DEF Whole
  <1> QED
    BY <1>1, WholeMonotone, WholeProps

\* When a frame was taken, by a steady clock that shows every tick.
Steady(f) == f.at - f.slept

Recent(f) == f # NoFrame => f.at >= 0 /\ f.slept <= f.at /\ Steady(f) <= Awake

Reading ==
  /\ sys_now.shown <= now + sys_now.setting
  /\ sys_now.shown >= sys_now.awake + image.slept + sys_now.setting - (Unit - 1)
  /\ Lapse <= MaxLapse

Held ==
  /\ Recent(frame) /\ Recent(image)
  /\ image # NoFrame => steady_time = Whole(Steady(image))
  /\ impl = "real" /\ image # NoFrame => frame # NoFrame /\ Steady(image) <= Steady(frame)
  /\ pc \in {"got", "read", "done"} => image # NoFrame
  /\ pc = "read" => Reading

Dated == HardlyEarly /\ LateByTheSleep /\ NotFromTheFuture

IInv == TypeOK /\ Held /\ Dated

-------------------------------------------------------------------------------

LEMMA InitInv == Init => IInv
<1> SUFFICES ASSUME Init PROVE IInv
  OBVIOUS
<1>1. TypeOK
  <2>3. now = 0 /\ slept = 0 /\ streaming_ \in BOOLEAN
    BY DEF Init
  <2>4. now \in 0 .. MaxTime /\ slept \in 0 .. now /\ Awake = 0
    BY <2>3, TimeAssumption DEF Awake
  <2>1. NoFrame \in [at : -1 .. 0, slept : 0 .. 0]
    BY DEF NoFrame
  <2>2. [shown |-> 0, setting |-> 0, awake |-> 0] \in [shown : Int, setting : Settings \cup {0}, awake : 0 .. 0]
    OBVIOUS
  <2> QED
    BY <2>1, <2>2, <2>3, <2>4 DEF Init, TypeOK
<1>2. Held
  BY DEF Init, Held, Recent
<1>3. Dated
  BY DEF Init, Dated, HardlyEarly, LateByTheSleep, NotFromTheFuture
<1> QED
  BY <1>1, <1>2, <1>3 DEF IInv

LEMMA TypeStep == TypeOK /\ Held /\ [Next]_vars => TypeOK'
<1> SUFFICES ASSUME TypeOK, Held, [Next]_vars PROVE TypeOK'
  OBVIOUS
<1> USE TimeAssumption DEF TypeOK, clocks, camera, held, cast, Awake
<1>1. CASE Tick
  BY <1>1 DEF Tick
<1>2. CASE Suspend
  BY <1>2 DEF Suspend
<1>3. CASE SetClock
  BY <1>3 DEF SetClock
<1>4. CASE StartStopStreaming
  BY <1>4 DEF StartStopStreaming
<1>5. CASE Capture
  BY <1>5 DEF Capture, Frame
<1>6. CASE GetFrame
  BY <1>6 DEF GetFrame
<1>7. CASE GetFrameThrows
  BY <1>7 DEF GetFrameThrows
<1>8. CASE MockGetFrame
  BY <1>8, WholePositive DEF MockGetFrame, MockTime, Frame, steady_clock
<1>9. CASE RealGetFrame
  BY <1>9, WholePositive DEF RealGetFrame, InNanoseconds, Held, Recent, Steady
<1>10. CASE ReturnMonotonic
  BY <1>10 DEF ReturnMonotonic
<1>11. CASE ReadSystemClock
  BY <1>11, WholeProps DEF ReadSystemClock, system_clock
<1>12. CASE ReadSteadyClock
  BY <1>12, WholeProps DEF ReadSteadyClock, ClockCast, steady_clock
<1>13. CASE Return
  BY <1>13 DEF Return
<1>14. CASE UNCHANGED vars
  BY <1>14 DEF vars
<1> QED
  BY <1>1, <1>2, <1>3, <1>4, <1>5, <1>6, <1>7, <1>8, <1>9, <1>10, <1>11, <1>12, <1>13, <1>14 DEF Next

LEMMA Numbers ==
  ASSUME TypeOK
  PROVE  /\ sys_now.shown \in Int /\ sys_now.setting \in Int /\ sys_now.awake \in Int
         /\ image.at \in Int /\ image.slept \in Int /\ now \in Int /\ slept \in Int
<1>1. /\ sys_now.shown \in Int /\ sys_now.setting \in Settings \cup {0}
      /\ sys_now.awake \in 0 .. Awake
  BY Zenon DEF TypeOK
<1>2. now \in Int /\ slept \in Int
  BY TimeAssumption DEF TypeOK
<1>3. image.at \in Int /\ image.slept \in Int
  BY <1>2 DEF TypeOK
<1>4. sys_now.setting \in Int
  <2>1. Settings \cup {0} \subseteq Int
    BY TimeAssumption
  <2> QED
    BY <1>1, <2>1, Zenon
<1>5. sys_now.awake \in Int
  BY <1>1, <1>2 DEF Awake
<1> QED
  BY <1>1, <1>2, <1>3, <1>4, <1>5

LEMMA HeldStep == TypeOK /\ Held /\ [Next]_vars => Held'
<1> SUFFICES ASSUME TypeOK, Held, [Next]_vars PROVE Held'
  OBVIOUS
<1> USE TimeAssumption DEF TypeOK, clocks, camera, held, cast, Awake, Held, Recent, Steady, Reading, Lapse
<1>1. CASE Tick
  <2>1. now' \in Int /\ slept' \in Int /\ UNCHANGED <<frame, image, impl, pc, steady_time, sys_now>>
    BY <1>1 DEF Tick
  <2>2. Recent(frame)' /\ Recent(image)'
    BY <1>1, <2>1 DEF Tick
  <2>3. /\ sys_now.shown \in Int /\ sys_now.setting \in Int /\ sys_now.awake \in Int
        /\ image.slept \in Int /\ now \in Int /\ slept \in Int
    BY Numbers
  <2>4. pc = "read" => Reading'
    BY <1>1, <2>1, <2>3 DEF Tick
  <2> QED
    BY <2>1, <2>2, <2>4
<1>2. CASE Suspend
  <2>1. now' \in Int /\ slept' \in Int /\ UNCHANGED <<frame, image, impl, pc, steady_time, sys_now>>
    BY <1>2 DEF Suspend
  <2>2. Recent(frame)' /\ Recent(image)'
    BY <1>2, <2>1 DEF Suspend
  <2>3. /\ sys_now.shown \in Int /\ sys_now.setting \in Int /\ sys_now.awake \in Int
        /\ image.slept \in Int /\ now \in Int /\ slept \in Int
    BY Numbers
  <2>4. pc = "read" => Reading'
    BY <1>2, <2>1, <2>3 DEF Suspend
  <2> QED
    BY <2>1, <2>2, <2>4
<1>3. CASE SetClock
  BY <1>3 DEF SetClock
<1>4. CASE StartStopStreaming
  BY <1>4 DEF StartStopStreaming
<1>5. CASE Capture
  BY <1>5 DEF Capture, Frame, NoFrame
<1>6. CASE GetFrame
  BY <1>6 DEF GetFrame
<1>7. CASE GetFrameThrows
  BY <1>7 DEF GetFrameThrows
<1>8. CASE MockGetFrame
  BY <1>8 DEF MockGetFrame, MockTime, Frame, NoFrame, steady_clock
<1>9. CASE RealGetFrame
  BY <1>9 DEF RealGetFrame, InNanoseconds
<1>10. CASE ReturnMonotonic
  BY <1>10 DEF ReturnMonotonic
<1>11. CASE ReadSystemClock
  BY <1>11, WholeProps DEF ReadSystemClock, system_clock
<1>12. CASE ReadSteadyClock
  BY <1>12 DEF ReadSteadyClock
<1>13. CASE Return
  BY <1>13 DEF Return
<1>14. CASE UNCHANGED vars
  BY <1>14 DEF vars
<1> QED
  BY <1>1, <1>2, <1>3, <1>4, <1>5, <1>6, <1>7, <1>8, <1>9, <1>10, <1>11, <1>12, <1>13, <1>14 DEF Next

LEMMA DatedStep == IInv /\ [Next]_vars => Dated'
<1> SUFFICES ASSUME IInv, [Next]_vars PROVE Dated'
  OBVIOUS
<1>0. TypeOK /\ Held /\ Dated
  BY DEF IInv
<1> USE DEF clocks, camera, held, cast, Dated, HardlyEarly, LateByTheSleep, NotFromTheFuture, TakenAt
<1>1. CASE ReadSteadyClock
  <2> DEFINE taken == Steady(image)
  <2>1. /\ Recent(image) /\ image # NoFrame /\ Reading
        /\ result' = Whole(taken) - Whole(Awake) + sys_now.shown
        /\ UNCHANGED <<now, slept, image, sys_now>>
    BY <1>0, <1>1 DEF ReadSteadyClock, Held, ClockCast, steady_clock, Awake
  <2>2. /\ taken \in Int /\ Awake \in Int /\ taken <= Awake /\ image.slept <= slept
    <3>1. image.slept \in 0 .. slept
      BY <1>0, Zenon DEF TypeOK
    <3> QED
      BY <1>0, <2>1, <3>1, Numbers DEF Recent, Steady, Awake
  <2>3. /\ Whole(taken) \in Int /\ Whole(taken) <= taken /\ taken <= Whole(taken) + Unit - 1
        /\ Whole(Awake) \in Int /\ Whole(Awake) <= Awake /\ Awake <= Whole(Awake) + Unit - 1
        /\ Whole(taken) <= Whole(Awake)
    BY <2>2, WholeProps, WholeMonotone
  <2>4. TakenAt - result' <= MaxLapse + 2 * (Unit - 1)
    BY <1>0, <2>1, <2>2, <2>3, Numbers, TimeAssumption DEF Reading, Lapse, Awake, Steady
  <2>5. result' - TakenAt <= slept - image.slept + Unit - 1
    BY <1>0, <2>1, <2>2, <2>3, Numbers, TimeAssumption DEF Reading, Awake, Steady
  <2>6. result' <= sys_now.shown
    BY <1>0, <2>1, <2>3, Numbers
  <2> QED
    BY <2>1, <2>4, <2>5, <2>6
<1>2. CASE Suspend
  <2>1. /\ slept' = slept + 1 /\ UNCHANGED <<pc, image, sys_now, result>>
        /\ result \in Int /\ image.at \in Int /\ image.slept \in Int
        /\ sys_now.setting \in Int /\ slept \in Int
    BY <1>0, <1>2, Numbers DEF Suspend, TypeOK
  <2> QED
    BY <1>0, <2>1, TimeAssumption
<1>3. CASE Next /\ ~ReadSteadyClock /\ ~Suspend
  <2>1. pc' # "done" \/ UNCHANGED <<slept, pc, image, sys_now, result>>
    BY <1>3 DEF Next, Tick, SetClock, StartStopStreaming, Capture, GetFrame, GetFrameThrows,
       MockGetFrame, RealGetFrame, ReturnMonotonic, ReadSystemClock, Return
  <2> QED
    BY <1>0, <2>1
<1>4. CASE UNCHANGED vars
  BY <1>0, <1>4 DEF vars
<1> QED
  BY <1>1, <1>2, <1>3, <1>4

LEMMA Invariance == Spec => []IInv
<1>1. IInv /\ [Next]_vars => IInv'
  BY TypeStep, HeldStep, DatedStep DEF IInv
<1> QED
  BY <1>1, InitInv, PTL DEF Spec

\* The variables of FrameTime keep their types.
THEOREM TypeCorrect == Spec => []TypeOK
<1>1. IInv => TypeOK
  BY DEF IInv
<1> QED
  BY <1>1, Invariance, PTL

\* The time get_frame returns is early at most by the lapse between the two readings of
\* clock_cast (chrono.hpp:39) and what the clocks cut off.
THEOREM NeverVeryEarly == Spec => []HardlyEarly
<1>1. IInv => HardlyEarly
  BY DEF IInv, Dated
<1> QED
  BY <1>1, Invariance, PTL

\* It is late at most by the time the machine slept since the image was taken: the system
\* clock is read before the steady one (chrono.hpp:39).
THEOREM OnlySleepMakesLate == Spec => []LateByTheSleep
<1>1. IInv => LateByTheSleep
  BY DEF IInv, Dated
<1> QED
  BY <1>1, Invariance, PTL

\* An image is never dated after the reading of the system clock it is dated by.
THEOREM NeverInTheFuture == Spec => []NotFromTheFuture
<1>1. IInv => NotFromTheFuture
  BY DEF IInv, Dated
<1> QED
  BY <1>1, Invariance, PTL

\* Of two images the later has the later steady time, or the same, even if the system
\* clock is set back in between.
THEOREM SteadyNeverBack == Spec => SteadyTimesAscend
<1>1. IInv /\ [Next]_vars => [image' # image /\ image # NoFrame => steady_time' >= steady_time]_vars
  <2> SUFFICES ASSUME IInv, Next, image' # image, image # NoFrame
               PROVE  steady_time' >= steady_time
    BY DEF vars, held
  <2>1. TypeOK /\ Held
    BY DEF IInv
  <2>2. /\ Steady(image) \in Int /\ Awake \in Int /\ Steady(image) <= Awake
        /\ steady_time = Whole(Steady(image))
    BY <2>1, Numbers DEF Held, Recent, Steady, Awake
  <2>3. CASE MockGetFrame
    <3>1. steady_time' = Whole(Awake)
      BY <2>3 DEF MockGetFrame, MockTime, steady_clock, Awake
    <3> QED
      BY <2>2, <3>1, WholeMonotone
  <2>4. CASE RealGetFrame
    <3>1. steady_time' = Whole(Steady(frame))
      BY <2>4 DEF RealGetFrame, InNanoseconds, Steady
    <3>2. Steady(image) <= Steady(frame)
      BY <2>1, <2>4 DEF RealGetFrame, Held
    <3>3. Steady(frame) \in Int
      <4>1. frame.at \in -1 .. now /\ frame.slept \in 0 .. slept /\ now \in Int /\ slept \in Int
        BY <2>1, Numbers DEF TypeOK
      <4> QED
        BY <4>1 DEF Steady
    <3> QED
      BY <2>2, <3>1, <3>2, <3>3, WholeMonotone
  <2> QED
    BY <2>3, <2>4 DEF Next, Tick, Suspend, SetClock, StartStopStreaming, Capture, GetFrame,
       GetFrameThrows, ReturnMonotonic, ReadSystemClock, ReadSteadyClock, Return, held
<1> QED
  BY <1>1, Invariance, PTL DEF Spec, SteadyTimesAscend
===============================================================================

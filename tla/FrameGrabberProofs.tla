-------------------------- MODULE FrameGrabberProofs --------------------------
(***************************************************************************)
(* For any number of threads and frames, and wherever the callback runs:   *)
(* an image is in one place, and no wake-up is lost.  For one thread, with *)
(* the callback inside process(): it gets the image it took, never one of  *)
(* the closed shutter, and leaves nothing behind.                          *)
(*                                                                         *)
(* The invariant for one thread (Alone) follows the frame of the call on   *)
(* its way: at every step it is known where it can be.                     *)
(***************************************************************************)
EXTENDS FrameGrabber, TLAPS

\* A call that has a frame to process has one that nobody else has.
Fresh ==
  \A t \in Threads :
    /\ pc[t] \in {"process", "processing", "wait", "asleep", "return"} => timestamp[t] # None
    /\ pc[t] = "process" =>
         /\ timestamp[t] \notin queued \cup decoded \cup {thermal_data_}
         /\ \A s \in Threads :
              /\ result[s] # timestamp[t]
              /\ s # t => timestamp[s] # timestamp[t]

InOnePlace == ImageInOnePlace /\ Fresh /\ queued \cap decoded = {}

LEMMA TypeStep == TypeOK /\ Fresh /\ [Next]_vars => TypeOK'
<1> SUFFICES ASSUME TypeOK, Fresh, [Next]_vars PROVE TypeOK'
  OBVIOUS
<1>0. mode.users \subseteq Threads /\ (UNCHANGED mode)
  BY GrabberAssumption DEF TypeOK, Next, vars
<1> USE <1>0, GrabberAssumption DEF TypeOK, Fresh, Goto, CallEnds, library, calls, device, mailbox
<1>1. ASSUME NEW t \in Threads, StartStreaming(t) \/ StopStreaming(t) \/ Call(t) PROVE TypeOK'
  BY <1>1 DEF StartStreaming, StopStreaming, Call
<1>2. ASSUME NEW t \in Threads, InCall(t) PROVE TypeOK'
  <2>1. ASSUME NEW f \in Frames, NEW isDark \in BOOLEAN, GetFrame(t, f, isDark) PROVE TypeOK'
    BY <2>1 DEF GetFrame, Live
  <2>2. CASE GetFrameFails(t)
    BY <2>2 DEF GetFrameFails
  <2>3. CASE Process(t)
    BY <2>3 DEF Process
  <2>4. CASE ProcessReturns(t)
    BY <2>4 DEF ProcessReturns
  <2>5. CASE Take(t)
    BY <2>5 DEF Take, SwappedIn, IsBad
  <2>6. CASE Sleep(t)
    BY <2>6 DEF Sleep
  <2>7. CASE Timeout(t)
    BY <2>7 DEF Timeout, SecondsAreOver
  <2>8. CASE Return(t)
    BY <2>8 DEF Return
  <2> QED
    BY <1>2, <2>1, <2>2, <2>3, <2>4, <2>5, <2>6, <2>7, <2>8 DEF InCall
<1>3. ASSUME NEW f \in Frames, OnFrame(f) PROVE TypeOK'
  <2>1. CASE Decode(f)
    BY <2>1 DEF Decode
  <2>2. CASE Skip(f)
    BY <2>2 DEF Skip
  <2>3. CASE onThermalFrame(f)
    BY <2>3 DEF onThermalFrame, Image
  <2>4. CASE Warn(f)
    BY <2>4 DEF Warn
  <2>5. CASE NotifyOne(f)
    BY <2>5 DEF NotifyOne, Waiters
  <2> QED
    BY <1>3, <2>1, <2>2, <2>3, <2>4, <2>5 DEF OnFrame
<1>4. CASE UNCHANGED vars
  BY <1>4 DEF vars, calls, device, library, mailbox
<1> QED
  BY <1>1, <1>2, <1>3, <1>4 DEF Next

LEMMA InitType == Init => TypeOK
  BY GrabberAssumption DEF Init, TypeOK

LEMMA PlaceStep == TypeOK /\ InOnePlace /\ [Next]_vars => InOnePlace'
<1> SUFFICES ASSUME TypeOK, InOnePlace, [Next]_vars PROVE InOnePlace'
  OBVIOUS
<1>0. mode.users \subseteq Threads /\ (UNCHANGED mode)
  BY GrabberAssumption DEF TypeOK, Next, vars
<1> USE <1>0, GrabberAssumption DEF TypeOK, Goto, CallEnds, library, calls, device, mailbox,
                                    InOnePlace, ImageInOnePlace, Fresh
<1>1. ASSUME NEW t \in Threads, StartStreaming(t) \/ StopStreaming(t) \/ Call(t) PROVE InOnePlace'
  BY <1>1 DEF StartStreaming, StopStreaming, Call
<1>2. ASSUME NEW t \in Threads, InCall(t) PROVE InOnePlace'
  <2>1. ASSUME NEW f \in Frames, NEW isDark \in BOOLEAN, GetFrame(t, f, isDark) PROVE InOnePlace'
    BY <2>1 DEF GetFrame, Live
  <2>2. CASE GetFrameFails(t)
    BY <2>2 DEF GetFrameFails
  <2>3. CASE Process(t)
    BY <2>3 DEF Process
  <2>4. CASE ProcessReturns(t)
    BY <2>4 DEF ProcessReturns
  <2>5. CASE Take(t)
    BY <2>5 DEF Take, SwappedIn, IsBad
  <2>6. CASE Sleep(t)
    BY <2>6 DEF Sleep
  <2>7. CASE Timeout(t)
    BY <2>7 DEF Timeout, SecondsAreOver
  <2>8. CASE Return(t)
    BY <2>8 DEF Return
  <2> QED
    BY <1>2, <2>1, <2>2, <2>3, <2>4, <2>5, <2>6, <2>7, <2>8 DEF InCall
<1>3. ASSUME NEW f \in Frames, OnFrame(f) PROVE InOnePlace'
  <2>1. CASE Decode(f)
    BY <2>1 DEF Decode
  <2>2. CASE Skip(f)
    BY <2>2 DEF Skip
  <2>3. CASE onThermalFrame(f)
    BY <2>3 DEF onThermalFrame, Image
  <2>4. CASE Warn(f)
    BY <2>4 DEF Warn
  <2>5. CASE NotifyOne(f)
    BY <2>5 DEF NotifyOne, Waiters
  <2> QED
    BY <1>3, <2>1, <2>2, <2>3, <2>4, <2>5 DEF OnFrame
<1>4. CASE UNCHANGED vars
  BY <1>4 DEF vars, calls, device, library, mailbox
<1> QED
  BY <1>1, <1>2, <1>3, <1>4 DEF Next

IInv == TypeOK /\ InOnePlace

LEMMA Invariance == Spec => []IInv
<1>1. Init => IInv
  BY InitType, GrabberAssumption DEF Init, IInv, InOnePlace, ImageInOnePlace, Fresh
<1>2. IInv /\ [Next]_vars => IInv'
  BY TypeStep, PlaceStep DEF IInv, InOnePlace
<1> QED
  BY <1>1, <1>2, PTL DEF Spec

\* The variables of FrameGrabber keep their types.
THEOREM TypeCorrect == Spec => []TypeOK
<1>1. IInv => TypeOK
  BY DEF IInv
<1> QED
  BY <1>1, Invariance, PTL

\* An image is in one place, however many threads call get_frame: swapping it out of
\* thermal_data_ (irimager_class.cpp:259) makes it the caller's alone.
THEOREM OneImageOnePlace == Spec => []ImageInOnePlace
<1>1. IInv => ImageInOnePlace
  BY DEF IInv, InOnePlace
<1> QED
  BY <1>1, Invariance, PTL

LEMMA WakeupStep == TypeOK /\ NoLostWakeup /\ [Next]_vars => NoLostWakeup'
<1> SUFFICES ASSUME TypeOK, NoLostWakeup, [Next]_vars PROVE NoLostWakeup'
  OBVIOUS
<1>0. mode.users \subseteq Threads /\ (UNCHANGED mode)
  BY GrabberAssumption DEF TypeOK, Next, vars
<1> USE <1>0, GrabberAssumption DEF TypeOK, Goto, CallEnds, library, calls, device, mailbox,
                                    NoLostWakeup
<1>1. ASSUME NEW t \in Threads, StartStreaming(t) \/ StopStreaming(t) \/ Call(t) PROVE NoLostWakeup'
  BY <1>1 DEF StartStreaming, StopStreaming, Call
<1>2. ASSUME NEW t \in Threads, InCall(t) PROVE NoLostWakeup'
  <2>1. ASSUME NEW f \in Frames, NEW isDark \in BOOLEAN, GetFrame(t, f, isDark) PROVE NoLostWakeup'
    BY <2>1 DEF GetFrame, Live
  <2>2. CASE GetFrameFails(t)
    BY <2>2 DEF GetFrameFails
  <2>3. CASE Process(t)
    BY <2>3 DEF Process
  <2>4. CASE ProcessReturns(t)
    BY <2>4 DEF ProcessReturns
  <2>5. CASE Take(t)
    BY <2>5 DEF Take, SwappedIn, IsBad
  <2>6. CASE Sleep(t)
    BY <2>6 DEF Sleep
  <2>7. CASE Timeout(t)
    BY <2>7 DEF Timeout, SecondsAreOver
  <2>8. CASE Return(t)
    BY <2>8 DEF Return
  <2> QED
    BY <1>2, <2>1, <2>2, <2>3, <2>4, <2>5, <2>6, <2>7, <2>8 DEF InCall
<1>3. ASSUME NEW f \in Frames, OnFrame(f) PROVE NoLostWakeup'
  <2>1. CASE Decode(f)
    BY <2>1 DEF Decode
  <2>2. CASE Skip(f)
    BY <2>2 DEF Skip
  <2>3. CASE onThermalFrame(f)
    BY <2>3 DEF onThermalFrame, Image
  <2>4. CASE Warn(f)
    BY <2>4 DEF Warn
  <2>5. CASE NotifyOne(f)
    BY <2>5 DEF NotifyOne, Waiters
  <2> QED
    BY <1>3, <2>1, <2>2, <2>3, <2>4, <2>5 DEF OnFrame
<1>4. CASE UNCHANGED vars
  BY <1>4 DEF vars, calls, device, library, mailbox
<1> QED
  BY <1>1, <1>2, <1>3, <1>4 DEF Next

\* No wake-up is lost, although notify_one is called after mutex_ has been released
\* (irimager_class.cpp:375) and wakes one thread only.
THEOREM NoWakeupIsLost == Spec => []NoLostWakeup
<1>1. Init => NoLostWakeup
  BY DEF Init, NoLostWakeup
<1> QED
  BY <1>1, WakeupStep, TypeCorrect, PTL DEF Spec

-------------------------------------------------------------------------------
(* One thread, and the callback inside process() *)

Alone ==
  /\ \A t \in Threads \ mode.users : pc[t] = "idle"
  /\ (\A t \in mode.users : pc[t] \in {"idle", "get", "process", "return"}) =>
       thermal_data_ = None /\ queued = {} /\ decoded = {} /\ notifying = {}
  /\ \A t \in mode.users :
    LET here == {None, Closed, timestamp[t]}
    IN  /\ pc[t] = "processing" =>
             /\ queued \cup decoded \cup notifying \subseteq {timestamp[t]}
             /\ thermal_data_ \in here
             /\ queued \cap (decoded \cup notifying) = {}
             /\ queued # {} \/ decoded # {} => thermal_data_ = None
             /\ decoded # {} => flagOpen = (timestamp[t] \notin dark)
        /\ pc[t] \in {"wait", "asleep"} =>
             /\ queued = {} /\ decoded = {} /\ notifying = {}
             /\ thermal_data_ \in here
        /\ thermal_data_ \in Frames => thermal_data_ \notin dark
        /\ pc[t] = "return" => result[t] = timestamp[t] /\ result[t] \notin dark

LEMMA AloneStep == IInv /\ SingleUser /\ Alone /\ [Next]_vars => Alone'
<1> SUFFICES ASSUME IInv, SingleUser, Alone, [Next]_vars PROVE Alone'
  OBVIOUS
<1>0. mode.users \subseteq Threads /\ (UNCHANGED mode)
  BY GrabberAssumption DEF IInv, TypeOK, Next, vars
<1> USE <1>0, GrabberAssumption DEF SingleUser, TypeOK, Goto, CallEnds, library, calls, device,
                                    mailbox, Alone, IInv, InOnePlace, Fresh, ImageInOnePlace
<1>1. ASSUME NEW t \in mode.users, StartStreaming(t) \/ StopStreaming(t) \/ Call(t) PROVE Alone'
  BY <1>1 DEF StartStreaming, StopStreaming, Call
<1>2. ASSUME NEW t \in mode.users, InCall(t) PROVE Alone'
  <2>1. ASSUME NEW f \in Frames, NEW isDark \in BOOLEAN, GetFrame(t, f, isDark) PROVE Alone'
    BY <2>1 DEF GetFrame, Live
  <2>2. CASE GetFrameFails(t)
    BY <2>2 DEF GetFrameFails
  <2>3. CASE Process(t)
    BY <2>3 DEF Process
  <2>4. CASE ProcessReturns(t)
    BY <2>4 DEF ProcessReturns
  <2>5. CASE Take(t)
    BY <2>5 DEF Take, SwappedIn, IsBad
  <2>6. CASE Sleep(t)
    BY <2>6 DEF Sleep
  <2>7. CASE Timeout(t)
    BY <2>7 DEF Timeout, SecondsAreOver
  <2>8. CASE Return(t)
    BY <2>8 DEF Return
  <2> QED
    BY <1>2, <2>1, <2>2, <2>3, <2>4, <2>5, <2>6, <2>7, <2>8 DEF InCall
<1>3. ASSUME NEW f \in Frames, OnFrame(f) PROVE Alone'
  <2>1. CASE Decode(f)
    BY <2>1 DEF Decode
  <2>2. CASE Skip(f)
    BY <2>2 DEF Skip
  <2>3. CASE onThermalFrame(f)
    BY <2>3 DEF onThermalFrame, Image
  <2>4. CASE Warn(f)
    BY <2>4 DEF Warn
  <2>5. CASE NotifyOne(f)
    BY <2>5 DEF NotifyOne, Waiters
  <2> QED
    BY <1>3, <2>1, <2>2, <2>3, <2>4, <2>5 DEF OnFrame
<1>4. CASE UNCHANGED vars
  BY <1>4 DEF vars, calls, device, library, mailbox
<1> QED
  BY <1>1, <1>2, <1>3, <1>4 DEF Next

\* A program with one thread that calls get_frame, and a library that calls back from
\* process(), gets images with their own timestamps (irimager_class.hpp:95), of the
\* open shutter (irimager_class.hpp:85), and never the image of an earlier call.
THEOREM SingleCaller == Spec => []SingleUserIsSafe
<1>1. Init => (SingleUser => Alone)
  BY GrabberAssumption DEF Init, Alone
<1>2. IInv /\ (SingleUser => Alone) /\ [Next]_vars => (SingleUser => Alone)'
  <2>1. [Next]_vars => SingleUser' = SingleUser
    BY DEF Next, vars, SingleUser
  <2> QED
    BY <2>1, AloneStep
<1>3. IInv /\ (SingleUser => Alone) => SingleUserIsSafe
  <2> SUFFICES ASSUME IInv, Alone, SingleUser
               PROVE  TimestampMatchesFrame /\ NoDarkFrame /\ NothingLeftBehind
    BY DEF SingleUserIsSafe
  <2>1. mode.users \subseteq Threads
    BY GrabberAssumption DEF IInv, TypeOK
  <2> QED
    BY <2>1 DEF Alone, TimestampMatchesFrame, NoDarkFrame, NothingLeftBehind
<1> QED
  BY <1>1, <1>2, <1>3, Invariance, PTL DEF Spec

-------------------------------------------------------------------------------
(* Any number of threads, and the callback inside process() *)

\* Whoever has put an image into the mailbox is still in the call that did, or somebody
\* has emptied it since.
Attended ==
  ~mode.async =>
    /\ \A f \in queued \cup decoded : \E t \in Threads : pc[t] = "processing" /\ timestamp[t] = f
    /\ thermal_data_ # None => \E t \in Threads : pc[t] \in {"processing", "wait", "asleep"}

LEMMA AttendedStep == TypeOK /\ Attended /\ [Next]_vars => Attended'
<1> SUFFICES ASSUME TypeOK, Attended, [Next]_vars PROVE Attended'
  OBVIOUS
<1>0. mode.users \subseteq Threads /\ (UNCHANGED mode)
  BY GrabberAssumption DEF TypeOK, Next, vars
<1> USE <1>0, GrabberAssumption DEF TypeOK, Goto, CallEnds, library, calls, device, mailbox,
                                    Attended
<1>1. ASSUME NEW t \in Threads, StartStreaming(t) \/ StopStreaming(t) \/ Call(t) PROVE Attended'
  BY <1>1 DEF StartStreaming, StopStreaming, Call
<1>2. ASSUME NEW t \in Threads, InCall(t) PROVE Attended'
  <2>1. ASSUME NEW f \in Frames, NEW isDark \in BOOLEAN, GetFrame(t, f, isDark) PROVE Attended'
    BY <2>1 DEF GetFrame
  <2>2. CASE GetFrameFails(t)
    BY <2>2 DEF GetFrameFails
  <2>3. CASE Process(t)
    BY <2>3 DEF Process
  <2>4. CASE ProcessReturns(t)
    BY <2>4 DEF ProcessReturns
  <2>5. CASE Take(t)
    BY <2>5 DEF Take, SwappedIn, IsBad
  <2>6. CASE Sleep(t)
    BY <2>6 DEF Sleep
  <2>7. CASE Timeout(t)
    BY <2>7 DEF Timeout, SecondsAreOver
  <2>8. CASE Return(t)
    BY <2>8 DEF Return
  <2> QED
    BY <1>2, <2>1, <2>2, <2>3, <2>4, <2>5, <2>6, <2>7, <2>8 DEF InCall
<1>3. ASSUME NEW f \in Frames, OnFrame(f) PROVE Attended'
  <2>1. CASE Decode(f)
    BY <2>1 DEF Decode
  <2>2. CASE Skip(f)
    BY <2>2 DEF Skip
  <2>3. CASE onThermalFrame(f)
    BY <2>3 DEF onThermalFrame, Image
  <2>4. CASE Warn(f)
    BY <2>4 DEF Warn
  <2>5. CASE NotifyOne(f)
    BY <2>5 DEF NotifyOne, Waiters
  <2> QED
    BY <1>3, <2>1, <2>2, <2>3, <2>4, <2>5 DEF OnFrame
<1>4. CASE UNCHANGED vars
  BY <1>4 DEF vars, calls, device, library, mailbox
<1> QED
  BY <1>1, <1>2, <1>3, <1>4 DEF Next

\* However many threads call get_frame, a library that calls back from process() leaves
\* no image behind: threads may get one another's images (irimager_class.cpp:259), but
\* none from before a moment at which no call was running.
THEOREM NoImageLeft == Spec => [](~mode.async => NothingLeftBehind)
<1>1. Init => Attended
  BY DEF Init, Attended
<1>2. TypeOK /\ Attended => (~mode.async => NothingLeftBehind)
  BY DEF TypeOK, Attended, NothingLeftBehind
<1> QED
  BY <1>1, <1>2, AttendedStep, TypeCorrect, PTL DEF Spec
===============================================================================

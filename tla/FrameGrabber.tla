----------------------------- MODULE FrameGrabber -----------------------------
(***************************************************************************)
(* IRImagerRealImpl: how get_frame_monotonic turns the frames of the       *)
(* camera into images, through a one-place mailbox (thermal_data_, guarded *)
(* by mutex_ and thermal_data_available_) that the library's callback      *)
(* onThermalFrame fills.                                                   *)
(*                                                                         *)
(* The Python bindings release the GIL around get_frame, start_streaming   *)
(* and stop_streaming (irimager.cpp:46), so any thread may be in any of    *)
(* them while another one is.  A critical section under mutex_ is one      *)
(* action; but the callback that finds the mailbox full logs a warning     *)
(* first, and keeps mutex_ while it waits for the GIL (with a Logger).     *)
(* A frame is an identifier that is reused when nothing refers to it.      *)
(*                                                                         *)
(* libirimager itself is external.  process() hands a frame to the code    *)
(* that decodes it and then calls onThermalFrame; isFlagOpen() tells the   *)
(* state of the shutter in the frame decoded last.  The callback runs      *)
(* inside process(), on the caller's thread, or (async) on threads of the  *)
(* library, which is what the wait of 30 seconds on a condition variable   *)
(* provides for; it may then also run before process() returns, so that    *)
(* this covers the other case.                                             *)
(***************************************************************************)
EXTENDS Naturals, FiniteSets

CONSTANTS
  Threads,   \* the threads of the Python program
  Frames,    \* identifiers of frames of the camera
  None,      \* the nullptr of thermal_data_, and "no frame"
  Closed,    \* BadFrame::SHUTTER_CLOSED
  Modes      \* the programs to look at: which threads use the IRImager, and async

ASSUME GrabberAssumption ==
  /\ None \notin Frames /\ Closed \notin Frames /\ None # Closed
  /\ Modes \subseteq [users : SUBSET Threads, async : BOOLEAN]

VARIABLES
  mode,           \* the program at hand
  pc,             \* where each thread is
  timestamp,      \* the frame of which a call holds the timestamp
  result,         \* thermal_data_result of each call
  thermal_data_,  \* the mailbox
  mutex_,         \* the frame whose callback has it while it logs, or None
  streaming,      \* the device: whether it streams
  dark,           \* the frames in flight taken with the shutter closed
  queued,         \* library: frames given to process() and not decoded yet
  decoded,        \* library: frames decoded, callback not run yet
  flagOpen,       \* library: isFlagOpen()
  notifying       \* the frames whose callback has still to call notify_one

calls   == <<pc, timestamp, result>>
device  == <<streaming, dark>>
library == <<queued, decoded, flagOpen>>
mailbox == <<thermal_data_, mutex_>>
vars == <<mode, calls, mailbox, device, library, notifying>>

Goto(t, label) == pc' = [pc EXCEPT ![t] = label]

\* A call ends: with an image in `result` or with an exception.
CallEnds(t) ==
  /\ Goto(t, "idle")
  /\ timestamp' = [timestamp EXCEPT ![t] = None]
  /\ result' = [result EXCEPT ![t] = None]

Live ==
  {timestamp[t] : t \in Threads} \cup {result[t] : t \in Threads}
    \cup {thermal_data_} \cup queued \cup decoded \cup notifying

-------------------------------------------------------------------------------
(* start_streaming and stop_streaming.  When the library fails, they throw. *)

StartStreaming(t) ==
  /\ pc[t] = "idle"
  /\ streaming' = TRUE
  /\ UNCHANGED <<calls, mailbox, dark, library, notifying>>

StopStreaming(t) ==
  /\ pc[t] = "idle"
  /\ streaming' = FALSE
  /\ UNCHANGED <<calls, mailbox, dark, library, notifying>>

-------------------------------------------------------------------------------
(* get_frame_monotonic *)

Call(t) ==
  /\ pc[t] = "idle"
  /\ Goto(t, "get")
  /\ UNCHANGED <<timestamp, result, mailbox, device, library, notifying>>

\* ir_device_->getFrame succeeds: a new frame and its timestamp.
GetFrame(t, f, isDark) ==
  /\ pc[t] = "get" /\ streaming
  /\ f \notin Live
  /\ timestamp' = [timestamp EXCEPT ![t] = f]
  /\ dark' = IF isDark THEN (dark \cap Live) \cup {f} ELSE dark \cap Live
  /\ Goto(t, "process")
  /\ UNCHANGED <<result, mailbox, streaming, library, notifying>>

\* getFrame fails (not streaming, no data, disconnected, ...): IRDeviceException.
GetFrameFails(t) ==
  /\ pc[t] = "get"
  /\ CallEnds(t)
  /\ UNCHANGED <<mailbox, device, library, notifying>>

Process(t) ==
  /\ pc[t] = "process"
  /\ queued' = queued \cup {timestamp[t]}
  /\ Goto(t, "processing")
  /\ UNCHANGED <<timestamp, result, mailbox, device, decoded, flagOpen, notifying>>

ProcessReturns(t) ==
  /\ pc[t] = "processing"
  /\ mode.async \/ timestamp[t] \notin queued \cup decoded \cup notifying
  /\ Goto(t, "wait")
  /\ UNCHANGED <<timestamp, result, mailbox, device, library, notifying>>

Kept == thermal_data_  \* bug: the image is copied and not swapped out
SwappedIn == None
NeverBad == FALSE  \* bug: std::get<ThermalFrame> whatever the variant holds
IsBad == thermal_data_ = Closed

\* The predicate of wait_for holds: thermal_data_result.swap(thermal_data_).
\* A frame taken with the shutter closed makes get_frame_monotonic call itself.
Take(t) ==
  /\ pc[t] = "wait" \/ pc[t] = "asleep"  \* "asleep": the 30 seconds are over
  /\ mutex_ = None /\ thermal_data_ # None
  /\ thermal_data_' = SwappedIn
  /\ IF IsBad
     THEN /\ Goto(t, "get")
          /\ timestamp' = [timestamp EXCEPT ![t] = None]
          /\ UNCHANGED result
     ELSE /\ Goto(t, "return")
          /\ result' = [result EXCEPT ![t] = thermal_data_]
          /\ UNCHANGED timestamp
  /\ UNCHANGED <<mutex_, device, library, notifying>>

Sleep(t) ==
  /\ pc[t] = "wait"
  /\ mutex_ = None /\ thermal_data_ = None
  /\ Goto(t, "asleep")
  /\ UNCHANGED <<timestamp, result, mailbox, device, library, notifying>>

Never == FALSE  \* bug: wait instead of wait_for
SecondsAreOver == TRUE

\* "Timeout when waiting for a new thermal frame"
Timeout(t) ==
  /\ pc[t] = "asleep" /\ SecondsAreOver
  /\ mutex_ = None /\ thermal_data_ = None
  /\ CallEnds(t)
  /\ UNCHANGED <<mailbox, device, library, notifying>>

Return(t) ==
  /\ pc[t] = "return"
  /\ CallEnds(t)
  /\ UNCHANGED <<mailbox, device, library, notifying>>

-------------------------------------------------------------------------------
(* The library, and the callback *)

Decode(f) ==
  /\ f \in queued
  /\ queued' = queued \ {f}
  /\ decoded' = decoded \cup {f}
  /\ flagOpen' = (f \notin dark)
  /\ UNCHANGED <<calls, mailbox, device, notifying>>

\* A frame may be of no use to the library, and the callback never run.
Skip(f) ==
  /\ f \in queued
  /\ queued' = queued \ {f}
  /\ UNCHANGED <<calls, mailbox, device, decoded, flagOpen, notifying>>

Unchecked(f) == f  \* bug: isFlagOpen() is not asked
Image(f) == IF flagOpen THEN f ELSE Closed

\* "thermal_data_ is not empty": spdlog::warn, with mutex_ held.
Warn(f) ==
  /\ f \in decoded /\ mutex_ = None /\ thermal_data_ # None
  /\ mutex_' = f
  /\ UNCHANGED <<calls, thermal_data_, device, library, notifying>>

\* Under mutex_.  What the mailbox held is overwritten.
onThermalFrame(f) ==
  /\ f \in decoded
  /\ mutex_ = f \/ (mutex_ = None /\ thermal_data_ = None)
  /\ mutex_' = None
  /\ decoded' = decoded \ {f}
  /\ thermal_data_' = Image(f)
  /\ notifying' = notifying \cup {f}
  /\ UNCHANGED <<calls, device, queued, flagOpen>>

Nobody == {}  \* bug: no notify_one
Waiters == {t \in Threads : pc[t] = "asleep"}

\* notify_one, after mutex_ is released.
NotifyOne(f) ==
  /\ f \in notifying
  /\ notifying' = notifying \ {f}
  /\ IF Waiters = {} THEN UNCHANGED pc ELSE \E t \in Waiters : Goto(t, "wait")
  /\ UNCHANGED <<timestamp, result, mailbox, device, library>>

-------------------------------------------------------------------------------

Init ==
  /\ mode \in Modes
  /\ pc = [t \in Threads |-> "idle"]
  /\ timestamp = [t \in Threads |-> None]
  /\ result = [t \in Threads |-> None]
  /\ thermal_data_ = None /\ mutex_ = None
  /\ streaming = FALSE
  /\ dark = {} /\ queued = {} /\ decoded = {} /\ flagOpen = TRUE
  /\ notifying = {}

InCall(t) ==
  \/ \E f \in Frames, isDark \in BOOLEAN : GetFrame(t, f, isDark)
  \/ GetFrameFails(t)
  \/ Process(t) \/ ProcessReturns(t)
  \/ Take(t) \/ Sleep(t) \/ Timeout(t) \/ Return(t)

OnFrame(f) == Decode(f) \/ Skip(f) \/ Warn(f) \/ onThermalFrame(f) \/ NotifyOne(f)

Next ==
  /\ \/ \E t \in mode.users : StartStreaming(t) \/ StopStreaming(t) \/ Call(t) \/ InCall(t)
     \/ \E f \in Frames : OnFrame(f)
  /\ UNCHANGED mode

\* Threads that are in a call go on, and the library works off its frames (its
\* callback gets the GIL in the end: nobody who has the GIL waits for mutex_).  The
\* 30 seconds of a call end however often it is woken in vain (its deadline does
\* not move), which needs strong fairness.
Fairness ==
  /\ \A f \in Frames : WF_vars(OnFrame(f) /\ UNCHANGED mode)
  /\ \A t \in Threads : /\ WF_vars(InCall(t) /\ UNCHANGED mode)
                         /\ SF_vars((Take(t) \/ Timeout(t)) /\ UNCHANGED mode)

Spec == Init /\ [][Next]_vars
FairSpec == Spec /\ Fairness

-------------------------------------------------------------------------------
(* Properties *)

TypeOK ==
  /\ mode \in Modes
  /\ pc \in [Threads -> {"idle", "get", "process", "processing", "wait", "asleep", "return"}]
  /\ timestamp \in [Threads -> Frames \cup {None}]
  /\ result \in [Threads -> Frames \cup {None}]
  /\ thermal_data_ \in Frames \cup {None, Closed}
  /\ mutex_ \in Frames \cup {None}
  /\ streaming \in BOOLEAN /\ flagOpen \in BOOLEAN
  /\ dark \subseteq Frames /\ queued \subseteq Frames /\ decoded \subseteq Frames
  /\ notifying \subseteq Frames

\* The image a call returns is the one of which it returns the timestamp ("The
\* approximate time the image was taken", irimager_class.hpp:95).
TimestampMatchesFrame ==
  \A t \in Threads : pc[t] = "return" => result[t] = timestamp[t]

\* An image is in one place: it is not returned to two callers, and none that a
\* caller has taken is still in the mailbox or comes out of the library again.
ImageInOnePlace ==
  /\ \A s, t \in Threads : s # t /\ result[s] # None => result[s] # result[t]
  /\ \A t \in Threads : result[t] # None => result[t] \notin {thermal_data_} \cup queued \cup decoded
  /\ thermal_data_ \notin queued \cup decoded

\* No wake-up is lost: when there is something in the mailbox and a thread
\* sleeps, a thread is awake to take it or is about to be woken.
NoLostWakeup ==
  thermal_data_ # None /\ (\E t \in Threads : pc[t] = "asleep")
    => notifying # {} \/ \E t \in Threads : pc[t] = "wait"

\* No call returns an image of the closed shutter ("this function will wait
\* until the shutter is back up, before returning", irimager_class.hpp:85).
NoDarkFrame ==
  \A t \in Threads : pc[t] = "return" => result[t] \notin dark

\* Between calls the mailbox is empty: no call leaves an image that the next
\* call would take for its own.
NothingLeftBehind ==
  (\A t \in Threads : pc[t] = "idle") => thermal_data_ = None

\* A program with one thread that uses the IRImager, and a library that calls back
\* from process(), gets each image with its own timestamp, none of the closed shutter,
\* and leaves nothing for the next call to find.
SingleUser == ~mode.async /\ \A s, t \in mode.users : s = t
SingleUserIsSafe == SingleUser => TimestampMatchesFrame /\ NoDarkFrame /\ NothingLeftBehind

\* Once the shutter stays open, every call comes to an end, with an image or an
\* exception, whatever the other threads do and whatever frames are skipped.
CallReturns ==
  <>[](dark = {}) => \A t \in Threads : pc[t] = "get" ~> pc[t] = "idle"
===============================================================================

----------------------------- MODULE LoggerProofs -----------------------------
(***************************************************************************)
(* However many threads make and destroy Logger objects, there is one of   *)
(* them at a time, and while it is alive spdlog's default logger is its    *)
(* own.                                                                    *)
(*                                                                         *)
(* The argument is about singleton_.  Whoever holds the mutex beyond the   *)
(* check of the constructor, or beyond pImpl_ = nullptr in the destructor, *)
(* finds it null (Quiet) and keeps it so until a new object is ready; and  *)
(* what Python holds, or is about to get, or is about to lose, is always   *)
(* the object that singleton_ leads to (Owner).  spdlog is redirected and  *)
(* reset only while singleton_ is null.                                    *)
(*                                                                         *)
(* Every step of a LoggerContextManager is a step of Logger, so what holds *)
(* of Logger holds of it too.  What is added is that the manager holds     *)
(* nothing but a live Logger, of which there is one at most.               *)
(***************************************************************************)
EXTENDS LoggerContextManager, TLAPS

Locked == {"c_gil", "c_redirected", "c_start", "d_gil", "d_impl", "d_mock", "d_join", "d_reset"}

\* Only the holder of the mutex is in one of the protected parts.
Mutex == \A t \in Threads : pc[t] \in Locked => singleton_mutex_ = t

\* A thread that makes or destroys an object has one, of its own.
Busy == \A t \in Threads : object[t] = None <=> pc[t] \in {"idle", "clash", "regain", "exit"}

Distinct ==
  \A t \in Threads :
    /\ object[t] \notin alive
    /\ \A s \in Threads : s # t /\ object[s] # None => object[s] # object[t]

Owner ==
  /\ \A o \in alive : singleton_ = o
  /\ \A t \in Threads : pc[t] \in {"c_regain", "d_lock", "d_gil"} => singleton_ = object[t]

Quiet == \A t \in Threads : pc[t] \in Locked \ {"d_gil"} => singleton_ = None

Redirected ==
  /\ singleton_ # None => default_logger = singleton_
  /\ \A t \in Threads : pc[t] \in {"c_redirected", "c_start"} => default_logger = object[t]

Captured ==
  \A o \in capturing :
    \/ singleton_ = o
    \/ \E t \in Threads : object[t] = o /\ pc[t] \in {"c_start", "d_impl", "d_mock", "d_join"}

\* An object that has redirected spdlog knows what to restore.
Redirecting == {"c_redirected", "c_start", "c_regain", "d_lock", "d_gil", "d_impl", "d_mock", "d_join", "d_reset"}

Stored ==
  /\ \A o \in alive : old_logger_[o] # None
  /\ \A t \in Threads : pc[t] \in Redirecting => old_logger_[object[t]] # None

IInv ==
  /\ TypeOK
  /\ Mutex /\ Busy /\ Distinct /\ Owner /\ Quiet /\ Redirected /\ Captured /\ Stored

-------------------------------------------------------------------------------

LEMMA InitInv == Init => IInv
  BY LoggerAssumption
  DEF Init, IInv, TypeOK, Mutex, Locked, Busy, Distinct, Owner, Quiet, Redirected,
      Captured, Stored, Redirecting

LEMMA StepInv == IInv /\ [Next]_vars => IInv'
<1> SUFFICES ASSUME IInv, [Next]_vars PROVE IInv'
  OBVIOUS
<1>0. build' = build /\ process' \in {"running", "ended"}
  BY DEF IInv, TypeOK, Next, Runs, ProcessEnds, vars
<1> USE <1>0, LoggerAssumption
    DEF IInv, TypeOK, Mutex, Locked, Busy, Distinct, Owner, Quiet, Redirected,
        Captured, Stored, Redirecting, Goto, locks, spd, capture
<1>1. ASSUME NEW t \in Threads, NEW o \in Objects, Construct(t, o) PROVE IInv'
  BY <1>1 DEF Construct, InUse
<1>2. ASSUME NEW t \in Threads, Exit(t) \/ \E o \in Objects : Destroy(t, o) PROVE IInv'
  BY <1>2 DEF Destroy, Exit
<1>3. ASSUME NEW t \in Threads, ThreadStep(t) PROVE IInv'
  <2>1. CASE LockToConstruct(t)
    BY <2>1 DEF LockToConstruct, Taken
  <2>2. CASE RedirectSpd(t)
    BY <2>2 DEF RedirectSpd
  <2>3. CASE StartCapture(t)
    BY <2>3 DEF StartCapture
  <2>4. CASE CaptureStarted(t)
    BY <2>4 DEF CaptureStarted
  <2>5. CASE CaptureFails(t)
    BY <2>5 DEF CaptureFails
  <2>6. CASE Constructed(t)
    BY <2>6 DEF Constructed
  <2>7. CASE LockToDestroy(t)
    BY <2>7 DEF LockToDestroy, Lock
  <2>8. CASE DropImpl(t)
    BY <2>8 DEF DropImpl
  <2>9. CASE StopCapture(t) \/ StopMock(t) \/ JoinMock(t)
    BY <2>9 DEF StopCapture, ReleaseGil, StopMock, WithoutGil, JoinMock, CanHaveGil
  <2>10. CASE JoinReader(t)
    BY <2>10 DEF JoinReader, ReaderHasEnded, CanHaveGil
  <2>11. CASE ResetSpdRedirect(t)
    BY <2>11 DEF ResetSpdRedirect, OldLogger
  <2>12. CASE Regain(t) \/ Exited(t)
    BY <2>12 DEF Regain, Exited
  <2> QED
    BY <1>3, <2>1, <2>2, <2>3, <2>4, <2>5, <2>6, <2>7, <2>8, <2>9, <2>10, <2>11, <2>12
       DEF ThreadStep, GoesOn
<1>4. ASSUME NEW c \in Clients, Log(c) \/ Logged(c) PROVE IInv'
  BY <1>4 DEF Log, Logged
<1>5. CASE PipeFills \/ PipeDrains \/ \E t \in Threads : ProcessEnds(t)
  BY <1>5 DEF PipeFills, PipeDrains, ProcessEnds
<1>6. CASE UNCHANGED vars
  BY <1>6 DEF vars
<1> QED
  BY <1>1, <1>2, <1>3, <1>4, <1>5, <1>6 DEF Next, Runs, Step

\* What is proved rests on the steps alone, not on who gets the locks.
Behaviour == Init /\ [][Next]_vars

LEMMA Invariance == Behaviour => []IInv
  BY InitInv, StepInv, PTL DEF Behaviour

\* The variables of Logger keep their types.
THEOREM TypeCorrect == Spec => []TypeOK
<1>1. IInv => TypeOK
  BY DEF IInv
<1> QED
  BY <1>1, Invariance, PTL DEF Spec, Behaviour

LEMMA OneOfEach == IInv => OneAtATime
<1> SUFFICES ASSUME IInv PROVE OneAtATime
  OBVIOUS
<1>1. \A o, p \in alive : o = p
  BY DEF IInv, Owner
<1>2. ASSUME NEW o \in capturing, NEW p \in capturing PROVE o = p
  BY <1>2, LoggerAssumption DEF IInv, TypeOK, Captured, Quiet, Mutex, Locked
<1> QED
  BY <1>1, <1>2 DEF OneAtATime

\* "Only a single instance of this object can exist at a time" (logger.hpp:20), and
\* of the IRLoggerToSpd in it, for any number of threads.
THEOREM OneLoggerAtATime == Spec => []OneAtATime
  BY OneOfEach, Invariance, PTL DEF Spec, Behaviour

LEMMA OwnerIsDefault == IInv => RedirectedWhileAlive
  BY LoggerAssumption DEF IInv, TypeOK, Owner, Redirected, RedirectedWhileAlive

\* While a Logger is alive, spdlog logs to its callback (logger.hpp:14), also when
\* other Loggers failed to be constructed before.
THEOREM RedirectedAlways == Spec => []RedirectedWhileAlive
  BY OwnerIsDefault, Invariance, PTL DEF Spec, Behaviour

-------------------------------------------------------------------------------
(* What the reader logs through. *)

ReaderInv ==
  /\ capturing = {} => logging[Reader] = None
  /\ logging[Reader] \in {None, default_logger}

LEMMA ReaderStep == IInv /\ ReaderInv /\ [Next]_vars => ReaderInv'
<1> SUFFICES ASSUME IInv, ReaderInv, [Next]_vars PROVE ReaderInv'
  OBVIOUS
<1> USE LoggerAssumption
    DEF IInv, TypeOK, Mutex, Locked, Busy, Distinct, Owner, Quiet, Captured, ReaderInv, Goto,
        locks, spd, capture
<1>1. ASSUME NEW t \in Threads, NEW o \in Objects, Construct(t, o) PROVE ReaderInv'
  BY <1>1 DEF Construct, InUse
<1>2. ASSUME NEW t \in Threads, Exit(t) \/ \E o \in Objects : Destroy(t, o) PROVE ReaderInv'
  BY <1>2 DEF Destroy, Exit
<1>3. ASSUME NEW t \in Threads, ThreadStep(t) PROVE ReaderInv'
  <2>1. CASE LockToConstruct(t)
    BY <2>1 DEF LockToConstruct, Taken
  <2>2. CASE RedirectSpd(t)
    BY <2>2 DEF RedirectSpd
  <2>3. CASE StartCapture(t)
    BY <2>3 DEF StartCapture
  <2>4. CASE CaptureStarted(t)
    BY <2>4 DEF CaptureStarted
  <2>5. CASE CaptureFails(t)
    BY <2>5 DEF CaptureFails
  <2>6. CASE Constructed(t)
    BY <2>6 DEF Constructed
  <2>7. CASE LockToDestroy(t)
    BY <2>7 DEF LockToDestroy, Lock
  <2>8. CASE DropImpl(t)
    BY <2>8 DEF DropImpl
  <2>9. CASE StopCapture(t) \/ StopMock(t) \/ JoinMock(t)
    BY <2>9 DEF StopCapture, ReleaseGil, StopMock, WithoutGil, JoinMock, CanHaveGil
  <2>10. CASE JoinReader(t)
    BY <2>10 DEF JoinReader, ReaderHasEnded, CanHaveGil
  <2>11. CASE ResetSpdRedirect(t)
    BY <2>11 DEF ResetSpdRedirect, OldLogger
  <2>12. CASE Regain(t) \/ Exited(t)
    BY <2>12 DEF Regain, Exited
  <2> QED
    BY <1>3, <2>1, <2>2, <2>3, <2>4, <2>5, <2>6, <2>7, <2>8, <2>9, <2>10, <2>11, <2>12
       DEF ThreadStep, GoesOn
<1>4. ASSUME NEW c \in Clients, Log(c) \/ Logged(c) PROVE ReaderInv'
  BY <1>4 DEF Log, Logged
<1>5. CASE PipeFills \/ PipeDrains \/ \E t \in Threads : ProcessEnds(t)
  BY <1>5 DEF PipeFills, PipeDrains, ProcessEnds
<1>6. CASE UNCHANGED vars
  BY <1>6 DEF vars
<1> QED
  BY <1>1, <1>2, <1>3, <1>4, <1>5, <1>6 DEF Next, Runs, Step

LEMMA ReaderInvariance == Behaviour => [](IInv /\ ReaderInv)
<1>1. Init => ReaderInv
  BY LoggerAssumption DEF Init, ReaderInv
<1> QED
  BY <1>1, ReaderStep, Invariance, PTL DEF Behaviour

LEMMA LiveLogger == ReaderInv => ReaderLogsToLiveLogger
  BY DEF ReaderInv, ReaderLogsToLiveLogger, Exists

\* The reader never logs through a spdlog logger that has been destroyed
\* (logger.cpp:58 comes before logger.cpp:59).
THEOREM ReaderSafe == Spec => []ReaderLogsToLiveLogger
  BY LiveLogger, ReaderInvariance, PTL DEF Spec, Behaviour

-------------------------------------------------------------------------------
(* What spdlog goes back to, as long as no constructor has failed. *)

RedirectedNow == {"c_redirected", "c_start", "d_impl", "d_mock", "d_join", "d_reset"}

Restoring ==
  /\ ~failed =>
       /\ \A o \in Objects : old_logger_[o] \in {None, Original}
       /\ singleton_ = None /\ (\A t \in Threads : pc[t] \notin RedirectedNow)
            => default_logger = Original
  /\ singleton_ # None =>
       \/ singleton_ \in alive
       \/ \E t \in Threads : object[t] = singleton_ /\ pc[t] \in {"c_regain", "d_lock", "d_gil"}

LEMMA RestoringStep == IInv /\ Restoring /\ [Next]_vars => Restoring'
<1> SUFFICES ASSUME IInv, Restoring, [Next]_vars PROVE Restoring'
  OBVIOUS
<1> USE LoggerAssumption
    DEF IInv, TypeOK, Mutex, Locked, Busy, Distinct, Owner, Quiet, Stored, Redirecting,
        Restoring, RedirectedNow, Goto, locks, spd, capture
<1>1. ASSUME NEW t \in Threads, NEW o \in Objects, Construct(t, o) PROVE Restoring'
  BY <1>1 DEF Construct, InUse
<1>2. ASSUME NEW t \in Threads, Exit(t) \/ \E o \in Objects : Destroy(t, o) PROVE Restoring'
  BY <1>2 DEF Destroy, Exit
<1>3. ASSUME NEW t \in Threads, ThreadStep(t) PROVE Restoring'
  <2>1. CASE LockToConstruct(t)
    BY <2>1 DEF LockToConstruct, Taken
  <2>2. CASE RedirectSpd(t)
    BY <2>2 DEF RedirectSpd
  <2>3. CASE StartCapture(t)
    BY <2>3 DEF StartCapture
  <2>4. CASE CaptureStarted(t)
    BY <2>4 DEF CaptureStarted
  <2>5. CASE CaptureFails(t)
    BY <2>5 DEF CaptureFails
  <2>6. CASE Constructed(t)
    BY <2>6 DEF Constructed
  <2>7. CASE LockToDestroy(t)
    BY <2>7 DEF LockToDestroy, Lock
  <2>8. CASE DropImpl(t)
    BY <2>8 DEF DropImpl
  <2>9. CASE StopCapture(t) \/ StopMock(t) \/ JoinMock(t)
    BY <2>9 DEF StopCapture, ReleaseGil, StopMock, WithoutGil, JoinMock, CanHaveGil
  <2>10. CASE JoinReader(t)
    BY <2>10 DEF JoinReader, ReaderHasEnded, CanHaveGil
  <2>11. CASE ResetSpdRedirect(t)
    BY <2>11 DEF ResetSpdRedirect, OldLogger
  <2>12. CASE Regain(t) \/ Exited(t)
    BY <2>12 DEF Regain, Exited
  <2> QED
    BY <1>3, <2>1, <2>2, <2>3, <2>4, <2>5, <2>6, <2>7, <2>8, <2>9, <2>10, <2>11, <2>12
       DEF ThreadStep, GoesOn
<1>4. ASSUME NEW c \in Clients, Log(c) \/ Logged(c) PROVE Restoring'
  BY <1>4 DEF Log, Logged
<1>5. CASE PipeFills \/ PipeDrains \/ \E t \in Threads : ProcessEnds(t)
  BY <1>5 DEF PipeFills, PipeDrains, ProcessEnds
<1>6. CASE UNCHANGED vars
  BY <1>6 DEF vars
<1> QED
  BY <1>1, <1>2, <1>3, <1>4, <1>5, <1>6 DEF Next, Runs, Step

LEMMA RestoringInvariance == Behaviour => [](IInv /\ Restoring)
<1>1. Init => Restoring
  BY LoggerAssumption DEF Init, Restoring, RedirectedNow
<1>2. IInv /\ Restoring /\ [Next]_vars => Restoring'
  BY RestoringStep
<1> QED
  BY <1>1, <1>2, Invariance, PTL DEF Behaviour

LEMMA NobodyRedirects == IInv /\ Restoring => OriginalRestored
  BY LoggerAssumption DEF IInv, TypeOK, Busy, Restoring, RedirectedNow, OriginalRestored

\* With no Logger in being or in the making, spdlog has its own default logger,
\* provided that no IRLoggerToSpd has failed to be constructed.
THEOREM OriginalComesBack == Spec => []OriginalRestored
  BY NobodyRedirects, RestoringInvariance, PTL DEF Spec, Behaviour

\* "If we've called redirect_spd(), this var stores the original logger"
\* (logger.cpp:63) is true up to the first constructor that throws: nothing else, no
\* overlap of threads either, makes an object store the logger of another one.
THEOREM OriginalUntilFailure == Spec => [](~failed => OldLoggerIsOriginal)
<1>1. Restoring => (~failed => OldLoggerIsOriginal)
  BY DEF Restoring, OldLoggerIsOriginal
<1> QED
  BY <1>1, RestoringInvariance, PTL DEF Spec, Behaviour

-------------------------------------------------------------------------------
(* The promise made to whoever logs. *)

LEMMA PromiseStep ==
  IInv /\ Restoring /\ [Next]_vars => [Promise!Next]_<<alive, default_logger, failed>>
<1> SUFFICES ASSUME IInv, Restoring, [Next]_vars
             PROVE  Promise!Next \/ UNCHANGED <<alive, default_logger, failed>>
  OBVIOUS
<1> USE LoggerAssumption DEF locks, spd, capture
<1>1. ASSUME NEW t \in Threads, RedirectSpd(t) PROVE Promise!Next
  <2>1. singleton_ = None /\ object[t] \in Objects /\ default_logger' = object[t]
        /\ UNCHANGED <<alive, failed>>
    BY <1>1 DEF RedirectSpd, IInv, TypeOK, Quiet, Busy, Locked
  <2>2. alive = {}
    BY <2>1 DEF IInv, TypeOK, Owner
  <2>3. default_logger = Original \/ failed
    BY <1>1, <2>1 DEF RedirectSpd, IInv, TypeOK, Mutex, Locked, Restoring, RedirectedNow
  <2> QED
    BY <2>1, <2>2, <2>3 DEF Promise!Next, Promise!Redirect
<1>2. ASSUME NEW t \in Threads, Constructed(t) PROVE Promise!Next
  <2>1. /\ object[t] = default_logger /\ object[t] \in Objects
        /\ alive' = alive \cup {object[t]} /\ UNCHANGED <<default_logger, failed>>
    BY <1>2 DEF Constructed, IInv, TypeOK, Owner, Redirected, Busy
  <2>2. alive = {}
    BY <1>2 DEF Constructed, IInv, TypeOK, Owner, Distinct
  <2> QED
    BY <2>1, <2>2 DEF Promise!Next, Promise!Activate
<1>3. ASSUME NEW t \in Threads, CaptureFails(t) PROVE Promise!Next
  <2>1. /\ failed' = TRUE /\ UNCHANGED <<alive, default_logger>> /\ singleton_ = None
        /\ default_logger = object[t] /\ object[t] \in Objects
    BY <1>3 DEF CaptureFails, IInv, TypeOK, Quiet, Redirected, Busy, Locked
  <2>2. alive = {}
    BY <2>1 DEF IInv, TypeOK, Owner
  <2> QED
    BY <2>1, <2>2 DEF Promise!Next, Promise!GiveUp
<1>4. ASSUME NEW t \in Threads, NEW o \in Objects, Destroy(t, o) PROVE Promise!Next
  <2>1. alive # {} /\ alive' = alive \ {o} /\ UNCHANGED <<default_logger, failed>>
    BY <1>4 DEF Destroy
  <2>2. alive' = {}
    BY <1>4, <2>1 DEF Destroy, IInv, Owner
  <2> QED
    BY <2>1, <2>2 DEF Promise!Next, Promise!Deactivate
<1>5. ASSUME NEW t \in Threads, ResetSpdRedirect(t) PROVE Promise!Next
  <2>1. /\ singleton_ = None /\ object[t] \in Objects
        /\ default_logger' = old_logger_[object[t]] /\ UNCHANGED <<alive, failed>>
    BY <1>5 DEF ResetSpdRedirect, OldLogger, IInv, TypeOK, Quiet, Busy, Locked
  <2>2. alive = {}
    BY <2>1 DEF IInv, TypeOK, Owner
  <2>3. old_logger_[object[t]] \in Objects \cup {Original}
    BY <1>5, <2>1 DEF ResetSpdRedirect, IInv, TypeOK, Stored, Redirecting
  <2>4. failed \/ old_logger_[object[t]] = Original
    BY <2>1, <2>3 DEF IInv, TypeOK, Restoring
  <2> QED
    BY <2>1, <2>2, <2>3, <2>4 DEF Promise!Next, Promise!Restore
<1>6. CASE \E t \in Threads :
             \/ \E o \in Objects : Construct(t, o)
             \/ LockToConstruct(t) \/ StartCapture(t) \/ CaptureStarted(t)
             \/ LockToDestroy(t) \/ DropImpl(t) \/ StopCapture(t) \/ StopMock(t) \/ JoinMock(t)
             \/ JoinReader(t) \/ Regain(t) \/ Exit(t) \/ Exited(t) \/ ProcessEnds(t)
  BY <1>6
     DEF Construct, LockToConstruct, StartCapture, CaptureStarted, LockToDestroy, DropImpl,
         StopCapture, StopMock, JoinMock, JoinReader, Regain, Exit, Exited, ProcessEnds
<1>7. CASE (\E c \in Clients : Log(c) \/ Logged(c)) \/ PipeFills \/ PipeDrains
           \/ UNCHANGED vars
  BY <1>7 DEF Log, Logged, PipeFills, PipeDrains, vars
<1> QED
  BY <1>1, <1>2, <1>3, <1>4, <1>5, <1>6, <1>7 DEF Next, Runs, Step, ThreadStep, GoesOn

LEMMA PromiseKept == Behaviour => ImplementsRedirection
<1>1. Init => Promise!Init
  BY LoggerAssumption DEF Init, Promise!Init
<1> QED
  BY <1>1, PromiseStep, RestoringInvariance, PTL DEF Behaviour, ImplementsRedirection,
        Promise!Spec

\* For any number of threads, with constructors that fail at any time, Logger redirects
\* spdlog for one object at a time and puts things back (logger.hpp:14, logger.hpp:20).
THEOREM LoggerKeepsPromise == Spec => ImplementsRedirection
  BY PromiseKept DEF Spec, Behaviour

\* That promise is worth making: whoever keeps it has one object at a time, and spdlog
\* goes to that object as long as there is one, whatever failed before.
THEOREM RedirectionSuffices ==
  ImplementsRedirection => [](RedirectedWhileAlive /\ \A o, p \in alive : o = p)
<1> DEFINE OnRoute == alive \subseteq {default_logger}
<1>1. Promise!Init => OnRoute
  BY DEF Promise!Init
<1>2. OnRoute /\ [Promise!Next]_<<alive, default_logger, failed>> => OnRoute'
  BY DEF Promise!Next, Promise!Redirect, Promise!Activate, Promise!GiveUp,
         Promise!Deactivate, Promise!Restore
<1>3. OnRoute => RedirectedWhileAlive /\ \A o, p \in alive : o = p
  BY DEF RedirectedWhileAlive
<1> HIDE DEF OnRoute
<1> QED
  BY <1>1, <1>2, <1>3, PTL DEF ImplementsRedirection, Promise!Spec

-------------------------------------------------------------------------------
(* Who waits for whom.  The GIL is held only by a thread that waits for   *)
(* nothing but the writer, and the mutex only by one that waits for the    *)
(* GIL, the writer or the reader.                                          *)

Holders ==
  /\ \A t \in Threads : gil = t => pc[t] \in {"c_redirected", "d_impl", "d_reset", "exit"}
  /\ \A t \in Threads : singleton_mutex_ = t => pc[t] \in Locked
  /\ \A t \in Threads : pc[t] = "exit" => build = "real"

LEMMA HoldersStep == TypeOK /\ Holders /\ [Next]_vars => Holders'
<1> SUFFICES ASSUME TypeOK, Holders, [Next]_vars PROVE Holders'
  OBVIOUS
<1> USE LoggerAssumption DEF TypeOK, Holders, Locked, Goto, locks
<1>0. build' = build
  BY DEF Next, Runs, ProcessEnds, vars
<1>1. ASSUME NEW t \in Threads, NEW o \in Objects, Construct(t, o) \/ Destroy(t, o) PROVE Holders'
  BY <1>0, <1>1 DEF Construct, Destroy
<1>2. ASSUME NEW t \in Threads, Exit(t) \/ ThreadStep(t) PROVE Holders'
  <2>1. CASE LockToConstruct(t) \/ LockToDestroy(t)
    BY <1>0, <2>1 DEF LockToConstruct, LockToDestroy, Lock, Taken
  <2>2. CASE RedirectSpd(t) \/ DropImpl(t) \/ JoinReader(t)
    BY <1>0, <2>2 DEF RedirectSpd, DropImpl, JoinReader
  <2>3. CASE StartCapture(t) \/ StopCapture(t) \/ StopMock(t) \/ JoinMock(t)
    BY <1>0, <2>3 DEF StartCapture, StopCapture, ReleaseGil, StopMock, WithoutGil, JoinMock
  <2>4. CASE CaptureStarted(t) \/ CaptureFails(t) \/ ResetSpdRedirect(t)
    BY <1>0, <2>4 DEF CaptureStarted, CaptureFails, ResetSpdRedirect
  <2>5. CASE Constructed(t) \/ Regain(t) \/ Exit(t) \/ Exited(t)
    BY <1>0, <2>5 DEF Constructed, Regain, Exit, Exited
  <2> QED
    BY <1>2, <2>1, <2>2, <2>3, <2>4, <2>5 DEF ThreadStep, GoesOn
<1>3. CASE \/ \E c \in Clients : Log(c) \/ Logged(c)
           \/ PipeFills \/ PipeDrains \/ \E t \in Threads : ProcessEnds(t)
  BY <1>0, <1>3 DEF Log, Logged, PipeFills, PipeDrains, ProcessEnds
<1>4. CASE UNCHANGED vars
  BY <1>4 DEF vars
<1> QED
  BY <1>1, <1>2, <1>3, <1>4 DEF Next, Runs, Step

LEMMA HoldersInvariance == Behaviour => [](TypeOK /\ Holders)
<1>1. Init => Holders
  BY LoggerAssumption DEF Init, Holders
<1>2. IInv => TypeOK
  BY DEF IInv
<1> QED
  BY <1>1, <1>2, HoldersStep, Invariance, PTL DEF Behaviour

\* The chain of who waits for whom: a thread at the mutex, the holder of the mutex, the
\* holder of the GIL, the writer and the reader.  It has an end unless the writer never
\* comes, or the holder of the GIL is at its end, where the reader waits for the GIL.
LEMMA ChainEnds == TypeOK /\ Holders => SomebodyGoesOn
<1> SUFFICES ASSUME TypeOK, Holders, writer # "lost", NEW t \in Threads, pc[t] # "idle"
             PROVE  ReaderCanGo \/ Deadlocked \/ \E s \in Threads : CanGo(s)
  BY DEF SomebodyGoesOn, Deadlocked
<1>1. CASE gil # None
  <2>1. gil \in Threads /\ pc[gil] \in {"c_redirected", "d_impl", "d_reset", "exit"}
    BY <1>1 DEF TypeOK, Holders
  <2>2. CASE pc[gil] \in {"c_redirected", "d_reset"}
    BY <2>1, <2>2 DEF CanGo
  <2>3. CASE pc[gil] \in {"d_impl", "exit"}
    <3>1. CanGo(gil) \/ (writer = "full" /\ build = "real")
      BY <2>1, <2>3 DEF CanGo, TypeOK, Holders
    <3> QED
      BY <2>1, <2>3, <3>1 DEF Deadlocked
  <2> QED
    BY <2>1, <2>2, <2>3
\* Nobody has the GIL: whoever has the mutex waits for the reader, if for anything.
<1>2. ASSUME NEW s \in Threads, pc[s] \in Locked \cup {"exit"}, gil = None
      PROVE  ReaderCanGo \/ CanGo(s)
  BY <1>2 DEF TypeOK, Locked, CanGo, CanHaveGil, ReaderCanGo, ReaderHasEnded
<1>3. CASE gil = None /\ singleton_mutex_ # None
  <2>1. singleton_mutex_ \in Threads /\ pc[singleton_mutex_] \in Locked
    BY <1>3 DEF TypeOK, Holders
  <2> QED
    BY <1>2, <1>3, <2>1
<1>4. CASE gil = None /\ singleton_mutex_ = None
  BY <1>2, <1>4 DEF TypeOK, Locked, CanGo
<1> QED
  BY <1>1, <1>3, <1>4

\* However many threads make and destroy Loggers and leave IRImagers while the reader
\* logs and empties the pipe, Logger adds no deadlock to those of IRLoggerToSpd: the
\* mutex, the GIL, the writer and the reader never block all of them (logger.cpp:121).
THEOREM NoDeadlock == Spec => []SomebodyGoesOn
  BY ChainEnds, HoldersInvariance, PTL DEF Spec, Behaviour

-------------------------------------------------------------------------------
(* The LoggerContextManager. *)

Manager ==
  /\ starting \subseteq Threads
  /\ logger_ # None => logger_ \in alive

MInv == IInv /\ Manager

LEMMA InitMInv == MInit => MInv
  BY InitInv DEF MInit, MInv, Manager

LEMMA StepIsLoggerStep == MInv /\ [MNext]_mvars => [Next]_vars
<1> SUFFICES ASSUME MInv, [MNext]_mvars PROVE [Next]_vars
  OBVIOUS
<1> USE DEF Next, Runs, Step
<1>1. ASSUME NEW t \in Threads, Runs(Start(t)) PROVE Next
  BY <1>1 DEF Start
\* stop() destroys a Logger that is alive.
<1>2. ASSUME NEW t \in Threads, Runs(Stop(t)) PROVE Next
  <2>1. logger_ \in Objects
    BY <1>2 DEF Stop, Nullptr, MInv, Manager, IInv, TypeOK
  <2> QED
    BY <1>2, <2>1 DEF Stop
<1>3. ASSUME NEW t \in Threads, Runs(DirectCall(t)) PROVE Next
  BY <1>3 DEF DirectCall
<1>4. ASSUME NEW t \in Threads, Runs(Inside(t)) PROVE Next
  BY <1>4 DEF Inside, ThreadStep
<1>5. ASSUME NEW t \in Threads, Runs(Return(t)) PROVE Next
  BY <1>5 DEF Return, Started, StartFails, DirectReturn, ThreadStep
<1>6. ASSUME Runs((\E c \in Clients : Log(c) \/ Logged(c)) \/ PipeFills \/ PipeDrains) PROVE Next
  BY <1>6
<1>7. CASE (\E t \in Threads : ProcessEnds(t)) \/ UNCHANGED mvars
  BY <1>7 DEF mvars
<1> QED
  BY <1>1, <1>2, <1>3, <1>4, <1>5, <1>6, <1>7 DEF MNext, MStep

LEMMA StepMInv == MInv /\ [MNext]_mvars => MInv'
<1> SUFFICES ASSUME MInv, [MNext]_mvars PROVE Manager'
  BY StepIsLoggerStep, StepInv DEF MInv
<1> USE LoggerAssumption DEF MInv, Manager
<1>1. ASSUME NEW t \in Threads, Start(t) PROVE Manager'
  BY <1>1 DEF Start, Construct
<1>2. ASSUME NEW t \in Threads, Stop(t) PROVE Manager'
  BY <1>2 DEF Stop, Nullptr
\* What is destroyed beside the manager is not what it holds.
<1>3. ASSUME NEW t \in Threads, DirectCall(t) PROVE Manager'
  BY <1>3 DEF DirectCall, Construct, Destroy, Exit
<1>4. ASSUME NEW t \in Threads, Inside(t) PROVE Manager'
  BY <1>4
     DEF Inside, GoesOn, LockToConstruct, RedirectSpd, StartCapture, CaptureStarted, CaptureFails,
         LockToDestroy, DropImpl, StopCapture, StopMock, JoinMock, JoinReader, ResetSpdRedirect
<1>5. ASSUME NEW t \in Threads, Return(t) PROVE Manager'
  BY <1>5 DEF Return, Started, StartFails, DirectReturn, Constructed, Regain, Exited
<1>6. ASSUME \/ \E c \in Clients : Log(c) \/ Logged(c)
             \/ PipeFills \/ PipeDrains \/ \E t \in Threads : ProcessEnds(t),
             UNCHANGED <<logger_, starting>>
      PROVE  Manager'
  BY <1>6 DEF Log, Logged, PipeFills, PipeDrains, ProcessEnds
<1>7. CASE UNCHANGED mvars
  BY <1>7 DEF mvars, vars
<1> QED
  BY <1>1, <1>2, <1>3, <1>4, <1>5, <1>6, <1>7 DEF MNext, MStep, Runs

LEMMA MInvariance == MSpec => []MInv
  BY InitMInv, StepMInv, PTL DEF MSpec

\* However many threads call start() and stop(), and make Loggers of their own, the
\* assignment in start() finds logger_ null (logger_context_manager.cpp:6): a live
\* one would be the one that singleton_ leads to, which is the new one.
THEOREM NeverReplaced == MSpec => []NothingReplaced
<1>1. MInv => NothingReplaced
  BY DEF MInv, IInv, Manager, Owner, Distinct, NothingReplaced
<1> QED
  BY <1>1, MInvariance, PTL

\* What the manager holds is alive, and is what spdlog logs to.
THEOREM ManagedLogger == MSpec => []ManagedIsLive
<1>1. MInv => ManagedIsLive
  BY LoggerAssumption DEF MInv, IInv, TypeOK, Manager, Owner, Redirected, ManagedIsLive
<1> QED
  BY <1>1, MInvariance, PTL

LEMMA ManagerBehaves == MSpec => Behaviour
<1>1. MInit => Init
  BY DEF MInit
<1> QED
  BY <1>1, StepIsLoggerStep, MInvariance, PTL DEF MSpec, Behaviour

\* Every behaviour of the manager and its threads is one of Logger, fairness aside.
THEOREM ManagerImplementsLogger == MSpec => Init /\ [][Next]_vars
  BY ManagerBehaves DEF Behaviour

\* So what Logger promises is true of managers and Loggers used side by side
\* (logger_context_manager.cpp:3-9): one at a time, spdlog redirected and restored,
\* the reader safe, and no deadlock.
THEOREM ManagedLoggersSafe ==
  MSpec => [](/\ OneAtATime /\ RedirectedWhileAlive /\ OriginalRestored
              /\ ReaderLogsToLiveLogger /\ SomebodyGoesOn)
  BY ManagerBehaves, Invariance, ReaderInvariance, RestoringInvariance, HoldersInvariance,
     OneOfEach, OwnerIsDefault, LiveLogger, NobodyRedirects, ChainEnds, PTL

\* And whoever logs sees the manager keep the promise of Logger.
THEOREM ManagerKeepsPromise == MSpec => ImplementsRedirection
  BY ManagerBehaves, PromiseKept
===============================================================================

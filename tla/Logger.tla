-------------------------------- MODULE Logger --------------------------------
(***************************************************************************)
(* The class Logger: while an object of it lives, spdlog's logs and those  *)
(* of evo::IRLogger go to a callback, and in Python to a logging.Logger.   *)
(* What it protects is global: spdlog's default logger and evo::IRLogger,  *)
(* of which there is one each.  Two locks are in play, singleton_mutex_    *)
(* and Python's GIL.  A thread comes with the GIL, lets go of it, takes    *)
(* the mutex and then the GIL again; and the GIL is let go of once more    *)
(* while IRLoggerToSpd starts, and while it stops its reader.              *)
(*                                                                         *)
(* Of IRLoggerToSpd (module IRLoggerToSpd has the detail) there is what    *)
(* Logger waits for: starting it succeeds or fails; stopping it waits for  *)
(* a writer, which may wait for room in the pipe, and only the reader,     *)
(* which needs the GIL, makes room; and it may end the process.            *)
(*                                                                         *)
(* Meanwhile threads without the GIL log through spdlog: those in a call   *)
(* of IRImager, and the Reader of the IRLoggerToSpd.  spdlog::debug and    *)
(* its like use the default logger without keeping it alive.               *)
(***************************************************************************)
CONSTANTS
  Threads,    \* Python threads that make and destroy Logger objects
  Objects,    \* identifiers of Logger objects, and of the callback logger of each
  Clients,    \* threads that log without holding the GIL
  Reader,     \* one of them: the thread of IRLoggerReader
  Original,   \* spdlog's own default logger
  None,       \* a null pointer, or a lock that is free
  Builds,     \* the builds to look at: "real", "mock"
  MayFail     \* whether an IRLoggerToSpd may fail

ASSUME LoggerAssumption ==
  /\ Reader \in Clients
  /\ Original \notin Objects /\ None \notin Objects \cup Threads \cup {Original}
  /\ Clients \cap Threads = {}
  /\ Builds \subseteq {"real", "mock"} /\ MayFail \in BOOLEAN

VARIABLES
  build,
  process,           \* "running" or "ended"
  gil,               \* the thread that holds the GIL
  singleton_mutex_,  \* the thread that holds it
  singleton_,        \* what the weak_ptr leads to
  pc,                \* where each thread of Threads is
  object,            \* the object that it makes or destroys
  alive,             \* the Logger objects Python holds
  default_logger,    \* spdlog::default_logger()
  old_logger_,       \* of each object
  capturing,         \* the objects of which the IRLoggerToSpd exists
  writer,            \* what writes into its pipe, the library or the mocked writer:
                     \* "free", waiting as the pipe is "full", or "lost" in
                     \* opening a pipe that the reader has failed to open
  logging,           \* the logger through which each client is logging
  failed             \* whether a constructor has thrown (only for the properties)

locks == <<gil, singleton_mutex_>>
spd   == <<default_logger, old_logger_>>
capture == <<capturing, writer>>
vars  == <<build, process, locks, singleton_, pc, object, alive, spd, capture, logging, failed>>

Goto(t, label) == pc' = [pc EXCEPT ![t] = label]

InUse(o) ==
  \/ o \in alive \cup {default_logger}
  \/ \E t \in Threads : object[t] = o
  \/ \E p \in Objects : old_logger_[p] = o
  \/ \E c \in Clients : logging[c] = o

-------------------------------------------------------------------------------
(* Logger(callback), up to the lock: gil_scoped_release *)

Construct(t, o) ==
  /\ pc[t] = "idle" /\ gil = None /\ ~InUse(o)
  /\ Goto(t, "c_lock") /\ object' = [object EXCEPT ![t] = o]
  /\ UNCHANGED <<locks, singleton_, alive, spd, capture, logging, failed>>

NeverTaken == FALSE  \* bug: singleton_ is not looked at
Taken == singleton_ # None

\* "Only a single instance of the Logger should be active at the same time."
LockToConstruct(t) ==
  /\ pc[t] = "c_lock" /\ singleton_mutex_ = None
  /\ IF Taken
     THEN /\ Goto(t, "clash") /\ object' = [object EXCEPT ![t] = None]
          /\ UNCHANGED singleton_mutex_
     ELSE singleton_mutex_' = t /\ Goto(t, "c_gil") /\ UNCHANGED object
  /\ UNCHANGED <<gil, singleton_, alive, spd, capture, logging, failed>>

-------------------------------------------------------------------------------
(* impl::impl *)

\* redirect_spd
RedirectSpd(t) ==
  /\ pc[t] = "c_gil" /\ gil = None
  /\ gil' = t /\ Goto(t, "c_redirected")
  /\ old_logger_' = [old_logger_ EXCEPT ![object[t]] = default_logger]
  /\ default_logger' = object[t]
  /\ UNCHANGED <<singleton_mutex_, singleton_, object, alive, capture, logging, failed>>

\* make_unique<IRLoggerToSpd> starts the reader, and then releases the GIL.
StartCapture(t) ==
  /\ pc[t] = "c_redirected"
  /\ gil' = None /\ Goto(t, "c_start")
  /\ capturing' = capturing \cup {object[t]}
  /\ UNCHANGED <<singleton_mutex_, singleton_, object, alive, spd, writer, logging, failed>>

\* Back with the GIL (the wait for the library has a time limit, and is without the
\* GIL), it is the singleton_.  Then the GIL and the mutex are
\* released, in this order.
CaptureStarted(t) ==
  /\ pc[t] = "c_start" /\ gil = None
  /\ singleton_' = object[t]
  /\ singleton_mutex_' = None /\ Goto(t, "c_regain")
  /\ UNCHANGED <<gil, object, alive, spd, capture, logging, failed>>

\* The constructor of IRLoggerToSpd throws, its reader joined: ~impl does not
\* run, old_logger_ is dropped, and the mutex is released.  Without its reader the
\* pipe keeps nobody waiting.
CaptureFails(t) ==
  /\ MayFail
  /\ pc[t] = "c_start" /\ gil = None /\ logging[Reader] = None
  /\ failed' = TRUE
  /\ capturing' = capturing \ {object[t]} /\ writer' = "free"
  /\ old_logger_' = [old_logger_ EXCEPT ![object[t]] = None]
  /\ object' = [object EXCEPT ![t] = None]
  /\ singleton_mutex_' = None /\ Goto(t, "regain")
  /\ UNCHANGED <<gil, singleton_, alive, default_logger, logging>>

\* ~gil_scoped_release: the constructor returns to Python.
Constructed(t) ==
  /\ pc[t] = "c_regain" /\ gil = None
  /\ alive' = alive \cup {object[t]}
  /\ object' = [object EXCEPT ![t] = None]
  /\ Goto(t, "idle")
  /\ UNCHANGED <<locks, singleton_, spd, capture, logging, failed>>

-------------------------------------------------------------------------------
(* ~Logger *)

Destroy(t, o) ==
  /\ pc[t] = "idle" /\ gil = None /\ o \in alive
  /\ alive' = alive \ {o}
  /\ Goto(t, "d_lock") /\ object' = [object EXCEPT ![t] = o]
  /\ UNCHANGED <<locks, singleton_, spd, capture, logging, failed>>

DoNotLock(t) == UNCHANGED singleton_mutex_  \* bug: the destructor does without the mutex
Lock(t) == singleton_mutex_ = None /\ singleton_mutex_' = t

LockToDestroy(t) ==
  /\ pc[t] = "d_lock"
  /\ Lock(t) /\ Goto(t, "d_gil")
  /\ UNCHANGED <<gil, singleton_, object, alive, spd, capture, logging, failed>>

\* pImpl_ = nullptr leaves nothing for singleton_ to lead to, and then runs ~impl.
DropImpl(t) ==
  /\ pc[t] = "d_gil" /\ gil = None
  /\ gil' = t /\ singleton_' = None /\ Goto(t, "d_impl")
  /\ UNCHANGED <<singleton_mutex_, object, alive, spd, capture, logging, failed>>

\* gil_scoped_acquire: the GIL is free, or has never been released.
CanHaveGil(t) == gil \in {None, t}

KeepGil == UNCHANGED gil  \* bug: the GIL is not released
ReleaseGil == gil' = None
WithoutGil == gil' = None

\* ir_logger_to_spd_ = nullptr, which has the GIL: ~IRLoggerImpl waits for
\* setVerbosity (a wait that the time limit does not end, as it joins the thread),
\* which waits for whoever writes into the pipe; ~IRLoggerReader then releases the
\* GIL in stop_thread ...
StopCapture(t) ==
  /\ build = "real" /\ pc[t] = "d_impl"
  /\ writer = "free"
  /\ ReleaseGil /\ Goto(t, "d_join")
  /\ UNCHANGED <<singleton_mutex_, singleton_, object, alive, spd, capture, logging, failed>>

\* The mocked ~IRLoggerImpl releases the GIL.  If the reader could not open the
\* pipe, its writer is still waiting for it.
StopMock(t) ==
  /\ build = "mock" /\ pc[t] = "d_impl"
  /\ WithoutGil /\ Goto(t, "d_mock")
  /\ \/ UNCHANGED writer
     \/ MayFail /\ writer = "free" /\ writer' = "lost"
  /\ UNCHANGED <<singleton_mutex_, singleton_, object, alive, spd, capturing, logging, failed>>

\* It joins the writer, takes the GIL, and stop_thread releases it again ...
JoinMock(t) ==
  /\ pc[t] = "d_mock" /\ writer = "free" /\ CanHaveGil(t)
  /\ gil' = None /\ Goto(t, "d_join")
  /\ UNCHANGED <<singleton_mutex_, singleton_, object, alive, spd, capture, logging, failed>>

NotJoined == TRUE  \* bug: the reader is not waited for
ReaderHasEnded == logging[Reader] = None

\* ... and joins the reader.
JoinReader(t) ==
  /\ pc[t] = "d_join" /\ CanHaveGil(t) /\ ReaderHasEnded
  /\ gil' = t /\ Goto(t, "d_reset")
  /\ capturing' = capturing \ {object[t]}
  /\ UNCHANGED <<singleton_mutex_, singleton_, object, alive, spd, writer, logging, failed>>

Forgotten(o) == None  \* bug: old_logger_ is cleared before it is used
Itself(o) == o  \* bug: old_logger_ was taken after set_default_logger
OldLogger(o) == old_logger_[o]

\* reset_spd_redirect; then the GIL and the mutex are released.
ResetSpdRedirect(t) ==
  /\ pc[t] = "d_reset"
  /\ default_logger' = OldLogger(object[t])
  /\ old_logger_' = [old_logger_ EXCEPT ![object[t]] = None]
  /\ object' = [object EXCEPT ![t] = None]
  /\ gil' = None /\ singleton_mutex_' = None /\ Goto(t, "regain")
  /\ UNCHANGED <<singleton_, alive, capture, logging, failed>>

\* ~gil_scoped_release: the destructor returns, or the constructor throws.
Regain(t) ==
  /\ pc[t] \in {"clash", "regain"} /\ gil = None
  /\ Goto(t, "idle")
  /\ UNCHANGED <<locks, singleton_, object, alive, spd, capture, logging, failed>>

\* Stopping an IRLoggerToSpd may end the process: an exception leaves ~IRLoggerImpl,
\* or the reader gets SIGUSR1 before it ignores it.
ProcessEnds(t) ==
  /\ MayFail /\ process = "running"
  /\ \/ build = "real" /\ pc[t] = "d_impl"
     \/ pc[t] \in {"c_start", "d_join"}
  /\ process' = "ended"
  /\ UNCHANGED <<build, locks, singleton_, pc, object, alive, spd, capture, logging, failed>>

-------------------------------------------------------------------------------
(* IRImager.__exit__, which keeps the GIL while the library stops streaming *)
(* and logs that it does.                                                   *)

Exit(t) ==
  /\ build = "real" /\ pc[t] = "idle" /\ gil = None
  /\ gil' = t /\ Goto(t, "exit")
  /\ UNCHANGED <<singleton_mutex_, singleton_, object, alive, spd, capture, logging, failed>>

Exited(t) ==
  /\ pc[t] = "exit" /\ writer = "free"
  /\ gil' = None /\ Goto(t, "idle")
  /\ UNCHANGED <<singleton_mutex_, singleton_, object, alive, spd, capture, logging, failed>>

-------------------------------------------------------------------------------
(* The pipe *)

\* A line finds no room, and the reader has a chunk in its hands.  Once the writer has
\* ended, or its log is off, nothing is written.
PipeFills ==
  /\ capturing # {} /\ writer = "free"
  /\ \A t \in Threads : pc[t] # "d_join"
  /\ writer' = "full"
  /\ UNCHANGED <<locks, singleton_, pc, object, alive, spd, capturing, logging, failed>>

\* The reader hands what it has read to the callback, which takes the GIL.
PipeDrains ==
  /\ writer = "full" /\ gil = None /\ logging[Reader] = None
  /\ writer' = "free"
  /\ UNCHANGED <<locks, singleton_, pc, object, alive, spd, capturing, logging, failed>>

-------------------------------------------------------------------------------
(* Logging.  log_to_python takes the GIL, and waits for it inside the sink. *)

Log(c) ==
  /\ logging[c] = None
  /\ c = Reader => capturing # {}
  /\ logging' = [logging EXCEPT ![c] = default_logger]
  /\ UNCHANGED <<locks, singleton_, pc, object, alive, spd, capture, failed>>

Logged(c) ==
  /\ logging[c] # None
  /\ logging[c] # Original => gil = None
  /\ logging' = [logging EXCEPT ![c] = None]
  /\ UNCHANGED <<locks, singleton_, pc, object, alive, spd, capture, failed>>

-------------------------------------------------------------------------------

Init ==
  /\ build \in Builds /\ process = "running" /\ writer = "free"
  /\ gil = None /\ singleton_mutex_ = None /\ singleton_ = None
  /\ pc = [t \in Threads |-> "idle"]
  /\ object = [t \in Threads |-> None]
  /\ alive = {} /\ capturing = {}
  /\ default_logger = Original
  /\ old_logger_ = [o \in Objects |-> None]
  /\ logging = [c \in Clients |-> None]
  /\ failed = FALSE

GoesOn(t) ==
  \/ LockToConstruct(t) \/ RedirectSpd(t)
  \/ StartCapture(t) \/ CaptureStarted(t) \/ CaptureFails(t)
  \/ LockToDestroy(t) \/ DropImpl(t)
  \/ StopCapture(t) \/ StopMock(t) \/ JoinMock(t) \/ JoinReader(t) \/ ResetSpdRedirect(t)

ThreadStep(t) == GoesOn(t) \/ Constructed(t) \/ Regain(t) \/ Exited(t)

Step ==
  \/ \E t \in Threads, o \in Objects : Construct(t, o) \/ Destroy(t, o)
  \/ \E t \in Threads : Exit(t) \/ ThreadStep(t)
  \/ \E c \in Clients : Log(c) \/ Logged(c)
  \/ PipeFills \/ PipeDrains

Runs(A) == process = "running" /\ A /\ UNCHANGED <<build, process>>

Next == Runs(Step) \/ \E t \in Threads : ProcessEnds(t)

\* The GIL and the mutex are handed over fairly, and a thread that has them goes on,
\* the reader included.  Nobody has to log, to make a Logger or to destroy one.
Fairness ==
  /\ \A t \in Threads : SF_vars(Runs(ThreadStep(t)))
  /\ \A c \in Clients : SF_vars(Runs(Logged(c)))
  /\ SF_vars(Runs(PipeDrains))

Spec == Init /\ [][Next]_vars /\ Fairness

-------------------------------------------------------------------------------
(* Properties *)

TypeOK ==
  /\ build \in {"real", "mock"} /\ process \in {"running", "ended"}
  /\ writer \in {"free", "full", "lost"}
  /\ gil \in Threads \cup {None} /\ singleton_mutex_ \in Threads \cup {None}
  /\ singleton_ \in Objects \cup {None}
  /\ pc \in [Threads -> {"idle", "c_lock", "clash", "c_gil", "c_redirected", "c_start", "c_regain",
                         "d_lock", "d_gil", "d_impl", "d_mock", "d_join", "d_reset", "regain", "exit"}]
  /\ object \in [Threads -> Objects \cup {None}]
  /\ alive \subseteq Objects /\ capturing \subseteq Objects
  /\ default_logger \in Objects \cup {Original}
  /\ old_logger_ \in [Objects -> Objects \cup {Original, None}]
  /\ logging \in [Clients -> Objects \cup {Original, None}]
  /\ failed \in BOOLEAN

\* "Only a single instance of this object can exist at a time" (logger.hpp:20),
\* and there are never two of the IRLoggerToSpd ("Creating multiple instances of
\* IRLoggerToSpd is undefined behaviour", irlogger_to_spd.hpp:17), not even
\* while one thread destroys its Logger and another makes one.
OneAtATime ==
  /\ \A o, p \in alive : o = p
  /\ \A o, p \in capturing : o = p

\* "After you instantiate an object of this class, all spdlogs ... [will] go to
\* callback you've defined" (logger.hpp:14): as long as an object is alive, the
\* default logger is its own, whatever failed or was destroyed before.
RedirectedWhileAlive == \A o \in alive : default_logger = o

\* When there is no Logger, and none in the making, spdlog has its own default
\* logger back.  (Not after a constructor has thrown: see OldLoggerIsOriginal.)
OriginalRestored ==
  ~failed /\ alive = {} /\ (\A t \in Threads : object[t] = None)
    => default_logger = Original

\* The above and the way there: spdlog is never redirected twice, nor back, while an
\* object is alive, and a Logger gets its object only when spdlog is its own.
Promise == INSTANCE Redirection WITH active <- alive, route <- default_logger, spoiled <- failed

ImplementsRedirection == Promise!Spec

Exists(l) == l \in {None, Original, default_logger} \/ \E o \in Objects : old_logger_[o] = l

\* The reader is joined before its spdlog logger goes: it never logs through one
\* that has been destroyed.
ReaderLogsToLiveLogger == Exists(logging[Reader])

\* "If we've called redirect_spd(), this var stores the original logger"
\* (logger.cpp:63), also after an earlier Logger could not be constructed.
OldLoggerIsOriginal == \A o \in Objects : old_logger_[o] \in {None, Original}

-----------------
\* What a thread that has begun waits for: the mutex, the GIL, the writer, the reader.
CanGo(t) ==
  \/ pc[t] \in {"c_lock", "d_lock"} /\ singleton_mutex_ = None
  \/ pc[t] \in {"c_gil", "c_start", "c_regain", "d_gil", "clash", "regain"} /\ gil = None
  \/ pc[t] \in {"c_redirected", "d_reset"}
  \/ pc[t] = "d_impl" /\ (build = "mock" \/ writer = "free")
  \/ pc[t] = "d_mock" /\ writer = "free" /\ CanHaveGil(t)
  \/ pc[t] = "d_join" /\ ReaderHasEnded /\ CanHaveGil(t)
  \/ pc[t] = "exit" /\ writer = "free"

\* The reader, when somebody waits for it to end or to make room in the pipe.
ReaderCanGo ==
  /\ writer = "full" \/ \E t \in Threads : pc[t] = "d_join"
  /\ \/ logging[Reader] = Original
     \/ gil = None /\ (logging[Reader] # None \/ writer = "full")

\* The deadlocks of IRLoggerToSpd: whoever keeps the GIL waits for a writer that waits
\* for the reader to make room, which needs the GIL (irlogger_to_spd_posix.cpp:468,
\* irimager.cpp:67); and a mocked writer waits for a reader that could not open the
\* pipe (irlogger_to_spd_posix.cpp:309).
Deadlocked ==
  \/ writer = "lost"
  \/ writer = "full" /\ build = "real" /\ \E t \in Threads : pc[t] \in {"d_impl", "exit"}

\* Logger adds none of its own: the threads with the mutex, the GIL, a writer and a
\* reader to wait for never all wait for one another but in these two cases
\* ("release gil to avoid deadlock", logger.cpp:121).
SomebodyGoesOn ==
  process = "running" /\ (\E t \in Threads : pc[t] # "idle")
    => ReaderCanGo \/ Deadlocked \/ \E t \in Threads : CanGo(t)

\* Nor is any of them passed over for ever: every constructor and destructor, and every
\* __exit__, returns, if the process does not end and is not in one of these deadlocks
\* for ever (logger.cpp:121, logger.cpp:142).
CallsReturn ==
  \A t \in Threads :
    pc[t] \in {"c_lock", "d_lock", "exit"} ~> (pc[t] = "idle" \/ process = "ended" \/ []Deadlocked)
===============================================================================

----------------------------- MODULE IRLoggerToSpd -----------------------------
(***************************************************************************)
(* The lifetime of an IRLoggerToSpd object, in a build with the "real"     *)
(* library or a "mock" of it, and the threads that take part in it:        *)
(*   main    the Python thread that constructs and destroys the object;    *)
(*   worker  the thread run_with_timeout gives evo::IRLogger::setVerbosity *)
(*           (the destructor does not release the GIL around it), or the   *)
(*           mocked writer;                                                *)
(*   reader  the thread of IRLoggerReader;                                 *)
(*   camera  a thread inside the library that logs a line into the pipe;   *)
(*   other   another Python thread: it takes the GIL, and may call         *)
(*           IRImager.__exit__, which keeps the GIL (irimager.cpp:67) and  *)
(*           lets the library log a line.                                  *)
(*                                                                         *)
(* The library is external.  Modelled from how the code protects itself    *)
(* from it ("the setVerbosity() function freezes sometimes", "due to a     *)
(* deadlock", irlogger_to_spd_posix.cpp:391 and 395): one lock serialises  *)
(* setVerbosity and logging, and is held while a line is written to the    *)
(* pipe.  Waiting for a lock is no cancellation point, opening a pipe is.  *)
(* A thread that is cancelled releases what it holds.                      *)
(***************************************************************************)
EXTENDS IRLoggerReader

CONSTANTS
  Builds,           \* the builds to look at: "real", "mock"
  MaxChunks,        \* bound: chunks written while an object lives (for the mocked
                    \* writer, the 3600 of its loop)
  MayTimeout,       \* whether the 5 seconds of run_with_timeout may end first
  LibraryMayFail    \* whether setVerbosity may throw

ASSUME LifetimeAssumption ==
  /\ Builds \subseteq {"real", "mock"} /\ MaxChunks \in Nat
  /\ MayTimeout \in BOOLEAN /\ LibraryMayFail \in BOOLEAN

VARIABLES
  build,
  main,       \* where main is: see TypeOK
  phase,      \* "on" in the constructor, "off" in the destructor of IRLoggerImpl
  worker,     \* where the worker is
  cancelled,  \* whether pthread_cancel was called on it
  stopMock,   \* stop_ of the mocked IRLoggerImpl
  chunks,     \* chunks written while the object lives
  verbosity,  \* library: "off" or "debug"
  libraryLock,\* library: the thread that holds its lock, or "free"
  exiting     \* whether other is in __exit__

mainVars   == <<main, phase>>
workerVars == <<worker, cancelled, stopMock>>
libVars    == <<chunks, verbosity, libraryLock, exiting>>
spdVars    == <<mainVars, workerVars, libVars>>
ownVars    == <<gil, process, readerVars, file, pipe, mishap>>
vars       == <<build, spdVars, ownVars>>

\* Everything of the reader but the GIL.
ReaderAlone == UNCHANGED <<process, readerVars, file, pipe, mishap>>

-------------------------------------------------------------------------------
(* main: the constructor.  It holds the GIL (line 463). *)

Construct ==
  /\ main = "none" /\ gil = "free"
  /\ gil' = "main" /\ main' = "make_reader"
  /\ ReaderAlone /\ UNCHANGED <<phase, workerVars, libVars>>

\* When mkfifo fails there is nothing to undo.
MakeReader ==
  /\ main = "make_reader" /\ chunks' = 0
  /\ \/ main' = "set_on" /\ StartThread /\ UNCHANGED gil
     \/ main' = "none" /\ gil' = "free" /\ ReaderAlone
  /\ UNCHANGED <<phase, workerVars, verbosity, libraryLock, exiting>>

\* run_with_timeout starts its thread.
StartWorker(on) ==
  /\ phase' = on /\ main' = "wait"
  /\ worker' = "lock" /\ cancelled' = FALSE
  /\ ReaderAlone /\ UNCHANGED <<stopMock, libVars>>

KeepGil == UNCHANGED gil  \* bug: no gil_scoped_release
ReleaseGil == gil' = "free"

\* The constructor of the real IRLoggerImpl releases the GIL first.
SetVerbosityOn == build = "real" /\ main = "set_on" /\ ReleaseGil /\ StartWorker("on")

\* The mocked IRLoggerImpl starts its writer; back in Python, others get the GIL.
StartMock ==
  /\ build = "mock" /\ main = "set_on"
  /\ worker' = "open" /\ stopMock' = FALSE
  /\ gil' = "free" /\ main' = "alive"
  /\ ReaderAlone /\ UNCHANGED <<phase, cancelled, libVars>>

Regain ==
  /\ main = "regain" /\ gil = "free"
  /\ main' = "alive"
  /\ UNCHANGED gil /\ ReaderAlone /\ UNCHANGED <<phase, workerVars, libVars>>

NoReader == "none"  \* bug: the reader is not destroyed
LastMember == "stop_reader"

\* The constructor threw, or the mocked writer has ended: log_file_reader_ is next.
Unwind ==
  /\ main = "unwind" /\ gil = "free"
  /\ gil' = "main" /\ main' = LastMember
  /\ ReaderAlone /\ UNCHANGED <<phase, workerVars, libVars>>

-------------------------------------------------------------------------------
(* main: run_with_timeout *)

\* An exception ends the process when it leaves the destructor.
Throws ==
  IF phase = "on" THEN main' = "unwind" /\ UNCHANGED process
                  ELSE process' = "terminated" /\ UNCHANGED main

Ready ==
  /\ main = "wait" /\ worker \in {"done", "threw"}
  /\ worker' = "none"
  /\ IF worker = "threw" THEN Throws
     ELSE main' = (IF phase = "on" THEN "regain" ELSE LastMember) /\ UNCHANGED process
  /\ UNCHANGED <<gil, phase, cancelled, stopMock, libVars, readerVars, file, pipe, mishap>>

TimesOut ==
  /\ MayTimeout
  /\ main = "wait" /\ worker \notin {"done", "threw"}
  /\ main' = "cancel" /\ mishap' = TRUE
  /\ UNCHANGED <<gil, process, phase, workerVars, libVars, readerVars, file, pipe>>

\* The worker may have finished since: then cancelling it has no effect, or (older
\* C libraries) fails, the thread is detached and an exception thrown.
Cancel ==
  /\ main = "cancel"
  /\ \/ /\ cancelled' = TRUE /\ main' = "join" /\ UNCHANGED <<worker, process>>
     \/ /\ worker \in {"done", "threw"} /\ worker' = "none"
        /\ Throws /\ UNCHANGED cancelled
  /\ UNCHANGED <<gil, phase, stopMock, libVars, readerVars, file, pipe, mishap>>

Join ==
  /\ main = "join" /\ worker \in {"done", "threw", "unwound"}
  /\ worker' = "none" /\ cancelled' = FALSE
  /\ main' = IF phase = "on" THEN "unwind" ELSE LastMember
  /\ UNCHANGED <<gil, phase, stopMock, libVars>> /\ ReaderAlone

-------------------------------------------------------------------------------
(* main: the destructor.  It holds the GIL (line 468); ~IRLoggerImpl comes *)
(* first, then ~IRLoggerReader, which releases the GIL.                    *)

ReaderFirst ==  \* bug: the members are destroyed in the wrong order
  /\ main' = LastMember /\ phase' = "off"
  /\ ReaderAlone /\ UNCHANGED <<workerVars, libVars>>
DestroyImpl == StartWorker("off")

Destroy ==
  /\ build = "real" /\ main = "alive" /\ gil = "free"
  /\ gil' = "main" /\ DestroyImpl

\* The mocked IRLoggerImpl releases the GIL, and takes it again (Unwind).
DestroyMock ==
  /\ build = "mock" /\ main = "alive" /\ gil = "free"
  /\ stopMock' = TRUE /\ main' = "join_mock"
  /\ UNCHANGED gil /\ ReaderAlone /\ UNCHANGED <<phase, worker, cancelled, libVars>>

JoinMock ==
  /\ main = "join_mock" /\ worker = "done"
  /\ worker' = "none" /\ main' = "unwind"
  /\ UNCHANGED gil /\ ReaderAlone /\ UNCHANGED <<phase, cancelled, stopMock, libVars>>

EndReader ==
  /\ \/ main = "stop_reader" /\ StopThread /\ main' = "signal"
     \/ main = "signal" /\ SignalThread /\ main' = "join_reader"
     \/ main = "join_reader" /\ JoinReader /\ main' = "leave"
  /\ UNCHANGED <<phase, workerVars, libVars>>

Leave ==
  /\ main = "leave" /\ gil = "free"
  /\ main' = "none"
  /\ UNCHANGED gil /\ ReaderAlone /\ UNCHANGED <<phase, workerVars, libVars>>

-------------------------------------------------------------------------------
(* worker: evo::IRLogger::setVerbosity, or the mocked writer *)

WorkerLock ==
  /\ worker = "lock" /\ libraryLock = "free"
  /\ libraryLock' = "worker" /\ worker' = "set"
  /\ UNCHANGED <<mainVars, cancelled, stopMock, chunks, verbosity, exiting, ownVars>>

\* A pipe that is opened for writing waits for its reader.
Opens == file = "fifo" => ReadEndOpen

\* Switching the log on opens the pipe.
WorkerSet ==
  /\ worker = "set"
  /\ phase = "on" => Opens
  /\ verbosity' = IF phase = "on" THEN "debug" ELSE "off"
  /\ libraryLock' = "free" /\ worker' = "done"
  /\ UNCHANGED <<mainVars, cancelled, stopMock, chunks, exiting, ownVars>>

WorkerFails ==
  /\ worker = "set" /\ libraryLock' = "free"
  /\ \/ LibraryMayFail /\ worker' = "threw" /\ mishap' = TRUE
     \/ phase = "on" /\ cancelled /\ worker' = "unwound" /\ UNCHANGED mishap
  /\ UNCHANGED <<mainVars, cancelled, stopMock, chunks, verbosity, exiting>>
  /\ UNCHANGED <<gil, process, readerVars, file, pipe>>

HasRoom == file = "fifo" /\ ReadEndOpen => pipe < PipeSize

\* A write waits for room, or fails when nobody reads the pipe.
Write ==
  /\ HasRoom
  /\ pipe' = IF \/ file = "plain" /\ reader # "none"
                \/ file = "fifo" /\ ReadEndOpen THEN pipe + 1 ELSE pipe
  /\ UNCHANGED <<gil, process, readerVars, file, mishap>>

MockStep(from, to) ==
  worker = from /\ worker' = to /\ UNCHANGED <<cancelled, stopMock, mainVars>>

MockWriter ==
  /\ UNCHANGED <<verbosity, libraryLock, exiting>>
  /\ \/ MockStep("open", "write") /\ Opens /\ UNCHANGED <<chunks, ownVars>>
     \/ MockStep("write", "loop") /\ Write /\ UNCHANGED chunks
     \/ /\ chunks < MaxChunks /\ ~stopMock /\ MockStep("loop", "write")
        /\ chunks' = chunks + 1 /\ UNCHANGED ownVars
     \/ /\ chunks = MaxChunks \/ stopMock
        /\ MockStep("loop", "done") /\ UNCHANGED <<chunks, ownVars>>

-------------------------------------------------------------------------------
(* camera, other *)

CameraLogs ==
  /\ verbosity = "debug" /\ libraryLock = "free"
  /\ chunks < MaxChunks
  /\ libraryLock' = "camera" /\ chunks' = chunks + 1
  /\ UNCHANGED <<mainVars, workerVars, verbosity, exiting, ownVars>>

LogWritten ==
  /\ libraryLock \in {"camera", "other"} /\ Write
  /\ libraryLock' = "free" /\ exiting' = (exiting /\ libraryLock # "other")
  /\ UNCHANGED <<mainVars, workerVars, chunks, verbosity>>

OtherTakesGil ==
  /\ gil = "free" /\ gil' = "other"
  /\ ReaderAlone /\ UNCHANGED spdVars

OtherReleasesGil ==
  /\ gil = "other" /\ ~exiting /\ gil' = "free"
  /\ ReaderAlone /\ UNCHANGED spdVars

OtherExits ==
  /\ build = "real" /\ gil = "other" /\ ~exiting /\ chunks < MaxChunks
  /\ exiting' = TRUE
  /\ UNCHANGED <<mainVars, workerVars, chunks, verbosity, libraryLock, ownVars>>

\* stop_streaming, in the library.
OtherStopsStreaming ==
  /\ exiting /\ libraryLock = "free"
  /\ IF verbosity = "debug" /\ chunks < MaxChunks
     THEN libraryLock' = "other" /\ chunks' = chunks + 1 /\ UNCHANGED exiting
     ELSE exiting' = FALSE /\ UNCHANGED <<chunks, libraryLock>>
  /\ UNCHANGED <<mainVars, workerVars, verbosity, ownVars>>

-------------------------------------------------------------------------------

Init ==
  /\ ReaderInit /\ build \in Builds
  /\ main = "none" /\ phase = "on"
  /\ worker = "none" /\ cancelled = FALSE /\ stopMock = FALSE
  /\ chunks = 0 /\ verbosity = "off" /\ libraryLock = "free" /\ exiting = FALSE

Runs(A) == process = "running" /\ A /\ UNCHANGED build

\* What main does once it is in the constructor or the destructor.
MainGoesOn ==
  \/ MakeReader \/ SetVerbosityOn \/ StartMock \/ Regain \/ Unwind
  \/ Ready \/ TimesOut \/ Cancel \/ Join
  \/ JoinMock \/ EndReader \/ Leave

Worker == WorkerLock \/ WorkerSet \/ WorkerFails \/ MockWriter
ReaderStep == Reader /\ UNCHANGED spdVars

Step ==
  \/ Construct \/ Destroy \/ DestroyMock \/ MainGoesOn
  \/ Worker \/ ReaderStep
  \/ CameraLogs \/ LogWritten
  \/ OtherTakesGil \/ OtherReleasesGil \/ OtherExits \/ OtherStopsStreaming

Next == Runs(Step)

\* The GIL and the library's lock are handed over fairly.
Fairness ==
  /\ SF_vars(Runs(MainGoesOn)) /\ SF_vars(Runs(Worker)) /\ SF_vars(Runs(ReaderStep))
  /\ SF_vars(Runs(LogWritten))
  /\ SF_vars(Runs(OtherReleasesGil)) /\ SF_vars(Runs(OtherStopsStreaming))

Spec == Init /\ [][Next]_vars /\ Fairness

-------------------------------------------------------------------------------
(* Properties *)

TypeOK ==
  /\ ReaderTypeOK /\ build \in {"real", "mock"}
  /\ main \in {"none", "make_reader", "set_on", "wait", "regain", "unwind", "cancel", "join",
               "alive", "join_mock", "stop_reader", "signal", "join_reader", "leave"}
  /\ phase \in {"on", "off"}
  /\ worker \in {"none", "lock", "set", "done", "threw", "unwound", "open", "write", "loop"}
  /\ cancelled \in BOOLEAN /\ stopMock \in BOOLEAN /\ exiting \in BOOLEAN
  /\ chunks \in 0 .. MaxChunks
  /\ verbosity \in {"off", "debug"} /\ libraryLock \in {"free", "worker", "camera", "other"}

Writing == libraryLock \in {"camera", "other"} \/ worker = "write"

\* The reader outlives the writer's use of the pipe, in both builds: as long as
\* nothing has gone wrong, nobody writes to a pipe that nobody has open (the order of
\* the members, lines 430 and 431, and the joins of the two destructors).
ReaderOutlivesWriter == Writing /\ file = "fifo" /\ ~mishap => ReadEndOpen

\* The signal of stop_thread does not kill the process, and no exception leaves the
\* destructor: the library waits for the reader to open the pipe, and by then the
\* reader ignores the signal.  Not so after a timeout or a failure, or when the
\* library does not open the pipe of the reader.
ProcessSurvives == ~mishap /\ file = "fifo" => process = "running"

\* The comments on the signal ("Ignore SIGUSR1 signals on this thread. POSIX
\* functions will be interrupted and fail with EINTR", lines 158 and 159, and "this
\* should interrupt any slow read() or poll() commands", line 232).
SignalOnlyInterrupts == process # "killed"

-----------------
\* What the object promises to Logger.
Object ==
  CASE main = "none" -> "none"
    [] main = "alive" -> "alive"
    [] main \in {"make_reader", "set_on", "regain"} -> "making"
    [] main \in {"wait", "cancel", "join"} /\ phase = "on" -> "making"
    [] OTHER -> "ending"
Closed == reader \in {"none", "cannot_open", "log_error", "ended"}
Source == IF Closed THEN "closed" ELSE "open"
Pending == IF Closed THEN 0 ELSE IF reader = "deliver" THEN pipe + 1 ELSE pipe

Promise == INSTANCE Capture WITH
  object <- Object, source <- Source, pending <- Pending, failed <- mishap

\* The callback is called only while the object exists, whatever goes wrong in its
\* construction or destruction, and lines are lost only in the destructor or after a
\* failure (lines 139 to 237 and 422 to 432).
ImplementsCapture == Promise!Spec

-----------------
Alive == process = "running"

\* The library waits for room in the pipe.
PipeIsFull == libraryLock \in {"camera", "other"} /\ file = "fifo" /\ pipe = PipeSize

\* What main, the worker and the reader wait for.  Not counted are the time limit, and
\* a poll without data, which brings nothing about.
MainCanGo ==
  \/ main \in {"make_reader", "set_on", "cancel", "stop_reader", "signal"}
  \/ main \in {"regain", "unwind", "leave"} /\ gil = "free"
  \/ main = "wait" /\ worker \in {"done", "threw"}
  \/ main = "join" /\ worker \in {"done", "threw", "unwound"}
  \/ main = "join_mock" /\ worker = "done"
  \/ main = "join_reader" /\ reader = "ended"

WorkerCanGo ==
  \/ worker = "lock" /\ libraryLock = "free"
  \/ worker = "set" /\ (phase = "off" \/ Opens \/ cancelled)
  \/ worker = "open" /\ Opens
  \/ worker = "write" /\ HasRoom
  \/ worker = "loop"

ReaderCanGo ==
  \/ reader \in {"store", "ignore", "open"}
  \/ reader \in {"check", "poll"} /\ (stop_ \/ PollIn)
  \/ reader \in {"starting", "deliver", "cannot_open", "log_error"} /\ gil = "free"

LibraryCanGo ==
  \/ libraryLock \in {"camera", "other"} /\ HasRoom
  \/ exiting /\ libraryLock = "free"

OtherCanGo == gil = "other" /\ ~exiting

\* The threads of an object never all wait for one another in its constructor or
\* destructor, except when the pipe is full, or when a writer opens the pipe and the
\* reader has ended, or waits for the GIL that __exit__ keeps.  Of the latter two the
\* constructor is freed by the time limit ("a crappy workaround", line 397).
NoOtherDeadlock ==
  Alive /\ main \notin {"none", "alive"} =>
    \/ MainCanGo \/ WorkerCanGo \/ ReaderCanGo \/ LibraryCanGo \/ OtherCanGo
    \/ PipeIsFull
    \/ worker \in {"open", "set"} /\ ~Opens /\ (reader = "ended" \/ exiting)

\* The constructor returns or throws: it has released the GIL.  Only __exit__ in
\* another thread can keep it waiting, for the GIL, with a library that is blocked.
ConstructorReturns ==
  main = "make_reader" ~> (main \in {"alive", "none"} \/ ~Alive \/ [](PipeIsFull /\ exiting))

\* The destructor returns ("release Python GIL, to avoid deadlocks",
\* logger.cpp:142; "Having a timeout is ... better than nothing",
\* irlogger_to_spd_posix.cpp:397).
DestructorReturns == (main = "wait" /\ phase = "off") ~> (main = "none" \/ ~Alive)

\* Only two things keep the destructor from returning: a library that waits, for ever,
\* for room in the pipe, and a mocked writer that waits for a reader which could not
\* open it.  No timeout, failure or late answer does.
OnlyAFullPipeBlocks ==
  (main = "join_mock" \/ (main = "wait" /\ phase = "off"))
    ~> (main = "none" \/ ~Alive \/ []PipeIsFull \/ [](worker = "open" /\ mishap))

\* Whoever holds the GIL gives it back, __exit__ included, unless the library waits
\* for room in the pipe, which nobody can make without the GIL.
GilComesBack == gil # "free" ~> (gil = "free" \/ ~Alive \/ []PipeIsFull)
===============================================================================

----------------------------- MODULE IRLoggerReader ----------------------------
(***************************************************************************)
(* IRLoggerReader: the thread that reads the pipe and hands each chunk to  *)
(* the callback, which takes the GIL; and the calls that start and stop it *)
(* (of the thread "main" of IRLoggerToSpd).                                *)
(* The thread takes and gives back the GIL in one step: it never waits for *)
(* anything else while it has it.                                          *)
(***************************************************************************)
EXTENDS Naturals

CONSTANTS
  PipeSize,         \* chunks that the pipe holds
  ReaderMayFail     \* whether sigaction, open, poll, read or the callback may fail

ASSUME ReaderAssumption == PipeSize \in Nat \ {0} /\ ReaderMayFail \in BOOLEAN

VARIABLES
  gil,            \* the thread that holds the GIL, or "free"
  process,        \* "running", "killed" by SIGUSR1 or "terminated" by std::terminate
  reader,         \* where the thread is: see ReaderTypeOK
  stop_,
  thread_handle_, \* whether it is set
  ignored,        \* whether SIGUSR1 is ignored, by the whole process
  file,           \* what the library's path leads to: the "fifo" that the reader
                  \* polls, a regular file of an "other" name, or a "plain" file
                  \* which the reader has opened for its pipe
  pipe,           \* chunks in the file that the reader polls
  mishap          \* whether there was a timeout or a failure of reader or library
                  \* (only for the properties)

readerVars == <<reader, stop_, thread_handle_, ignored>>

ReadEndOpen == reader \in {"check", "poll", "deliver", "log_error"}

ReaderTypeOK ==
  /\ gil \in {"free", "main", "other"}
  /\ process \in {"running", "killed", "terminated"}
  /\ reader \in {"none", "starting", "store", "ignore", "open", "cannot_open",
                 "check", "poll", "deliver", "log_error", "ended"}
  /\ stop_ \in BOOLEAN /\ thread_handle_ \in BOOLEAN /\ ignored \in BOOLEAN
  /\ mishap \in BOOLEAN
  /\ file \in {"fifo", "other", "plain"}
  /\ pipe \in Nat /\ (file = "fifo" => pipe <= PipeSize)

ReaderInit ==
  /\ gil = "free" /\ process = "running"
  /\ reader = "none"
  /\ stop_ = FALSE /\ thread_handle_ = FALSE /\ ignored = FALSE
  /\ file = "fifo" /\ pipe = 0 /\ mishap = FALSE

-------------------------------------------------------------------------------
(* start_thread, stop_thread *)

\* A regular file is met (mkfifo fails with EEXIST, and the code goes on) when the
\* library made one of that name, for an object before; its lines are still in it.
StartThread ==
  /\ file' \in {"fifo", "other"} \cup (IF file = "fifo" THEN {} ELSE {"plain"})
  /\ pipe' \in (IF file' = "plain" THEN {0, 1} ELSE {0})
  /\ reader' = "starting" /\ stop_' = FALSE /\ thread_handle_' = FALSE
  /\ UNCHANGED <<process, ignored, mishap>>

\* bug: the signal is not ignored
NeverIgnored == thread_handle_ /\ reader # "ended"
\* Until it is joined a thread that has ended takes signals and does nothing.
SignalKills == thread_handle_ /\ reader # "ended" /\ ~ignored

SetNothing == UNCHANGED stop_  \* bug: only the signal, no stop_
SetStop == stop_' = TRUE

HoldGil == UNCHANGED gil  \* bug: no gil_scoped_release
LetGilGo == gil' = "free"

\* The GIL is released, stop_ set ...
StopThread ==
  /\ LetGilGo /\ SetStop
  /\ UNCHANGED <<process, reader, thread_handle_, ignored, file, pipe, mishap>>

\* ... the signal sent ...
SignalThread ==
  /\ process' = IF SignalKills THEN "killed" ELSE process
  /\ UNCHANGED <<gil, readerVars, file, pipe, mishap>>

\* ... and the thread awaited.
JoinReader ==
  /\ reader = "ended"
  /\ reader' = "none" /\ pipe' = 0
  /\ UNCHANGED <<gil, process, stop_, thread_handle_, ignored, file, mishap>>

-------------------------------------------------------------------------------
(* the thread *)

Rest == UNCHANGED <<gil, process, stop_, file>>

GoesTo(label, error) ==
  \/ reader' = label /\ UNCHANGED mishap
  \/ ReaderMayFail /\ reader' = error /\ mishap' = TRUE

\* It logs that it started, through the callback.
ReaderStarts ==
  /\ reader = "starting" /\ gil = "free" /\ reader' = "store"
  /\ Rest /\ UNCHANGED <<thread_handle_, ignored, pipe, mishap>>

ReaderStoresHandle ==
  /\ reader = "store" /\ reader' = "ignore" /\ thread_handle_' = TRUE
  /\ Rest /\ UNCHANGED <<ignored, pipe, mishap>>

ReaderIgnoresSignal ==
  /\ reader = "ignore" /\ GoesTo("open", "cannot_open")
  /\ ignored' = (ignored \/ reader' = "open")
  /\ Rest /\ UNCHANGED <<thread_handle_, pipe>>

ReaderOpens ==
  /\ reader = "open" /\ GoesTo("check", "cannot_open")
  /\ Rest /\ UNCHANGED <<thread_handle_, ignored, pipe>>

ReaderChecks ==
  /\ reader = "check" /\ reader' = IF stop_ THEN "ended" ELSE "poll"
  /\ Rest /\ UNCHANGED <<thread_handle_, ignored, pipe, mishap>>

AnyReturn == TRUE  \* bug: every return of poll is taken for data
PollIn == pipe > 0

\* poll and try_read.  A poll without data ends too, after 5 seconds, or at once
\* when the other end is closed or the file is a regular one.
ReaderPolls ==
  /\ reader = "poll"
  /\ GoesTo(IF PollIn THEN "deliver" ELSE "check", "log_error")
  /\ pipe' = IF reader' = "deliver" THEN pipe - 1 ELSE pipe
  /\ Rest /\ UNCHANGED <<thread_handle_, ignored>>

\* handle_bytes.  Nothing catches an exception of the callback.
ReaderDelivers ==
  /\ reader = "deliver" /\ gil = "free"
  /\ GoesTo("check", "ended")
  /\ Rest /\ UNCHANGED <<thread_handle_, ignored, pipe>>

\* What failed is logged, through the callback, before the exception is thrown.
ReaderLogsError ==
  /\ reader \in {"cannot_open", "log_error"} /\ gil = "free" /\ reader' = "ended"
  /\ Rest /\ UNCHANGED <<thread_handle_, ignored, pipe, mishap>>

Reader ==
  \/ ReaderStarts \/ ReaderStoresHandle \/ ReaderIgnoresSignal \/ ReaderOpens
  \/ ReaderChecks \/ ReaderPolls \/ ReaderDelivers \/ ReaderLogsError
===============================================================================

------------------------- MODULE IRLoggerToSpdProofs -------------------------
(***************************************************************************)
(* For any size of the pipe and any number of chunks, with every timeout   *)
(* and failure: the object keeps Capture's promise to Logger; nobody       *)
(* writes to a pipe that is not open, the signal of stop_thread kills      *)
(* nobody and no exception leaves the destructor, unless something else    *)
(* went wrong before.                                                      *)
(*                                                                         *)
(* The argument: where main is says which threads there are (Control) and, *)
(* as long as nothing went wrong, whether the log is on (InOrder) and the  *)
(* reader has its end of the pipe open (PipeOpened).                       *)
(***************************************************************************)
EXTENDS IRLoggerToSpd, TLAPS

InTimeout == main \in {"wait", "cancel", "join"}

\* Where main is says who holds the GIL, which threads there are, and which build it is.
Control ==
  /\ gil = "main" <=> \/ main \in {"make_reader", "set_on", "stop_reader"}
                      \/ InTimeout /\ phase = "off"
  /\ reader = "none" <=> main \in {"none", "make_reader", "leave"}
  /\ InTimeout \/ main \in {"regain", "cancel"} => build = "real"
  /\ InTimeout => worker \in {"lock", "set", "done", "threw", "unwound", "none"}
  /\ main \in {"alive", "join_mock"} /\ build = "mock" =>
       worker \in {"open", "write", "loop", "done"}
  /\ ~InTimeout /\ ~(main \in {"alive", "join_mock"} /\ build = "mock") => worker = "none"
  /\ main = "join_mock" => build = "mock"
  /\ stop_ /\ reader # "none" => main \in {"signal", "join_reader"}
  /\ main \in {"signal", "join_reader"} => stop_
  /\ worker = "unwound" => phase = "on" /\ main = "join"
  /\ cancelled <=> main = "join"
  /\ process = "killed" => main = "join_reader" /\ ~ignored
  /\ process = "terminated" => InTimeout /\ phase = "off" /\ worker = "none"
  /\ worker = "none" /\ InTimeout => process = "terminated"

LibraryControl ==
  /\ libraryLock = "worker" <=> worker = "set"
  /\ libraryLock = "other" => exiting
  /\ libraryLock \in {"camera", "other"} => verbosity = "debug"
  /\ verbosity = "debug" => build = "real"
  /\ exiting => gil = "other" /\ build = "real"

\* As long as nothing went wrong, the log is on from the end of setVerbosity in the
\* constructor to its end in the destructor ...
InOrder ==
  ~mishap =>
    /\ worker \notin {"threw", "unwound"} /\ main \notin {"cancel", "join"}
    /\ process # "terminated"
    /\ reader \notin {"cannot_open", "log_error"}
    /\ reader = "ended" => main \in {"signal", "join_reader"}
    /\ verbosity = "debug" =>
         \/ main \in {"regain", "alive"}
         \/ main = "wait" /\ phase = "on" /\ worker = "done"
         \/ main = "wait" /\ phase = "off" /\ worker \in {"lock", "set"}

\* ... and the library has waited for the reader to open the pipe, which then ignores
\* the signal.
Opened ==
  \/ main \in {"regain", "alive"} /\ build = "real"
  \/ main = "wait" /\ (phase = "off" \/ worker = "done")
  \/ worker \in {"write", "loop", "done"} /\ build = "mock"
  \/ main \in {"unwind", "stop_reader"}

PipeOpened ==
  /\ ~mishap /\ file = "fifo" =>
       /\ Opened => ReadEndOpen
       /\ main \in {"signal", "join_reader"} => ignored
  /\ reader \in {"open", "check", "poll", "deliver", "log_error"} => ignored

IInv == TypeOK /\ Control /\ LibraryControl /\ InOrder /\ PipeOpened

\* TypeOK in four parts, small enough for the provers.
Shared ==
  /\ gil \in {"free", "main", "other"}
  /\ process \in {"running", "killed", "terminated"}
  /\ reader \in {"none", "starting", "store", "ignore", "open", "cannot_open",
                 "check", "poll", "deliver", "log_error", "ended"}
  /\ file \in {"fifo", "other", "plain"}
Flags ==
  /\ stop_ \in BOOLEAN /\ thread_handle_ \in BOOLEAN /\ ignored \in BOOLEAN
  /\ mishap \in BOOLEAN
  /\ cancelled \in BOOLEAN /\ stopMock \in BOOLEAN /\ exiting \in BOOLEAN
Places ==
  /\ build \in {"real", "mock"}
  /\ main \in {"none", "make_reader", "set_on", "wait", "regain", "unwind", "cancel", "join",
               "alive", "join_mock", "stop_reader", "signal", "join_reader", "leave"}
  /\ phase \in {"on", "off"}
  /\ worker \in {"none", "lock", "set", "done", "threw", "unwound", "open", "write", "loop"}
  /\ verbosity \in {"off", "debug"} /\ libraryLock \in {"free", "worker", "camera", "other"}
Counts == pipe \in Nat /\ (file = "fifo" => pipe <= PipeSize) /\ chunks \in 0 .. MaxChunks

LEMMA TypeParts == TypeOK <=> Shared /\ Flags /\ Places /\ Counts
  BY DEF TypeOK, ReaderTypeOK, Shared, Flags, Places, Counts

LEMMA TypePartsNext == TypeOK' <=> (Shared /\ Flags /\ Places /\ Counts)'
  BY DEF TypeOK, ReaderTypeOK, Shared, Flags, Places, Counts

LEMMA TypeStep ==
  ASSUME Shared, Flags, Places, Counts, Next PROVE (Shared /\ Flags /\ Places /\ Counts)'
<1> USE LifetimeAssumption, ReaderAssumption DEF ReaderAlone, Rest, mainVars, workerVars,
                                                 libVars, spdVars, ownVars, readerVars, LastMember
<1>0. process = "running" /\ build' = build
  BY DEF Next, Runs
<1>1. CASE Construct
  BY <1>0, <1>1 DEF Construct, Shared, Flags, Places, Counts
<1>2. CASE Destroy
  <2>1. Shared'
    BY <1>0, <1>2 DEF Destroy, DestroyImpl, StartWorker, Shared
  <2>2. Flags'
    BY <1>0, <1>2 DEF Destroy, DestroyImpl, StartWorker, Flags
  <2>3. Places'
    BY <1>0, <1>2 DEF Destroy, DestroyImpl, StartWorker, Places
  <2>4. Counts'
    BY <1>0, <1>2 DEF Destroy, DestroyImpl, StartWorker, Counts
  <2> QED
    BY <2>1, <2>2, <2>3, <2>4
<1>3. CASE DestroyMock
  BY <1>0, <1>3 DEF DestroyMock, Shared, Flags, Places, Counts
<1>4. CASE MakeReader
  <2>1. Shared'
    BY <1>0, <1>4 DEF MakeReader, StartThread, Shared
  <2>2. Flags'
    BY <1>0, <1>4 DEF MakeReader, StartThread, Flags
  <2>3. Places'
    BY <1>0, <1>4 DEF MakeReader, StartThread, Places
  <2>4. Counts'
    BY <1>0, <1>4 DEF MakeReader, StartThread, Counts
  <2> QED
    BY <2>1, <2>2, <2>3, <2>4
<1>5. CASE SetVerbosityOn
  <2>1. Shared'
    BY <1>0, <1>5 DEF SetVerbosityOn, ReleaseGil, StartWorker, Shared
  <2>2. Flags'
    BY <1>0, <1>5 DEF SetVerbosityOn, ReleaseGil, StartWorker, Flags
  <2>3. Places'
    BY <1>0, <1>5 DEF SetVerbosityOn, ReleaseGil, StartWorker, Places
  <2>4. Counts'
    BY <1>0, <1>5 DEF SetVerbosityOn, ReleaseGil, StartWorker, Counts
  <2> QED
    BY <2>1, <2>2, <2>3, <2>4
<1>6. CASE StartMock
  <2>1. Shared'
    BY <1>0, <1>6 DEF StartMock, Shared
  <2>2. Flags'
    BY <1>0, <1>6 DEF StartMock, Flags
  <2>3. Places'
    BY <1>0, <1>6 DEF StartMock, Places
  <2>4. Counts'
    BY <1>0, <1>6 DEF StartMock, Counts
  <2> QED
    BY <2>1, <2>2, <2>3, <2>4
<1>7. CASE Regain
  BY <1>0, <1>7 DEF Regain, Shared, Flags, Places, Counts
<1>8. CASE Unwind
  BY <1>0, <1>8 DEF Unwind, Shared, Flags, Places, Counts
<1>9. CASE Ready
  BY <1>0, <1>9 DEF Ready, Throws, Shared, Flags, Places, Counts
<1>10. CASE TimesOut
  BY <1>0, <1>10 DEF TimesOut, Shared, Flags, Places, Counts
<1>11. CASE Cancel
  <2>1. Shared'
    BY <1>0, <1>11 DEF Cancel, Throws, Shared
  <2>2. Flags'
    BY <1>0, <1>11 DEF Cancel, Throws, Flags
  <2>3. Places'
    BY <1>0, <1>11 DEF Cancel, Throws, Places
  <2>4. Counts'
    BY <1>0, <1>11 DEF Cancel, Throws, Counts
  <2> QED
    BY <2>1, <2>2, <2>3, <2>4
<1>12. CASE Join
  <2>1. Shared'
    BY <1>0, <1>12 DEF Join, Shared
  <2>2. Flags'
    BY <1>0, <1>12 DEF Join, Flags
  <2>3. Places'
    BY <1>0, <1>12 DEF Join, Places
  <2>4. Counts'
    BY <1>0, <1>12 DEF Join, Counts
  <2> QED
    BY <2>1, <2>2, <2>3, <2>4
<1>13. CASE JoinMock
  BY <1>0, <1>13 DEF JoinMock, Shared, Flags, Places, Counts
<1>14. CASE EndReader
  <2>1. Shared'
    BY <1>0, <1>14 DEF EndReader, StopThread, SignalThread, SignalKills, JoinReader, SetStop,
                       LetGilGo, Shared
  <2>2. Flags'
    BY <1>0, <1>14 DEF EndReader, StopThread, SignalThread, SignalKills, JoinReader, SetStop,
                       LetGilGo, Flags
  <2>3. Places'
    BY <1>0, <1>14 DEF EndReader, StopThread, SignalThread, SignalKills, JoinReader, SetStop,
                       LetGilGo, Places
  <2>4. Counts'
    BY <1>0, <1>14 DEF EndReader, StopThread, SignalThread, SignalKills, JoinReader, SetStop,
                       LetGilGo, Counts
  <2> QED
    BY <2>1, <2>2, <2>3, <2>4
<1>15. CASE Leave
  BY <1>0, <1>15 DEF Leave, Shared, Flags, Places, Counts
<1>16. CASE WorkerLock
  BY <1>0, <1>16 DEF WorkerLock, Shared, Flags, Places, Counts
<1>17. CASE WorkerSet
  BY <1>0, <1>17 DEF WorkerSet, Opens, Shared, Flags, Places, Counts
<1>18. CASE WorkerFails
  <2>1. Shared'
    BY <1>0, <1>18 DEF WorkerFails, Shared
  <2>2. Flags'
    BY <1>0, <1>18 DEF WorkerFails, Flags
  <2>3. Places'
    BY <1>0, <1>18 DEF WorkerFails, Places
  <2>4. Counts'
    BY <1>0, <1>18 DEF WorkerFails, Counts
  <2> QED
    BY <2>1, <2>2, <2>3, <2>4
<1>19. CASE MockWriter
  BY <1>0, <1>19 DEF MockWriter, MockStep, Opens, Write, HasRoom, Shared, Flags, Places, Counts
<1>20. CASE CameraLogs
  BY <1>0, <1>20 DEF CameraLogs, Shared, Flags, Places, Counts
<1>21. CASE LogWritten
  BY <1>0, <1>21 DEF LogWritten, Write, HasRoom, Shared, Flags, Places, Counts
<1>22. CASE OtherTakesGil
  BY <1>0, <1>22 DEF OtherTakesGil, Shared, Flags, Places, Counts
<1>23. CASE OtherReleasesGil
  BY <1>0, <1>23 DEF OtherReleasesGil, Shared, Flags, Places, Counts
<1>24. CASE OtherExits
  BY <1>0, <1>24 DEF OtherExits, Shared, Flags, Places, Counts
<1>25. CASE OtherStopsStreaming
  <2>1. Shared'
    BY <1>0, <1>25 DEF OtherStopsStreaming, Shared
  <2>2. Flags'
    BY <1>0, <1>25 DEF OtherStopsStreaming, Flags
  <2>3. Places'
    BY <1>0, <1>25 DEF OtherStopsStreaming, Places
  <2>4. Counts'
    <3>1. chunks < MaxChunks => chunks + 1 \in 0 .. MaxChunks
      BY DEF Counts
    <3>2. CASE chunks' = chunks
      BY <1>25, <3>2 DEF OtherStopsStreaming, Counts
    <3>3. CASE chunks < MaxChunks /\ chunks' = chunks + 1
      BY <1>25, <3>1, <3>3 DEF OtherStopsStreaming, Counts
    <3> QED
      BY <1>25, <3>2, <3>3 DEF OtherStopsStreaming
  <2> QED
    BY <2>1, <2>2, <2>3, <2>4
<1>26. CASE ReaderStep
  <2> USE <1>0, <1>26 DEF ReaderStep
  <2>1. CASE ReaderStarts
    BY <2>1 DEF ReaderStarts, Shared, Flags, Places, Counts
  <2>2. CASE ReaderStoresHandle
    BY <2>2 DEF ReaderStoresHandle, Shared, Flags, Places, Counts
  <2>3. CASE ReaderIgnoresSignal
    <3>1. Shared'
      BY <2>3 DEF ReaderIgnoresSignal, GoesTo, Shared
    <3>2. Flags'
      BY <2>3 DEF ReaderIgnoresSignal, GoesTo, Flags
    <3>3. Places'
      BY <2>3 DEF ReaderIgnoresSignal, GoesTo, Places
    <3>4. Counts'
      BY <2>3 DEF ReaderIgnoresSignal, GoesTo, Counts
    <3> QED
      BY <3>1, <3>2, <3>3, <3>4
  <2>4. CASE ReaderOpens
    <3>1. Shared'
      BY <2>4 DEF ReaderOpens, GoesTo, Shared
    <3>2. Flags'
      BY <2>4 DEF ReaderOpens, GoesTo, Flags
    <3>3. Places'
      BY <2>4 DEF ReaderOpens, GoesTo, Places
    <3>4. Counts'
      BY <2>4 DEF ReaderOpens, GoesTo, Counts
    <3> QED
      BY <3>1, <3>2, <3>3, <3>4
  <2>5. CASE ReaderChecks
    BY <2>5 DEF ReaderChecks, Shared, Flags, Places, Counts
  <2>6. CASE ReaderPolls
    <3>1. Shared'
      BY <2>6 DEF ReaderPolls, GoesTo, PollIn, Shared
    <3>2. Flags'
      BY <2>6 DEF ReaderPolls, GoesTo, PollIn, Flags
    <3>3. Places'
      BY <2>6 DEF ReaderPolls, GoesTo, PollIn, Places
    <3>4. Counts'
      BY <2>6 DEF ReaderPolls, GoesTo, PollIn, Counts
    <3> QED
      BY <3>1, <3>2, <3>3, <3>4
  <2>7. CASE ReaderDelivers
    <3>1. Shared'
      BY <2>7 DEF ReaderDelivers, GoesTo, Shared
    <3>2. Flags'
      BY <2>7 DEF ReaderDelivers, GoesTo, Flags
    <3>3. Places'
      BY <2>7 DEF ReaderDelivers, GoesTo, Places
    <3>4. Counts'
      BY <2>7 DEF ReaderDelivers, GoesTo, Counts
    <3> QED
      BY <3>1, <3>2, <3>3, <3>4
  <2>8. CASE ReaderLogsError
    BY <2>8 DEF ReaderLogsError, Shared, Flags, Places, Counts
  <2> QED
    BY <2>1, <2>2, <2>3, <2>4, <2>5, <2>6, <2>7, <2>8 DEF Reader
<1> QED
  BY <1>1, <1>2, <1>3, <1>4, <1>5, <1>6, <1>7, <1>8, <1>9, <1>10, <1>11, <1>12, <1>13,
     <1>14, <1>15, <1>16, <1>17, <1>18, <1>19, <1>20, <1>21, <1>22, <1>23, <1>24, <1>25,
     <1>26 DEF Next, Runs, Step, MainGoesOn, Worker

LEMMA ControlStep ==
  ASSUME TypeOK, Control, LibraryControl, PipeOpened, Next PROVE (Control /\ LibraryControl)'
<1> USE LifetimeAssumption, ReaderAssumption DEF TypeOK, ReaderTypeOK, Control, LibraryControl,
                                                 InTimeout, LastMember, ReaderAlone, Rest,
                                                 mainVars, workerVars, libVars, spdVars,
                                                 ownVars, readerVars
<1>0. process = "running" /\ build' = build
  BY DEF Next, Runs
<1>1. CASE Construct
  BY <1>0, <1>1 DEF Construct
<1>2. CASE Destroy
  BY <1>0, <1>2 DEF Destroy, DestroyImpl, StartWorker
<1>3. CASE DestroyMock
  BY <1>0, <1>3 DEF DestroyMock
<1>4. CASE MakeReader
  BY <1>0, <1>4 DEF MakeReader, StartThread
<1>5. CASE SetVerbosityOn
  BY <1>0, <1>5 DEF SetVerbosityOn, ReleaseGil, StartWorker
<1>6. CASE StartMock
  BY <1>0, <1>6 DEF StartMock
<1>7. CASE Regain
  BY <1>0, <1>7 DEF Regain
<1>8. CASE Unwind
  BY <1>0, <1>8 DEF Unwind
<1>9. CASE Ready
  BY <1>0, <1>9 DEF Ready, Throws
<1>10. CASE TimesOut
  BY <1>0, <1>10 DEF TimesOut
<1>11. CASE Cancel
  BY <1>0, <1>11 DEF Cancel, Throws
<1>12. CASE Join
  BY <1>0, <1>12 DEF Join
<1>13. CASE JoinMock
  BY <1>0, <1>13 DEF JoinMock
<1>14. CASE EndReader
  BY <1>0, <1>14 DEF EndReader, StopThread, SignalThread, SignalKills, JoinReader, SetStop,
                     LetGilGo
<1>15. CASE Leave
  BY <1>0, <1>15 DEF Leave
<1>16. CASE WorkerLock
  BY <1>0, <1>16 DEF WorkerLock
<1>17. CASE WorkerSet
  BY <1>0, <1>17 DEF WorkerSet, Opens
<1>18. CASE WorkerFails
  BY <1>0, <1>18 DEF WorkerFails
<1>19. CASE MockWriter
  BY <1>0, <1>19 DEF MockWriter, MockStep, Opens, Write, HasRoom
<1>20. CASE CameraLogs
  BY <1>0, <1>20 DEF CameraLogs
<1>21. CASE LogWritten
  BY <1>0, <1>21 DEF LogWritten, Write, HasRoom
<1>22. CASE OtherTakesGil
  BY <1>0, <1>22 DEF OtherTakesGil
<1>23. CASE OtherReleasesGil
  BY <1>0, <1>23 DEF OtherReleasesGil
<1>24. CASE OtherExits
  BY <1>0, <1>24 DEF OtherExits
<1>25. CASE OtherStopsStreaming
  BY <1>0, <1>25 DEF OtherStopsStreaming
<1>26. CASE ReaderStep
  <2> USE <1>0, <1>26 DEF ReaderStep
  <2>1. CASE ReaderStarts
    BY <2>1 DEF ReaderStarts
  <2>2. CASE ReaderStoresHandle
    BY <2>2 DEF ReaderStoresHandle
  <2>3. CASE ReaderIgnoresSignal
    BY <2>3 DEF ReaderIgnoresSignal, GoesTo
  <2>4. CASE ReaderOpens
    BY <2>4 DEF ReaderOpens, GoesTo
  <2>5. CASE ReaderChecks
    BY <2>5 DEF ReaderChecks
  <2>6. CASE ReaderPolls
    BY <2>6 DEF ReaderPolls, GoesTo, PollIn
  <2>7. CASE ReaderDelivers
    BY <2>7 DEF ReaderDelivers, GoesTo
  <2>8. CASE ReaderLogsError
    BY <2>8 DEF ReaderLogsError
  <2> QED
    BY <2>1, <2>2, <2>3, <2>4, <2>5, <2>6, <2>7, <2>8 DEF Reader
<1> QED
  BY <1>1, <1>2, <1>3, <1>4, <1>5, <1>6, <1>7, <1>8, <1>9, <1>10, <1>11, <1>12, <1>13,
     <1>14, <1>15, <1>16, <1>17, <1>18, <1>19, <1>20, <1>21, <1>22, <1>23, <1>24, <1>25,
     <1>26 DEF Next, Runs, Step, MainGoesOn, Worker

LEMMA OrderStep ==
  ASSUME IInv, Next PROVE (InOrder /\ PipeOpened)'
<1> USE LifetimeAssumption, ReaderAssumption DEF TypeOK, ReaderTypeOK, IInv, Control,
                                                 LibraryControl, InOrder, PipeOpened, Opened,
                                                 ReadEndOpen, InTimeout, LastMember,
                                                 ReaderAlone, Rest, mainVars, workerVars,
                                                 libVars, spdVars, ownVars, readerVars
<1>0. process = "running" /\ build' = build
  BY DEF Next, Runs
<1>1. CASE Construct
  BY <1>0, <1>1 DEF Construct
<1>2. CASE Destroy
  BY <1>0, <1>2 DEF Destroy, DestroyImpl, StartWorker
<1>3. CASE DestroyMock
  BY <1>0, <1>3 DEF DestroyMock
<1>4. CASE MakeReader
  BY <1>0, <1>4 DEF MakeReader, StartThread
<1>5. CASE SetVerbosityOn
  BY <1>0, <1>5 DEF SetVerbosityOn, ReleaseGil, StartWorker
<1>6. CASE StartMock
  BY <1>0, <1>6 DEF StartMock
<1>7. CASE Regain
  BY <1>0, <1>7 DEF Regain
<1>8. CASE Unwind
  BY <1>0, <1>8 DEF Unwind
<1>9. CASE Ready
  BY <1>0, <1>9 DEF Ready, Throws
<1>10. CASE TimesOut
  BY <1>0, <1>10 DEF TimesOut
<1>11. CASE Cancel
  BY <1>0, <1>11 DEF Cancel, Throws
<1>12. CASE Join
  BY <1>0, <1>12 DEF Join
<1>13. CASE JoinMock
  BY <1>0, <1>13 DEF JoinMock
<1>14. CASE EndReader
  BY <1>0, <1>14 DEF EndReader, StopThread, SignalThread, SignalKills, JoinReader, SetStop,
                     LetGilGo
<1>15. CASE Leave
  BY <1>0, <1>15 DEF Leave
<1>16. CASE WorkerLock
  BY <1>0, <1>16 DEF WorkerLock
<1>17. CASE WorkerSet
  BY <1>0, <1>17 DEF WorkerSet, Opens
<1>18. CASE WorkerFails
  BY <1>0, <1>18 DEF WorkerFails
<1>19. CASE MockWriter
  BY <1>0, <1>19 DEF MockWriter, MockStep, Opens, Write, HasRoom
<1>20. CASE CameraLogs
  BY <1>0, <1>20 DEF CameraLogs
<1>21. CASE LogWritten
  BY <1>0, <1>21 DEF LogWritten, Write, HasRoom
<1>22. CASE OtherTakesGil
  BY <1>0, <1>22 DEF OtherTakesGil
<1>23. CASE OtherReleasesGil
  BY <1>0, <1>23 DEF OtherReleasesGil
<1>24. CASE OtherExits
  BY <1>0, <1>24 DEF OtherExits
<1>25. CASE OtherStopsStreaming
  BY <1>0, <1>25 DEF OtherStopsStreaming
<1>26. CASE ReaderStep
  <2> USE <1>0, <1>26 DEF ReaderStep
  <2>1. CASE ReaderStarts
    BY <2>1 DEF ReaderStarts
  <2>2. CASE ReaderStoresHandle
    BY <2>2 DEF ReaderStoresHandle
  <2>3. CASE ReaderIgnoresSignal
    BY <2>3 DEF ReaderIgnoresSignal, GoesTo
  <2>4. CASE ReaderOpens
    BY <2>4 DEF ReaderOpens, GoesTo
  <2>5. CASE ReaderChecks
    BY <2>5 DEF ReaderChecks
  <2>6. CASE ReaderPolls
    BY <2>6 DEF ReaderPolls, GoesTo, PollIn
  <2>7. CASE ReaderDelivers
    BY <2>7 DEF ReaderDelivers, GoesTo
  <2>8. CASE ReaderLogsError
    BY <2>8 DEF ReaderLogsError
  <2> QED
    BY <2>1, <2>2, <2>3, <2>4, <2>5, <2>6, <2>7, <2>8 DEF Reader
<1> QED
  BY <1>1, <1>2, <1>3, <1>4, <1>5, <1>6, <1>7, <1>8, <1>9, <1>10, <1>11, <1>12, <1>13,
     <1>14, <1>15, <1>16, <1>17, <1>18, <1>19, <1>20, <1>21, <1>22, <1>23, <1>24, <1>25,
     <1>26 DEF Next, Runs, Step, MainGoesOn, Worker

LEMMA Invariance == Spec => []IInv
<1>1. Init => IInv
  <2> USE LifetimeAssumption, ReaderAssumption DEF Init, ReaderInit
  <2>1. Init => TypeOK
    <3>1. Init => Shared /\ Flags
      BY DEF Shared, Flags
    <3>2. Init => Places
      BY DEF Places
    <3>3. Init => Counts
      BY DEF Counts
    <3> QED
      BY <3>1, <3>2, <3>3, TypeParts
  <2>2. Init => Control /\ LibraryControl
    BY DEF Control, LibraryControl, InTimeout
  <2>3. Init => InOrder /\ PipeOpened
    BY DEF InOrder, PipeOpened, Opened, ReadEndOpen
  <2> QED
    BY <2>1, <2>2, <2>3 DEF IInv
<1>2. IInv /\ [Next]_vars => IInv'
  <2> SUFFICES ASSUME IInv, [Next]_vars PROVE IInv'
    OBVIOUS
  <2>1. CASE Next
    BY <2>1, TypeStep, TypeParts, TypePartsNext, ControlStep, OrderStep DEF IInv
  <2>2. CASE UNCHANGED vars
    BY <2>2 DEF vars, spdVars, ownVars, mainVars, workerVars, libVars, readerVars, IInv, TypeOK,
       ReaderTypeOK, Control, LibraryControl, InOrder, PipeOpened, Opened, ReadEndOpen, InTimeout
  <2> QED
    BY <2>1, <2>2
<1> QED
  BY <1>1, <1>2, PTL DEF Spec

\* The variables of IRLoggerToSpd and IRLoggerReader keep their types, in both builds.
THEOREM TypeCorrect == Spec => []TypeOK
<1>1. IInv => TypeOK
  BY DEF IInv
<1> QED
  BY <1>1, Invariance, PTL

\* For any pipe: as long as nothing has gone wrong, who writes to the pipe finds the
\* reader's end of it open (irlogger_to_spd_posix.cpp:430).
THEOREM WriterNeverAlone == Spec => []ReaderOutlivesWriter
<1>1. IInv => ReaderOutlivesWriter
  BY DEF IInv, TypeOK, ReaderTypeOK, Control, LibraryControl, InOrder, PipeOpened, Opened,
         InTimeout,
     ReaderOutlivesWriter, Writing
<1> QED
  BY <1>1, Invariance, PTL

\* Neither the signal of stop_thread nor an exception in the destructor ends the
\* process, unless something went wrong before (irlogger_to_spd_posix.cpp:234, 414).
THEOREM SignalIsHarmless == Spec => []ProcessSurvives
<1>1. IInv => ProcessSurvives
  BY DEF IInv, TypeOK, ReaderTypeOK, Control, InOrder, PipeOpened, ProcessSurvives
<1> QED
  BY <1>1, Invariance, PTL

\* What is left when nobody can go on, by where main is.
LEMMA OnlyTwoCauses == IInv => NoOtherDeadlock
<1> SUFFICES ASSUME IInv, Alive, main \notin {"none", "alive"},
                    ~MainCanGo, ~WorkerCanGo, ~ReaderCanGo, ~LibraryCanGo, ~OtherCanGo,
                    ~PipeIsFull
             PROVE  worker \in {"open", "set"} /\ ~Opens /\ (reader = "ended" \/ exiting)
  BY DEF NoOtherDeadlock
<1> USE DEF IInv, TypeOK, ReaderTypeOK
\* A write in the library has room, or else the pipe is full.
<1>1. libraryLock \notin {"camera", "other"}
  BY ReaderAssumption DEF LibraryCanGo, PipeIsFull, HasRoom
\* So no other thread keeps the GIL, unless the worker has the lock it needs.
<1>2. gil = "other" => exiting /\ worker = "set"
  BY <1>1 DEF OtherCanGo, LibraryCanGo, LibraryControl
<1>3. worker = "lock" => FALSE
  BY <1>1 DEF WorkerCanGo, LibraryControl
<1>4. main \in {"wait", "join", "join_mock"}
  <2>1. CASE main \in {"regain", "unwind", "leave"}
    BY <1>2, <2>1 DEF MainCanGo, Control, InTimeout
  <2>2. CASE main = "join_reader"
    <3>1. gil = "free" /\ stop_
      BY <1>2, <2>2 DEF Control, InTimeout
    <3> QED
      BY <2>2, <3>1 DEF MainCanGo, ReaderCanGo, Control
  <2> QED
    BY <2>1, <2>2 DEF MainCanGo
\* main waits for the worker, and that for the reader.
<1>5. worker \in {"open", "set"} /\ ~Opens
  <2>1. CASE worker = "write"
    <3>1. ReadEndOpen /\ pipe > 0
      BY <2>1, ReaderAssumption DEF WorkerCanGo, HasRoom
    <3>2. gil = "free"
      BY <1>2, <1>4, <2>1 DEF Control, InTimeout
    <3> QED
      BY <3>1, <3>2 DEF ReadEndOpen, ReaderCanGo, PollIn
  <2> QED
    BY <1>3, <1>4, <2>1 DEF MainCanGo, WorkerCanGo, Control, InTimeout, Alive
\* It has not opened the pipe, so that it has ended or waits for the GIL.
<1>6. reader \in {"starting", "cannot_open", "ended"}
  BY <1>4, <1>5 DEF Opens, ReadEndOpen, ReaderCanGo, Control
<1>7. gil # "main"
  BY <1>4, <1>5 DEF WorkerCanGo, Control, InTimeout
<1> QED
  BY <1>2, <1>5, <1>6, <1>7 DEF ReaderCanGo

\* For any pipe and whatever fails: the threads of an object never all wait for one
\* another while it is made or destroyed, but for a full pipe
\* (irlogger_to_spd_posix.cpp:468), and a writer whose reader cannot come (391).
THEOREM OnlyTwoDeadlocks == Spec => []NoOtherDeadlock
  BY OnlyTwoCauses, Invariance, PTL

LEMMA CaptureStep ==
  ASSUME IInv, Next PROVE [Promise!Next]_(Promise!vars)
<1> USE LifetimeAssumption, ReaderAssumption DEF TypeOK, ReaderTypeOK, IInv, Control,
                                                 LibraryControl, InOrder, InTimeout,
                                                 LastMember, ReaderAlone, Rest, mainVars,
                                                 workerVars, libVars, spdVars, ownVars,
                                                 readerVars, Object, Closed, Source, Pending,
                                                 Promise!Next, Promise!vars, Promise!Lifetime,
                                                 Promise!Moves, Promise!Open, Promise!Log,
                                                 Promise!Deliver, Promise!Fail, Promise!Close
<1>0. process = "running" /\ build' = build
  BY DEF Next, Runs
<1>1. CASE Construct
  BY <1>0, <1>1 DEF Construct
<1>2. CASE Destroy
  BY <1>0, <1>2 DEF Destroy, DestroyImpl, StartWorker
<1>3. CASE DestroyMock
  BY <1>0, <1>3 DEF DestroyMock
<1>4. CASE MakeReader
  BY <1>0, <1>4 DEF MakeReader, StartThread
<1>5. CASE SetVerbosityOn
  BY <1>0, <1>5 DEF SetVerbosityOn, ReleaseGil, StartWorker
<1>6. CASE StartMock
  BY <1>0, <1>6 DEF StartMock
<1>7. CASE Regain
  BY <1>0, <1>7 DEF Regain
<1>8. CASE Unwind
  BY <1>0, <1>8 DEF Unwind
<1>9. CASE Ready
  BY <1>0, <1>9 DEF Ready, Throws
<1>10. CASE TimesOut
  BY <1>0, <1>10 DEF TimesOut
<1>11. CASE Cancel
  BY <1>0, <1>11 DEF Cancel, Throws
<1>12. CASE Join
  BY <1>0, <1>12 DEF Join
<1>13. CASE JoinMock
  BY <1>0, <1>13 DEF JoinMock
<1>14. CASE EndReader
  <2>1. Object' = Object
    BY <1>14 DEF EndReader
  <2>2. Source' = Source /\ Pending' = Pending /\ mishap' = mishap
    BY <1>14 DEF EndReader, StopThread, SignalThread, JoinReader
  <2> QED
    BY <2>1, <2>2
<1>15. CASE Leave
  BY <1>0, <1>15 DEF Leave
<1>16. CASE WorkerLock
  BY <1>0, <1>16 DEF WorkerLock
<1>17. CASE WorkerSet
  BY <1>0, <1>17 DEF WorkerSet, Opens
<1>18. CASE WorkerFails
  BY <1>0, <1>18 DEF WorkerFails
<1>19. CASE MockWriter
  <2>1. Object' = Object /\ Source' = Source /\ mishap' = mishap
    BY <1>19 DEF MockWriter, MockStep, Write, HasRoom
  <2>2. Pending' = Pending \/ (Source = "open" /\ Pending' = Pending + 1)
    <3>1. pipe' = pipe \/ (reader # "none" /\ pipe' = pipe + 1)
      BY <1>19 DEF MockWriter, MockStep, Write, HasRoom
    <3>2. reader' = reader
      BY <1>19 DEF MockWriter, MockStep, Write, HasRoom
    <3> QED
      BY <3>1, <3>2
  <2> QED
    BY <2>1, <2>2
<1>20. CASE CameraLogs
  BY <1>0, <1>20 DEF CameraLogs
<1>21. CASE LogWritten
  BY <1>0, <1>21 DEF LogWritten, Write, HasRoom
<1>22. CASE OtherTakesGil
  BY <1>0, <1>22 DEF OtherTakesGil
<1>23. CASE OtherReleasesGil
  BY <1>0, <1>23 DEF OtherReleasesGil
<1>24. CASE OtherExits
  BY <1>0, <1>24 DEF OtherExits
<1>25. CASE OtherStopsStreaming
  BY <1>0, <1>25 DEF OtherStopsStreaming
<1>26. CASE ReaderStep
  <2> USE <1>0, <1>26 DEF ReaderStep
  <2>1. CASE ReaderStarts
    BY <2>1 DEF ReaderStarts
  <2>2. CASE ReaderStoresHandle
    BY <2>2 DEF ReaderStoresHandle
  <2>3. CASE ReaderIgnoresSignal
    BY <2>3 DEF ReaderIgnoresSignal, GoesTo
  <2>4. CASE ReaderOpens
    BY <2>4 DEF ReaderOpens, GoesTo
  <2>5. CASE ReaderChecks
    BY <2>5 DEF ReaderChecks
  <2>6. CASE ReaderPolls
    <3>1. Object' = Object
      BY <2>6
    <3>2. CASE reader' = "deliver"
      BY <2>6, <3>1, <3>2 DEF ReaderPolls, GoesTo, PollIn
    <3>3. CASE reader' = "check"
      BY <2>6, <3>1, <3>3 DEF ReaderPolls, GoesTo, PollIn
    <3>4. CASE reader' = "log_error"
      BY <2>6, <3>1, <3>4 DEF ReaderPolls, GoesTo
    <3> QED
      BY <2>6, <3>2, <3>3, <3>4 DEF ReaderPolls, GoesTo
  <2>7. CASE ReaderDelivers
    <3>1. Object' = Object
      BY <2>7
    <3>2. CASE reader' = "check"
      <4>1. Source = "open" /\ Source' = "open" /\ Pending > 0 /\ Pending' = Pending - 1
        BY <2>7, <3>2 DEF ReaderDelivers
      <4> QED
        BY <2>7, <3>1, <3>2, <4>1 DEF ReaderDelivers, GoesTo
    <3>3. CASE reader' = "ended"
      BY <2>7, <3>1, <3>3 DEF ReaderDelivers, GoesTo
    <3> QED
      BY <2>7, <3>2, <3>3 DEF ReaderDelivers, GoesTo
  <2>8. CASE ReaderLogsError
    BY <2>8 DEF ReaderLogsError
  <2> QED
    BY <2>1, <2>2, <2>3, <2>4, <2>5, <2>6, <2>7, <2>8 DEF Reader
<1> QED
  BY <1>1, <1>2, <1>3, <1>4, <1>5, <1>6, <1>7, <1>8, <1>9, <1>10, <1>11, <1>12, <1>13,
     <1>14, <1>15, <1>16, <1>17, <1>18, <1>19, <1>20, <1>21, <1>22, <1>23, <1>24, <1>25,
     <1>26 DEF Next, Runs, Step, MainGoesOn, Worker

\* The object keeps its promise: no call of the callback once the object is gone, no
\* line lost before the destructor (irlogger_to_spd_posix.cpp:139 to 237, 422 to 432).
THEOREM KeepsPromise == Spec => ImplementsCapture
<1>1. Init => Promise!Init
  BY DEF Init, ReaderInit, Promise!Init, Object, Closed, Source, Pending
<1>2. IInv /\ [Next]_vars => [Promise!Next]_(Promise!vars)
  <2>1. UNCHANGED vars => UNCHANGED Promise!vars
    BY DEF vars, spdVars, ownVars, mainVars, readerVars, Promise!vars, Object, Closed, Source,
           Pending
  <2> QED
    BY <2>1, CaptureStep
<1> QED
  BY <1>1, <1>2, Invariance, PTL DEF Spec, ImplementsCapture, Promise!Spec

\* That promise is worth making: the callback (a Python object that Logger keeps) is
\* not called any more once there is no object, whatever failed before.
THEOREM CaptureSuffices == ImplementsCapture => [](Object = "none" => Source = "closed")
<1> DEFINE Silent == Object = "none" => Source = "closed"
<1>1. Promise!Init => Silent
  BY DEF Promise!Init
<1>2. Silent /\ [Promise!Next]_(Promise!vars) => Silent'
  BY DEF Promise!Next, Promise!vars, Promise!Lifetime, Promise!Moves, Promise!Open,
         Promise!Log, Promise!Deliver, Promise!Fail, Promise!Close
<1> HIDE DEF Silent
<1>3. ImplementsCapture => []Silent
  BY <1>1, <1>2, PTL DEF ImplementsCapture, Promise!Spec
<1> QED
  BY <1>3 DEF Silent
===============================================================================

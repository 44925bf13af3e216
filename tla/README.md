# A TLA+ verification of nqm.irimager

`nqm.irimager` is a Python extension module (C++17, pybind11) around the
EvoCortex IRImagerDirect SDK (`libirimager`). It hands the frames of a thermal
camera to Python, and Python's `logging` the logs of its own (spdlog) and of the
SDK (`evo::IRLogger`). Most of what can go wrong in it is concurrency: Python
threads with and without the GIL, a callback of the SDK, a thread that reads a
named pipe the SDK logs to, a time limit, and global state of which there is
one each.

This directory holds TLA+ modules that model it, the TLC configurations that
check them on small instances, and proofs for TLAPS of what holds for every
size. Line numbers refer to the files of `src/nqm/irimager/`.

To check: `tlc -config X.cfg M` for the runs of `PROJECT.json`, and `tlapm M.tla`
for the modules named `...Proofs`.

## 1. Inventory of the system

| Component | State | Operations | Called by / calls |
|---|---|---|---|
| `StringRingBuffer<N>` (`string_ring_buffer.hpp`) | `begin_`, `size_`, `data_` | `insert`, `peek`, `discard`, `size`, `max_size` | owned by `IRLoggerParser` |
| `IRLoggerParser` (`irlogger_parser.cpp`) | `buffer_` | `push_data`, `try_parse`, `parse_line` | called by the reader thread; calls the logging callback, which may throw |
| `IRLoggerToSpd` with `IRLoggerReader` and `IRLoggerImpl` (`irlogger_to_spd_posix.cpp`) | a FIFO, a reader thread, `stop_`, the SDK's verbosity | constructor, destructor, `run_with_timeout`, the reader's loop | owned by `Logger::impl`; calls the SDK, feeds `IRLoggerParser` |
| Log file name (`irlogger_log_path`, `chrono.hpp`) | the system clock | `wait_if_at_end_of_second`, `irlogger_log_path` | both ends of the pipe compute the name on their own |
| `Logger` (`logger.cpp`) | `singleton_`, `singleton_mutex_`, `old_logger_`, spdlog's default logger | constructor, destructor, the spdlog sink | Python; owns an `IRLoggerToSpd` |
| `LoggerContextManager` | `logger_` | `start` (`__enter__`), `stop` (`__exit__`) | Python; owns a `Logger` |
| `IRImager`, real (`irimager_class.cpp`) | `thermal_data_`, `mutex_`, `thermal_data_available_`, the device | `start_streaming`, `stop_streaming`, `get_frame(_monotonic)`, `onThermalFrame` | Python without the GIL; the SDK calls `onThermalFrame` |
| `IRImager`, mocked | `streaming_` | the same | Python |
| `clock_cast` (`chrono.hpp`) | none | a timestamp of the monotonic clock as one of the wall clock | `get_frame` |
| Bindings (`irimager.cpp`) | none | which calls release the GIL | CPython |
| `libirimager`, `libudev`, spdlog, CPython | external | | |

How they interact: a Python thread enters a `LoggerContextManager`, which makes
a `Logger`. It redirects spdlog to a callback into Python, then makes an
`IRLoggerToSpd`, which makes a FIFO named after the current second, starts the
reader thread on it and tells the SDK (in a thread with a limit of 5 seconds) to
log into a file of that name. The reader polls the FIFO and pushes what it reads
into an `IRLoggerParser`, which reports each line to the callback, with the GIL.
Meanwhile Python threads call `get_frame`, without the GIL, and the SDK's
callback hands over the images through a mailbox of one place.

Where it is hard, and what makes each component correct:

- **Ring buffer**: the wrap, a full buffer (`begin_ = end()` as in an empty one),
  an insert that throws with a part stored. It must be a byte queue, refuse
  exactly what does not fit, and never return a cell nobody wrote.
- **Parser**: lines longer than the buffer, a callback that throws at each place
  it is called. Every line must reach the callback whole, in order and once;
  `push_data` must return and never overrun the buffer.
- **Frame grabber**: several callers on one mailbox, frames that overwrite each
  other, wake-ups, the 30 seconds, the shutter. A caller must get an image of
  its own, with its own timestamp, never one of the closed shutter, and return.
- **Log file name**: a clock that moves between two looks at it.
- **clock_cast**: two clocks, of which one stops in suspend and the other may be
  set, read one after the other. A time must not be far off, nor in the future.
- **IRLoggerToSpd**: five threads, the GIL, a full pipe, a time limit and a
  cancellation, a signal, exceptions in three threads, a file in place of the pipe.
  The callback must be called only while the object exists, nothing may be lost
  before its end, no thread left behind; the constructor and the destructor must
  return, and neither the signal nor an exception may end the process.
- **Logger**: a mutex and the GIL, destruction and construction that overlap, a
  constructor that throws half way. One Logger at a time; spdlog follows it and
  comes back.
- **LoggerContextManager**: a test and an assignment with the GIL released in
  between.

`PROJECT.json` lists the hazards one by one, each at its line and with the
properties that catch it.

## 2. Modules

| Module | Models | Extends / instantiates |
|---|---|---|
| `ByteFifo` | what a byte queue promises (abstract) | |
| `StringRingBuffer` | the buffer's member functions, as operators on its value | |
| `RingBufferClient` | a client that calls them in every order | `StringRingBuffer`; `ByteFifo` |
| `LineStream` | what the parser promises (abstract) | |
| `IRLoggerParser` | `push_data` and `try_parse`, step by step | `StringRingBuffer`; `LineStream` |
| `FrameGrabber` | `IRImagerRealImpl` and the SDK's callback | |
| `FrameTime` | the time an image comes with, real and mocked, and `clock_cast` | |
| `LogPath` | the two computations of the name | |
| `Capture` | what `IRLoggerToSpd` promises to `Logger` (abstract) | |
| `IRLoggerReader` | the reader thread, and the calls that start and stop it | |
| `IRLoggerToSpd` | the object's lifetime and its threads, with the library or its mock | `IRLoggerReader`; `Capture` |
| `Redirection` | what `Logger` promises of spdlog (abstract) | |
| `Logger` | constructor, destructor, redirection, logging threads, and the waits of its `IRLoggerToSpd` | `Redirection` |
| `LoggerContextManager` | `start` and `stop`, beside direct users of `Logger` | `Logger` |
| `MC...` | sets of strings, programs and clock settings, and symmetry for TLC | the module of that name |
| `...Proofs` | theorems | see section 5 |

How state and actions correspond to the code:

- **StringRingBuffer.** The record `[begin_, size_, data_]` is the object.
  `InsertInto`, `DiscardFrom` and `Peek` follow the branches of `insert` (40-64),
  `discard` (89-114) and `peek` (69-81); the recursive call of `insert` is
  `InsertBehind`, in which it always arrives. An operator that may throw returns
  the buffer it leaves behind and whether it threw. `data_` has no initializer:
  cells begin as `Unwritten`.
- **IRLoggerParser.** `pc` is the place in `push_data`; the branches are the
  actions `InsertAll`, `DumpBuffer`, `InsertSubset`, `TryParse`, `NoLineLeft`.
  They are separate because the callback runs between them. `call` is the last
  call of the callback. A line is a log line when it begins with `Header`, which
  stands for the regular expression. "thrown" is terminal: an exception out of
  `push_data` ends the only thread that calls it. `Misfilled` is the one state in
  which `discard` and `peek` err: a full buffer that does not begin at its first cell.
- **FrameGrabber.** `thermal_data_` is the mailbox (an identifier of a frame,
  `Closed` or `None`). A critical section under `mutex_` is one action: `Take`,
  `Sleep`, `Timeout` for the `wait_for` and what follows it, `onThermalFrame` for
  the callback. Only one section waits for something else: the callback that
  finds the mailbox full logs (`Warn`, 355-362), which takes the GIL when a Logger
  is active, and `mutex_` is held meanwhile. `NotifyOne` comes after the unlock, as
  in the code. `mode` is the program: which threads use the object, and whether
  the SDK calls back from `process()` or from threads of its own. The device
  and the SDK are external: `queued`, `decoded`, `flagOpen`.
- **FrameTime.** `now` counts ticks, `slept` those in which the machine was
  suspended; the steady clock shows `now - slept`, the system clock `now + setting`,
  both cut to whole units. The two readings of `clock_cast` are the steps
  `ReadSystemClock` and `ReadSteadyClock`, and anything may happen between them;
  Python may also convert the time of an image later (`monotonic_to_system_clock`).
  The comparisons of time points do not overflow in 64 bits before the year 2262,
  so that integers are not cut to a width.
- **LogPath.** The clock is a second and a tick in it. `Tick` is time passing
  anywhere but in a sleep; a sleep may be late by `MaxOversleep`. `delay` is the
  time spent since the clock was looked at (or since the sleep ended). In the
  build "mock" the writer calls `irlogger_log_path` too.
- **IRLoggerReader.** `reader` is the place in the thread (153-223), from its first
  log (which needs the GIL) over storing its handle, ignoring the signal and
  opening the pipe to the loop of `stop_`, `poll`, `read` and `push_data`. Each may
  fail as in the code; what fails is logged first. `file` is what the library's
  name leads to: the pipe ("fifo"), a file of another name ("other", see LogPath),
  or a regular file that was there before the pipe ("plain": `mkfifo` fails with
  EEXIST, and the code goes on). POLLHUP and a poll without data that ends at once
  are `ReaderPolls` with nothing to deliver.
- **IRLoggerToSpd.** `main` is the place in constructor and destructor, `phase` the
  one of the two in which `run_with_timeout` runs, `worker` the thread it starts,
  or the mocked writer; `camera` is a thread in the SDK that logs, `other` any other
  user of the GIL, which may be in `__exit__` (`exiting`). `process` tells when
  SIGUSR1 or `std::terminate` ended it; `Runs` stops everything then. Steps between
  two places where a thread may wait are merged. `mishap` is there for the
  properties only.
- **Logger.** `pc`, `object` per thread; `alive` are the objects Python holds;
  `logging` is the logger through which each client is logging. `failed` is there
  for the properties only. Of the IRLoggerToSpd there is what a Logger waits for:
  starting it succeeds or fails; `writer` says whether the library (or the mocked
  writer) is waiting for room in the pipe ("full"), which only the reader makes, with
  the GIL, or for a reader that could not open the pipe ("lost"); stopping it waits
  for the writer, with the GIL in hand in the real build (`StopCapture`), without it
  in the mock (`StopMock`, `JoinMock`), then for the reader (`JoinReader`); and it may
  end the process (`ProcessEnds`). `Exit` is `IRImager.__exit__`, the other one that
  waits for the writer and keeps the GIL. That the library's writer waits for nothing
  but room in the pipe is the part of `IRLoggerToSpd` that is not repeated here.
- **LoggerContextManager.** Every action is one of Logger and says what becomes
  of `logger_`. `starting` tells the threads in `start()` from those that make a
  Logger of their own.

Operators with a comment "bug:" are changed forms of the definition below them,
used to test that the properties can fail. No specification uses them. Some
definitions are a single expression of the code with a name (`PastNL`, `LastMember`,
`SetStop`), so that such a form can take its place.

## 3. Runs

Passing runs:

| Run | Instance | Shows |
|---|---|---|
| `ring_headroom` | N = 4, two bytes, strings up to 6, at most 3 cells filled by successful inserts | A buffer that is never filled to the last cell is a `ByteFifo`, throwing calls included; `peek` returns all, and only what was written |
| `parser` | N = 3, chunks up to 4 bytes, lines of any length, a callback that throws anywhere | `push_data` returns, because each step of it brings it nearer to its end (`PushAdvances`), never makes the buffer throw and keeps the members in range; every step but those into or out of a `Misfilled` buffer is one of `LineStream`: lines reach the callback whole, in order and once, overflows included |
| `grabber` | 1 thread with the callback in `process()`, and 2 threads with it anywhere; 3 frames | One thread: own timestamps, no dark images, nothing left between calls. Two: no image given out twice, no lost wake-up. Every call returns |
| `logpath` | 10 ticks, Period 4, way up to 5, oversleep up to 4, both builds | The library opens the pipe when its way takes less than Period; the mocked writer misses it by one second at most |
| `timestamps` | 7 ticks, a unit of 2, a lapse up to 2, three settings of the clock, real and mocked | A time is early by the lapse and two roundings at most, late by the time asleep and one rounding at most, never in the future; steady times ascend |
| `lifetime` | a pipe of 1 chunk, 3 chunks per object, both builds, every timeout and failure | The promise of `Capture`; reader outlives writer; the process survives; the constructor returns; only a full pipe or a reader that never came keeps the destructor, and all threads wait for one another in these two cases only (`NoOtherDeadlock`); the GIL comes back |
| `logger` | 2 threads, 3 objects, the reader and one more client, both builds, failing constructors, a pipe that fills up, `__exit__`, a process that ends | One at a time, redirected while alive and restored (`Redirection`), the manager's Logger safe; mutex, GIL and joins add no deadlock to those of IRLoggerToSpd (`SomebodyGoesOn`), and a call returns unless the process has ended or is in one of these (`CallsReturn`) |

Violation runs, each a disagreement of the code with what it says of itself:

| Run | Shows |
|---|---|
| `parser_lost_line` | A chunk that exactly fits an empty buffer that does not begin at its first cell fills it; `discard` and `peek` are wrong when full and wrapped, so that lines are lost or mutilated. No line need be longer than the buffer; the overflow branch, which fills the buffer too, is one more way there |
| `grabber_shared_timestamp` | One of two threads in `get_frame` may return the image of the other with its own timestamp |
| `lifetime_deadlock` | The destructor holds the GIL that the reader needs to make room in the pipe |
| `lifetime_signal` | SIGUSR1 ends the process when it comes between the reader's storing of its handle and its `sigaction`; the writer must have opened another file than the pipe, or nobody would get that far |
| `logger_failed` | After a Logger that failed to start, the next one takes the callback logger of the failed one for the original |

Why the bounds are enough:

- N = 4 lets `begin_` and `end()` be in every order, wrap more than once, and be
  apart by every distance; strings of 6 cover both parts of a wrapped insert and
  its failure. (What holds for every N is proved.)
- In `parser`, N = 3 with chunks of up to 4 wraps the buffer in the middle of lines
  and line ends; a line may be longer than the buffer, and a chunk on top of a
  partly filled buffer makes one call of `push_data` go through the overflow
  branch more than once, up to the dump. A buffer of 3 can be misfilled (that is
  what `parser_lost_line` shows).
- With two callers and three frames one frame may be in the mailbox, one in the
  SDK and one with a caller, also one whose callback waits for the GIL.
  Identifiers are reused, so a run has no last frame.
- Two callers are enough to take each other's image; a third one only adds
  another that does the same (and the safety properties are proved for any number).
- 7 ticks leave room for a frame, a wait, a suspension, a call and a conversion
  after it; a unit of 2 ticks makes every rounding visible; the settings -3 and 5
  put the clock back and forward by more than a lapse.
- 10 ticks put the clock before, at and behind each comparison of
  `wait_if_at_end_of_second`; the way goes up to more than Period.
- A pipe of one chunk is full after one write, and chunks are counted anew for
  each object, so that objects come one after the other without end; three chunks
  are one in the reader's hands, one in the pipe and one whose writer waits.
- Two threads in `Logger` give every overlap of a destruction and a construction;
  three objects, because one that a client still logs through is not reused.

`CHECK_DEADLOCK FALSE` is set where the program may really stop: in the parser
runs (after an exception nobody calls `push_data`), in `logpath` (one
construction, then nothing) and in the lifetime and logger runs (the deadlock is real,
and a process that was ended does nothing).

## 4. Fairness

Nothing has to begin: no caller has to call, log, make or destroy. Who has
begun goes on:

- `IRLoggerParser`: one thread in straight-line code, weak fairness.
- `FrameGrabber`: weak fairness for callers and the library. `Take \/ Timeout`
  has strong fairness: `wait_for` has one deadline, which waking in vain does not
  move, so that after 30 seconds the call leaves, whatever others did. The
  liveness property assumes that the shutter stays open at last, since
  `get_frame_monotonic` calls itself while it is closed.
- `IRLoggerToSpd`, `Logger`: strong fairness for a thread that needs the GIL or a
  lock: CPython hands over the GIL on request. A C++ mutex promises no such thing;
  that a thread does not lose it for ever to others that make and destroy Loggers
  without end is an assumption. In `IRLoggerToSpd` main in a call, the worker (or
  the mocked writer), the reader, a write in the SDK, `__exit__` and the release of
  the GIL by other threads are fair each by itself. `TimesOut` is part of what main
  does, so that a wait with a limit ends even if its thread does not. The 5 seconds
  of `poll` are in `ReaderPolls`, which is enabled without data.
  In `Logger` the reader is fair in making room in the pipe (`PipeDrains`).
  `LoggerContextManager` has the same as `Logger`.
- `FrameTime`, `LogPath`: none. They state no liveness property.

Deadlocks that remain possible under it are those of the code. Which these are is
stated without fairness and without ENABLED: `CanGo` and its like give, per thread,
the conditions under which its next step can be taken, and `SomebodyGoesOn` and
`NoOtherDeadlock` say that somebody can always go on, but in the deadlocks that they
name. A wait that only runs out and a `poll` that finds nothing do not count as going
on. In `Logger` the exception is `Deadlocked`: a destructor or an `__exit__` that waits
with the GIL in hand for a writer that waits for the reader (the deadlock of
`lifetime_deadlock`), or a mocked writer whose reader failed to open the pipe.
The destructor of Logger has `singleton_mutex_` too then, so that every other
constructor and destructor is stuck behind it.
`CallsReturn` excepts a call that is in it for ever, and a process that has ended.

What is assumed of others: the library holds its lock no longer than it takes to write
a line (see `IRLoggerToSpd`), and in `FrameGrabber` whoever has the GIL lets it go, so
that a callback that logs with `mutex_` held gets it.

## 5. Proofs

All with no bound on threads, frames, objects, bytes or sizes; 45 theorems in
eight modules.

- **`StringRingBufferProofs`** (lemmas only). A buffer is described by what is at a
  logical position: `InsertResult` and `DiscardResult` say what `insert` and
  `discard` do to it, `ExtendsPeek` and `DropsPeek` what that means for `peek`;
  `CutFront` does the same for cutting a line off the front, `DiscardShrinks` and
  `PeekBound` are about sizes alone. The last section is about a buffer in any
  layout, full or not: whatever is inserted and discarded, every character it counts
  as its own was written (`Stored`), because a full buffer has been written in every
  cell.
- **`RingBufferProofs`**: `TypeCorrect`, `ThrowsCorrectly` and `NeverUnwritten` (any
  fill, also a full buffer), `PeekComplete` and `RingImplementsFifo` (with a cell
  always free). For the last two the invariant adds that a full buffer
  starts at cell 0 (`WellFormed`) - a refused insert may fill the buffer, but only
  in that layout, the one that `peek` and `discard` get right. The step to
  `ByteFifo` maps `contents` to `Peek(ring)`. `QueueUnlessMisfilled` drops the free
  cell: for any client, each step between two buffers that are not misfilled is a
  step of the queue. The layout is therefore the only cause of the defect.
- **`IRLoggerParserProofs`**: `TypeCorrect` and `InRange`, for any chunks, from
  `Stored` alone: what `push_data` inserts fits, and what it discards (a line and
  its end, or all) is there. `PushEnds` (`PushAdvances`): each step shortens what is
  left of the argument, or goes on to a later place in the function, or leaves both
  and shortens the buffer, so that neither the overflow branch nor the loop over
  the lines can go round for ever. `LinesDelivered` takes each step whose buffer is
  not `Misfilled` before and after to a step of `LineStream`; `Stages` says what is
  true of the buffer at each place in `push_data`. Two consequences:
  `StreamWithoutMisfill`, a parser whose buffer is never misfilled implements
  `LineStream`, and `StreamWhileRoomy`, so does one whose bytes always leave a cell
  free. (Without either the claim is false: `parser_lost_line`.)
- **`LogPathProofs`**: `TypeCorrect`; `NamesAgree` under the assumption that a
  sleep is not late by so much that less than Period is left again: what is left of
  the second and what was used up since the clock was looked at make up Period
  (`RoomLeft`), so that the second cannot end before. `NeverFarOff`, also for the
  mocked writer, when the way is at most a second less Period: the second ends once
  at most, and what has passed of the new one was used up by the program
  (`EndsOnce`).
- **`FrameGrabberProofs`**: `TypeCorrect`, `OneImageOnePlace`, `NoWakeupIsLost` for
  any number of threads in any mode. `ImageInOnePlace` is not
  inductive: `Fresh` adds that a frame not yet given to `process()` is nowhere
  else. `SingleCaller` (one thread, callback in `process()`) follows the frame of
  the call: `Alone` says for each place where it can be. `NoImageLeft` is the part
  of it that needs no single caller: when the library calls back from `process()`,
  an image in the mailbox has a call behind it that will look there (`Attended`),
  however many threads call.
- **`FrameTimeProofs`**: `TypeCorrect`, `NeverVeryEarly`, `OnlySleepMakesLate`,
  `NeverInTheFuture`, `SteadyNeverBack`, for clocks of any unit and any settings. The
  invariant ties the steady time held to its frame and the first reading to the
  clocks. The roundings need that `Whole` is monotone, which rests on two lemmas on
  products.
- **`IRLoggerToSpdProofs`**: `TypeCorrect`; where main is says which threads there
  are and who has the GIL (`Control`), who has the library's lock and whether the
  log may be on (`LibraryControl`); as long as nothing failed, the log is on only
  from the constructor's `setVerbosity` to the destructor's (`InOrder`), and by then
  the reader has opened the pipe and ignores the signal (`PipeOpened`). From these
  `WriterNeverAlone` and `SignalIsHarmless`. `KeepsPromise` maps each step, failures
  included, to a step or a stutter of `Capture`, and `CaptureSuffices` says what that
  is worth: the callback is not called once the object is gone. `OnlyTwoDeadlocks`
  (`NoOtherDeadlock`) goes by who waits for whom: main for a thread, a thread for
  the library's lock, its holder for the pipe, the reader for the GIL, which
  `Control` places.
- **`LoggerProofs`**: `TypeCorrect`, `OneLoggerAtATime`, `RedirectedAlways`,
  `ReaderSafe`, `OriginalComesBack`. The invariant is about `singleton_`: it is null
  while somebody is past the check or past `pImpl_ = nullptr` (`Quiet`), and leads
  to whatever Python holds, gets or is losing (`Owner`). spdlog is only redirected
  and reset while it is null. `LoggerKeepsPromise` maps each step to `Redirection`;
  that `old_logger_` is the original until a constructor fails is `Restoring`, and
  `OriginalUntilFailure` states it. `RedirectionSuffices`: `Redirection` alone
  implies that there is one object, and that the logs go to it while it is there
  (so `RedirectedWhileAlive` is proved and in no run). `NoDeadlock`
  (`SomebodyGoesOn`): `Holders` says where the thread that has the mutex is, and the
  one that has the GIL; the mutex is never waited for with the GIL in hand, so each
  chain of waiting threads has an end (`ChainEnds`): a thread that can go on, the
  reader, or a wait for the writer, which is over, the reader's to end, or `Deadlocked`.
  A step of the manager is a step of Logger (`ManagerImplementsLogger`), hence all
  the above (`ManagedLoggersSafe`, `ManagerKeepsPromise`); `NeverReplaced` and
  `ManagedLogger` follow from "what the manager holds is alive" with `Owner` and
  `Distinct`.

Assumptions on constants are the named `ASSUME`s of the modules: null pointers
differ from objects, `N` is positive, and the like; TLC evaluates them.

Every invariant, action property and refinement of a passing run is a theorem. Only
model-checked are the liveness properties (`PushReturns`, `CallReturns`,
`CallsReturn`, `ConstructorReturns`, `OnlyAFullPipeBlocks`, `GilComesBack`), as
fairness and ENABLED are out of TLAPS' reach. What they rest on is proved where it
can be said without fairness: that `push_data` advances, that no wake-up is lost,
and that threads do not all wait. That the guards in `CanGo` and its like
agree with the actions' own is read off the modules; TLC agrees on the
instances of the runs. The refinements are proved for the specifications'
safety parts; the abstract ones have no other.

## 6. External code

- **libirimager.** `process()` decodes a frame, then calls `onThermalFrame` or
  does not; `isFlagOpen()` is that of the frame decoded last. Whether the callback
  runs inside `process()` is part of `mode`, as the code waits as if it did not. One
  lock serialises `setVerbosity` and logging and is held during a write to the
  pipe. That is an assumption: the comments of `irlogger_to_spd_posix.cpp` (391-397)
  speak of a deadlock in `setVerbosity` and do not say which. The timestamp of a frame
  is that of the steady clock when it was taken ("in monotonic seconds",
  `irimager_class.cpp:235`).
- **CPython.** One GIL, handed over when asked for.
- **POSIX.** Opening a FIFO for writing waits for a reader and is a cancellation
  point; waiting for a mutex is none; a write to a full pipe waits, a write with
  no reader fails. SIGUSR1 ends a process that does not ignore or handle it.
- **spdlog.** The default logger is used without keeping it alive.

## 7. Known not to hold

Beside the violation runs, the models show the following, for which no document
makes a promise or which is a consequence of what those runs show:

- In a buffer filled to the last cell, `peek` may return the empty string and
  `discard` may drop other bytes than the oldest; the parser's overflow report may
  then contain less than is discarded.
- The mocked writer may open a regular file of the next second instead of the
  pipe (so `LibraryOpensThePipe` is about the real build only).
- What is in the pipe when the object is destroyed is not read any more.
- When `mkfifo` meets a regular file (the log of a mocked writer that missed its
  pipe, under a name that is met again), the reader reports the lines it finds
  there, of an object before.
- The mocked writer waits for ever for a reader that could not open the pipe, and
  the destructor for the writer (`OnlyAFullPipeBlocks` says so). With the library
  the constructor gives up after 5 seconds instead.
- `IRImager.__exit__` keeps the GIL while the SDK stops; if the SDK logs into a full
  pipe meanwhile, nobody can empty it (`GilComesBack` and `ConstructorReturns` name
  that case).
- While the destructor of `Logger` is in the deadlock of `lifetime_deadlock` it has
  `singleton_mutex_` and the GIL: no other thread makes or destroys a Logger, nor runs
  Python, any more (`SomebodyGoesOn` and `CallsReturn` name it as `Deadlocked`). The
  mocked destructor without a reader has the mutex only.
- An exception out of `run_with_timeout` in the destructor (the SDK throws, or
  `pthread_cancel` fails) ends the process (`ProcessSurvives` excludes failures).
- A time converted after the machine was suspended is late by the time asleep, as
  `chrono.hpp:31` warns.
- A thread in a call of `IRImager` may be inside the callback logger when the
  Logger is destroyed (so `ReaderLogsToLiveLogger` is about the reader only).
- Two threads that enter one `LoggerContextManager` may clash: the second gets an
  exception (never a replaced Logger).
- Two `get_frame` callers, or a callback later than 30 seconds, leave an image
  behind for the next call.

## 8. Not modelled, and why

- Opening a device (180-209) and copying an `IRImager` (173-178): calls of the SDK,
  one after the other, with no state of this code but the pointer to the device. (A
  copy shares the device; its `ir_imager_` is neither initialised nor given the
  callback, so that a `get_frame` on it can only time out.)
- The check of the XML file and the constant image of the mocked `IRImager`.
- The texts and levels `parse_line` cuts out of a line; the table of log levels;
  the recursion of `std::regex_match`.
- The choice of a directory (`default_socket_path`) and the calendar: that local
  time repeats is in the model only as what is found at a name.
- What spdlog does with a logger that is destroyed while a thread that holds no
  reference is in it, and with a sink without a lock.
- Build, packaging, documentation, scripts.

## 9. Plan

Done: all components of section 1 that keep state, each with its proofs; the
abstract specifications `ByteFifo`, `LineStream`, `Capture` and `Redirection`, each
with the refinement checked and proved, and what `Capture` and `Redirection` are
worth to their users; which deadlocks there are in `Logger` and `IRLoggerToSpd`.

What is left, in this order:

1. `Logger` on top of `Capture`: `Logger` has the waits of an `IRLoggerToSpd` but not
   what it delivers; with the abstract specification in it one could derive that a line
   of the SDK reaches Python's logger while a Logger is alive.
2. Two `IRLoggerToSpd` objects at a time, and a copied or destroyed `IRImager` under
   a late callback, if the code comes to allow them.
3. Corrected forms of what the violation runs show (a `discard` for a full buffer, a
   mailbox per call, the GIL released in the destructor, the disposition of SIGUSR1
   set before the handle is stored), with the same properties passing.

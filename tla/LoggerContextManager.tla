------------------------- MODULE LoggerContextManager -------------------------
(***************************************************************************)
(* One LoggerContextManager, the threads that enter and leave it, and the  *)
(* same threads making Logger objects beside it.  Each step is a step of   *)
(* Logger, and says what becomes of the manager's one member, logger_.     *)
(* It has no lock of its own.  A thread looks at logger_ with the GIL, but *)
(* the constructor of Logger lets go of the GIL before start() assigns     *)
(* what it made.                                                           *)
(***************************************************************************)
EXTENDS Logger

VARIABLES
  logger_,   \* what the unique_ptr holds
  starting   \* the threads that are inside start()

mvars == <<vars, logger_, starting>>

-------------------------------------------------------------------------------
(* The manager *)

\* start(): nothing happens when there is a logger_.
Start(t) ==
  /\ logger_ = None
  /\ \E o \in Objects : Construct(t, o)
  /\ starting' = starting \cup {t}
  /\ UNCHANGED logger_

Started(t) ==
  /\ t \in starting /\ Constructed(t)
  /\ logger_' = object[t]
  /\ starting' = starting \ {t}

\* The constructor of Logger throws out of start().
StartFails(t) ==
  /\ t \in starting /\ Regain(t)
  /\ starting' = starting \ {t}
  /\ UNCHANGED logger_

StillHeld == logger_  \* bug: the Logger is destroyed, and logger_ kept
Nullptr == None

\* stop(): logger_ is null before the Logger is destroyed.
Stop(t) ==
  /\ logger_ # None
  /\ Destroy(t, logger_)
  /\ logger_' = Nullptr
  /\ UNCHANGED starting

-------------------------------------------------------------------------------
(* Logger objects that Python makes and drops itself, and IRImager.__exit__ *)

DirectCall(t) ==
  /\ Exit(t) \/ \E o \in Objects : Construct(t, o) \/ (o # logger_ /\ Destroy(t, o))
  /\ UNCHANGED <<logger_, starting>>

DirectReturn(t) ==
  /\ t \notin starting /\ (Constructed(t) \/ Regain(t) \/ Exited(t))
  /\ UNCHANGED <<logger_, starting>>

-------------------------------------------------------------------------------

Inside(t) == GoesOn(t) /\ UNCHANGED <<logger_, starting>>

Return(t) == Started(t) \/ StartFails(t) \/ DirectReturn(t)

MInit == Init /\ logger_ = None /\ starting = {}

MStep ==
  \/ \E t \in Threads : Start(t) \/ Stop(t) \/ DirectCall(t) \/ Inside(t) \/ Return(t)
  \/ /\ (\E c \in Clients : Log(c) \/ Logged(c)) \/ PipeFills \/ PipeDrains
     /\ UNCHANGED <<logger_, starting>>

MNext ==
  \/ Runs(MStep)
  \/ (\E t \in Threads : ProcessEnds(t)) /\ UNCHANGED <<logger_, starting>>

\* As for Logger: nobody has to make, stop or destroy a Logger, but whoever has
\* begun goes on.
MFairness ==
  /\ \A t \in Threads : SF_mvars(Runs(Inside(t) \/ Return(t)))
  /\ \A c \in Clients : SF_mvars(Runs(Logged(c)) /\ UNCHANGED <<logger_, starting>>)
  /\ SF_mvars(Runs(PipeDrains) /\ UNCHANGED <<logger_, starting>>)

MSpec == MInit /\ [][MNext]_mvars /\ MFairness

-------------------------------------------------------------------------------
(* Properties *)

\* Two threads may both find logger_ null and make a Logger, but never do both
\* succeed: start() never assigns over a live Logger, which would be destroyed.
NothingReplaced ==
  \A t \in starting : pc[t] = "c_regain" => logger_ = None

\* From the return of start() to the call of stop() logger_ is alive, and spdlog
\* logs to its callback, whatever becomes of other calls of start() and of other
\* Loggers meanwhile.
ManagedIsLive ==
  logger_ # None => logger_ \in alive /\ default_logger = logger_
===============================================================================

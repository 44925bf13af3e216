------------------------------- MODULE Capture --------------------------------
(***************************************************************************)
(* What an IRLoggerToSpd promises: the callback is called only while the   *)
(* object exists, its construction and destruction included (after that    *)
(* the callback's captures are gone); once made it gives up before its     *)
(* destruction only after a failure; until then no line is lost or         *)
(* reported twice.                                                         *)
(***************************************************************************)
EXTENDS Naturals

VARIABLES
  object,    \* "none", "making", "alive" or "ending"
  source,    \* whether the log is "open" or "closed" for reading
  pending,   \* chunks of the log that are not yet reported
  failed     \* whether something has ever failed
vars == <<object, source, pending, failed>>

Init == object = "none" /\ source = "closed" /\ pending = 0 /\ failed = FALSE

Moves == {<<"none", "making">>, <<"making", "alive">>, <<"making", "ending">>,
          <<"making", "none">>, <<"alive", "ending">>, <<"ending", "none">>}

\* The object comes and goes; to be gone it must have closed the source.
Lifetime ==
  /\ <<object, object'>> \in Moves
  /\ object' = "none" => source = "closed"
  /\ UNCHANGED <<source, pending, failed>>

\* A log found at that place may have lines in it.
Open ==
  /\ object = "making" /\ source = "closed"
  /\ source' = "open" /\ pending' \in Nat
  /\ UNCHANGED <<object, failed>>

Log == source = "open" /\ pending' = pending + 1 /\ UNCHANGED <<object, source, failed>>

Deliver ==
  /\ source = "open" /\ pending > 0
  /\ pending' = pending - 1 /\ UNCHANGED <<object, source, failed>>

Fail == failed' = TRUE /\ UNCHANGED <<object, source, pending>>

\* What is left in the log is lost.
Close ==
  /\ source = "open" /\ (object = "ending" \/ failed')
  /\ source' = "closed" /\ pending' = 0
  /\ failed' \in {failed, TRUE} /\ UNCHANGED object

Next == Lifetime \/ Open \/ Log \/ Deliver \/ Fail \/ Close
Spec == Init /\ [][Next]_vars
===============================================================================

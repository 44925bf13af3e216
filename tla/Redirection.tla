------------------------------ MODULE Redirection ------------------------------
(***************************************************************************)
(* What Logger promises of spdlog: to redirect it for one object at a time *)
(* ("Only a single instance of this object can exist at a time",           *)
(* logger.hpp:20), for as long as the object is there ("After you          *)
(* instantiate an object of this class, all spdlogs ... go to [the]        *)
(* callback", logger.hpp:14), and to put things back.                      *)
(*                                                                         *)
(* An object that turns out not to work spoils the promise in one respect: *)
(* later ones may put back the redirection of that object.                 *)
(***************************************************************************)
CONSTANTS
  Objects,  \* the objects, each with a place that logs may go to
  Original  \* where the logs go without them

VARIABLES
  active,   \* the object that is there, as a set of one; or nothing
  route,    \* where the logs go
  spoiled   \* whether an object has turned out not to work

Redirect(o) ==
  /\ active = {}
  /\ route = Original \/ spoiled
  /\ route' = o
  /\ UNCHANGED <<active, spoiled>>

Activate ==
  /\ active = {} /\ route # Original
  /\ active' = {route}
  /\ UNCHANGED <<route, spoiled>>

GiveUp ==
  /\ active = {} /\ route # Original
  /\ spoiled' = TRUE
  /\ UNCHANGED <<active, route>>

Deactivate ==
  /\ active # {}
  /\ active' = {}
  /\ UNCHANGED <<route, spoiled>>

Restore ==
  /\ active = {}
  /\ route' = Original \/ (spoiled /\ route' \in Objects)
  /\ UNCHANGED <<active, spoiled>>

Init == active = {} /\ route = Original /\ spoiled = FALSE

Next ==
  \/ \E o \in Objects : Redirect(o)
  \/ Activate \/ GiveUp \/ Deactivate \/ Restore

Spec == Init /\ [][Next]_<<active, route, spoiled>>
===============================================================================

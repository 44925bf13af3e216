----------------------------- MODULE MCFrameTime -----------------------------
(* FrameTime for TLC: a system clock that is right, or set back or forward. *)
EXTENDS FrameTime

MCSettings == {-3, 0, 5}
===============================================================================

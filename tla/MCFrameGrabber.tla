---------------------------- MODULE MCFrameGrabber ----------------------------
(* FrameGrabber for TLC.  The identifiers of frames are interchangeable.   *)
EXTENDS FrameGrabber, TLC

FrameSymmetry == Permutations(Frames)

CONSTANTS t1, t2

OneAndTwo == {[users |-> {t1}, async |-> FALSE], [users |-> {t1, t2}, async |-> TRUE]}
TwoInside == {[users |-> {t1, t2}, async |-> FALSE]}
===============================================================================

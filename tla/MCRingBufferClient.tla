-------------------------- MODULE MCRingBufferClient --------------------------
(* RingBufferClient for TLC: every string of up to MaxLen bytes.           *)
EXTENDS RingBufferClient, SequencesExt

CONSTANT MaxLen

MCStrings == SeqOf(Byte, MaxLen)
===============================================================================

--------------------------- MODULE MCIRLoggerParser ---------------------------
(* IRLoggerParser for TLC: every chunk of up to MaxChunk bytes.            *)
EXTENDS IRLoggerParser, SequencesExt

CONSTANT MaxChunk

MCChunks == SeqOf(Byte, MaxChunk)
===============================================================================

------------------------------ MODULE LineStream ------------------------------
(***************************************************************************)
(* What IRLoggerParser promises: it cuts the bytes it is given into lines  *)
(* and hands every line to the callback, in order, before it takes more    *)
(* bytes ("automatically calling the callback if a valid log line is       *)
(* found", irlogger_parser.hpp:20).  Bytes are only ever given up in one   *)
(* piece of Capacity bytes that contains no end of line, and the callback  *)
(* is told; or because the callback itself threw.                          *)
(***************************************************************************)
EXTENDS Naturals, Sequences

CONSTANTS
  NL,        \* the byte that ends a line
  Chunks,    \* the strings the parser may be given
  Capacity,  \* the longest unfinished line it can hold
  Parses(_)  \* whether a line (without its NL) has the form of a log line

VARIABLES
  held,      \* bytes received and not handed over yet, the oldest first
  call       \* the last call of the callback: what it was told, and of which bytes

Report(kind, text) == [kind |-> kind, text |-> text]

\* Where the first line ends: at one place, or nowhere.
FirstEnds(s) == {n \in 1 .. Len(s) : s[n] = NL /\ \A i \in 1 .. n - 1 : s[i] # NL}

HasLine(s)     == FirstEnds(s) # {}
UpTo(s, n)     == SubSeq(s, 1, n - 1)
Beyond(s, n)   == SubSeq(s, n + 1, Len(s))

\* The calls that hand over a line.  A callback that threw on a parsed line is
\* called again, with the failure.
LineCalls(line) ==
  {Report("failed", line)} \cup (IF Parses(line) THEN {Report("parsed", line)} ELSE {})

Receive(s) ==
  /\ ~HasLine(held)
  /\ held' = held \o s
  /\ UNCHANGED call

Deliver ==
  \E n \in FirstEnds(held) :
    /\ call' \in LineCalls(UpTo(held, n))
    /\ held' = Beyond(held, n)

Dump ==
  /\ Len(held) > Capacity
  /\ ~HasLine(SubSeq(held, 1, Capacity))
  /\ call' = Report("overflow", SubSeq(held, 1, Capacity))
  /\ held' = SubSeq(held, Capacity + 1, Len(held))

\* The callback threw: the bytes not stored yet are lost, whatever was stored
\* is kept, and the line that was being handed over is not handed over again.
DeliverAndThrow ==
  \E n \in FirstEnds(held) :
    /\ call' = Report("failed", UpTo(held, n))
    /\ \E k \in 0 .. Len(Beyond(held, n)) : held' = SubSeq(Beyond(held, n), 1, k)

DumpAndThrow ==
  /\ Len(held) > Capacity
  /\ ~HasLine(SubSeq(held, 1, Capacity))
  /\ call' = Report("overflow", SubSeq(held, 1, Capacity))
  /\ held' = SubSeq(held, 1, Capacity)

Init == held = << >> /\ call = Report("none", << >>)

Next ==
  \/ \E s \in Chunks : Receive(s)
  \/ Deliver \/ Dump \/ DeliverAndThrow \/ DumpAndThrow

Spec == Init /\ [][Next]_<<held, call>>
===============================================================================

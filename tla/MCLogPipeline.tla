---------------------------- MODULE MCLogPipeline ----------------------------
(***************************************************************************)
(* Instances of LogPipeline for TLC.                                       *)
(***************************************************************************)
EXTENDS LogRefinement

\* One byte that is escaped, two bytes, and a null pointer.
MCPieces == {Newline, [text |-> "yy", size |-> 2], NoText}

\* Each fills the message once and overflows it twice; one of them is escaped,
\* and then the line does not fit the record buffer.
MCPiecesTwo == {Newline, Char("x")}

\* Names that a reader could take for something else if they were not escaped.
MCLoggers == {[name |-> <<Backslash, Char("n")>>, threshold |-> 4],
              [name |-> <<Close, Return>>, threshold |-> 0]}

MCLoggerOne == {[name |-> <<Close, Open>>, threshold |-> 4]}

\* With 10 ms to a second and integers of -64..63 ms: both ends of the years
\* that can be shown and the first instant outside of each, just before 1970,
\* and a reading that would wrap to a time that can be shown.
Clock(second, ms) == [second |-> second, ms |-> ms]

MCClocks == {Clock(-3, 0), Clock(-4, 9), Clock(-1, 1), Clock(2, 9), Clock(3, 0), Clock(12, 9)}

\* One that can be shown and one that cannot.
MCClocksTwo == {Clock(-1, 1), Clock(3, 0)}

MCMinInteger == -64
MCMinSecond == -3
=============================================================================

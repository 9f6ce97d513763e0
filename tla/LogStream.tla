------------------------------ MODULE LogStream ------------------------------
(***************************************************************************)
(* A log stream as a value: what each operation of ara::log::LogStream     *)
(* does to the pending record (platform/ara-log/src/log_stream.cpp), and   *)
(* the severity filter of the logger it writes to.                         *)
(*                                                                         *)
(* A message is the sequence of the pieces inserted into it.  A piece is a *)
(* record [text, size]: what it stands for and its length in bytes.        *)
(***************************************************************************)
EXTENDS Naturals, Sequences

CONSTANTS
    Null,     \* nullptr
    Capacity  \* c_message_capacity, the bytes a pending record can hold

ASSUME CapacityAssumption == Capacity \in Nat

\* LogLevel: kOff is not a severity, kFatal the most and kVerbose the least severe.
kOff == 0
kFatal == 1
kVerbose == 6

\* A null character pointer, or a number to_chars cannot print: no text.
NoText == [text |-> "none", size |-> 0]

IsEnabled(logger, level) ==
    /\ level \in kFatal..kVerbose
    /\ logger.threshold <= kVerbose
    /\ level <= logger.threshold

\* Logger::WithLevel and LogFatal to LogVerbose.
WithLevel(logger, level) ==
    [logger |-> logger, level |-> level, enabled |-> IsEnabled(logger, level),
     failed |-> FALSE, size |-> 0, content |-> <<>>]

\* The stream takes bytes: not moved from, not filtered, not failed.
Accumulates(stream) == stream.logger # Null /\ stream.enabled /\ ~stream.failed

\* MUTANT: what does not fit is dropped and the rest of the record kept.
Insert_Truncates(stream, piece) ==
    IF ~Accumulates(stream) THEN stream
    ELSE IF piece = NoText THEN [stream EXCEPT !.failed = TRUE]
    ELSE IF piece.size = 0 \/ piece.size > Capacity - stream.size THEN stream
    ELSE [stream EXCEPT !.size = @ + piece.size, !.content = Append(@, piece)]

\* MUTANT: the capacity test is off by one.
Insert_OffByOne(stream, piece) ==
    IF ~Accumulates(stream) \/ piece.size = 0 THEN stream
    ELSE IF piece.size > Capacity + 1 - stream.size THEN [stream EXCEPT !.failed = TRUE]
    ELSE [stream EXCEPT !.size = @ + piece.size, !.content = Append(@, piece)]

\* operator<<.
Insert(stream, piece) ==
    IF ~Accumulates(stream) THEN stream
    ELSE IF piece = NoText THEN [stream EXCEPT !.failed = TRUE]
    ELSE IF piece.size = 0 THEN stream
    ELSE IF piece.size > Capacity - stream.size THEN [stream EXCEPT !.failed = TRUE]
    ELSE [stream EXCEPT !.size = @ + piece.size, !.content = Append(@, piece)]

\* What the move constructor leaves behind; the new stream is the old value.
MovedFrom(stream) ==
    [stream EXCEPT !.logger = Null, !.enabled = FALSE, !.failed = FALSE,
                   !.size = 0, !.content = <<>>]

\* The condition of Flush.
Submits(stream) == Accumulates(stream) /\ stream.size # 0

\* MUTANT: the text is kept after a flush.
Reset_KeepsText(stream) == [stream EXCEPT !.failed = FALSE]

\* The end of Flush.
Reset(stream) == [stream EXCEPT !.failed = FALSE, !.size = 0, !.content = <<>>]
=============================================================================

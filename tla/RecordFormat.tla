----------------------------- MODULE RecordFormat -----------------------------
(***************************************************************************)
(* The algorithms between a submitted record and the line on the console:  *)
(* the conversion of the clock (LinuxMetadataProvider::Read), escaping, the*)
(* timestamp and the bounded line (RenderConsoleRecord, RecordBuffer).     *)
(*                                                                         *)
(* Text is a sequence of pieces [text, size].  The characters the formatter*)
(* treats specially are pieces of their own.  Calendar dates stay seconds: *)
(* gmtime_r is one-to-one on the years that can be printed.                *)
(***************************************************************************)
EXTENDS TextPieces

CONSTANTS
    MinInteger, MaxInteger, \* std::int64_t, scaled down
    MsPerSecond,            \* c_milliseconds_per_second, scaled down
    MinSecond, MaxSecond,   \* the first second of year 0, the last of year 9999
    RecordCapacity          \* c_record_capacity, the bytes of a RecordBuffer

ASSUME IntegersAssumption ==
    /\ MaxInteger \in Nat /\ MinInteger = - MaxInteger - 1
    /\ MsPerSecond \in 1..MaxInteger
    /\ MinSecond \in Int /\ MaxSecond \in Int /\ MinSecond < 0 /\ 0 < MaxSecond

ASSUME RecordCapacityAssumption == RecordCapacity \in Nat

-----------------------------------------------------------------------------
(* Integers as C++ has them: division truncates, overflow wraps *)

Quotient(a, b) == IF a >= 0 THEN a \div b ELSE - ((- a) \div b)
Remainder(a, b) == a - b * Quotient(a, b)

Wrapped(a) == MinInteger + ((a - MinInteger) % (MaxInteger - MinInteger + 1))

-----------------------------------------------------------------------------
(* The clock: a reading is [second, ms] with 0 <= ms < MsPerSecond *)

\* The bounds Read checks before it multiplies.
IsConvertible(clock) ==
    /\ clock.second >= Quotient(MinInteger, MsPerSecond)
    /\ clock.second <= Quotient(MaxInteger - clock.ms, MsPerSecond)

UnixMilliseconds(clock) == Wrapped(Wrapped(clock.second * MsPerSecond) + clock.ms)

\* MUTANT: a negative remainder is made positive and the second kept.
Normalized_KeepsSecond(time) ==
    [second |-> Quotient(time, MsPerSecond),
     ms     |-> LET r == Remainder(time, MsPerSecond) IN IF r < 0 THEN r + MsPerSecond ELSE r]

\* AppendTimestamp takes the time apart again.
Normalized(time) ==
    LET second == Quotient(time, MsPerSecond)
        ms     == Remainder(time, MsPerSecond)
    IN  IF ms < 0 THEN [second |-> second - 1, ms |-> ms + MsPerSecond]
        ELSE [second |-> second, ms |-> ms]

HasFourDigitYear(time) == Normalized(time).second \in MinSecond..MaxSecond

-----------------------------------------------------------------------------
(* Text *)

Char(text) == [text |-> text, size |-> 1]

Backslash == Char("backslash")
Newline == Char("newline")
Return == Char("return")
Open == Char("[")
Close == Char("]")
Space == Char(" ")

Escaped(p, brackets) ==
    IF p = Newline THEN <<Backslash, Char("n")>>
    ELSE IF p = Return THEN <<Backslash, Char("r")>>
    ELSE IF p = Backslash \/ (p \in {Open, Close} /\ brackets) THEN <<Backslash, p>>
    ELSE <<p>>

AppendEscaped(line, text, brackets) ==
    FoldLeft(LAMBDA out, p : out \o Escaped(p, brackets), line, text)

\* "YYYY-MM-DDTHH:MM:SS.mmmZ" and a decimal number.
Timestamp(at) == [text |-> "timestamp", size |-> 24, at |-> at]
Decimal(value) == [text |-> "decimal", size |-> 1, value |-> value]

LevelName(level) ==
    [text |-> <<"FATAL", "ERROR", "WARN", "INFO", "DEBUG", "VERBOSE">>[level],
     size |-> <<5, 5, 4, 4, 5, 7>>[level]]

NoLine == <<>>

\* The text of a record before it meets the buffer.  The process and thread
\* IDs of Linux are positive.
ConsoleText(time, pid, tid, level, context, message) ==
    LET header == <<Open, Timestamp(Normalized(time)), Close, Open, Decimal(pid), Close,
                    Open, Decimal(tid), Close, Open, LevelName(level), Close, Open>>
        named  == AppendEscaped(header, context, TRUE) \o <<Close, Space>>
    IN  Append(AppendEscaped(named, message, FALSE), Newline)

\* What RenderConsoleRecord makes of its console text: the whole line, or none
\* because the year cannot be shown or the line does not fit.
RenderConsoleRecord(time, text) ==
    IF HasFourDigitYear(time) /\ Bytes(text) <= RecordCapacity THEN text ELSE NoLine

-----------------------------------------------------------------------------
(* What a reader makes of a line: five fields in brackets, a space and the   *)
(* message up to the newline.  A backslash takes the meaning of what follows.*)

FieldCount == 5

Meaning(p) == IF p = Char("n") THEN Newline ELSE IF p = Char("r") THEN Return ELSE p

ReadPiece(state, p) ==
    LET inFields == Len(state.fields) < FieldCount
    IN  IF state.escaped
        THEN [state EXCEPT !.escaped = FALSE, !.field = Append(@, Meaning(p))]
        ELSE IF p = Backslash THEN [state EXCEPT !.escaped = TRUE]
        ELSE IF p = (IF inFields THEN Close ELSE Newline)
        THEN [state EXCEPT !.fields = Append(@, state.field), !.field = <<>>]
        ELSE IF inFields /\ p = Open /\ state.field = <<>> THEN state
        ELSE [state EXCEPT !.field = Append(@, p)]

ReadLine(line) ==
    FoldLeft(ReadPiece, [fields |-> <<>>, field |-> <<>>, escaped |-> FALSE], line).fields
=============================================================================

----------------------------- MODULE LogPipeline -----------------------------
(***************************************************************************)
(* Concurrent logging: threads build records in streams, move streams to   *)
(* one another, and submit.  A submission reads metadata, renders the      *)
(* console record into a bounded buffer and writes it with one fwrite      *)
(* (Logger::Submit in platform/ara-log/src/logger.cpp,                     *)
(* RenderConsoleRecord, ConsoleSink::Write).                               *)
(*                                                                         *)
(* A stream belongs to one thread at a time: concurrent mutation of one    *)
(* stream is outside the contract.  Loggers, stdout and its FILE lock are  *)
(* shared.                                                                 *)
(***************************************************************************)
EXTENDS LogStream, RecordFormat, FiniteSets

CONSTANTS
    Threads,        \* the threads that log
    Streams,        \* the places where a LogStream object can live
    Loggers,        \* registered loggers: records [name, threshold], the name a text
    Levels,         \* the severities streams are created with
    Pieces,         \* the values inserted into streams
    Clocks,         \* what clock_gettime may report
    Pid,            \* the process
    MaxRecords,     \* BOUND: how many records are begun in all
    MaxInsertions   \* BOUND: how many insertions a record sees

ASSUME PiecesAssumption ==
    \A p \in Pieces : p.size \in Nat

ASSUME LoggersAssumption ==
    /\ Null \notin Loggers
    /\ \A g \in Loggers : g.threshold \in 0..kVerbose /\ g.name \in Seq(ToSet(g.name))

\* The nanoseconds of a struct timespec are less than a second.
ASSUME ClocksAssumption == Clocks \subseteq [second : Int, ms : 0..(MsPerSecond - 1)]

ASSUME ThreadsAssumption == Null \notin Threads

VARIABLES
    stream,   \* the LogStream object at each place, or Null
    owner,    \* the thread whose object it is, or Null
    pc,       \* where each thread is in Flush and the calls it makes
    job,      \* the stream being flushed, whether it is being destroyed, the time read,
              \* the line rendered; HISTORY: the clock when it was read
    fileLock, \* the thread inside fwrite, which holds stdio's lock of stdout, or Null
    stdout,   \* what reached stdout: parts [id, part, text], and as
              \* HISTORY what each stands for: [logger, level, content, clock, tid]
    record,   \* HISTORY: the number of the pending record of each stream, 0 if none
    inserted, \* HISTORY: every piece the application inserted into that record
    begun     \* HISTORY: how many records have been begun

objects == <<stream, owner, record, inserted, begun>>
vars == <<objects, pc, job, fileLock, stdout>>

\* A console record is written in this many parts, one after the other.
Parts == 2

NoClock == [second |-> 0, ms |-> 0]

NoJob == [stream |-> Null, destroy |-> FALSE, time |-> 0, clock |-> NoClock, line |-> NoLine]

Init ==
    /\ stream = [s \in Streams |-> Null]
    /\ owner = [s \in Streams |-> Null]
    /\ pc = [t \in Threads |-> "Idle"]
    /\ job = [t \in Threads |-> NoJob]
    /\ fileLock = Null
    /\ stdout = <<>>
    /\ record = [s \in Streams |-> 0]
    /\ inserted = [s \in Streams |-> <<>>]
    /\ begun = 0

-----------------------------------------------------------------------------
(* The application's operations on its streams *)

Owns(t, s) == pc[t] = "Idle" /\ owner[s] = t

IsFree(s) == owner[s] = Null

Create(t, s, logger, level) ==
    /\ pc[t] = "Idle" /\ IsFree(s)
    /\ begun < MaxRecords
    /\ stream' = [stream EXCEPT ![s] = WithLevel(logger, level)]
    /\ owner' = [owner EXCEPT ![s] = t]
    /\ begun' = begun + 1
    /\ record' = [record EXCEPT ![s] = begun']
    /\ inserted' = [inserted EXCEPT ![s] = <<>>]
    /\ UNCHANGED <<pc, job, fileLock, stdout>>

InsertPiece(t, s, piece) ==
    /\ Owns(t, s)
    /\ Len(inserted[s]) < MaxInsertions
    /\ stream' = [stream EXCEPT ![s] = Insert(@, piece)]
    /\ inserted' = [inserted EXCEPT ![s] = Append(@, piece)]
    /\ UNCHANGED <<owner, record, begun, pc, job, fileLock, stdout>>

\* Move-construct a stream at another place, for this or another thread.  Only
\* a stream that has not been moved from may be moved again.
Move(t, s, to, receiver) ==
    /\ Owns(t, s) /\ IsFree(to)
    /\ stream[s].logger # Null
    /\ stream' = [stream EXCEPT ![to] = stream[s], ![s] = MovedFrom(stream[s])]
    /\ owner' = [owner EXCEPT ![to] = receiver]
    /\ record' = [record EXCEPT ![to] = record[s], ![s] = 0]
    /\ inserted' = [inserted EXCEPT ![to] = inserted[s], ![s] = <<>>]
    /\ UNCHANGED <<begun, pc, job, fileLock, stdout>>

-----------------------------------------------------------------------------
(* Flush, and the destructor that calls it *)

\* After submission or discard the stream is reset, or gone if this is its
\* destructor.  What comes next in it is a new record.
Finish(t, s, destroy) ==
    /\ stream' = [stream EXCEPT ![s] = IF destroy THEN Null ELSE Reset(@)]
    /\ owner' = [owner EXCEPT ![s] = IF destroy THEN Null ELSE @]
    /\ begun' = IF destroy THEN begun ELSE begun + 1
    /\ record' = [record EXCEPT ![s] = IF destroy THEN 0 ELSE begun']
    /\ inserted' = [inserted EXCEPT ![s] = <<>>]
    /\ pc' = [pc EXCEPT ![t] = "Idle"]
    /\ job' = [job EXCEPT ![t] = NoJob]

\* A moved-from stream is usable only for destruction.
MayFlush(t, s, destroy) ==
    /\ Owns(t, s)
    /\ destroy \/ (stream[s].logger # Null /\ begun < MaxRecords)

\* Submit checks emptiness and the filter again before it reads metadata.
BeginSubmit(t, s, destroy) ==
    /\ MayFlush(t, s, destroy)
    /\ Submits(stream[s])
    /\ stream[s].size # 0 /\ IsEnabled(stream[s].logger, stream[s].level)
    /\ pc' = [pc EXCEPT ![t] = "Metadata"]
    /\ job' = [job EXCEPT ![t].stream = s, ![t].destroy = destroy]
    /\ UNCHANGED <<objects, fileLock, stdout>>

FlushNothing(t, s, destroy) ==
    /\ MayFlush(t, s, destroy)
    /\ ~Submits(stream[s])
    /\ Finish(t, s, destroy)
    /\ UNCHANGED <<fileLock, stdout>>

-----------------------------------------------------------------------------
(* Logger::Submit *)

Goto(t, from, to) == pc[t] = from /\ pc' = [pc EXCEPT ![t] = to]

Current(t) == stream[job[t].stream]

\* Submit returns to Flush, which finishes.
Back(t) == Finish(t, job[t].stream, job[t].destroy)

ReadMetadata(t) ==
    /\ Goto(t, "Metadata", "Render")
    /\ \E clock \in Clocks :
         /\ IsConvertible(clock)
         /\ job' = [job EXCEPT ![t].time = UnixMilliseconds(clock), ![t].clock = clock]
    /\ UNCHANGED <<objects, fileLock, stdout>>

\* The clock cannot be read or converted, or a provider throws: the record is
\* discarded.
MetadataFails(t) ==
    pc[t] = "Metadata" /\ Back(t) /\ UNCHANGED <<fileLock, stdout>>

Text(t) ==
    ConsoleText(job[t].time, Pid, t, Current(t).level, Current(t).logger.name,
                Current(t).content)

Render(t) ==
    /\ pc[t] = "Render"
    /\ \E text \in {Text(t)} :
         LET line == RenderConsoleRecord(job[t].time, text)
         IN  IF line = NoLine THEN Back(t)
             ELSE /\ pc' = [pc EXCEPT ![t] = "Write"]
                  /\ job' = [job EXCEPT ![t].line = line]
                  /\ UNCHANGED objects
    /\ UNCHANGED <<fileLock, stdout>>

-----------------------------------------------------------------------------
(* ConsoleSink::Write: one fwrite.  The lock is not the program's: it is the *)
(* one that stdio takes on a FILE for the whole of a call.  A write to a     *)
(* terminal or pipe that is full may take for ever, and so may the call.     *)

EnterWrite(t) ==
    /\ Goto(t, "Write", "Part 1")
    /\ fileLock = Null
    /\ fileLock' = t
    /\ UNCHANGED <<objects, job, stdout>>

Part(t, i) ==
    [id |-> record[job[t].stream], part |-> i,
     text |-> IF i = 1 THEN Front(job[t].line) ELSE <<Last(job[t].line)>>,
     logger |-> Current(t).logger, level |-> Current(t).level, content |-> Current(t).content,
     clock |-> job[t].clock, tid |-> t]

\* MUTANT: each part is written by an fwrite of its own.
WritePart_Separately(t) ==
    \/ /\ Goto(t, "Part 1", "Part 2")
       /\ stdout' = Append(stdout, Part(t, 1))
       /\ fileLock' = Null
       /\ UNCHANGED <<objects, job>>
    \/ /\ Goto(t, "Part 2", "Leave")
       /\ fileLock = Null
       /\ fileLock' = t
       /\ stdout' = Append(stdout, Part(t, 2))
       /\ UNCHANGED <<objects, job>>

WritePart(t) ==
    \/ /\ Goto(t, "Part 1", "Part 2")
       /\ stdout' = Append(stdout, Part(t, 1))
       /\ UNCHANGED <<objects, job, fileLock>>
    \/ /\ Goto(t, "Part 2", "Leave")
       /\ stdout' = Append(stdout, Part(t, 2))
       /\ UNCHANGED <<objects, job, fileLock>>

\* A short write: fwrite gives up before the next part, and leaves what it has
\* written where it is.
WriteFails(t) ==
    /\ Goto(t, "Part 1", "Leave") \/ Goto(t, "Part 2", "Leave")
    /\ UNCHANGED <<objects, job, fileLock, stdout>>

\* fwrite releases its lock and returns.  The status of the write changes
\* nothing: the record is gone either way.
LeaveWrite(t) ==
    pc[t] = "Leave" /\ fileLock' = Null /\ Back(t) /\ UNCHANGED stdout

-----------------------------------------------------------------------------
SubmitStep(t) ==
    \/ ReadMetadata(t) \/ MetadataFails(t) \/ Render(t)
    \/ EnterWrite(t) \/ WritePart(t) \/ WriteFails(t) \/ LeaveWrite(t)

Operation(t, s) ==
    \/ \E logger \in Loggers, level \in Levels : Create(t, s, logger, level)
    \/ \E piece \in Pieces : InsertPiece(t, s, piece)
    \/ \E to \in Streams, receiver \in Threads : Move(t, s, to, receiver)
    \/ \E destroy \in BOOLEAN : BeginSubmit(t, s, destroy) \/ FlushNothing(t, s, destroy)

\* Every stream is gone and the bound on records is reached.  (Threads that
\* flush at the same time can each begin one more.)
Finished == begun >= MaxRecords /\ (\A s \in Streams : IsFree(s)) /\ UNCHANGED vars

Next ==
    \/ \E t \in Threads : SubmitStep(t) \/ \E s \in Streams : Operation(t, s)
    \/ Finished

\* No fairness: a flush returns only if its write to stdout does.
Spec == Init /\ [][Next]_vars

-----------------------------------------------------------------------------
(* Properties *)

SubmitSteps == {"Metadata", "Render", "Write", "Part 1", "Part 2", "Leave"}

TypeOK ==
    /\ \A s \in Streams : stream[s] # Null =>
         /\ stream[s].logger \in Loggers \cup {Null}
         /\ stream[s].level \in Levels
         /\ stream[s].size <= Capacity
         /\ stream[s].content \in Seq(Pieces)
    /\ owner \in [Streams -> Threads \cup {Null}]
    /\ pc \in [Threads -> SubmitSteps \cup {"Idle"}]
    /\ \A t \in Threads :
         /\ job[t].stream \in Streams \cup {Null}
         /\ job[t].destroy \in BOOLEAN
         /\ job[t].time \in MinInteger..MaxInteger
         /\ job[t].clock \in Clocks \cup {NoClock}
         /\ Bytes(job[t].line) <= RecordCapacity
    /\ fileLock \in Threads \cup {Null}
    /\ record \in [Streams -> 0..begun]
    /\ begun \in Nat

\* What a record must satisfy to be submitted, whatever happened to the stream:
\* its severity passes the filter, it has text, it fits, all of it is text.
IsEmittable(logger, level, pieces) ==
    /\ IsEnabled(logger, level)
    /\ Bytes(pieces) \in 1..Capacity
    /\ NoText \notin ToSet(pieces)

\* Whole-record discard (AP-R3-LOG-005, AP-R3-LOG-008): after any sequence of
\* insertions, flushes and moves a stream submits exactly the text inserted
\* since its last flush, or nothing: never a truncated record, never a piece of
\* an earlier one, and a failure in one record does not outlive it.
StreamHoldsExactlyItsRecord ==
    \A s \in Streams :
        stream[s] # Null /\ stream[s].logger # Null =>
            /\ Submits(stream[s]) <=>
                 IsEmittable(stream[s].logger, stream[s].level, inserted[s])
            /\ Submits(stream[s]) => stream[s].content = TextOf(inserted[s])

\* Records do not interleave (AP-R3-LOG-009): the second part of a record
\* directly follows its first; only a record whose write failed is cut short.
RecordsDoNotInterleave ==
    \A i \in DOMAIN stdout :
        /\ stdout[i].part = 2 =>
             i > 1 /\ stdout[i - 1].part = 1 /\ stdout[i - 1].id = stdout[i].id
        /\ stdout[i].part = 1 /\ i < Len(stdout) =>
             stdout[i + 1].part = 1 \/ stdout[i + 1].id = stdout[i].id

\* Lines say what was logged (AP-R3-LOG-006, AP-R3-LOG-008): every complete
\* record is by itself a whole line within the record buffer, whatever escaping
\* adds to it (after a record cut short by a failed write it shares a line of
\* stdout with the rest of that one, which AP-R3-LOG-008 allows), and a reader
\* gets back its fields: the clock reading it was given, to the
\* millisecond, on either side of 1970 and up to both ends of the years that can
\* be shown, the thread that flushed it, and names and text whatever characters
\* they contain.  A clock out of range loses its record, it never shows another
\* time.
LinesAreExact ==
    \A i \in DOMAIN stdout : stdout[i].part = Parts =>
        LET entry == stdout[i]
            line  == stdout[i - 1].text \o entry.text
        IN  /\ Bytes(line) <= RecordCapacity
            /\ ReadLine(line) =
                 <<<<Timestamp(entry.clock)>>, <<Decimal(Pid)>>, <<Decimal(entry.tid)>>,
                   <<LevelName(entry.level)>>, entry.logger.name, <<Space>> \o entry.content>>
=============================================================================

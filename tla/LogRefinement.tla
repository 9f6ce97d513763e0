---------------------------- MODULE LogRefinement ----------------------------
(***************************************************************************)
(* The refinement mapping from LogPipeline to RecordLog.  A record is      *)
(* logged when its last part is on stdout; from then on its stream has an  *)
(* empty record in the abstraction.                                        *)
(***************************************************************************)
EXTENDS LogPipeline

\* No logger is no record.
ASSUME NullAssumption == Null \notin [logger : Loggers, level : Levels, pieces : Seq(Pieces)]

IsComplete(entry) == entry.part = Parts

IsLogged(s) == \E i \in DOMAIN stdout : IsComplete(stdout[i]) /\ stdout[i].id = record[s]

OpenRecord(s) ==
    [logger |-> stream[s].logger, level |-> stream[s].level,
     pieces |-> IF IsLogged(s) THEN <<>> ELSE inserted[s]]

Opened == [s \in Streams |-> IF record[s] = 0 THEN Null ELSE OpenRecord(s)]

Entry(part) == [logger |-> part.logger, level |-> part.level, text |-> part.content]

Logged(parts) ==
    FoldLeft(LAMBDA log, part : IF IsComplete(part) THEN Append(log, Entry(part)) ELSE log,
             <<>>, parts)

Log == INSTANCE RecordLog WITH
    MayEmit <- IsEmittable, Text <- TextOf, open <- Opened, log <- Logged(stdout)

\* Logging is all or nothing: a record appears in the log in one step with
\* exactly the text its stream was given, if it may be logged at all, and every
\* other outcome of a flush leaves the log alone.
ImplementsRecordLog == Log!Spec
=============================================================================

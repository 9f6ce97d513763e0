------------------------------ MODULE RecordLog ------------------------------
(***************************************************************************)
(* What concurrent logging promises: each stream holds one open record,    *)
(* and closing a record adds it to the log whole and in one step, or not   *)
(* at all.  Buffers, metadata, rendering, locks and partial writes do not  *)
(* exist here.                                                             *)
(***************************************************************************)
EXTENDS Naturals, Sequences

CONSTANTS
    Streams, Loggers, Levels, Pieces, Null,
    MayEmit(_, _, _), \* may this text, at this severity, to this logger, be logged?
    Text(_)           \* the text of a sequence of insertions

VARIABLES
    open, \* per stream, the open record [logger, level, pieces], or Null
    log   \* the records logged, [logger, level, text]

vars == <<open, log>>

Init == open = [s \in Streams |-> Null] /\ log = <<>>

Open(s) ==
    /\ open[s] = Null
    /\ \E g \in Loggers, v \in Levels :
         open' = [open EXCEPT ![s] = [logger |-> g, level |-> v, pieces |-> <<>>]]
    /\ UNCHANGED log

Insert(s) ==
    /\ open[s] # Null
    /\ \E p \in Pieces : open' = [open EXCEPT ![s].pieces = Append(@, p)]
    /\ UNCHANGED log

\* A record changes streams; only one of them has it.
HandOver(s, to) ==
    /\ open[s] # Null /\ open[to] = Null
    /\ open' = [open EXCEPT ![to] = open[s], ![s] = Null]
    /\ UNCHANGED log

\* The record is logged, and its stream left with an empty one.
Emit(s) ==
    /\ open[s] # Null
    /\ MayEmit(open[s].logger, open[s].level, open[s].pieces)
    /\ log' = Append(log, [logger |-> open[s].logger, level |-> open[s].level,
                           text |-> Text(open[s].pieces)])
    /\ open' = [open EXCEPT ![s].pieces = <<>>]

\* A flush ends a record, emitted or not; a destructor ends the stream too.
Close(s) ==
    /\ open[s] # Null
    /\ open' = [open EXCEPT ![s].pieces = <<>>] \/ open' = [open EXCEPT ![s] = Null]
    /\ UNCHANGED log

Next ==
    \/ \E s \in Streams : Open(s) \/ Insert(s) \/ Emit(s) \/ Close(s)
    \/ \E s, to \in Streams : HandOver(s, to)

Spec == Init /\ [][Next]_vars
=============================================================================

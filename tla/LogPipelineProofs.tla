--------------------------- MODULE LogPipelineProofs ---------------------------
(***************************************************************************)
(* Proofs about LogPipeline, for any number of threads, streams and        *)
(* records: the lock of stdout, which fwrite holds throughout, keeps       *)
(* records apart; every stream holds exactly the text of its record or has *)
(* failed because of it; logging is all or nothing, as RecordLog says; and *)
(* a reader of a line gets back what was logged.                           *)
(***************************************************************************)
EXTENDS LogRefinement, SequenceFolds

\* The steps of fwrite.
Inside == {"Part 1", "Part 2", "Leave"}

\* What the other parts need to know of the shape of the state.
Shape ==
    /\ pc \in [Threads -> SubmitSteps \cup {"Idle"}]
    /\ owner \in [Streams -> Threads \cup {Null}]
    /\ DOMAIN record = Streams
    /\ DOMAIN job = Threads
    /\ \A t \in Threads : DOMAIN job[t] = {"stream", "destroy", "time", "clock", "line"}
    /\ \E S : stdout \in Seq(S)

\* The FILE lock belongs to the thread inside fwrite.
LockIsExact == \A t \in Threads : pc[t] \in Inside <=> fileLock = t

\* A thread inside Flush flushes a stream of its own.
FlushersOwnTheirStreams ==
    \A t \in Threads : pc[t] # "Idle" => job[t].stream \in Streams /\ owner[job[t].stream] = t

\* Between the two parts of a record the first is the last thing on stdout.
HalfIsLast ==
    \A t \in Threads : pc[t] = "Part 2" =>
        /\ stdout # <<>>
        /\ stdout[Len(stdout)].part = 1 /\ stdout[Len(stdout)].id = record[job[t].stream]

Inv == Shape /\ LockIsExact /\ FlushersOwnTheirStreams /\ HalfIsLast /\ RecordsDoNotInterleave

\* At first no thread writes and stdout is empty.
LEMMA InitInv == Init => Inv
<1> SUFFICES ASSUME Init PROVE Inv
  OBVIOUS
<1>1. Shape
  BY DEF Init, Shape, NoJob
<1>2. LockIsExact /\ FlushersOwnTheirStreams /\ HalfIsLast
  BY ThreadsAssumption DEF Init, LockIsExact, FlushersOwnTheirStreams, HalfIsLast, Inside
<1>3. RecordsDoNotInterleave
  BY DEF Init, RecordsDoNotInterleave
<1> QED
  BY <1>1, <1>2, <1>3 DEF Inv

-----------------------------------------------------------------------------
(* Steps that leave stdout alone *)

\* The other threads, and the streams they flush, are where they were.
OthersStay(t) ==
    \A u \in Threads \ {t} :
        /\ pc'[u] = pc[u] /\ job'[u] = job[u]
        /\ fileLock' = u <=> fileLock = u
        /\ pc[u] # "Idle" => owner'[job[u].stream] = u
                             /\ record'[job[u].stream] = record[job[u].stream]

\* The thread arrives at a step outside the middle of fwrite, with its stream
\* and, inside fwrite, with the lock.
Arrives(t) ==
    /\ pc'[t] # "Part 2"
    /\ pc'[t] # "Idle" => job'[t].stream \in Streams /\ owner'[job'[t].stream] = t
    /\ pc'[t] \in Inside <=> fileLock' = t

\* A step of one thread that leaves stdout alone.
LEMMA QuietStep ==
    ASSUME Inv, NEW t \in Threads, Shape', UNCHANGED stdout, OthersStay(t), Arrives(t)
    PROVE  Inv'
<1>1. LockIsExact'
  <2>1. ASSUME NEW u \in Threads PROVE pc'[u] \in Inside <=> fileLock' = u
    <3>1. CASE u = t
      BY <3>1 DEF Arrives
    <3>2. CASE u # t
      BY <3>2 DEF Inv, LockIsExact, OthersStay
    <3> QED
      BY <3>1, <3>2
  <2> QED
    BY <2>1 DEF LockIsExact
<1>2. FlushersOwnTheirStreams'
  <2>1. ASSUME NEW u \in Threads, pc'[u] # "Idle"
        PROVE  job'[u].stream \in Streams /\ owner'[job'[u].stream] = u
    <3>1. CASE u = t
      BY <2>1, <3>1 DEF Arrives
    <3>2. CASE u # t
      BY <2>1, <3>2 DEF Inv, FlushersOwnTheirStreams, OthersStay
    <3> QED
      BY <3>1, <3>2
  <2> QED
    BY <2>1 DEF FlushersOwnTheirStreams
<1>3. HalfIsLast'
  <2>1. ASSUME NEW u \in Threads, pc'[u] = "Part 2"
        PROVE  pc[u] = "Part 2" /\ record'[job'[u].stream] = record[job[u].stream]
    <3>1. u # t
      BY <2>1 DEF Arrives
    <3> QED
      BY <2>1, <3>1 DEF OthersStay
  <2> QED
    BY <2>1 DEF Inv, HalfIsLast
<1>4. RecordsDoNotInterleave'
  BY DEF Inv, RecordsDoNotInterleave
<1> QED
  BY <1>1, <1>2, <1>3, <1>4 DEF Inv

\* A thread changes its own streams and free places, and its own lock.
LEMMA OnlyOwnStreams ==
    ASSUME Inv, NEW t \in Threads,
           pc' = pc \/ \E step : pc' = [pc EXCEPT ![t] = step],
           job' = job \/ \E new : job' = [job EXCEPT ![t] = new],
           fileLock' = fileLock \/ {fileLock, fileLock'} \subseteq {t, Null},
           \A s \in Streams : owner[s] \notin {t, Null} =>
               owner'[s] = owner[s] /\ record'[s] = record[s]
    PROVE  OthersStay(t)
<1> SUFFICES ASSUME NEW u \in Threads \ {t}
             PROVE  /\ pc'[u] = pc[u] /\ job'[u] = job[u]
                    /\ fileLock' = u <=> fileLock = u
                    /\ pc[u] # "Idle" => owner'[job[u].stream] = u
                                         /\ record'[job[u].stream] = record[job[u].stream]
  BY DEF OthersStay
<1>1. u \notin {t, Null}
  BY ThreadsAssumption
<1>2. pc'[u] = pc[u] /\ job'[u] = job[u]
  BY DEF Inv, Shape
<1>3. fileLock' = u <=> fileLock = u
  BY <1>1
<1>4. pc[u] # "Idle" => owner[job[u].stream] = u /\ job[u].stream \in Streams
  BY DEF Inv, FlushersOwnTheirStreams
<1> QED
  BY <1>1, <1>2, <1>3, <1>4

\* An idle thread is outside fwrite.
LEMMA OutsideWrite ==
    ASSUME Inv, NEW t \in Threads, pc[t] \notin Inside
    PROVE  fileLock # t
BY DEF Inv, LockIsExact

\* The application's operations on its streams.
LEMMA OperationKeepsInv ==
    ASSUME Inv, NEW t \in Threads, NEW s \in Streams, Operation(t, s)
    PROVE  Inv'
<1>1. pc[t] = "Idle" /\ UNCHANGED <<fileLock, stdout>>
  BY DEF Operation, Create, InsertPiece, Move, BeginSubmit, FlushNothing, MayFlush, Owns
<1>2. fileLock # t
  BY <1>1, OutsideWrite DEF Inside
<1>3. ASSUME Shape', UNCHANGED <<pc, job>>,
             \A r \in Streams : owner[r] \notin {t, Null} =>
                 owner'[r] = owner[r] /\ record'[r] = record[r]
      PROVE  Inv'
  <2>1. OthersStay(t)
    BY <1>1, <1>3, OnlyOwnStreams
  <2>2. Arrives(t)
    BY <1>1, <1>2, <1>3 DEF Arrives, Inside
  <2> QED
    BY <1>1, <1>3, <2>1, <2>2, QuietStep
<1>4. CASE \E logger \in Loggers, level \in Levels : Create(t, s, logger, level)
  <2>1. Shape'
    BY <1>4 DEF Create, Inv, Shape
  <2>2. \A r \in Streams : owner[r] \notin {t, Null} => owner'[r] = owner[r] /\ record'[r] = record[r]
    BY <1>4 DEF Create, IsFree, Inv, Shape
  <2>3. UNCHANGED <<pc, job>>
    BY <1>4 DEF Create
  <2> QED
    BY <1>3, <2>1, <2>2, <2>3
<1>5. CASE \E piece \in Pieces : InsertPiece(t, s, piece)
  <2>1. UNCHANGED <<pc, job, owner, record, stdout>>
    BY <1>5 DEF InsertPiece
  <2>2. Shape'
    BY <2>1 DEF Inv, Shape
  <2> QED
    BY <1>3, <2>1, <2>2
<1>6. CASE \E to \in Streams, receiver \in Threads : Move(t, s, to, receiver)
  <2>1. Shape'
    BY <1>6 DEF Move, Inv, Shape
  <2>2. \A r \in Streams : owner[r] \notin {t, Null} => owner'[r] = owner[r] /\ record'[r] = record[r]
    BY <1>6 DEF Move, Owns, IsFree, Inv, Shape
  <2>3. UNCHANGED <<pc, job>>
    BY <1>6 DEF Move
  <2> QED
    BY <1>3, <2>1, <2>2, <2>3
<1>7. CASE \E destroy \in BOOLEAN : BeginSubmit(t, s, destroy)
  <2>1. PICK destroy \in BOOLEAN : BeginSubmit(t, s, destroy)
    BY <1>7
  <2> DEFINE new == [job[t] EXCEPT !.stream = s, !.destroy = destroy]
  <2>2. /\ pc' = [pc EXCEPT ![t] = "Metadata"] /\ job' = [job EXCEPT ![t] = new]
        /\ UNCHANGED <<owner, record, fileLock, stdout>> /\ owner[s] = t
    BY <2>1 DEF BeginSubmit, MayFlush, Owns, objects
  <2>3. new.stream = s /\ DOMAIN new = {"stream", "destroy", "time", "clock", "line"}
    BY DEF Inv, Shape
  <2> HIDE DEF new
  <2>4. Shape'
    BY <2>2, <2>3 DEF Inv, Shape, SubmitSteps
  <2>5. OthersStay(t)
    BY <2>2, OnlyOwnStreams
  <2>6. Arrives(t)
    BY <1>2, <2>2, <2>3 DEF Arrives, Inside, Inv, Shape
  <2> QED
    BY <2>2, <2>4, <2>5, <2>6, QuietStep
<1>8. CASE \E destroy \in BOOLEAN : FlushNothing(t, s, destroy)
  <2>1. PICK destroy \in BOOLEAN : owner[s] = t /\ Finish(t, s, destroy)
    BY <1>8 DEF FlushNothing, MayFlush, Owns
  <2>2. Shape'
    BY <1>1, <2>1 DEF Finish, NoJob, Inv, Shape
  <2>3. OthersStay(t)
    <3>1. \A r \in Streams : owner[r] \notin {t, Null} => owner'[r] = owner[r] /\ record'[r] = record[r]
      BY <2>1 DEF Finish, Inv, Shape
    <3> QED
      BY <1>1, <2>1, <3>1, OnlyOwnStreams DEF Finish
  <2>4. Arrives(t)
    BY <1>1, <1>2, <2>1 DEF Arrives, Finish, Inside, Inv, Shape
  <2> QED
    BY <1>1, <2>2, <2>3, <2>4, QuietStep
<1> QED
  BY <1>4, <1>5, <1>6, <1>7, <1>8 DEF Operation

\* The end of a submission, with or without the lock.
LEMMA BackKeepsInv ==
    ASSUME Inv, NEW t \in Threads, pc[t] # "Idle", Back(t), UNCHANGED stdout,
           \/ pc[t] \notin Inside /\ UNCHANGED fileLock
           \/ pc[t] \in Inside /\ fileLock' = Null
    PROVE  Inv'
<1> DEFINE s == job[t].stream
<1>1. s \in Streams /\ owner[s] = t
  BY DEF Inv, FlushersOwnTheirStreams
<1>2. PICK destroy : Finish(t, s, destroy)
  BY DEF Back
<1> HIDE DEF s
<1>3. Shape'
  BY <1>2 DEF Finish, NoJob, Inv, Shape
<1>4. fileLock' # t
  BY ThreadsAssumption, OutsideWrite
<1>5. fileLock' = fileLock \/ {fileLock, fileLock'} \subseteq {t, Null}
  BY DEF Inv, LockIsExact
<1>6. OthersStay(t)
  <2>1. \A r \in Streams : owner[r] \notin {t, Null} => owner'[r] = owner[r] /\ record'[r] = record[r]
    BY <1>1, <1>2 DEF Finish, Inv, Shape
  <2> QED
    BY <1>2, <1>5, <2>1, OnlyOwnStreams DEF Finish
<1>7. Arrives(t)
  BY <1>2, <1>4 DEF Arrives, Finish, Inside, Inv, Shape
<1> QED
  BY <1>3, <1>6, <1>7, QuietStep

\* A step within Submit that keeps the stream of the thread.
LEMMA AdvanceKeepsInv ==
    ASSUME Inv, NEW t \in Threads, NEW step \in SubmitSteps \ {"Part 2"}, NEW new,
           pc[t] # "Idle",
           pc' = [pc EXCEPT ![t] = step],
           new.stream = job[t].stream, DOMAIN new = DOMAIN job[t],
           job' = [job EXCEPT ![t] = new] \/ UNCHANGED job,
           UNCHANGED <<owner, record, stdout>>,
           fileLock' = fileLock \/ {fileLock, fileLock'} \subseteq {t, Null},
           step \in Inside <=> fileLock' = t
    PROVE  Inv'
<1>1. Shape'
  BY DEF Inv, Shape
<1>2. OthersStay(t)
  BY OnlyOwnStreams
<1>3. Arrives(t)
  BY DEF Arrives, Inv, Shape, FlushersOwnTheirStreams
<1> QED
  BY <1>1, <1>2, <1>3, QuietStep

\* The steps of Submit that write nothing.
LEMMA SubmitKeepsInv ==
    ASSUME Inv, NEW t \in Threads,
           ReadMetadata(t) \/ MetadataFails(t) \/ Render(t) \/ EnterWrite(t) \/ WriteFails(t)
           \/ LeaveWrite(t)
    PROVE  Inv'
<1>1. CASE ReadMetadata(t)
  <2>1. PICK clock : job' = [job EXCEPT ![t].time = UnixMilliseconds(clock), ![t].clock = clock]
    BY <1>1 DEF ReadMetadata
  <2> DEFINE new == [job[t] EXCEPT !.time = UnixMilliseconds(clock), !.clock = clock]
  <2>2. new.stream = job[t].stream /\ DOMAIN new = DOMAIN job[t] /\ job' = [job EXCEPT ![t] = new]
    BY <2>1 DEF Inv, Shape
  <2> HIDE DEF new
  <2>3. pc[t] = "Metadata" /\ pc' = [pc EXCEPT ![t] = "Render"]
        /\ UNCHANGED <<owner, record, fileLock, stdout>>
    BY <1>1 DEF ReadMetadata, Goto, objects
  <2>4. fileLock # t
    BY <2>3, OutsideWrite DEF Inside
  <2> QED
    BY <2>2, <2>3, <2>4, AdvanceKeepsInv DEF SubmitSteps, Inside
<1>2. CASE MetadataFails(t)
  BY <1>2, BackKeepsInv DEF MetadataFails, Inside
<1>3. CASE Render(t)
  <2>1. CASE Back(t)
    BY <1>3, <2>1, BackKeepsInv DEF Render, Inside
  <2>2. CASE ~Back(t)
    <3>1. PICK line : /\ pc[t] = "Render" /\ pc' = [pc EXCEPT ![t] = "Write"]
                      /\ job' = [job EXCEPT ![t].line = line]
                      /\ UNCHANGED <<objects, fileLock, stdout>>
      BY <1>3, <2>2 DEF Render
    <3> DEFINE new == [job[t] EXCEPT !.line = line]
    <3>2. new.stream = job[t].stream /\ DOMAIN new = DOMAIN job[t] /\ job' = [job EXCEPT ![t] = new]
      BY <3>1 DEF Inv, Shape
    <3> HIDE DEF new
    <3>3. fileLock # t
      BY <3>1, OutsideWrite DEF Inside
    <3> QED
      BY <3>1, <3>2, <3>3, AdvanceKeepsInv DEF SubmitSteps, Inside, objects
  <2> QED
    BY <2>1, <2>2
<1>4. CASE EnterWrite(t)
  BY <1>4, AdvanceKeepsInv DEF EnterWrite, Goto, SubmitSteps, Inside, objects
<1>5. CASE WriteFails(t)
  <2>1. fileLock = t
    BY <1>5 DEF WriteFails, Goto, Inv, LockIsExact, Inside
  <2> QED
    BY <1>5, <2>1, AdvanceKeepsInv DEF WriteFails, Goto, SubmitSteps, Inside, objects
<1>6. CASE LeaveWrite(t)
  BY <1>6, BackKeepsInv DEF LeaveWrite, Inside
<1> QED
  BY <1>1, <1>2, <1>3, <1>4, <1>5, <1>6

-----------------------------------------------------------------------------
(* Steps that write *)

\* A sequence that has grown by one, of length n before.
Grows(q, r, n, e) ==
    /\ r # <<>> /\ n \in Nat /\ Len(r) = n + 1 /\ r[n + 1] = e
    /\ \A j \in 1..n : r[j] = q[j]
    /\ q # <<>> => n > 0
    /\ DOMAIN q = 1..n /\ DOMAIN r = 1..(n + 1)

\* What Append does.
LEMMA Appended ==
    ASSUME NEW S, NEW q \in Seq(S), NEW e
    PROVE  Append(q, e) \in Seq(S \cup {e}) /\ Grows(q, Append(q, e), Len(q), e)
<1>1. q \in Seq(S \cup {e})
  OBVIOUS
<1> QED
  BY <1>1 DEF Grows

\* Places in a sequence.
LEMMA Places ==
    ASSUME NEW n \in Nat, NEW j \in 1..(n + 1)
    PROVE  /\ j = n + 1 \/ j \in 1..n
           /\ n > 0 => n \in 1..n
           /\ j = n + 1 => j - 1 = n
           /\ j = n + 1 /\ n > 0 => j > 1
           /\ j \in 1..n => j = n \/ j < n
           /\ j \in 1..n /\ j > 1 => j - 1 \in 1..n
           /\ j < n => j + 1 \in 1..n
           /\ j < n + 1 => j \in 1..n
OBVIOUS

\* The part at j is next to its other part.
Neighbours(q, n, j) ==
    /\ q[j].part = 2 => j > 1 /\ q[j - 1].part = 1 /\ q[j - 1].id = q[j].id
    /\ q[j].part = 1 /\ j < n => q[j + 1].part = 1 \/ q[j + 1].id = q[j].id

\* Records stay together when a first part is appended, or a second part to its
\* first.
LEMMA AppendKeepsNeighbours ==
    ASSUME NEW q, NEW r, NEW n, NEW e, Grows(q, r, n, e),
           e.part = 1 \/ (e.part = 2 /\ n > 0 /\ q[n].part = 1 /\ q[n].id = e.id),
           \A j \in 1..n : Neighbours(q, n, j)
    PROVE  \A j \in 1..(n + 1) : Neighbours(r, n + 1, j)
<1>1. n \in Nat
  BY DEF Grows
<1> SUFFICES ASSUME NEW j \in 1..(n + 1) PROVE Neighbours(r, n + 1, j)
  OBVIOUS
<1>2. CASE j = n + 1
  <2>1. r[j] = e /\ ~(j < n + 1)
    BY <1>1, <1>2 DEF Grows
  <2>2. CASE e.part = 2
    <3>1. j - 1 = n /\ j > 1 /\ n \in 1..n
      BY <1>1, <1>2, <2>2, Places
    <3>2. r[n] = q[n]
      BY <3>1 DEF Grows
    <3> QED
      BY <2>1, <2>2, <3>1, <3>2 DEF Neighbours
  <2> QED
    BY <2>1, <2>2 DEF Neighbours
<1>3. CASE j \in 1..n
  <2>1. r[j] = q[j] /\ Neighbours(q, n, j)
    BY <1>3 DEF Grows
  <2>2. ASSUME r[j].part = 2 PROVE j > 1 /\ r[j - 1].part = 1 /\ r[j - 1].id = r[j].id
    <3>1. j > 1 /\ q[j - 1].part = 1 /\ q[j - 1].id = q[j].id
      BY <2>1, <2>2 DEF Neighbours
    <3>2. j - 1 \in 1..n
      BY <1>1, <1>3, <3>1, Places
    <3>3. r[j - 1] = q[j - 1]
      BY <3>2 DEF Grows
    <3> QED
      BY <2>1, <3>1, <3>3
  <2>3. ASSUME r[j].part = 1 PROVE r[j + 1].part = 1 \/ r[j + 1].id = r[j].id
    <3>1. CASE j = n
      BY <2>1, <2>3, <3>1 DEF Grows
    <3>2. CASE j < n
      <4>1. j + 1 \in 1..n
        BY <1>1, <3>2, Places
      <4>2. r[j + 1] = q[j + 1]
        BY <4>1 DEF Grows
      <4> QED
        BY <2>1, <2>3, <3>2, <4>2 DEF Neighbours
    <3> QED
      BY <1>1, <1>3, <3>1, <3>2, Places
  <2> QED
    BY <2>2, <2>3 DEF Neighbours
<1> QED
  BY <1>1, <1>2, <1>3, Places

\* The thread writes an entry, the i-th part of its record, and moves on.
Writes(t, i, entry, next) ==
    /\ \/ i = 1 /\ pc[t] = "Part 1" /\ next = "Part 2"
       \/ i = 2 /\ pc[t] = "Part 2" /\ next = "Leave"
    /\ entry.part = i /\ entry.id = record[job[t].stream]
    /\ pc' = [pc EXCEPT ![t] = next]
    /\ stdout' = Append(stdout, entry)
    /\ UNCHANGED <<owner, record, job, fileLock>>

\* The thread that writes a part is alone in fwrite.
LEMMA PartKeepsInv ==
    ASSUME Inv, NEW t \in Threads, NEW i \in {1, 2}, NEW entry, NEW next, Writes(t, i, entry, next)
    PROVE  Inv'
<1> DEFINE n == Len(stdout)
<1>1. PICK S : stdout \in Seq(S)
  BY DEF Inv, Shape
<1>2. stdout' \in Seq(S \cup {entry}) /\ Grows(stdout, stdout', n, entry)
  <2>1. stdout' = Append(stdout, entry)
    BY DEF Writes
  <2> QED
    BY <1>1, <2>1, Appended
<1> HIDE DEF n
<1>3. \A u \in Threads \ {t} : pc[u] \notin Inside /\ pc'[u] = pc[u]
  BY DEF Inv, Shape, LockIsExact, Writes, Inside
<1>4. pc'[t] = next
  BY DEF Inv, Shape, Writes
<1>5. Shape'
  BY <1>2 DEF Inv, Shape, Writes, Inside, SubmitSteps
<1>6. LockIsExact'
  BY <1>3, <1>4 DEF Inv, LockIsExact, Writes, Inside
<1>7. FlushersOwnTheirStreams'
  <2>1. pc[t] # "Idle"
    BY DEF Inside, Writes
  <2> QED
    BY <1>3, <2>1 DEF Inv, FlushersOwnTheirStreams, Writes
<1>8. HalfIsLast'
  <2>1. ASSUME NEW u \in Threads, pc'[u] = "Part 2" PROVE u = t /\ entry.part = 1
    BY <1>3, <1>4, <2>1 DEF Inside, Writes
  <2>2. stdout' # <<>> /\ stdout'[Len(stdout')] = entry
    BY <1>2 DEF Grows
  <2> QED
    BY <2>1, <2>2 DEF HalfIsLast, Writes
<1>9. entry.part = 1 \/ (entry.part = 2 /\ n > 0 /\ stdout[n].part = 1 /\ stdout[n].id = entry.id)
  <2>1. CASE pc[t] = "Part 2"
    <3>1. stdout # <<>> /\ stdout[n].part = 1 /\ stdout[n].id = record[job[t].stream]
      BY <2>1 DEF Inv, HalfIsLast, n
    <3>2. n > 0
      BY <1>2, <3>1 DEF Grows
    <3> QED
      BY <2>1, <3>1, <3>2 DEF Writes
  <2> QED
    BY <2>1 DEF Writes
<1>10. \A j \in 1..n : Neighbours(stdout, n, j)
  <2>1. DOMAIN stdout = 1..n
    BY <1>2 DEF Grows
  <2> QED
    BY <2>1 DEF Inv, RecordsDoNotInterleave, Neighbours, n
<1>11. \A j \in 1..(n + 1) : Neighbours(stdout', n + 1, j)
  BY <1>2, <1>9, <1>10, AppendKeepsNeighbours
<1>12. RecordsDoNotInterleave'
  <2>1. DOMAIN stdout' = 1..(n + 1) /\ Len(stdout') = n + 1
    BY <1>2 DEF Grows
  <2> QED
    BY <1>11, <2>1 DEF RecordsDoNotInterleave, Neighbours
<1> QED
  BY <1>5, <1>6, <1>7, <1>8, <1>12 DEF Inv

\* The two parts of a record.
LEMMA WriteKeepsInv ==
    ASSUME Inv, NEW t \in Threads, WritePart(t)
    PROVE  Inv'
<1>1. \A i \in {1, 2} : Part(t, i).part = i /\ Part(t, i).id = record[job[t].stream]
  BY DEF Part
<1>2. \/ pc[t] = "Part 1" /\ pc' = [pc EXCEPT ![t] = "Part 2"] /\ stdout' = Append(stdout, Part(t, 1))
      \/ pc[t] = "Part 2" /\ pc' = [pc EXCEPT ![t] = "Leave"] /\ stdout' = Append(stdout, Part(t, 2))
  BY DEF WritePart, Goto
<1>3. UNCHANGED <<owner, record, job, fileLock>>
  BY DEF WritePart, objects
<1>4. CASE pc[t] = "Part 1"
  <2>1. Writes(t, 1, Part(t, 1), "Part 2")
    <3>1. pc' = [pc EXCEPT ![t] = "Part 2"] /\ stdout' = Append(stdout, Part(t, 1))
      BY <1>2, <1>4
    <3>2. Part(t, 1).part = 1 /\ Part(t, 1).id = record[job[t].stream]
      BY <1>1
    <3> QED
      BY <1>3, <1>4, <3>1, <3>2 DEF Writes
  <2> QED
    BY <2>1, PartKeepsInv
<1>5. CASE pc[t] = "Part 2"
  <2>1. Writes(t, 2, Part(t, 2), "Leave")
    BY <1>1, <1>2, <1>3, <1>5 DEF Writes
  <2> QED
    BY <2>1, PartKeepsInv
<1> QED
  BY <1>2, <1>4, <1>5

\* Every step preserves the invariant.
LEMMA NextInv == Inv /\ [Next]_vars => Inv'
<1> SUFFICES ASSUME Inv, [Next]_vars PROVE Inv'
  OBVIOUS
<1>1. CASE UNCHANGED vars
  BY <1>1 DEF vars, objects, Inv, Shape, LockIsExact, FlushersOwnTheirStreams, HalfIsLast,
     RecordsDoNotInterleave
<1>2. CASE \E t \in Threads : SubmitStep(t)
  BY <1>2, SubmitKeepsInv, WriteKeepsInv DEF SubmitStep
<1>3. CASE \E t \in Threads : \E s \in Streams : Operation(t, s)
  BY <1>3, OperationKeepsInv
<1> QED
  BY <1>1, <1>2, <1>3 DEF Next, Finished

\* AP-R3-LOG-009: for any number of threads, the parts of one record are
\* neighbours on stdout, whatever metadata, buffers and writes fail.
THEOREM RecordsStayTogether == Spec => []RecordsDoNotInterleave
<1>1. Inv => RecordsDoNotInterleave
  BY DEF Inv
<1> QED
  BY <1>1, InitInv, NextInv, PTL DEF Spec

-----------------------------------------------------------------------------
(* What a stream holds after each of its operations *)

\* A LogStream object.
StreamValues ==
    [logger : Loggers \cup {Null}, level : Levels, enabled : BOOLEAN, failed : BOOLEAN,
     size : 0..Capacity, content : Seq(Pieces)]

\* The stream holds the text of these insertions, or has failed because of them.
Holds(st, pieces) ==
    /\ st.enabled = IsEnabled(st.logger, st.level)
    /\ st.enabled /\ ~st.failed =>
         st.size = Bytes(pieces) /\ st.content = TextOf(pieces) /\ NoText \notin ToSet(pieces)
    /\ st.failed => NoText \in ToSet(pieces) \/ Bytes(pieces) > Capacity

\* One more piece: the bytes, the text and the set of what was inserted.
LEMMA OneMorePiece ==
    ASSUME NEW pieces \in Seq(Pieces), NEW piece \in Pieces
    PROVE  /\ Append(pieces, piece) \in Seq(Pieces)
           /\ Bytes(pieces) \in Nat /\ Bytes(Append(pieces, piece)) = Bytes(pieces) + piece.size
           /\ TextOf(pieces) \in Seq(Pieces)
           /\ TextOf(Append(pieces, piece)) =
                IF piece.size = 0 THEN TextOf(pieces) ELSE Append(TextOf(pieces), piece)
           /\ ToSet(Append(pieces, piece)) = ToSet(pieces) \cup {piece}
<1>1. Bytes(pieces) \in Nat /\ Bytes(Append(pieces, piece)) = Bytes(pieces) + piece.size
  BY BytesOfText, PiecesAssumption
<1>2. /\ TextOf(pieces) \in Seq(Pieces)
      /\ TextOf(Append(pieces, piece)) =
           IF piece.size = 0 THEN TextOf(pieces) ELSE Append(TextOf(pieces), piece)
  BY TextOfPieces DEF WithPiece
<1>3. ToSet(Append(pieces, piece)) = ToSet(pieces) \cup {piece}
  <2> DEFINE n == Len(pieces)
  <2> DEFINE t == Append(pieces, piece)
  <2>1. n \in Nat /\ DOMAIN pieces = 1..n /\ DOMAIN t = 1..(n + 1)
        /\ t[n + 1] = piece /\ \A i \in 1..n : t[i] = pieces[i]
    OBVIOUS
  <2> HIDE DEF t, n
  <2>2. \A i : i \in 1..(n + 1) <=> i \in 1..n \/ i = n + 1
    BY <2>1
  <2>3. ToSet(t) = ToSet(pieces) \cup {piece}
    BY <2>1, <2>2 DEF ToSet
  <2> QED
    BY <2>3 DEF t
<1> QED
  BY <1>1, <1>2, <1>3

\* No pieces.
LEMMA NoPieces ==
    <<>> \in Seq(Pieces) /\ Bytes(<<>>) = 0 /\ TextOf(<<>>) = <<>> /\ ToSet(<<>>) = {}
<1>1. Bytes(<<>>) = 0
  BY BytesOfText, PiecesAssumption
<1>2. TextOf(<<>>) = <<>>
  BY TextOfPieces
<1> QED
  BY <1>1, <1>2 DEF ToSet

\* A new stream.
LEMMA NewStreamHolds ==
    ASSUME NEW logger \in Loggers, NEW level \in Levels
    PROVE  /\ WithLevel(logger, level) \in StreamValues
           /\ WithLevel(logger, level).logger # Null
           /\ Holds(WithLevel(logger, level), <<>>)
<1>1. IsEnabled(logger, level) \in BOOLEAN
  BY DEF IsEnabled
<1> QED
  BY <1>1, NoPieces, LoggersAssumption, CapacityAssumption DEF WithLevel, StreamValues, Holds

\* An insertion.
LEMMA InsertHolds ==
    ASSUME NEW st \in StreamValues, NEW piece \in Pieces, NEW pieces \in Seq(Pieces)
    PROVE  /\ Insert(st, piece) \in StreamValues
           /\ Insert(st, piece).logger = st.logger /\ Insert(st, piece).level = st.level
           /\ st.logger # Null /\ Holds(st, pieces) =>
                Holds(Insert(st, piece), Append(pieces, piece))
<1> DEFINE more == Append(pieces, piece)
<1> DEFINE failed == [st EXCEPT !.failed = TRUE]
<1> DEFINE longer == [st EXCEPT !.size = @ + piece.size, !.content = Append(@, piece)]
<1>1. piece.size \in Nat
  BY PiecesAssumption
<1>2. /\ failed \in StreamValues /\ failed.failed
      /\ failed.logger = st.logger /\ failed.level = st.level /\ failed.enabled = st.enabled
      /\ failed.size = st.size /\ failed.content = st.content
  BY DEF StreamValues
<1>3. ~(piece.size > Capacity - st.size) =>
        /\ longer \in StreamValues /\ longer.failed = st.failed
        /\ longer.logger = st.logger /\ longer.level = st.level /\ longer.enabled = st.enabled
        /\ longer.size = st.size + piece.size /\ longer.content = Append(st.content, piece)
  <2>1. st.size \in 0..Capacity /\ st.content \in Seq(Pieces)
    BY DEF StreamValues
  <2>2. ~(piece.size > Capacity - st.size) => st.size + piece.size \in 0..Capacity
    BY <1>1, <2>1, CapacityAssumption
  <2>3. Append(st.content, piece) \in Seq(Pieces)
    BY <2>1
  <2> QED
    BY <2>1, <2>2, <2>3 DEF StreamValues
<1> HIDE DEF failed, longer
<1>4. Insert(st, piece) \in {st, failed, longer}
      /\ (Insert(st, piece) = longer =>
             ~(piece.size > Capacity - st.size) \/ longer = failed \/ longer = st)
  BY DEF Insert, failed, longer
<1>5. Insert(st, piece) \in StreamValues
      /\ Insert(st, piece).logger = st.logger /\ Insert(st, piece).level = st.level
  BY <1>2, <1>3, <1>4
<1>6. ASSUME st.logger # Null, Holds(st, pieces) PROVE Holds(Insert(st, piece), more)
  <2>1. /\ Bytes(pieces) \in Nat /\ Bytes(more) = Bytes(pieces) + piece.size
        /\ TextOf(more) = IF piece.size = 0 THEN TextOf(pieces) ELSE Append(TextOf(pieces), piece)
        /\ ToSet(more) = ToSet(pieces) \cup {piece}
    BY OneMorePiece
  <2> HIDE DEF more
  <2>2. CASE ~Accumulates(st)
    <3>1. Insert(st, piece) = st /\ ~(st.enabled /\ ~st.failed)
      BY <1>6, <2>2 DEF Insert, Accumulates
    <3>2. Bytes(more) > Capacity \/ ~(Bytes(pieces) > Capacity)
      BY <1>1, <2>1, CapacityAssumption
    <3> QED
      BY <1>6, <2>1, <3>1, <3>2 DEF Holds
  <2>3. CASE Accumulates(st)
    <3>1. /\ st.enabled /\ ~st.failed /\ st.size = Bytes(pieces) /\ st.content = TextOf(pieces)
          /\ NoText \notin ToSet(pieces) /\ st.enabled = IsEnabled(st.logger, st.level)
      BY <1>6, <2>3 DEF Holds, Accumulates
    <3>2. CASE piece = NoText
      <4>1. Insert(st, piece) = failed
        BY <2>3, <3>2 DEF Insert, failed
      <4> QED
        BY <1>2, <2>1, <3>1, <3>2, <4>1 DEF Holds
    <3>3. CASE piece # NoText /\ piece.size = 0
      <4>1. Insert(st, piece) = st
        BY <2>3, <3>3 DEF Insert
      <4> QED
        BY <2>1, <3>1, <3>3, <4>1 DEF Holds
    <3>4. CASE piece # NoText /\ piece.size # 0 /\ piece.size > Capacity - st.size
      <4>1. Insert(st, piece) = failed
        BY <2>3, <3>4 DEF Insert, failed
      <4>2. Bytes(more) > Capacity
        BY <1>1, <2>1, <3>1, <3>4, CapacityAssumption
      <4> QED
        BY <1>2, <3>1, <4>1, <4>2 DEF Holds
    <3>5. CASE piece # NoText /\ piece.size # 0 /\ ~(piece.size > Capacity - st.size)
      <4>1. Insert(st, piece) = longer
        BY <2>3, <3>5 DEF Insert, longer
      <4> QED
        BY <1>3, <2>1, <3>1, <3>5, <4>1 DEF Holds
    <3> QED
      BY <3>2, <3>3, <3>4, <3>5
  <2> QED
    BY <2>2, <2>3
<1> QED
  BY <1>5, <1>6

\* What a move leaves behind, and what Flush leaves.
LEMMA LeftoverHolds ==
    ASSUME NEW st \in StreamValues
    PROVE  /\ MovedFrom(st) \in StreamValues /\ MovedFrom(st).logger = Null
           /\ Reset(st) \in StreamValues
           /\ Reset(st).logger = st.logger /\ Reset(st).level = st.level
           /\ \A pieces : Holds(st, pieces) => Holds(Reset(st), <<>>)
<1>1. 0 \in 0..Capacity /\ <<>> \in Seq(Pieces)
  BY CapacityAssumption
<1>2. MovedFrom(st) \in StreamValues /\ MovedFrom(st).logger = Null
  BY <1>1 DEF MovedFrom, StreamValues
<1>3. /\ Reset(st) \in StreamValues
      /\ Reset(st).logger = st.logger /\ Reset(st).level = st.level
      /\ Reset(st).enabled = st.enabled /\ ~Reset(st).failed
      /\ Reset(st).size = 0 /\ Reset(st).content = <<>>
  BY <1>1 DEF Reset, StreamValues
<1> QED
  BY <1>2, <1>3, NoPieces DEF Holds

\* A stream that holds its record submits it if it may be logged, and then holds
\* its text.
LEMMA SubmitsExactly ==
    ASSUME NEW st \in StreamValues, NEW pieces \in Seq(Pieces), st.logger # Null, Holds(st, pieces)
    PROVE  /\ Submits(st) <=> IsEmittable(st.logger, st.level, pieces)
           /\ Submits(st) => st.content = TextOf(pieces)
<1>1. Bytes(pieces) \in Nat
  BY BytesOfText, PiecesAssumption
<1>2. st.size \in 0..Capacity /\ st.enabled \in BOOLEAN /\ st.failed \in BOOLEAN
  BY DEF StreamValues
<1>3. Submits(st) <=> st.enabled /\ ~st.failed /\ st.size # 0
  BY DEF Submits, Accumulates
<1>4. CASE st.enabled /\ ~st.failed
  <2>1. st.size = Bytes(pieces) /\ st.content = TextOf(pieces) /\ NoText \notin ToSet(pieces)
        /\ IsEnabled(st.logger, st.level)
    BY <1>4 DEF Holds
  <2>2. st.size # 0 <=> Bytes(pieces) \in 1..Capacity
    BY <1>1, <1>2, <2>1, CapacityAssumption
  <2> QED
    BY <1>3, <1>4, <2>1, <2>2 DEF IsEmittable
<1>5. CASE ~st.enabled
  BY <1>3, <1>5 DEF Holds, IsEmittable
<1>6. CASE st.failed
  <2>1. NoText \in ToSet(pieces) \/ Bytes(pieces) > Capacity
    BY <1>6 DEF Holds
  <2>2. Bytes(pieces) > Capacity => Bytes(pieces) \notin 1..Capacity
    BY <1>1, CapacityAssumption
  <2> QED
    BY <1>3, <1>6, <2>1, <2>2 DEF IsEmittable
<1> QED
  BY <1>4, <1>5, <1>6

-----------------------------------------------------------------------------
(* Every stream holds exactly its record *)

\* What is known of one place: nothing lives there, or a stream that holds its
\* record, or one that has been moved from.
PlaceHolds(o, st, pieces, rec, n) ==
    IF o = Null THEN st = Null /\ rec = 0
    ELSE /\ st \in StreamValues /\ pieces \in Seq(Pieces)
         /\ IF st.logger = Null THEN rec = 0 ELSE rec \in 1..n /\ Holds(st, pieces)

\* Every stream holds exactly the text of its record.
StreamsHold ==
    /\ begun \in Nat
    /\ DOMAIN stream = Streams /\ DOMAIN inserted = Streams
    /\ record = [s \in Streams |-> record[s]]
    /\ \A s \in Streams : PlaceHolds(owner[s], stream[s], inserted[s], record[s], begun)

\* Two streams never hold the same record.
RecordsAreDistinct ==
    \A r, s \in Streams : record[r] = record[s] /\ record[r] # 0 => r = s

\* A record in Flush is one that may be logged.
FlushersSubmit == \A t \in Threads : pc[t] # "Idle" => Submits(stream[job[t].stream])

\* What is known of a thread's job whatever it does.
JobIsTyped(j) ==
    /\ j.stream \in Streams \cup {Null}
    /\ j.destroy \in BOOLEAN
    /\ j.time \in MinInteger..MaxInteger
    /\ j.clock \in Clocks \cup {NoClock}
    /\ Bytes(j.line) <= RecordCapacity

JobsAreTyped ==
    /\ \A t \in Threads : JobIsTyped(job[t])
    /\ fileLock \in Threads \cup {Null}

StreamInv == Inv /\ StreamsHold /\ RecordsAreDistinct /\ FlushersSubmit /\ JobsAreTyped

\* A place keeps its record when more records have been begun.
LEMMA PlaceKeeps ==
    ASSUME NEW o, NEW st, NEW pieces, NEW rec, NEW n \in Nat, NEW m \in Nat, n <= m,
           PlaceHolds(o, st, pieces, rec, n)
    PROVE  PlaceHolds(o, st, pieces, rec, m)
BY DEF PlaceHolds

\* Begin a stream.
LEMMA CreateHolds ==
    ASSUME StreamInv, NEW t \in Threads, NEW s \in Streams, NEW logger \in Loggers,
           NEW level \in Levels,
           Create(t, s, logger, level)
    PROVE  StreamsHold' /\ RecordsAreDistinct'
<1> DEFINE new == WithLevel(logger, level)
<1>1. /\ new \in StreamValues /\ new.logger # Null /\ Holds(new, <<>>)
  BY NewStreamHolds
<1> HIDE DEF new
<1>2. /\ begun \in Nat /\ begun' = begun + 1
      /\ DOMAIN stream = Streams /\ DOMAIN inserted = Streams /\ DOMAIN owner = Streams
      /\ DOMAIN record = Streams
      /\ stream' = [stream EXCEPT ![s] = new] /\ owner' = [owner EXCEPT ![s] = t]
      /\ record' = [record EXCEPT ![s] = begun'] /\ inserted' = [inserted EXCEPT ![s] = <<>>]
  BY DEF StreamInv, StreamsHold, Inv, Shape, Create, new
<1>3. \A r \in Streams : PlaceHolds(owner[r], stream[r], inserted[r], record[r], begun)
  BY DEF StreamInv, StreamsHold
<1>4. ASSUME NEW r \in Streams
      PROVE  PlaceHolds(owner'[r], stream'[r], inserted'[r], record'[r], begun')
  <2>1. CASE r = s
    <3>1. /\ owner'[r] = t /\ stream'[r] = new /\ inserted'[r] = <<>> /\ record'[r] = begun'
          /\ begun' \in 1..begun'
      BY <1>2, <2>1
    <3>2. t # Null /\ <<>> \in Seq(Pieces)
      BY ThreadsAssumption
    <3> QED
      BY <1>1, <3>1, <3>2 DEF PlaceHolds
  <2>2. CASE r # s
    <3>1. /\ owner'[r] = owner[r] /\ stream'[r] = stream[r] /\ inserted'[r] = inserted[r]
          /\ record'[r] = record[r]
      BY <1>2, <2>2
    <3>2. begun' \in Nat /\ begun <= begun'
      BY <1>2
    <3> QED
      BY <1>2, <1>3, <3>1, <3>2, PlaceKeeps
  <2> QED
    BY <2>1, <2>2
<1>5. StreamsHold'
  <2>1. begun' \in Nat /\ DOMAIN stream' = Streams /\ DOMAIN inserted' = Streams
    BY <1>2
  <2>2. record' = [r \in Streams |-> record'[r]]
    BY <1>2, Zenon
  <2> QED
    BY <1>4, <2>1, <2>2 DEF StreamsHold
<1>6. \A r \in Streams : record[r] \in 0..begun
  BY <1>2, <1>3 DEF PlaceHolds
<1>7. RecordsAreDistinct'
  BY <1>2, <1>6 DEF StreamInv, RecordsAreDistinct
<1> QED
  BY <1>5, <1>7

\* Insert a piece.
LEMMA InsertKeeps ==
    ASSUME StreamInv, NEW t \in Threads, NEW s \in Streams, NEW piece \in Pieces,
           InsertPiece(t, s, piece)
    PROVE  StreamsHold' /\ RecordsAreDistinct'
<1> DEFINE new == Insert(stream[s], piece)
<1> DEFINE more == Append(inserted[s], piece)
<1>1. /\ DOMAIN stream = Streams /\ DOMAIN inserted = Streams /\ begun \in Nat
      /\ stream' = [stream EXCEPT ![s] = new] /\ inserted' = [inserted EXCEPT ![s] = more]
      /\ UNCHANGED <<owner, record, begun>> /\ owner[s] = t
  BY DEF StreamInv, StreamsHold, InsertPiece, Owns
<1>2. \A r \in Streams : PlaceHolds(owner[r], stream[r], inserted[r], record[r], begun)
  BY DEF StreamInv, StreamsHold
<1>3. PlaceHolds(owner[s], new, more, record[s], begun)
  <2>1. /\ owner[s] # Null /\ stream[s] \in StreamValues /\ inserted[s] \in Seq(Pieces)
        /\ IF stream[s].logger = Null THEN record[s] = 0
           ELSE record[s] \in 1..begun /\ Holds(stream[s], inserted[s])
    BY <1>1, <1>2, ThreadsAssumption DEF PlaceHolds
  <2>2. /\ new \in StreamValues /\ new.logger = stream[s].logger
        /\ stream[s].logger # Null /\ Holds(stream[s], inserted[s]) => Holds(new, more)
    BY <2>1, InsertHolds
  <2>3. more \in Seq(Pieces)
    BY <2>1
  <2> HIDE DEF new, more
  <2> QED
    BY <2>1, <2>2, <2>3 DEF PlaceHolds
<1> HIDE DEF new, more
<1>4. \A r \in Streams : PlaceHolds(owner'[r], stream'[r], inserted'[r], record'[r], begun')
  BY <1>1, <1>2, <1>3
<1> QED
  BY <1>1, <1>4 DEF StreamsHold, StreamInv, RecordsAreDistinct

\* Move a stream.
LEMMA MoveKeeps ==
    ASSUME StreamInv, NEW t \in Threads, NEW s \in Streams, NEW to \in Streams,
           NEW receiver \in Threads,
           Move(t, s, to, receiver)
    PROVE  StreamsHold' /\ RecordsAreDistinct'
<1> DEFINE left == MovedFrom(stream[s])
<1>1. \A r \in Streams : PlaceHolds(owner[r], stream[r], inserted[r], record[r], begun)
  BY DEF StreamInv, StreamsHold
<1>2. owner[s] = t /\ owner[to] = Null /\ t # Null /\ s # to /\ receiver # Null
      /\ stream[s].logger # Null
  BY ThreadsAssumption DEF Move, Owns, IsFree
<1>3. /\ stream[s] \in StreamValues /\ inserted[s] \in Seq(Pieces)
      /\ record[s] \in 1..begun /\ Holds(stream[s], inserted[s]) /\ record[to] = 0
  BY <1>1, <1>2 DEF PlaceHolds
<1>4. left \in StreamValues /\ left.logger = Null
  BY <1>3, LeftoverHolds
<1>5. /\ DOMAIN stream = Streams /\ DOMAIN inserted = Streams /\ DOMAIN owner = Streams
      /\ DOMAIN record = Streams /\ begun \in Nat /\ begun' = begun
      /\ stream' = [stream EXCEPT ![to] = stream[s], ![s] = left]
      /\ owner' = [owner EXCEPT ![to] = receiver]
      /\ record' = [record EXCEPT ![to] = record[s], ![s] = 0]
      /\ inserted' = [inserted EXCEPT ![to] = inserted[s], ![s] = <<>>]
  BY DEF StreamInv, StreamsHold, Inv, Shape, Move
<1> HIDE DEF left
<1>6. ASSUME NEW r \in Streams
      PROVE  PlaceHolds(owner'[r], stream'[r], inserted'[r], record'[r], begun')
  <2>1. CASE r = s
    <3>1. owner'[r] = t /\ stream'[r] = left /\ inserted'[r] = <<>> /\ record'[r] = 0
      BY <1>2, <1>5, <2>1
    <3>2. <<>> \in Seq(Pieces)
      OBVIOUS
    <3> QED
      BY <1>2, <1>4, <3>1, <3>2 DEF PlaceHolds
  <2>2. CASE r = to
    <3>1. /\ owner'[r] = receiver /\ stream'[r] = stream[s] /\ inserted'[r] = inserted[s]
          /\ record'[r] = record[s]
      BY <1>2, <1>5, <2>2
    <3> QED
      BY <1>2, <1>3, <1>5, <3>1 DEF PlaceHolds
  <2>3. CASE r # s /\ r # to
    BY <1>1, <1>5, <2>3
  <2> QED
    BY <2>1, <2>2, <2>3
<1>7. StreamsHold'
  <2>1. begun' \in Nat /\ DOMAIN stream' = Streams /\ DOMAIN inserted' = Streams
        /\ record' = [r \in Streams |-> record'[r]]
    BY <1>5
  <2> QED
    BY <1>6, <2>1 DEF StreamsHold
<1>8. RecordsAreDistinct'
  BY <1>2, <1>3, <1>5 DEF StreamInv, RecordsAreDistinct
<1> QED
  BY <1>7, <1>8

\* The end of Flush, and of a destructor.
LEMMA FinishKeeps ==
    ASSUME StreamInv, NEW t \in Threads, NEW s \in Streams, NEW destroy \in BOOLEAN,
           owner[s] = t, destroy \/ stream[s].logger # Null, Finish(t, s, destroy)
    PROVE  StreamsHold' /\ RecordsAreDistinct'
<1>1. \A r \in Streams : PlaceHolds(owner[r], stream[r], inserted[r], record[r], begun)
  BY DEF StreamInv, StreamsHold
<1>2. /\ stream[s] \in StreamValues /\ inserted[s] \in Seq(Pieces) /\ t # Null
      /\ stream[s].logger # Null => Holds(stream[s], inserted[s])
  BY <1>1, ThreadsAssumption DEF PlaceHolds
<1> DEFINE left == Reset(stream[s])
<1>3. left \in StreamValues /\ left.logger = stream[s].logger
      /\ (stream[s].logger # Null => Holds(left, <<>>))
  BY <1>2, LeftoverHolds
<1>4. /\ DOMAIN stream = Streams /\ DOMAIN inserted = Streams /\ DOMAIN owner = Streams
      /\ DOMAIN record = Streams /\ begun \in Nat
      /\ stream' = [stream EXCEPT ![s] = IF destroy THEN Null ELSE left]
      /\ owner' = [owner EXCEPT ![s] = IF destroy THEN Null ELSE @]
      /\ begun' = (IF destroy THEN begun ELSE begun + 1)
      /\ record' = [record EXCEPT ![s] = IF destroy THEN 0 ELSE begun']
      /\ inserted' = [inserted EXCEPT ![s] = <<>>]
  BY DEF StreamInv, StreamsHold, Inv, Shape, Finish
<1> HIDE DEF left
<1>5. begun' \in Nat /\ begun <= begun' /\ (~destroy => begun' \in 1..begun' /\ begun' = begun + 1)
  BY <1>4
<1>6. ASSUME NEW r \in Streams
      PROVE  PlaceHolds(owner'[r], stream'[r], inserted'[r], record'[r], begun')
  <2>1. CASE r = s /\ destroy
    <3>1. owner'[r] = Null /\ stream'[r] = Null /\ record'[r] = 0
      BY <1>4, <2>1
    <3> QED
      BY <3>1 DEF PlaceHolds
  <2>2. CASE r = s /\ ~destroy
    <3>1. owner'[r] = t /\ stream'[r] = left /\ inserted'[r] = <<>> /\ record'[r] = begun'
      BY <1>4, <2>2
    <3>2. <<>> \in Seq(Pieces)
      OBVIOUS
    <3> QED
      BY <1>2, <1>3, <1>5, <2>2, <3>1, <3>2 DEF PlaceHolds
  <2>3. CASE r # s
    <3>1. /\ owner'[r] = owner[r] /\ stream'[r] = stream[r] /\ inserted'[r] = inserted[r]
          /\ record'[r] = record[r]
      BY <1>4, <2>3
    <3> QED
      BY <1>1, <1>4, <1>5, <3>1, PlaceKeeps
  <2> QED
    BY <2>1, <2>2, <2>3
<1>7. StreamsHold'
  <2>1. DOMAIN stream' = Streams /\ DOMAIN inserted' = Streams
        /\ record' = [r \in Streams |-> record'[r]]
    BY <1>4
  <2> QED
    BY <1>5, <1>6, <2>1 DEF StreamsHold
<1>8. RecordsAreDistinct'
  <2>1. \A r \in Streams : record[r] \in 0..begun
    BY <1>1, <1>4 DEF PlaceHolds
  <2>2. \A r \in Streams : r # s => record'[r] = record[r] /\ record'[r] # begun + 1
    BY <1>4, <2>1
  <2>3. record'[s] = 0 \/ record'[s] = begun + 1
    BY <1>4, <1>5
  <2> QED
    BY <2>2, <2>3 DEF StreamInv, RecordsAreDistinct
<1> QED
  BY <1>7, <1>8

-----------------------------------------------------------------------------
(* Types, and the steps of a thread *)

\* Wrapped integers are in range.
LEMMA WrappedInRange ==
    ASSUME NEW a \in Int
    PROVE  Wrapped(a) \in MinInteger..MaxInteger
<1> DEFINE m == MaxInteger - MinInteger + 1
<1>1. m \in Nat \ {0} /\ MinInteger \in Int /\ MaxInteger \in Int /\ m = MaxInteger - MinInteger + 1
  BY IntegersAssumption
<1> HIDE DEF m
<1>2. (a - MinInteger) % m \in 0..(m - 1)
  BY <1>1
<1>3. Wrapped(a) = MinInteger + ((a - MinInteger) % m)
  BY DEF Wrapped, m
<1> QED
  BY <1>1, <1>2, <1>3

\* A time read is in range.
LEMMA TimeInRange ==
    ASSUME NEW clock \in Clocks
    PROVE  UnixMilliseconds(clock) \in MinInteger..MaxInteger
<1>1. clock.second \in Int /\ clock.ms \in Int /\ MsPerSecond \in Int
  BY ClocksAssumption, IntegersAssumption
<1>2. clock.second * MsPerSecond \in Int
  BY <1>1
<1>3. Wrapped(clock.second * MsPerSecond) \in Int
  BY <1>2, WrappedInRange, IntegersAssumption
<1>4. Wrapped(clock.second * MsPerSecond) + clock.ms \in Int
  BY <1>1, <1>3
<1> QED
  BY <1>4, WrappedInRange DEF UnixMilliseconds

\* No job.
LEMMA NoJobIsTyped == JobIsTyped(NoJob)
<1>1. Bytes(NoLine) = 0
  BY NoPieces DEF NoLine
<1>2. 0 \in MinInteger..MaxInteger
  BY IntegersAssumption
<1> QED
  BY <1>1, <1>2, RecordCapacityAssumption DEF JobIsTyped, NoJob

\* A thread that goes on in Flush with a record that may be logged.
Proceeds(t) ==
    \E step \in SubmitSteps : \E new :
        /\ pc[t] # "Leave" /\ UNCHANGED objects
        /\ pc' = [pc EXCEPT ![t] = step]
        /\ job' = [job EXCEPT ![t] = new] \/ (job' = job /\ new = job[t])
        /\ JobIsTyped(new) /\ Submits(stream[new.stream]) /\ owner[new.stream] = t

\* The end of Flush or of a destructor.
Finishes(t) ==
    \E s \in Streams, destroy \in BOOLEAN :
        /\ owner[s] = t /\ (destroy \/ stream[s].logger # Null)
        /\ pc[t] = "Idle" \/ s = job[t].stream
        /\ Finish(t, s, destroy)

\* The application does something to its streams.
Operates(t) ==
    \E s \in Streams :
        \/ \E logger \in Loggers, level \in Levels : Create(t, s, logger, level)
        \/ \E piece \in Pieces : InsertPiece(t, s, piece)
        \/ \E to \in Streams, receiver \in Threads : Move(t, s, to, receiver)

\* A thread in Flush owns its stream and will finish it.
LEMMA InFlush ==
    ASSUME StreamInv, NEW t \in Threads, pc[t] # "Idle"
    PROVE  /\ job[t].stream \in Streams /\ owner[job[t].stream] = t
           /\ Submits(Current(t)) /\ JobIsTyped(job[t])
           /\ Back(t) => Finishes(t)
<1>1. job[t].stream \in Streams /\ owner[job[t].stream] = t
  BY DEF StreamInv, Inv, FlushersOwnTheirStreams
<1>2. Submits(Current(t)) /\ JobIsTyped(job[t])
  BY DEF StreamInv, FlushersSubmit, JobsAreTyped, Current
<1>3. stream[job[t].stream].logger # Null /\ job[t].destroy \in BOOLEAN
  BY <1>2 DEF Submits, Accumulates, Current, JobIsTyped
<1> QED
  BY <1>1, <1>2, <1>3 DEF Back, Finishes

\* What every step is.
LEMMA StepKinds ==
    ASSUME StreamInv, NEW t \in Threads, SubmitStep(t) \/ \E s \in Streams : Operation(t, s)
    PROVE  Proceeds(t) \/ Finishes(t) \/ Operates(t)
<1>1. ASSUME NEW s \in Streams, Operation(t, s) PROVE Proceeds(t) \/ Finishes(t) \/ Operates(t)
  <2>1. ASSUME NEW destroy \in BOOLEAN, BeginSubmit(t, s, destroy) PROVE Proceeds(t)
    <3> DEFINE new == [job[t] EXCEPT !.stream = s, !.destroy = destroy]
    <3>1. /\ pc[t] # "Leave" /\ pc' = [pc EXCEPT ![t] = "Metadata"] /\ job' = [job EXCEPT ![t] = new]
          /\ UNCHANGED objects /\ owner[s] = t /\ Submits(stream[s])
      BY <2>1 DEF BeginSubmit, MayFlush, Owns
    <3>2. /\ new.stream = s /\ new.destroy = destroy /\ new.time = job[t].time
          /\ new.clock = job[t].clock /\ new.line = job[t].line
      BY DEF StreamInv, Inv, Shape
    <3> HIDE DEF new
    <3>3. JobIsTyped(new)
      BY <3>2 DEF StreamInv, JobsAreTyped, JobIsTyped
    <3>4. "Metadata" \in SubmitSteps
      BY DEF SubmitSteps
    <3> QED
      BY <3>1, <3>2, <3>3, <3>4 DEF Proceeds
  <2>2. ASSUME NEW destroy \in BOOLEAN, FlushNothing(t, s, destroy) PROVE Finishes(t)
    BY <2>2 DEF FlushNothing, MayFlush, Owns, Finishes
  <2> QED
    BY <1>1, <2>1, <2>2 DEF Operation, Operates
<1>2. ASSUME NEW step \in SubmitSteps, NEW new, pc[t] \notin {"Idle", "Leave"},
             pc' = [pc EXCEPT ![t] = step], UNCHANGED objects,
             job' = [job EXCEPT ![t] = new] \/ (job' = job /\ new = job[t]),
             new.stream = job[t].stream, JobIsTyped(new)
      PROVE  Proceeds(t)
  <2>1. Submits(stream[new.stream]) /\ owner[new.stream] = t
    BY <1>2, InFlush DEF Current
  <2> QED
    BY <1>2, <2>1 DEF Proceeds
<1>3. ASSUME NEW step \in SubmitSteps, pc[t] \notin {"Idle", "Leave"},
             pc' = [pc EXCEPT ![t] = step], UNCHANGED <<objects, job>>
      PROVE  Proceeds(t)
  <2>1. JobIsTyped(job[t])
    BY DEF StreamInv, JobsAreTyped
  <2> QED
    BY <1>2, <1>3, <2>1
<1>4. CASE ReadMetadata(t)
  <2>1. PICK clock \in Clocks :
          job' = [job EXCEPT ![t].time = UnixMilliseconds(clock), ![t].clock = clock]
    BY <1>4 DEF ReadMetadata
  <2> DEFINE new == [job[t] EXCEPT !.time = UnixMilliseconds(clock), !.clock = clock]
  <2>2. /\ new.stream = job[t].stream /\ new.destroy = job[t].destroy /\ new.line = job[t].line
        /\ new.time = UnixMilliseconds(clock) /\ new.clock = clock
        /\ job' = [job EXCEPT ![t] = new]
    BY <2>1 DEF StreamInv, Inv, Shape
  <2> HIDE DEF new
  <2>3. JobIsTyped(new)
    BY <2>2, TimeInRange DEF StreamInv, JobsAreTyped, JobIsTyped
  <2>4. /\ pc[t] = "Metadata" /\ pc' = [pc EXCEPT ![t] = "Render"] /\ UNCHANGED objects
        /\ "Render" \in SubmitSteps
    BY <1>4 DEF ReadMetadata, Goto, SubmitSteps
  <2> QED
    BY <1>2, <2>2, <2>3, <2>4
<1>5. CASE Back(t) /\ pc[t] # "Idle"
  BY <1>5, InFlush
<1>6. CASE Render(t) /\ ~Back(t)
  <2> DEFINE line == RenderConsoleRecord(job[t].time, Text(t))
  <2> DEFINE new == [job[t] EXCEPT !.line = line]
  <2>1. /\ pc[t] = "Render" /\ line # NoLine
        /\ pc' = [pc EXCEPT ![t] = "Write"] /\ job' = [job EXCEPT ![t].line = line]
        /\ UNCHANGED objects /\ "Write" \in SubmitSteps
    BY <1>6 DEF Render, SubmitSteps
  <2>2. Bytes(line) <= RecordCapacity
    BY <2>1 DEF RenderConsoleRecord
  <2> HIDE DEF line
  <2>3. /\ new.stream = job[t].stream /\ new.destroy = job[t].destroy /\ new.line = line
        /\ new.time = job[t].time /\ new.clock = job[t].clock
        /\ job' = [job EXCEPT ![t] = new]
    BY <2>1 DEF StreamInv, Inv, Shape
  <2> HIDE DEF new
  <2>4. JobIsTyped(new)
    BY <2>2, <2>3 DEF StreamInv, JobsAreTyped, JobIsTyped
  <2> QED
    BY <1>2, <2>1, <2>3, <2>4
<1>7. CASE EnterWrite(t) \/ WritePart(t) \/ WriteFails(t)
  <2>1. PICK step \in {"Part 1", "Part 2", "Leave"} :
          pc[t] \notin {"Idle", "Leave"} /\ pc' = [pc EXCEPT ![t] = step]
          /\ UNCHANGED <<objects, job>>
    BY <1>7 DEF EnterWrite, WritePart, WriteFails, Goto
  <2> QED
    BY <1>3, <2>1 DEF SubmitSteps
<1> QED
  BY <1>1, <1>4, <1>5, <1>6, <1>7 DEF SubmitStep, MetadataFails, Render, LeaveWrite

\* Steps of a thread leave the streams of other threads as they are.
LEMMA OtherStreamsStay ==
    ASSUME StreamInv, NEW t \in Threads, Proceeds(t) \/ Finishes(t) \/ Operates(t),
           NEW r \in Streams, owner[r] \notin {t, Null}
    PROVE  /\ stream'[r] = stream[r] /\ owner'[r] = owner[r] /\ record'[r] = record[r]
           /\ inserted'[r] = inserted[r]
<1>1. /\ DOMAIN stream = Streams /\ DOMAIN inserted = Streams /\ DOMAIN owner = Streams
      /\ DOMAIN record = Streams
  BY DEF StreamInv, StreamsHold, Inv, Shape
<1>2. CASE Proceeds(t)
  BY <1>2 DEF Proceeds, objects
<1>3. CASE Finishes(t)
  BY <1>1, <1>3 DEF Finishes, Finish
<1>4. CASE Operates(t)
  <2>1. PICK s \in Streams :
          \/ \E logger \in Loggers, level \in Levels : Create(t, s, logger, level)
          \/ \E piece \in Pieces : InsertPiece(t, s, piece)
          \/ \E to \in Streams, receiver \in Threads : Move(t, s, to, receiver)
    BY <1>4 DEF Operates
  <2>2. CASE \E logger \in Loggers, level \in Levels : Create(t, s, logger, level)
    BY <1>1, <2>2 DEF Create, IsFree
  <2>3. CASE \E piece \in Pieces : InsertPiece(t, s, piece)
    BY <1>1, <2>3 DEF InsertPiece, Owns
  <2>4. CASE \E to \in Streams, receiver \in Threads : Move(t, s, to, receiver)
    <3>1. PICK to \in Streams, receiver \in Threads : Move(t, s, to, receiver)
      BY <2>4
    <3>2. r # s /\ r # to
      BY <3>1 DEF Move, Owns, IsFree
    <3> QED
      BY <1>1, <3>1, <3>2 DEF Move
  <2> QED
    BY <2>1, <2>2, <2>3, <2>4
<1> QED
  BY <1>2, <1>3, <1>4

\* A thread takes and leaves the lock of stdout for itself.
LEMMA LockSteps ==
    ASSUME NEW t \in Threads, SubmitStep(t) \/ \E s \in Streams : Operation(t, s)
    PROVE  fileLock' \in {fileLock, t, Null}
BY DEF SubmitStep, ReadMetadata, MetadataFails, Render, EnterWrite, WritePart, WriteFails, LeaveWrite,
   Operation, Create, InsertPiece, Move, BeginSubmit, FlushNothing

\* Every step of a thread preserves the invariant of the streams.
LEMMA StepKeepsStreams ==
    ASSUME StreamInv, Inv', NEW t \in Threads, Proceeds(t) \/ Finishes(t) \/ Operates(t),
           fileLock' \in {fileLock, t, Null}
    PROVE  StreamInv'
<1>1. StreamsHold' /\ RecordsAreDistinct'
  <2>1. CASE Proceeds(t)
    BY <2>1 DEF Proceeds, objects, StreamInv, StreamsHold, RecordsAreDistinct
  <2>2. CASE Finishes(t)
    BY <2>2, FinishKeeps DEF Finishes
  <2>3. CASE Operates(t)
    BY <2>3, CreateHolds, InsertKeeps, MoveKeeps DEF Operates
  <2> QED
    BY <2>1, <2>2, <2>3
<1>2. /\ DOMAIN pc = Threads /\ DOMAIN job = Threads
  BY DEF StreamInv, Inv, Shape
<1>3. \A u \in Threads \ {t} : pc'[u] = pc[u] /\ job'[u] = job[u]
  <2>1. CASE Proceeds(t)
    BY <1>2, <2>1 DEF Proceeds
  <2>2. CASE Finishes(t)
    BY <1>2, <2>2 DEF Finishes, Finish
  <2>3. CASE Operates(t)
    BY <2>3 DEF Operates, Create, InsertPiece, Move
  <2> QED
    BY <2>1, <2>2, <2>3
<1>4. JobIsTyped(job'[t]) /\ (pc'[t] # "Idle" => Submits(stream'[job'[t].stream]))
  <2>1. CASE Proceeds(t)
    BY <1>2, <2>1 DEF Proceeds, objects
  <2>2. CASE Finishes(t)
    BY <1>2, <2>2, NoJobIsTyped DEF Finishes, Finish
  <2>3. CASE Operates(t)
    <3>1. pc' = pc /\ job' = job /\ pc[t] = "Idle"
      BY <2>3 DEF Operates, Create, InsertPiece, Move, Owns
    <3> QED
      BY <3>1 DEF StreamInv, JobsAreTyped
  <2> QED
    BY <2>1, <2>2, <2>3
<1>5. ASSUME NEW u \in Threads \ {t}, pc'[u] # "Idle" PROVE Submits(stream'[job'[u].stream])
  <2>1. job[u].stream \in Streams /\ owner[job[u].stream] = u /\ Submits(stream[job[u].stream])
    BY <1>3, <1>5, InFlush DEF Current
  <2>2. u \notin {t, Null}
    BY ThreadsAssumption
  <2>3. stream'[job[u].stream] = stream[job[u].stream]
    BY <2>1, <2>2, OtherStreamsStay
  <2> QED
    BY <1>3, <2>1, <2>3
<1>6. FlushersSubmit' /\ JobsAreTyped'
  BY <1>3, <1>4, <1>5 DEF FlushersSubmit, JobsAreTyped, StreamInv
<1> QED
  BY <1>1, <1>6 DEF StreamInv

\* At first there are no streams and no jobs.
LEMMA InitStreams == Init => StreamInv
<1> SUFFICES ASSUME Init PROVE StreamInv
  OBVIOUS
<1>1. StreamsHold /\ RecordsAreDistinct /\ FlushersSubmit
  BY DEF Init, StreamsHold, RecordsAreDistinct, FlushersSubmit, PlaceHolds
<1>2. JobsAreTyped
  BY NoJobIsTyped DEF Init, JobsAreTyped
<1> QED
  BY <1>1, <1>2, InitInv DEF StreamInv

\* Every step preserves the invariant.
LEMMA NextStreams == StreamInv /\ [Next]_vars => StreamInv'
<1> SUFFICES ASSUME StreamInv, [Next]_vars PROVE StreamInv'
  OBVIOUS
<1>1. Inv'
  BY NextInv DEF StreamInv
<1>2. CASE UNCHANGED vars
  BY <1>1, <1>2 DEF vars, objects, StreamInv, StreamsHold, RecordsAreDistinct, FlushersSubmit,
     JobsAreTyped
<1>3. CASE \E t \in Threads : SubmitStep(t) \/ \E s \in Streams : Operation(t, s)
  BY <1>1, <1>3, StepKinds, LockSteps, StepKeepsStreams
<1> QED
  BY <1>2, <1>3 DEF Next, Finished

\* The record of a stream that is there.
LEMMA StreamsAreTyped ==
    ASSUME StreamInv, NEW s \in Streams
    PROVE  /\ record[s] \in 0..begun
           /\ stream[s] # Null => stream[s] \in StreamValues
           /\ stream[s] # Null /\ stream[s].logger # Null =>
                inserted[s] \in Seq(Pieces) /\ Holds(stream[s], inserted[s])
BY DEF StreamInv, StreamsHold, PlaceHolds

\* For any number of threads, streams and records, every value in the pipeline
\* has its type: no stream holds more bytes than its capacity, no line more than
\* the record buffer, and no time leaves the range of its integer.
THEOREM TypeCorrect == Spec => []TypeOK
<1>1. StreamInv => TypeOK
  <2> SUFFICES ASSUME StreamInv PROVE TypeOK
    OBVIOUS
  <2>1. \A s \in Streams : stream[s] # Null =>
          /\ stream[s].logger \in Loggers \cup {Null}
          /\ stream[s].level \in Levels
          /\ stream[s].size <= Capacity
          /\ stream[s].content \in Seq(Pieces)
    BY StreamsAreTyped, CapacityAssumption DEF StreamValues
  <2>2. /\ owner \in [Streams -> Threads \cup {Null}]
        /\ pc \in [Threads -> SubmitSteps \cup {"Idle"}]
    BY DEF StreamInv, Inv, Shape
  <2>3. fileLock \in Threads \cup {Null}
    BY DEF StreamInv, JobsAreTyped
  <2>4. record \in [Streams -> 0..begun]
    BY StreamsAreTyped DEF StreamInv, StreamsHold
  <2> QED
    BY <2>1, <2>2, <2>3, <2>4 DEF TypeOK, StreamInv, StreamsHold, JobsAreTyped, JobIsTyped
<1> QED
  BY <1>1, InitStreams, NextStreams, PTL DEF Spec

\* AP-R3-LOG-005 and AP-R3-LOG-008: after any sequence of insertions, flushes
\* and moves, by any number of threads, a stream submits exactly the text
\* inserted since its last flush, or nothing at all.
THEOREM StreamsHoldTheirRecords == Spec => []StreamHoldsExactlyItsRecord
<1>1. StreamInv => StreamHoldsExactlyItsRecord
  BY StreamsAreTyped, SubmitsExactly DEF StreamHoldsExactlyItsRecord
<1> QED
  BY <1>1, InitStreams, NextStreams, PTL DEF Spec

-----------------------------------------------------------------------------
(* The log: which records are on stdout to the end *)

\* A log with the entry of one more part.
WithEntry(log, part) == IF IsComplete(part) THEN Append(log, Entry(part)) ELSE log

\* The logs of these parts.
Logs(P) == Seq({Entry(e) : e \in P})

\* What each part adds to the log.
AddsEntry(s, P) == [i \in 1..Len(s) |-> [x \in Logs(P) |-> WithEntry(x, s[i])]]

\* The log is read from stdout part by part.
LEMMA LogFolds ==
    ASSUME NEW P, NEW s \in Seq(P)
    PROVE  FoldsTo(Logged(s), Len(s), <<>>, AddsEntry(s, P), Logs(P))
<1> DEFINE n == Len(s)
<1> DEFINE h == AddsEntry(s, P)
<1> DEFINE Fold(f) == [t \in SUBSET DOMAIN s |->
                         IF t = {} THEN <<>> ELSE LET x == Max(t) IN WithEntry(f[t \ {x}], s[x])]
<1> DEFINE fold == CHOOSE f : f = Fold(f)
<1>1. n \in Nat /\ DOMAIN s = 1..n /\ <<>> \in Logs(P)
  BY DEF Logs
<1>2. \A i \in 1..n : \A x \in Logs(P) : h[i][x] = WithEntry(x, s[i])
  BY DEF AddsEntry
<1>3. h \in [1..n -> [Logs(P) -> Logs(P)]]
  <2>1. \A i \in 1..n : \A x \in Logs(P) : WithEntry(x, s[i]) \in Logs(P)
    BY DEF WithEntry, Logs
  <2> QED
    BY <2>1 DEF AddsEntry
<1>4. Logged(s) = fold[DOMAIN s]
  BY DEF Logged, FoldLeft, MapThenFoldSet, WithEntry
<1> HIDE DEF h, n, fold
<1>5. PICK g \in [SUBSET (1..n) -> Logs(P)] : FoldsUpTo(g, n, <<>>, h)
  BY <1>1, <1>3, FoldExists
<1>6. g = Fold(g)
  <2>1. ASSUME NEW t \in SUBSET (1..n), t # {}
        PROVE  h[Max(t)][g[t \ {Max(t)}]] = WithEntry(g[t \ {Max(t)}], s[Max(t)])
    <3>1. Max(t) \in 1..n /\ t \ {Max(t)} \in SUBSET (1..n)
      BY <1>1, <2>1, LastPlace
    <3> QED
      BY <1>2, <3>1
  <2> QED
    BY <1>1, <1>5, <2>1 DEF FoldsUpTo
<1>7. fold = Fold(fold)
  <2> HIDE DEF Fold
  <2> QED
    BY <1>6 DEF fold
<1>8. fold[{}] = <<>>
  BY <1>7
<1>9. ASSUME NEW t \in SUBSET (1..n), t # {}, fold[t \ {Max(t)}] \in Logs(P)
      PROVE  fold[t] = h[Max(t)][fold[t \ {Max(t)}]]
  <2>1. Max(t) \in 1..n
    BY <1>1, <1>9, LastPlace
  <2>2. fold[t] = WithEntry(fold[t \ {Max(t)}], s[Max(t)])
    BY <1>1, <1>7, <1>9
  <2> QED
    BY <1>2, <1>9, <2>1, <2>2
<1>10. Computes(fold, n, <<>>, h, Logs(P))
  BY <1>8, <1>9 DEF Computes
<1> QED
  <2>1. FoldsTo(fold[1..n], n, <<>>, h, Logs(P))
    BY <1>1, <1>3, <1>10, FoldRuns
  <2> QED
    BY <1>1, <1>4, <2>1 DEF h, n

\* The log of parts: none, and one more.
LEMMA LogOfParts ==
    ASSUME NEW P
    PROVE  /\ Logged(<<>>) = <<>>
           /\ \A s \in Seq(P) : Logged(s) \in Logs(P)
           /\ \A s \in Seq(P) : \A p \in P : Logged(Append(s, p)) = WithEntry(Logged(s), p)
<1>1. Logged(<<>>) = <<>>
  <2>1. <<>> \in Seq(P) /\ Len(<<>>) = 0
    OBVIOUS
  <2>2. FoldsTo(Logged(<<>>), 0, <<>>, AddsEntry(<<>>, P), Logs(P))
    BY <2>1, LogFolds
  <2> QED
    BY <2>2, FoldOfNone
<1>2. ASSUME NEW s \in Seq(P) PROVE Logged(s) \in Logs(P)
  <2>1. Len(s) \in 0..Len(s)
    OBVIOUS
  <2> QED
    BY <2>1, LogFolds DEF FoldsTo, IsRun
<1>3. ASSUME NEW s \in Seq(P), NEW p \in P PROVE Logged(Append(s, p)) = WithEntry(Logged(s), p)
  <2> DEFINE n == Len(s)
  <2> DEFINE t == Append(s, p)
  <2>1. n \in Nat /\ t \in Seq(P) /\ Len(t) = n + 1 /\ t[n + 1] = p /\ \A i \in 1..n : t[i] = s[i]
    OBVIOUS
  <2> HIDE DEF t
  <2>2. FoldsTo(Logged(s), n, <<>>, AddsEntry(s, P), Logs(P))
        /\ FoldsTo(Logged(t), n + 1, <<>>, AddsEntry(t, P), Logs(P))
    BY <2>1, LogFolds
  <2>3. Agree(AddsEntry(s, P), AddsEntry(t, P), n, Logs(P))
    <3> SUFFICES ASSUME NEW k \in 1..n, NEW x \in Logs(P)
                 PROVE AddsEntry(s, P)[k][x] = AddsEntry(t, P)[k][x]
      BY DEF Agree
    <3>1. k \in 1..Len(s) /\ k \in 1..Len(t)
      BY <2>1
    <3> QED
      BY <2>1, <3>1 DEF AddsEntry
  <2>4. Logged(t) = AddsEntry(t, P)[n + 1][Logged(s)]
    <3> HIDE DEF n
    <3> QED
      BY <2>1, <2>2, <2>3, FoldOfOneMore
  <2>5. Logged(s) \in Logs(P) /\ n + 1 \in 1..Len(t)
    BY <1>2, <2>1
  <2> QED
    BY <2>1, <2>4, <2>5 DEF AddsEntry, t
<1> QED
  BY <1>1, <1>2, <1>3

\* The records written are records that have been begun, and the stream of a
\* record that is written to the end is still in Flush.
LogInv ==
    /\ \A i \in DOMAIN stdout : stdout[i].id \in 1..begun
    /\ \A s \in Streams : record[s] # 0 /\ IsLogged(s) =>
         \E t \in Threads : pc[t] = "Leave" /\ job[t].stream = s

\* A thread that is not at the end of Flush has written none of its records.
LEMMA NotLoggedYet ==
    ASSUME StreamInv, LogInv, NEW t \in Threads, NEW s \in Streams, owner[s] = t, record[s] # 0,
           pc[t] # "Leave"
    PROVE  ~IsLogged(s)
<1> SUFFICES ASSUME IsLogged(s) PROVE FALSE
  OBVIOUS
<1>1. PICK u \in Threads : pc[u] = "Leave" /\ job[u].stream = s
  BY DEF LogInv
<1>2. owner[s] = u
  BY <1>1 DEF StreamInv, Inv, FlushersOwnTheirStreams
<1> QED
  BY <1>1, <1>2

\* A record that has just been begun is not on stdout.
LEMMA NewIsNotLogged ==
    ASSUME StreamInv, LogInv, UNCHANGED stdout, NEW s \in Streams, record'[s] = begun + 1
    PROVE  ~IsLogged(s)'
<1>1. begun \in Nat
  BY DEF StreamInv, StreamsHold
<1>2. begun + 1 \notin 1..begun
  BY <1>1
<1> QED
  BY <1>2 DEF LogInv, IsLogged

\* Whether a record is on stdout does not change when neither does.
LEMMA SameRecord ==
    ASSUME UNCHANGED stdout, NEW s \in Streams, NEW r \in Streams, record'[s] = record[r]
    PROVE  IsLogged(s)' <=> IsLogged(r)
BY DEF IsLogged

\* Steps that do not write leave the log invariant.
LEMMA QuietStepKeepsLog ==
    ASSUME StreamInv, LogInv, NEW t \in Threads, UNCHANGED stdout,
           Proceeds(t) \/ Finishes(t) \/ Operates(t)
    PROVE  LogInv'
<1>1. begun \in Nat /\ \A r \in Streams : record[r] \in 0..begun
  BY StreamsAreTyped DEF StreamInv, StreamsHold
<1>2. DOMAIN pc = Threads /\ DOMAIN job = Threads /\ DOMAIN record = Streams
  BY DEF StreamInv, Inv, Shape
<1>3. begun' \in {begun, begun + 1}
  BY DEF Proceeds, Finishes, Finish, Operates, Create, InsertPiece, Move, objects
<1>4. \A i \in DOMAIN stdout' : stdout'[i].id \in 1..begun'
  BY <1>1, <1>3 DEF LogInv
<1>5. ASSUME NEW s \in Streams, record'[s] # 0, IsLogged(s)'
      PROVE  \E u \in Threads : pc'[u] = "Leave" /\ job'[u].stream = s
  <2>1. CASE Proceeds(t)
    <3>1. record'[s] = record[s]
      BY <2>1 DEF Proceeds, objects
    <3>2. PICK u \in Threads : pc[u] = "Leave" /\ job[u].stream = s
      BY <1>5, <3>1, SameRecord DEF LogInv
    <3>3. u # t
      BY <2>1, <3>2 DEF Proceeds
    <3> QED
      BY <1>2, <2>1, <3>2, <3>3 DEF Proceeds
  <2>2. CASE Finishes(t)
    <3>1. PICK r \in Streams, destroy \in BOOLEAN :
            owner[r] = t /\ (pc[t] = "Idle" \/ r = job[t].stream) /\ Finish(t, r, destroy)
      BY <2>2 DEF Finishes
    <3>2. s # r
      <4>1. record'[r] = 0 \/ record'[r] = begun + 1
        BY <1>1, <1>2, <3>1 DEF Finish
      <4> QED
        BY <1>5, <4>1, NewIsNotLogged
    <3>3. record'[s] = record[s]
      BY <1>2, <3>1, <3>2 DEF Finish
    <3>4. PICK u \in Threads : pc[u] = "Leave" /\ job[u].stream = s
      BY <1>5, <3>3, SameRecord DEF LogInv
    <3>5. u # t
      BY <3>1, <3>2, <3>4
    <3> QED
      BY <1>2, <3>1, <3>4, <3>5 DEF Finish
  <2>3. CASE Operates(t)
    <3>1. pc' = pc /\ job' = job /\ pc[t] = "Idle"
      BY <2>3 DEF Operates, Create, InsertPiece, Move, Owns
    <3>2. PICK a \in Streams :
            \/ \E logger \in Loggers, level \in Levels : Create(t, a, logger, level)
            \/ \E piece \in Pieces : InsertPiece(t, a, piece)
            \/ \E to \in Streams, receiver \in Threads : Move(t, a, to, receiver)
      BY <2>3 DEF Operates
    <3>3. record'[s] = record[s]
      <4>1. CASE \E logger \in Loggers, level \in Levels : Create(t, a, logger, level)
        <5>1. record' = [record EXCEPT ![a] = begun + 1]
          BY <4>1 DEF Create
        <5>2. s # a
          BY <1>2, <1>5, <5>1, NewIsNotLogged
        <5> QED
          BY <1>2, <5>1, <5>2
      <4>2. CASE \E piece \in Pieces : InsertPiece(t, a, piece)
        BY <4>2 DEF InsertPiece
      <4>3. CASE \E to \in Streams, receiver \in Threads : Move(t, a, to, receiver)
        <5>1. PICK to \in Streams, receiver \in Threads : Move(t, a, to, receiver)
          BY <4>3
        <5>2. /\ record' = [record EXCEPT ![to] = record[a], ![a] = 0]
              /\ owner[a] = t /\ owner[to] = Null /\ t # Null
          BY <5>1, ThreadsAssumption DEF Move, Owns, IsFree
        <5>3. s # a
          BY <1>2, <1>5, <5>2
        <5>4. s # to
          <6>1. SUFFICES ASSUME s = to PROVE FALSE
            OBVIOUS
          <6>2. record'[s] = record[a] /\ record[a] # 0
            BY <1>2, <1>5, <5>2, <6>1
          <6>3. ~IsLogged(a)
            BY <3>1, <5>2, <6>2, NotLoggedYet
          <6> QED
            BY <1>5, <6>2, <6>3, SameRecord
        <5> QED
          BY <1>2, <5>2, <5>3, <5>4
      <4> QED
        BY <3>2, <4>1, <4>2, <4>3
    <3> QED
      BY <1>5, <3>1, <3>3, SameRecord DEF LogInv
  <2> QED
    BY <2>1, <2>2, <2>3
<1> QED
  BY <1>4, <1>5 DEF LogInv

\* What a part adds to the log, and which records are then logged.
LEMMA PartIsLogged ==
    ASSUME StreamInv, NEW e, stdout' = Append(stdout, e), UNCHANGED record
    PROVE  /\ DOMAIN stdout' = DOMAIN stdout \cup {Len(stdout) + 1}
           /\ stdout'[Len(stdout) + 1] = e
           /\ \A i \in DOMAIN stdout : stdout'[i] = stdout[i]
           /\ \A s \in Streams :
                IsLogged(s)' <=> IsLogged(s) \/ (IsComplete(e) /\ e.id = record[s])
           /\ Logged(stdout)' = IF IsComplete(e) THEN Append(Logged(stdout), Entry(e))
                                ELSE Logged(stdout)
<1>1. PICK S : stdout \in Seq(S)
  BY DEF StreamInv, Inv, Shape
<1> DEFINE P == S \cup {e}
<1> DEFINE n == Len(stdout)
<1>2. stdout \in Seq(P) /\ e \in P
  BY <1>1
<1>3. /\ n \in Nat /\ DOMAIN stdout = 1..n /\ DOMAIN stdout' = 1..(n + 1)
      /\ stdout'[n + 1] = e /\ \A i \in 1..n : stdout'[i] = stdout[i]
  BY <1>2
<1>4. 1..(n + 1) = 1..n \cup {n + 1}
  BY <1>3
<1>5. Logged(Append(stdout, e)) = IF IsComplete(e) THEN Append(Logged(stdout), Entry(e))
                                  ELSE Logged(stdout)
  <2> HIDE DEF P
  <2> QED
    BY <1>2, LogOfParts DEF WithEntry
<1> HIDE DEF n, P
<1>6. DOMAIN stdout' = DOMAIN stdout \cup {n + 1}
  BY <1>3, <1>4
<1>7. ASSUME NEW s \in Streams
      PROVE  IsLogged(s)' <=> IsLogged(s) \/ (IsComplete(e) /\ e.id = record[s])
  <2>1. IsLogged(s)' <=> \E i \in DOMAIN stdout' : IsComplete(stdout'[i]) /\ stdout'[i].id = record[s]
    BY DEF IsLogged, IsComplete
  <2> QED
    BY <1>3, <1>6, <2>1 DEF IsLogged
<1> QED
  BY <1>3, <1>5, <1>6, <1>7 DEF n

-----------------------------------------------------------------------------
(* Logging is all or nothing *)

\* The stream of a record that may be logged, and what it holds.
LEMMA RecordInFlush ==
    ASSUME StreamInv, NEW t \in Threads, pc[t] # "Idle", NEW s, s = job[t].stream
    PROVE  /\ s \in Streams /\ owner[s] = t /\ record[s] \in 1..begun
           /\ stream[s] \in StreamValues /\ stream[s].logger # Null
           /\ IsEmittable(stream[s].logger, stream[s].level, inserted[s])
           /\ stream[s].content = TextOf(inserted[s])
<1>1. s \in Streams /\ owner[s] = t /\ Submits(stream[s])
  BY InFlush DEF Current
<1>2. stream[s].logger # Null
  BY <1>1 DEF Submits, Accumulates
<1>3. PlaceHolds(owner[s], stream[s], inserted[s], record[s], begun)
  BY <1>1 DEF StreamInv, StreamsHold
<1>4. /\ stream[s] \in StreamValues /\ inserted[s] \in Seq(Pieces)
      /\ record[s] \in 1..begun /\ Holds(stream[s], inserted[s])
  BY <1>1, <1>2, <1>3, ThreadsAssumption DEF PlaceHolds
<1> QED
  BY <1>1, <1>2, <1>4, SubmitsExactly

\* Steps that write leave the log invariant.
LEMMA WriteKeepsLog ==
    ASSUME StreamInv, LogInv, NEW t \in Threads, WritePart(t)
    PROVE  LogInv'
<1> DEFINE s == job[t].stream
<1>1. PICK i \in {1, 2}, step \in {"Part 2", "Leave"} :
        /\ pc[t] \notin {"Idle", "Leave"} /\ (i = 2 <=> step = "Leave")
        /\ pc' = [pc EXCEPT ![t] = step] /\ stdout' = Append(stdout, Part(t, i))
        /\ UNCHANGED <<objects, job>>
  <2>1. CASE /\ Goto(t, "Part 1", "Part 2") /\ stdout' = Append(stdout, Part(t, 1))
             /\ UNCHANGED <<objects, job>>
    <3>1. /\ pc[t] \notin {"Idle", "Leave"} /\ pc' = [pc EXCEPT ![t] = "Part 2"]
          /\ stdout' = Append(stdout, Part(t, 1)) /\ UNCHANGED <<objects, job>>
      BY <2>1 DEF Goto
    <3>2. 1 \in {1, 2} /\ "Part 2" \in {"Part 2", "Leave"} /\ (1 = 2 <=> "Part 2" = "Leave")
      OBVIOUS
    <3> QED
      BY <3>1, <3>2
  <2>2. CASE /\ Goto(t, "Part 2", "Leave") /\ stdout' = Append(stdout, Part(t, 2))
             /\ UNCHANGED <<objects, job>>
    <3> WITNESS 2 \in {1, 2}, "Leave" \in {"Part 2", "Leave"}
    <3> QED
      BY <2>2 DEF Goto
  <2> QED
    BY <2>1, <2>2 DEF WritePart
<1>2. UNCHANGED <<record, owner, begun>>
  BY <1>1 DEF objects
<1>3. s \in Streams /\ owner[s] = t /\ record[s] \in 1..begun
  BY <1>1, RecordInFlush
<1>4. Part(t, i).id = record[s] /\ Part(t, i).part = i
  BY DEF Part
<1> HIDE DEF s
<1>5. /\ DOMAIN stdout' = DOMAIN stdout \cup {Len(stdout) + 1}
      /\ stdout'[Len(stdout) + 1] = Part(t, i)
      /\ \A j \in DOMAIN stdout : stdout'[j] = stdout[j]
      /\ \A r \in Streams :
           IsLogged(r)' <=> IsLogged(r) \/ (IsComplete(Part(t, i)) /\ record[s] = record[r])
  BY <1>1, <1>2, <1>4, PartIsLogged
<1>6. \A j \in DOMAIN stdout' : stdout'[j].id \in 1..begun'
  BY <1>2, <1>3, <1>4, <1>5 DEF LogInv
<1>7. DOMAIN pc = Threads
  BY DEF StreamInv, Inv, Shape
<1>8. ASSUME NEW r \in Streams, record'[r] # 0, IsLogged(r)'
      PROVE  \E u \in Threads : pc'[u] = "Leave" /\ job'[u].stream = r
  <2>1. CASE IsLogged(r)
    <3>1. PICK u \in Threads : pc[u] = "Leave" /\ job[u].stream = r
      BY <1>2, <1>8, <2>1 DEF LogInv
    <3>2. u # t
      BY <1>1, <3>1
    <3> QED
      BY <1>1, <1>7, <3>1, <3>2
  <2>2. CASE IsComplete(Part(t, i)) /\ record[s] = record[r]
    <3>1. i = 2
      BY <1>4, <2>2 DEF IsComplete, Parts
    <3>2. r = s
      BY <1>2, <1>3, <1>8, <2>2 DEF StreamInv, RecordsAreDistinct
    <3> QED
      BY <1>1, <1>7, <3>1, <3>2 DEF s
  <2> QED
    BY <1>5, <1>8, <2>1, <2>2
<1> QED
  BY <1>6, <1>8 DEF LogInv

\* Only WritePart writes.
LEMMA OnlyPartsAreWritten ==
    ASSUME NEW t \in Threads, SubmitStep(t) \/ \E s \in Streams : Operation(t, s), ~WritePart(t)
    PROVE  UNCHANGED stdout
BY DEF SubmitStep, ReadMetadata, MetadataFails, Render, EnterWrite, WriteFails, LeaveWrite,
   Operation, Create, InsertPiece, Move, BeginSubmit, FlushNothing

\* The invariants together, at first and in every step.
LEMMA LogHolds == Spec => [](StreamInv /\ LogInv)
<1>1. Init => StreamInv /\ LogInv
  <2> SUFFICES ASSUME Init PROVE StreamInv /\ LogInv
    OBVIOUS
  <2>1. LogInv
    BY DEF Init, LogInv, IsLogged
  <2> QED
    BY <2>1, InitStreams
<1>2. StreamInv /\ LogInv /\ [Next]_vars => (StreamInv /\ LogInv)'
  <2> SUFFICES ASSUME StreamInv, LogInv, [Next]_vars PROVE LogInv'
    BY NextStreams
  <2>1. CASE UNCHANGED vars
    BY <2>1 DEF vars, objects, LogInv, IsLogged
  <2>2. ASSUME NEW t \in Threads, SubmitStep(t) \/ \E s \in Streams : Operation(t, s) PROVE LogInv'
    <3>1. CASE WritePart(t)
      BY <3>1, WriteKeepsLog
    <3>2. CASE ~WritePart(t)
      BY <2>2, <3>2, StepKinds, OnlyPartsAreWritten, QuietStepKeepsLog
    <3> QED
      BY <3>1, <3>2
  <2> QED
    BY <2>1, <2>2 DEF Next, Finished
<1> QED
  BY <1>1, <1>2, PTL DEF Spec

-----------------------------------------------------------------------------
(* Each step maps to a step of RecordLog or to a stutter *)

\* The open record of a stream is no Null.
LEMMA OpenIsRecord ==
    ASSUME StreamInv, NEW s \in Streams, record[s] # 0
    PROVE  /\ Opened[s] = OpenRecord(s) /\ Opened[s] # Null
           /\ stream[s].logger # Null /\ owner[s] # Null
<1>1. PlaceHolds(owner[s], stream[s], inserted[s], record[s], begun)
  BY DEF StreamInv, StreamsHold
<1>2. owner[s] # Null /\ stream[s] \in StreamValues /\ inserted[s] \in Seq(Pieces)
      /\ stream[s].logger # Null
  BY <1>1 DEF PlaceHolds
<1>3. OpenRecord(s) \in [logger : Loggers, level : Levels, pieces : Seq(Pieces)]
  BY <1>2 DEF OpenRecord, StreamValues
<1> QED
  BY <1>2, <1>3, NullAssumption DEF Opened

\* The open record of one stream changes.
LEMMA OneOpenChanges ==
    ASSUME NEW s \in Streams,
           \A r \in Streams \ {s} :
               /\ stream'[r] = stream[r] /\ record'[r] = record[r] /\ inserted'[r] = inserted[r]
               /\ IsLogged(r)' <=> IsLogged(r)
    PROVE  Opened' = [Opened EXCEPT ![s] = IF record'[s] = 0 THEN Null ELSE OpenRecord(s)']
<1>1. \A r \in Streams \ {s} : Opened'[r] = Opened[r]
  BY DEF Opened, OpenRecord
<1>2. Opened'[s] = IF record'[s] = 0 THEN Null ELSE OpenRecord(s)'
  BY DEF Opened
<1> QED
  BY <1>1, <1>2 DEF Opened

\* A stream's beginning opens a record.
LEMMA CreateOpens ==
    ASSUME StreamInv, LogInv, NEW t \in Threads, NEW s \in Streams, NEW logger \in Loggers,
           NEW level \in Levels, Create(t, s, logger, level)
    PROVE  Log!Open(s)
<1>1. /\ DOMAIN stream = Streams /\ DOMAIN inserted = Streams /\ DOMAIN record = Streams
      /\ begun \in Nat
  BY DEF StreamInv, StreamsHold, Inv, Shape
<1>2. /\ stream' = [stream EXCEPT ![s] = WithLevel(logger, level)]
      /\ record' = [record EXCEPT ![s] = begun + 1] /\ inserted' = [inserted EXCEPT ![s] = <<>>]
      /\ owner[s] = Null /\ UNCHANGED stdout
  BY DEF Create, IsFree
<1>3. Opened[s] = Null
  BY <1>2 DEF StreamInv, StreamsHold, PlaceHolds, Opened
<1>4. record'[s] = begun + 1 /\ record'[s] # 0
  BY <1>1, <1>2
<1>5. OpenRecord(s)' = [logger |-> logger, level |-> level, pieces |-> <<>>]
  <2>1. stream'[s].logger = logger /\ stream'[s].level = level /\ inserted'[s] = <<>>
    BY <1>1, <1>2 DEF WithLevel
  <2> QED
    BY <2>1 DEF OpenRecord
<1>6. Opened' = [Opened EXCEPT ![s] = [logger |-> logger, level |-> level, pieces |-> <<>>]]
  <2>1. \A r \in Streams \ {s} :
          /\ stream'[r] = stream[r] /\ record'[r] = record[r] /\ inserted'[r] = inserted[r]
          /\ IsLogged(r)' <=> IsLogged(r)
    BY <1>1, <1>2, SameRecord
  <2> QED
    BY <1>4, <1>5, <2>1, OneOpenChanges
<1>7. UNCHANGED Logged(stdout)
  BY <1>2
<1> QED
  BY <1>3, <1>6, <1>7 DEF Log!Open

\* An insertion is one of the open record, or of a moved-from stream, which has
\* none.
LEMMA InsertInserts ==
    ASSUME StreamInv, LogInv, NEW t \in Threads, NEW s \in Streams, NEW piece \in Pieces,
           InsertPiece(t, s, piece)
    PROVE  Log!Insert(s) \/ UNCHANGED Log!vars
<1>1. DOMAIN stream = Streams /\ DOMAIN inserted = Streams
  BY DEF StreamInv, StreamsHold
<1>2. /\ stream' = [stream EXCEPT ![s] = Insert(stream[s], piece)]
      /\ inserted' = [inserted EXCEPT ![s] = Append(inserted[s], piece)]
      /\ pc[t] = "Idle" /\ owner[s] = t /\ UNCHANGED <<record, stdout>>
  BY DEF InsertPiece, Owns
<1>3. \A r \in Streams : IsLogged(r)' <=> IsLogged(r)
  BY <1>2, SameRecord
<1>4. \A r \in Streams \ {s} :
        /\ stream'[r] = stream[r] /\ record'[r] = record[r] /\ inserted'[r] = inserted[r]
        /\ IsLogged(r)' <=> IsLogged(r)
  BY <1>1, <1>2, <1>3
<1>5. Opened' = [Opened EXCEPT ![s] = IF record[s] = 0 THEN Null ELSE OpenRecord(s)']
  BY <1>2, <1>4, OneOpenChanges
<1>6. UNCHANGED Logged(stdout)
  BY <1>2
<1>7. CASE record[s] = 0
  <2>1. Opened[s] = Null
    BY <1>7 DEF Opened
  <2>2. Opened' = Opened
    BY <1>5, <1>7, <2>1 DEF Opened
  <2> QED
    BY <1>6, <2>2 DEF Log!vars
<1>8. CASE record[s] # 0
  <2>1. Opened[s] = OpenRecord(s) /\ Opened[s] # Null
    BY <1>8, OpenIsRecord
  <2>2. ~IsLogged(s)
    BY <1>2, <1>8, NotLoggedYet
  <2>3. stream'[s].logger = stream[s].logger /\ stream'[s].level = stream[s].level
    <3>1. stream[s] \in StreamValues
      BY <1>2, ThreadsAssumption DEF StreamInv, StreamsHold, PlaceHolds
    <3>2. <<>> \in Seq(Pieces)
      OBVIOUS
    <3> QED
      BY <1>1, <1>2, <3>1, <3>2, InsertHolds
  <2>4. OpenRecord(s)' = [logger |-> stream[s].logger, level |-> stream[s].level,
                          pieces |-> Append(inserted[s], piece)]
    BY <1>1, <1>2, <1>3, <2>2, <2>3 DEF OpenRecord
  <2>5. OpenRecord(s)' = [Opened[s] EXCEPT !.pieces = Append(@, piece)]
    <3>1. Opened[s] = [logger |-> stream[s].logger, level |-> stream[s].level, pieces |-> inserted[s]]
      BY <2>1, <2>2 DEF OpenRecord
    <3> DEFINE more == Append(Opened[s].pieces, piece)
    <3>2. more = Append(inserted[s], piece)
      BY <3>1
    <3> HIDE DEF more
    <3>3. OpenRecord(s)' = [logger |-> stream[s].logger, level |-> stream[s].level, pieces |-> more]
      BY <2>4, <3>2
    <3>4. OpenRecord(s)' = [Opened[s] EXCEPT !.pieces = more]
      BY <3>1, <3>3
    <3> QED
      BY <3>4 DEF more
  <2>6. s \in DOMAIN Opened
    BY DEF Opened
  <2>7. Opened' = [Opened EXCEPT ![s].pieces = Append(@, piece)]
    BY <1>5, <1>8, <2>5
  <2> QED
    BY <1>6, <2>1, <2>7 DEF Log!Insert
<1> QED
  BY <1>7, <1>8

\* A move hands the open record over.
LEMMA MoveHandsOver ==
    ASSUME StreamInv, LogInv, NEW t \in Threads, NEW s \in Streams, NEW to \in Streams,
           NEW receiver \in Threads, Move(t, s, to, receiver)
    PROVE  Log!HandOver(s, to)
<1>1. DOMAIN stream = Streams /\ DOMAIN inserted = Streams /\ DOMAIN record = Streams
  BY DEF StreamInv, StreamsHold, Inv, Shape
<1>2. /\ owner[s] = t /\ pc[t] = "Idle" /\ owner[to] = Null /\ t # Null /\ s # to
      /\ stream[s].logger # Null
      /\ stream' = [stream EXCEPT ![to] = stream[s], ![s] = MovedFrom(stream[s])]
      /\ record' = [record EXCEPT ![to] = record[s], ![s] = 0]
      /\ inserted' = [inserted EXCEPT ![to] = inserted[s], ![s] = <<>>]
      /\ UNCHANGED stdout
  BY ThreadsAssumption DEF Move, Owns, IsFree
<1>3. record[s] # 0 /\ record[to] = 0
  BY <1>2 DEF StreamInv, StreamsHold, PlaceHolds
<1>4. Opened[s] = OpenRecord(s) /\ Opened[s] # Null /\ Opened[to] = Null
  BY <1>3, OpenIsRecord DEF Opened
<1>5. /\ stream'[to] = stream[s] /\ record'[to] = record[s] /\ inserted'[to] = inserted[s]
      /\ record'[s] = 0
  BY <1>1, <1>2
<1>6. OpenRecord(to)' = OpenRecord(s)
  BY <1>2, <1>5, SameRecord DEF OpenRecord
<1>7. \A r \in Streams \ {s, to} :
        /\ stream'[r] = stream[r] /\ record'[r] = record[r] /\ inserted'[r] = inserted[r]
        /\ IsLogged(r)' <=> IsLogged(r)
  BY <1>1, <1>2, SameRecord
<1>8. \A r \in Streams \ {s, to} : Opened'[r] = Opened[r]
  BY <1>7 DEF Opened, OpenRecord
<1>9. Opened'[to] = Opened[s] /\ Opened'[s] = Null
  BY <1>3, <1>4, <1>5, <1>6 DEF Opened
<1>10. Opened' = [Opened EXCEPT ![to] = Opened[s], ![s] = Null]
  BY <1>2, <1>8, <1>9 DEF Opened
<1> QED
  BY <1>2, <1>4, <1>10 DEF Log!HandOver

\* The end of a flush or of a destructor closes the record, if there is one.
LEMMA FinishCloses ==
    ASSUME StreamInv, LogInv, NEW t \in Threads, Finishes(t), UNCHANGED stdout
    PROVE  (\E s \in Streams : Log!Close(s)) \/ UNCHANGED Log!vars
<1>1. /\ DOMAIN stream = Streams /\ DOMAIN inserted = Streams /\ DOMAIN record = Streams
      /\ begun \in Nat
  BY DEF StreamInv, StreamsHold, Inv, Shape
<1>2. PICK s \in Streams, destroy \in BOOLEAN :
        owner[s] = t /\ (destroy \/ stream[s].logger # Null) /\ Finish(t, s, destroy)
  BY DEF Finishes
<1>3. /\ stream' = [stream EXCEPT ![s] = IF destroy THEN Null ELSE Reset(stream[s])]
      /\ record' = [record EXCEPT ![s] = IF destroy THEN 0 ELSE begun']
      /\ begun' = (IF destroy THEN begun ELSE begun + 1)
      /\ inserted' = [inserted EXCEPT ![s] = <<>>]
  BY <1>1, <1>2 DEF Finish
<1>4. \A r \in Streams \ {s} :
        /\ stream'[r] = stream[r] /\ record'[r] = record[r] /\ inserted'[r] = inserted[r]
        /\ IsLogged(r)' <=> IsLogged(r)
  BY <1>1, <1>3, SameRecord
<1>5. Opened' = [Opened EXCEPT ![s] = IF record'[s] = 0 THEN Null ELSE OpenRecord(s)']
  BY <1>4, OneOpenChanges
<1>6. UNCHANGED Logged(stdout)
  OBVIOUS
<1>7. PlaceHolds(owner[s], stream[s], inserted[s], record[s], begun) /\ owner[s] # Null
  BY <1>2, ThreadsAssumption DEF StreamInv, StreamsHold
<1>8. CASE destroy
  <2>1. Opened' = [Opened EXCEPT ![s] = Null]
    BY <1>1, <1>3, <1>5, <1>8
  <2>2. CASE record[s] = 0
    <3>1. Opened' = Opened
      BY <2>1, <2>2 DEF Opened
    <3> QED
      BY <1>6, <3>1 DEF Log!vars
  <2>3. CASE record[s] # 0
    <3>1. Opened[s] # Null
      BY <2>3, OpenIsRecord
    <3> QED
      BY <1>6, <2>1, <3>1 DEF Log!Close
  <2> QED
    BY <2>2, <2>3
<1>9. CASE ~destroy
  <2>1. stream[s].logger # Null /\ stream[s] \in StreamValues /\ record[s] # 0
    BY <1>2, <1>7, <1>9 DEF PlaceHolds
  <2>2. Opened[s] = OpenRecord(s) /\ Opened[s] # Null
    BY <2>1, OpenIsRecord
  <2>3. record'[s] = begun + 1 /\ record'[s] # 0
    BY <1>1, <1>3, <1>9
  <2>4. /\ stream'[s].logger = stream[s].logger /\ stream'[s].level = stream[s].level
        /\ inserted'[s] = <<>>
    BY <1>1, <1>3, <1>9, <2>1, LeftoverHolds
  <2>5. OpenRecord(s)' = [logger |-> stream[s].logger, level |-> stream[s].level, pieces |-> <<>>]
    BY <2>4 DEF OpenRecord
  <2>6. OpenRecord(s)' = [Opened[s] EXCEPT !.pieces = <<>>]
    BY <2>2, <2>5 DEF OpenRecord
  <2>7. Opened' = [Opened EXCEPT ![s].pieces = <<>>]
    BY <1>5, <2>3, <2>6
  <2> QED
    BY <1>6, <2>2, <2>7 DEF Log!Close
<1> QED
  BY <1>8, <1>9

\* The last part of a record on stdout logs it; the first does not.
LEMMA WriteEmits ==
    ASSUME StreamInv, LogInv, NEW t \in Threads, WritePart(t)
    PROVE  (\E s \in Streams : Log!Emit(s)) \/ UNCHANGED Log!vars
<1>1. PICK i \in {1, 2} :
        /\ pc[t] \notin {"Idle", "Leave"}
        /\ stdout' = Append(stdout, Part(t, i))
        /\ UNCHANGED <<stream, record, inserted>>
  BY DEF WritePart, Goto, objects
<1>s. PICK s : s = job[t].stream
  OBVIOUS
<1>2. /\ s \in Streams /\ owner[s] = t /\ record[s] \in 1..begun
      /\ stream[s] \in StreamValues /\ stream[s].logger # Null
      /\ IsEmittable(stream[s].logger, stream[s].level, inserted[s])
      /\ stream[s].content = TextOf(inserted[s])
  BY <1>1, <1>s, RecordInFlush
<1>3. /\ Part(t, i).id = record[s] /\ Part(t, i).part = i
      /\ Part(t, i).logger = stream[s].logger /\ Part(t, i).level = stream[s].level
      /\ Part(t, i).content = stream[s].content
  BY <1>s DEF Part, Current
<1>4. /\ \A r \in Streams :
           IsLogged(r)' <=> IsLogged(r) \/ (IsComplete(Part(t, i)) /\ record[s] = record[r])
      /\ Logged(stdout)' = IF IsComplete(Part(t, i)) THEN Append(Logged(stdout), Entry(Part(t, i)))
                           ELSE Logged(stdout)
  BY <1>1, <1>3, PartIsLogged
<1>5. record[s] # 0
  BY <1>2 DEF StreamInv, StreamsHold
<1>6. CASE i = 1
  <2>1. ~IsComplete(Part(t, i))
    BY <1>3, <1>6 DEF IsComplete, Parts
  <2>2. \A r \in Streams : IsLogged(r)' <=> IsLogged(r)
    BY <1>4, <2>1
  <2>3. Opened' = Opened
    BY <1>1, <2>2 DEF Opened, OpenRecord
  <2> QED
    BY <1>4, <2>1, <2>3 DEF Log!vars
<1>7. CASE i = 2
  <2>1. IsComplete(Part(t, i))
    BY <1>3, <1>7 DEF IsComplete, Parts
  <2>2. Opened[s] = OpenRecord(s) /\ Opened[s] # Null
    BY <1>2, <1>5, OpenIsRecord
  <2>3. ~IsLogged(s) /\ IsLogged(s)'
    <3>1. ~IsLogged(s)
      BY <1>1, <1>2, <1>5, NotLoggedYet
    <3>2. IsLogged(s)'
      BY <1>2, <1>4, <2>1
    <3> QED
      BY <3>1, <3>2
  <2>4. \A r \in Streams \ {s} :
          /\ stream'[r] = stream[r] /\ record'[r] = record[r] /\ inserted'[r] = inserted[r]
          /\ IsLogged(r)' <=> IsLogged(r)
    BY <1>1, <1>2, <1>4, <1>5 DEF StreamInv, RecordsAreDistinct
  <2>5. Opened' = [Opened EXCEPT ![s] = OpenRecord(s)']
    <3>1. Opened' = [Opened EXCEPT ![s] = IF record'[s] = 0 THEN Null ELSE OpenRecord(s)']
      BY <1>2, <2>4, OneOpenChanges
    <3>2. record'[s] # 0
      BY <1>1, <1>5
    <3> QED
      BY <3>1, <3>2
  <2>6. OpenRecord(s) = [logger |-> stream[s].logger, level |-> stream[s].level,
                         pieces |-> inserted[s]]
    BY <2>3 DEF OpenRecord
  <2>7. OpenRecord(s)' = [Opened[s] EXCEPT !.pieces = <<>>]
    <3>1. OpenRecord(s)' = [logger |-> stream'[s].logger, level |-> stream'[s].level, pieces |-> <<>>]
      BY <2>3 DEF OpenRecord
    <3>2. stream'[s] = stream[s]
      BY <1>1
    <3> QED
      BY <2>2, <2>6, <3>1, <3>2
  <2>8. Opened' = [Opened EXCEPT ![s].pieces = <<>>]
    BY <2>5, <2>7
  <2>9. Entry(Part(t, i)) = [logger |-> Opened[s].logger, level |-> Opened[s].level,
                             text |-> TextOf(Opened[s].pieces)]
    BY <1>2, <1>3, <2>2, <2>6 DEF Entry
  <2>10. IsEmittable(Opened[s].logger, Opened[s].level, Opened[s].pieces)
    BY <1>2, <2>2, <2>6
  <2>11. Log!Emit(s)
    BY <1>4, <2>1, <2>2, <2>8, <2>9, <2>10 DEF Log!Emit
  <2> QED
    BY <1>2, <2>11
<1> QED
  BY <1>6, <1>7

\* Every step is one of the log or a stutter.
LEMMA EveryStepLogs == StreamInv /\ LogInv /\ [Next]_vars => [Log!Next]_(Log!vars)
<1> SUFFICES ASSUME StreamInv, LogInv, [Next]_vars PROVE [Log!Next]_(Log!vars)
  OBVIOUS
<1>1. CASE UNCHANGED vars
  BY <1>1 DEF vars, objects, Log!vars, Opened, OpenRecord, IsLogged
<1>2. ASSUME NEW t \in Threads, SubmitStep(t) \/ \E s \in Streams : Operation(t, s)
      PROVE  [Log!Next]_(Log!vars)
  <2>1. CASE WritePart(t)
    BY <2>1, WriteEmits DEF Log!Next
  <2>2. CASE ~WritePart(t)
    <3>1. UNCHANGED stdout
      BY <1>2, <2>2, OnlyPartsAreWritten
    <3>2. CASE Proceeds(t)
      <4>1. UNCHANGED <<stream, record, inserted>>
        BY <3>2 DEF Proceeds, objects
      <4>2. \A r \in Streams : IsLogged(r)' <=> IsLogged(r)
        BY <3>1, <4>1, SameRecord
      <4>3. Opened' = Opened
        BY <4>1, <4>2 DEF Opened, OpenRecord
      <4> QED
        BY <3>1, <4>3 DEF Log!vars
    <3>3. CASE Finishes(t)
      BY <3>1, <3>3, FinishCloses DEF Log!Next
    <3>4. CASE Operates(t)
      BY <3>4, CreateOpens, InsertInserts, MoveHandsOver DEF Operates, Log!Next
    <3> QED
      BY <1>2, <3>2, <3>3, <3>4, StepKinds
  <2> QED
    BY <2>1, <2>2
<1> QED
  BY <1>1, <1>2 DEF Next, Finished

\* AP-R3-LOG-005, AP-R3-LOG-008 and AP-R3-LOG-009 together, for any number of
\* threads, streams and records: whatever is interrupted, filtered, moved or
\* fails, a record reaches the log in one step with exactly the text its stream
\* was given, or not at all.
THEOREM LoggingIsAllOrNothing == Spec => ImplementsRecordLog
<1>1. Init => Log!Init
  <2> SUFFICES ASSUME Init PROVE Log!Init
    OBVIOUS
  <2>1. Opened = [s \in Streams |-> Null]
    BY DEF Init, Opened
  <2>2. Logged(stdout) = <<>>
    BY LogOfParts DEF Init
  <2> QED
    BY <2>1, <2>2 DEF Log!Init
<1> QED
  BY <1>1, EveryStepLogs, LogHolds, PTL DEF Spec, ImplementsRecordLog, Log!Spec

-----------------------------------------------------------------------------
(* The conversion of the clock and its inverse *)

\* Division and multiplication by the same number.
LEMMA DivisionIsExact ==
    ASSUME NEW n \in Nat, n > 0, NEW a \in Nat
    PROVE  /\ a \div n \in Nat
           /\ (a \div n) * n <= a
           /\ a < (a \div n) * n + n
OBVIOUS

LEMMA ProductsGrow ==
    ASSUME NEW n \in Nat, n > 0, NEW a \in Int, NEW b \in Int, a <= b
    PROVE  a * n <= b * n /\ a * n \in Int /\ b * n \in Int
OBVIOUS

LEMMA QuotientIsUnique ==
    ASSUME NEW n \in Nat, n > 0, NEW q \in Int, NEW p \in Int, p * n < q * n + n, q * n < p * n + n
    PROVE  q = p
<1>1. CASE q < p
  <2>1. (q + 1) * n <= p * n
    BY <1>1, ProductsGrow
  <2> QED
    BY <2>1
<1>2. CASE p < q
  <2>1. (p + 1) * n <= q * n
    BY <1>2, ProductsGrow
  <2> QED
    BY <2>1
<1> QED
  BY <1>1, <1>2

\* A convertible clock fits the integer, and comes out of the conversion.
LEMMA ConversionFits ==
    ASSUME NEW clock \in [second : Int, ms : 0..(MsPerSecond - 1)], IsConvertible(clock)
    PROVE  /\ clock.second * MsPerSecond \in MinInteger..MaxInteger
           /\ clock.second * MsPerSecond + clock.ms \in MinInteger..MaxInteger
<1>1. PICK n, low, high, second, ms :
        /\ n = MsPerSecond /\ low = MinInteger /\ high = MaxInteger
        /\ second = clock.second /\ ms = clock.ms
  OBVIOUS
<1>2. n \in Nat /\ n > 0 /\ n <= high /\ high \in Nat /\ low = - high - 1 /\ second \in Int
      /\ ms \in 0..(n - 1)
  BY <1>1, IntegersAssumption
<1>3. PICK least, most : least = (high + 1) \div n /\ most = (high - ms) \div n
  OBVIOUS
<1>4. high + 1 \in Nat /\ high - ms \in Nat
  BY <1>2
<1>5. least \in Nat /\ least * n <= high + 1 /\ most \in Nat /\ most * n <= high - ms
  BY <1>2, <1>3, <1>4, DivisionIsExact
<1>6. - least <= second /\ second <= most
  BY <1>1, <1>2, <1>3, <1>4 DEF IsConvertible, Quotient
<1>7. (- least) * n <= second * n /\ second * n <= most * n /\ second * n \in Int
  BY <1>2, <1>5, <1>6, ProductsGrow
<1>8. (- least) * n = - (least * n)
  BY <1>2, <1>5
<1>9. least * n \in Int /\ most * n \in Int
  BY <1>2, <1>5
<1>10. second * n \in low..high /\ second * n + ms \in low..high
  BY <1>2, <1>5, <1>7, <1>8, <1>9
<1> QED
  BY <1>1, <1>10

\* Wrapping changes nothing that fits.
LEMMA WrappedFits ==
    ASSUME NEW a \in MinInteger..MaxInteger
    PROVE  Wrapped(a) = a
<1>1. PICK offset, span : offset = a - MinInteger /\ span = MaxInteger - MinInteger + 1
  OBVIOUS
<1>2. offset \in Nat /\ span \in Nat /\ offset < span /\ MinInteger + offset = a
  BY <1>1, IntegersAssumption
<1>3. offset % span = offset
  BY <1>2
<1> QED
  BY <1>1, <1>2, <1>3 DEF Wrapped

\* The milliseconds of a clock.
LEMMA MillisecondsOf ==
    ASSUME NEW clock \in [second : Int, ms : 0..(MsPerSecond - 1)], IsConvertible(clock)
    PROVE  UnixMilliseconds(clock) = clock.second * MsPerSecond + clock.ms
<1>1. Wrapped(clock.second * MsPerSecond) = clock.second * MsPerSecond
  BY ConversionFits, WrappedFits
<1>2. Wrapped(clock.second * MsPerSecond + clock.ms) = clock.second * MsPerSecond + clock.ms
  BY ConversionFits, WrappedFits
<1> QED
  BY <1>1, <1>2 DEF UnixMilliseconds

\* Taking a time apart gives the clock it was made from, on either side of 1970.
LEMMA ClockReadsBack ==
    ASSUME NEW clock \in [second : Int, ms : 0..(MsPerSecond - 1)], IsConvertible(clock)
    PROVE  Normalized(UnixMilliseconds(clock)) = clock
<1>1. PICK n, second, ms : n = MsPerSecond /\ second = clock.second /\ ms = clock.ms
  OBVIOUS
<1>2. n \in Nat /\ n > 0 /\ second \in Int /\ ms \in 0..(n - 1) /\ ms \in Nat /\ second * n \in Int
  BY <1>1, IntegersAssumption
<1>3. PICK time : time = second * n + ms
  OBVIOUS
<1>4. time \in Int /\ UnixMilliseconds(clock) = time
  BY <1>1, <1>2, <1>3, MillisecondsOf
<1>5. CASE time >= 0
  <2>1. PICK q : q = time \div n
    OBVIOUS
  <2>2. q \in Nat /\ q * n <= time /\ time < q * n + n
    BY <1>2, <1>4, <1>5, <2>1, DivisionIsExact
  <2>3. q * n \in Int
    BY <1>2, <2>2
  <2>4. q * n < second * n + n /\ second * n < q * n + n
    BY <1>2, <1>3, <2>2, <2>3
  <2>5. q = second
    BY <1>2, <2>2, <2>4, QuotientIsUnique
  <2>6. Quotient(time, n) = second /\ n * second = second * n
    BY <1>2, <1>5, <2>1, <2>5 DEF Quotient
  <2>7. Remainder(time, n) = ms
    BY <1>2, <1>3, <2>6 DEF Remainder
  <2> QED
    BY <1>1, <1>2, <1>4, <2>6, <2>7 DEF Normalized
<1>6. CASE time < 0
  <2>1. PICK q : q = (- time) \div n
    OBVIOUS
  <2>2. q \in Nat /\ q * n <= - time /\ - time < q * n + n
    <3>1. - time \in Nat
      BY <1>4, <1>6
    <3> QED
      BY <1>2, <2>1, <3>1, DivisionIsExact
  <2>3. q * n \in Int /\ (- second) * n = - (second * n) /\ - second \in Int /\ n * q = q * n
        /\ n * (- q) = - (q * n)
    BY <1>2, <2>2
  <2>4. Quotient(time, n) = - q /\ Remainder(time, n) = time + q * n
    BY <1>2, <1>4, <1>6, <2>1, <2>2, <2>3 DEF Quotient, Remainder
  <2>5. CASE ms = 0
    <3>1. q * n < (- second) * n + n /\ (- second) * n < q * n + n
      BY <1>2, <1>3, <2>2, <2>3, <2>5
    <3>2. q = - second
      BY <1>2, <2>2, <2>3, <3>1, QuotientIsUnique
    <3>3. time + q * n = 0 /\ - q = second
      BY <1>2, <1>3, <2>3, <2>5, <3>2
    <3>4. ~(Remainder(time, n) < 0) /\ Remainder(time, n) = ms /\ Quotient(time, n) = second
      BY <2>4, <2>5, <3>2, <3>3
    <3> QED
      BY <1>1, <1>4, <3>4 DEF Normalized
  <2>6. CASE ms > 0
    <3>1. PICK p : p = - second - 1
      OBVIOUS
    <3>2. p \in Int /\ p * n = - (second * n) - n
      BY <1>2, <3>1
    <3>3. q * n < p * n + n /\ p * n < q * n + n
      BY <1>2, <1>3, <2>2, <2>3, <2>6, <3>2
    <3>4. q = p
      BY <1>2, <2>2, <3>2, <3>3, QuotientIsUnique
    <3>5. time + q * n = ms - n /\ - q = second + 1
      BY <1>2, <1>3, <2>3, <3>1, <3>2, <3>4
    <3> QED
      BY <1>1, <1>2, <1>4, <2>3, <2>4, <2>6, <3>5 DEF Normalized
  <2> QED
    BY <1>2, <2>5, <2>6
<1> QED
  BY <1>4, <1>5, <1>6

-----------------------------------------------------------------------------
(* Reading a line, and escaping a text, piece by piece *)

\* The states of a reader of these pieces.
ReaderStates(P) == [fields : Seq(Seq(P)), field : Seq(P), escaped : BOOLEAN]

NewLine == [fields |-> <<>>, field |-> <<>>, escaped |-> FALSE]

\* Where the reader is after a line, or a part of one.
ReaderAfter(line) == FoldLeft(ReadPiece, NewLine, line)

\* The reader stays in its states.
LEMMA ReaderIsTyped ==
    ASSUME NEW P, Newline \in P, Return \in P
    PROVE  /\ NewLine \in ReaderStates(P)
           /\ \A state \in ReaderStates(P), p \in P : ReadPiece(state, p) \in ReaderStates(P)
<1>1. NewLine \in ReaderStates(P)
  BY DEF NewLine, ReaderStates
<1>2. ASSUME NEW state \in ReaderStates(P), NEW p \in P PROVE ReadPiece(state, p) \in ReaderStates(P)
  <2>1. Meaning(p) \in P
    BY DEF Meaning
  <2>2. state.fields \in Seq(Seq(P)) /\ state.field \in Seq(P)
    BY DEF ReaderStates
  <2>3. Append(state.field, Meaning(p)) \in Seq(P) /\ Append(state.field, p) \in Seq(P)
        /\ Append(state.fields, state.field) \in Seq(Seq(P)) /\ <<>> \in Seq(P)
    BY <2>1, <2>2
  <2> QED
    BY <2>3 DEF ReaderStates, ReadPiece
<1> QED
  BY <1>1, <1>2

\* What the reader does with each piece.
ReadsPiece(s, P) == [i \in 1..Len(s) |-> [x \in ReaderStates(P) |-> ReadPiece(x, s[i])]]

\* The reader goes through the line piece by piece.
LEMMA ReaderFolds ==
    ASSUME NEW P, Newline \in P, Return \in P, NEW s \in Seq(P)
    PROVE  FoldsTo(ReaderAfter(s), Len(s), NewLine, ReadsPiece(s, P), ReaderStates(P))
<1> DEFINE n == Len(s)
<1> DEFINE h == ReadsPiece(s, P)
<1> DEFINE Fold(f) == [t \in SUBSET DOMAIN s |->
                         IF t = {} THEN NewLine ELSE LET x == Max(t) IN ReadPiece(f[t \ {x}], s[x])]
<1> DEFINE fold == CHOOSE f : f = Fold(f)
<1>1. n \in Nat /\ DOMAIN s = 1..n /\ NewLine \in ReaderStates(P)
  BY ReaderIsTyped
<1>2. \A i \in 1..n : \A x \in ReaderStates(P) : h[i][x] = ReadPiece(x, s[i])
  BY DEF ReadsPiece
<1>3. h \in [1..n -> [ReaderStates(P) -> ReaderStates(P)]]
  <2>1. \A i \in 1..n : \A x \in ReaderStates(P) : ReadPiece(x, s[i]) \in ReaderStates(P)
    BY ReaderIsTyped
  <2> QED
    BY <2>1 DEF ReadsPiece
<1>4. ReaderAfter(s) = fold[DOMAIN s]
  BY DEF ReaderAfter, FoldLeft, MapThenFoldSet
<1> HIDE DEF h, n, fold
<1>5. PICK g \in [SUBSET (1..n) -> ReaderStates(P)] : FoldsUpTo(g, n, NewLine, h)
  BY <1>1, <1>3, FoldExists
<1>6. g = Fold(g)
  <2>1. ASSUME NEW t \in SUBSET (1..n), t # {}
        PROVE  h[Max(t)][g[t \ {Max(t)}]] = ReadPiece(g[t \ {Max(t)}], s[Max(t)])
    <3>1. Max(t) \in 1..n /\ t \ {Max(t)} \in SUBSET (1..n)
      BY <1>1, <2>1, LastPlace
    <3> QED
      BY <1>2, <3>1
  <2> QED
    BY <1>1, <1>5, <2>1 DEF FoldsUpTo
<1>7. fold = Fold(fold)
  <2> HIDE DEF Fold
  <2> QED
    BY <1>6 DEF fold
<1>8. fold[{}] = NewLine
  BY <1>7
<1>9. ASSUME NEW t \in SUBSET (1..n), t # {}, fold[t \ {Max(t)}] \in ReaderStates(P)
      PROVE  fold[t] = h[Max(t)][fold[t \ {Max(t)}]]
  <2>1. Max(t) \in 1..n
    BY <1>1, <1>9, LastPlace
  <2>2. fold[t] = ReadPiece(fold[t \ {Max(t)}], s[Max(t)])
    BY <1>1, <1>7, <1>9
  <2> QED
    BY <1>2, <1>9, <2>1, <2>2
<1>10. Computes(fold, n, NewLine, h, ReaderStates(P))
  BY <1>8, <1>9 DEF Computes
<1> QED
  <2>1. FoldsTo(fold[1..n], n, NewLine, h, ReaderStates(P))
    BY <1>1, <1>3, <1>10, FoldRuns
  <2> QED
    BY <1>1, <1>4, <2>1 DEF h, n

\* The reader: at no pieces, and at one more.
LEMMA ReaderOfLine ==
    ASSUME NEW P, Newline \in P, Return \in P
    PROVE  /\ ReaderAfter(<<>>) = NewLine
           /\ \A s \in Seq(P) : ReaderAfter(s) \in ReaderStates(P)
           /\ \A s \in Seq(P) : \A p \in P : ReaderAfter(Append(s, p)) = ReadPiece(ReaderAfter(s), p)
<1>1. ReaderAfter(<<>>) = NewLine
  <2>1. <<>> \in Seq(P) /\ Len(<<>>) = 0
    OBVIOUS
  <2>2. FoldsTo(ReaderAfter(<<>>), 0, NewLine, ReadsPiece(<<>>, P), ReaderStates(P))
    BY <2>1, ReaderFolds
  <2> QED
    BY <2>2, FoldOfNone
<1>2. ASSUME NEW s \in Seq(P) PROVE ReaderAfter(s) \in ReaderStates(P)
  <2>1. Len(s) \in 0..Len(s)
    OBVIOUS
  <2>2. FoldsTo(ReaderAfter(s), Len(s), NewLine, ReadsPiece(s, P), ReaderStates(P))
    BY ReaderFolds
  <2> QED
    BY <2>1, <2>2 DEF FoldsTo, IsRun
<1>3. ASSUME NEW s \in Seq(P), NEW p \in P
      PROVE  ReaderAfter(Append(s, p)) = ReadPiece(ReaderAfter(s), p)
  <2> DEFINE n == Len(s)
  <2> DEFINE t == Append(s, p)
  <2>1. n \in Nat /\ t \in Seq(P) /\ Len(t) = n + 1 /\ t[n + 1] = p /\ \A i \in 1..n : t[i] = s[i]
    OBVIOUS
  <2> HIDE DEF t
  <2>2. /\ FoldsTo(ReaderAfter(s), n, NewLine, ReadsPiece(s, P), ReaderStates(P))
        /\ FoldsTo(ReaderAfter(t), n + 1, NewLine, ReadsPiece(t, P), ReaderStates(P))
    BY <2>1, ReaderFolds
  <2>3. Agree(ReadsPiece(s, P), ReadsPiece(t, P), n, ReaderStates(P))
    <3> SUFFICES ASSUME NEW k \in 1..n, NEW x \in ReaderStates(P)
                 PROVE  ReadsPiece(s, P)[k][x] = ReadsPiece(t, P)[k][x]
      BY DEF Agree
    <3>1. k \in 1..Len(s) /\ k \in 1..Len(t)
      BY <2>1
    <3> QED
      BY <2>1, <3>1 DEF ReadsPiece
  <2>4. ReaderAfter(t) = ReadsPiece(t, P)[n + 1][ReaderAfter(s)]
    <3> HIDE DEF n
    <3> QED
      BY <2>1, <2>2, <2>3, FoldOfOneMore
  <2>5. ReaderAfter(s) \in ReaderStates(P) /\ n + 1 \in 1..Len(t)
    BY <1>2, <2>1
  <2> QED
    BY <2>1, <2>4, <2>5 DEF ReadsPiece, t
<1> QED
  BY <1>1, <1>2, <1>3

\* The pieces that escaping adds to a text, or treats specially.
Specials == {Backslash, Newline, Return, Open, Close, Char("n"), Char("r")}

\* Escaped text consists of the same pieces.
LEMMA EscapedIsTyped ==
    ASSUME NEW P, Specials \subseteq P, NEW b \in BOOLEAN
    PROVE  \A line \in Seq(P), p \in P : line \o Escaped(p, b) \in Seq(P)
<1> SUFFICES ASSUME NEW line \in Seq(P), NEW p \in P PROVE line \o Escaped(p, b) \in Seq(P)
  OBVIOUS
<1>1. Backslash \in P /\ Char("n") \in P /\ Char("r") \in P
  BY DEF Specials
<1>2. Escaped(p, b) \in Seq(P)
  BY <1>1 DEF Escaped
<1> QED
  BY <1>2

\* What each piece of a text adds to the line.
AddsEscaped(s, P, b) == [i \in 1..Len(s) |-> [x \in Seq(P) |-> x \o Escaped(s[i], b)]]

\* Text is escaped piece by piece.
LEMMA EscapingFolds ==
    ASSUME NEW P, Specials \subseteq P, NEW line \in Seq(P), NEW b \in BOOLEAN, NEW s \in Seq(P)
    PROVE  FoldsTo(AppendEscaped(line, s, b), Len(s), line, AddsEscaped(s, P, b), Seq(P))
<1> DEFINE n == Len(s)
<1> DEFINE h == AddsEscaped(s, P, b)
<1> DEFINE Fold(f) == [t \in SUBSET DOMAIN s |->
                         IF t = {} THEN line ELSE LET x == Max(t) IN f[t \ {x}] \o Escaped(s[x], b)]
<1> DEFINE fold == CHOOSE f : f = Fold(f)
<1>1. n \in Nat /\ DOMAIN s = 1..n /\ line \in Seq(P)
  BY EscapedIsTyped
<1>2. \A i \in 1..n : \A x \in Seq(P) : h[i][x] = x \o Escaped(s[i], b)
  BY DEF AddsEscaped
<1>3. h \in [1..n -> [Seq(P) -> Seq(P)]]
  <2>1. \A i \in 1..n : \A x \in Seq(P) : x \o Escaped(s[i], b) \in Seq(P)
    BY EscapedIsTyped
  <2> QED
    BY <2>1 DEF AddsEscaped
<1>4. AppendEscaped(line, s, b) = fold[DOMAIN s]
  BY DEF AppendEscaped, FoldLeft, MapThenFoldSet
<1> HIDE DEF h, n, fold
<1>5. PICK g \in [SUBSET (1..n) -> Seq(P)] : FoldsUpTo(g, n, line, h)
  BY <1>1, <1>3, FoldExists
<1>6. g = Fold(g)
  <2>1. ASSUME NEW t \in SUBSET (1..n), t # {}
        PROVE  h[Max(t)][g[t \ {Max(t)}]] = g[t \ {Max(t)}] \o Escaped(s[Max(t)], b)
    <3>1. Max(t) \in 1..n /\ t \ {Max(t)} \in SUBSET (1..n)
      BY <1>1, <2>1, LastPlace
    <3> QED
      BY <1>2, <3>1
  <2> QED
    BY <1>1, <1>5, <2>1 DEF FoldsUpTo
<1>7. fold = Fold(fold)
  <2> HIDE DEF Fold
  <2> QED
    BY <1>6 DEF fold
<1>8. fold[{}] = line
  BY <1>7
<1>9. ASSUME NEW t \in SUBSET (1..n), t # {}, fold[t \ {Max(t)}] \in Seq(P)
      PROVE  fold[t] = h[Max(t)][fold[t \ {Max(t)}]]
  <2>1. Max(t) \in 1..n
    BY <1>1, <1>9, LastPlace
  <2>2. fold[t] = fold[t \ {Max(t)}] \o Escaped(s[Max(t)], b)
    BY <1>1, <1>7, <1>9
  <2> QED
    BY <1>2, <1>9, <2>1, <2>2
<1>10. Computes(fold, n, line, h, Seq(P))
  BY <1>8, <1>9 DEF Computes
<1> QED
  <2>1. FoldsTo(fold[1..n], n, line, h, Seq(P))
    BY <1>1, <1>3, <1>10, FoldRuns
  <2> QED
    BY <1>1, <1>4, <2>1 DEF h, n

\* Escaping: no pieces, and one more.
LEMMA EscapedText ==
    ASSUME NEW P, Specials \subseteq P, NEW line \in Seq(P), NEW b \in BOOLEAN
    PROVE  /\ AppendEscaped(line, <<>>, b) = line
           /\ \A s \in Seq(P) : AppendEscaped(line, s, b) \in Seq(P)
<1>1. AppendEscaped(line, <<>>, b) = line
  <2>1. <<>> \in Seq(P) /\ Len(<<>>) = 0
    OBVIOUS
  <2>2. FoldsTo(AppendEscaped(line, <<>>, b), 0, line, AddsEscaped(<<>>, P, b), Seq(P))
    BY <2>1, EscapingFolds
  <2> QED
    BY <2>2, FoldOfNone
<1>2. ASSUME NEW s \in Seq(P) PROVE AppendEscaped(line, s, b) \in Seq(P)
  <2>1. Len(s) \in 0..Len(s)
    OBVIOUS
  <2>2. FoldsTo(AppendEscaped(line, s, b), Len(s), line, AddsEscaped(s, P, b), Seq(P))
    BY EscapingFolds
  <2> QED
    BY <2>1, <2>2 DEF FoldsTo, IsRun
<1> QED
  BY <1>1, <1>2

\* Escaping one more piece.
LEMMA EscapedTextGrows ==
    ASSUME NEW P, Specials \subseteq P, NEW line \in Seq(P), NEW b \in BOOLEAN,
           NEW s \in Seq(P), NEW p \in P
    PROVE  AppendEscaped(line, Append(s, p), b) = AppendEscaped(line, s, b) \o Escaped(p, b)
<1> DEFINE n == Len(s)
<1> DEFINE t == Append(s, p)
<1>1. n \in Nat /\ t \in Seq(P) /\ Len(t) = n + 1 /\ t[n + 1] = p /\ \A i \in 1..n : t[i] = s[i]
  OBVIOUS
<1> HIDE DEF t
<1>2. /\ FoldsTo(AppendEscaped(line, s, b), n, line, AddsEscaped(s, P, b), Seq(P))
      /\ FoldsTo(AppendEscaped(line, t, b), n + 1, line, AddsEscaped(t, P, b), Seq(P))
  BY <1>1, EscapingFolds
<1>3. Agree(AddsEscaped(s, P, b), AddsEscaped(t, P, b), n, Seq(P))
  <2> SUFFICES ASSUME NEW k \in 1..n, NEW x \in Seq(P)
               PROVE  AddsEscaped(s, P, b)[k][x] = AddsEscaped(t, P, b)[k][x]
    BY DEF Agree
  <2>1. k \in 1..Len(s) /\ k \in 1..Len(t)
    BY <1>1
  <2> QED
    BY <1>1, <2>1 DEF AddsEscaped
<1>4. AppendEscaped(line, t, b) = AddsEscaped(t, P, b)[n + 1][AppendEscaped(line, s, b)]
  <2> HIDE DEF n
  <2> QED
    BY <1>1, <1>2, <1>3, FoldOfOneMore
<1>5. AppendEscaped(line, s, b) \in Seq(P) /\ n + 1 \in 1..Len(t)
  BY <1>1, EscapedText
<1> QED
  BY <1>1, <1>4, <1>5 DEF AddsEscaped, t

-----------------------------------------------------------------------------
(* What the reader does with a piece *)

\* The reader has these fields and this much of the next one, and takes the
\* next piece as it is.
Reader(fields, field, escaped) == [fields |-> fields, field |-> field, escaped |-> escaped]

Plain == FALSE
Escaping == TRUE

Reads(line, fields, field) == ReaderAfter(line) = Reader(fields, field, Plain)

\* The pieces of lines: any, and those that have a meaning for the reader.
ArePieces(P) == Specials \cup {Space} \subseteq P

\* The characters differ.
LEMMA CharactersDiffer ==
    /\ Backslash # Newline /\ Backslash # Return /\ Backslash # Open /\ Backslash # Close
    /\ Backslash # Space /\ Backslash # Char("n") /\ Backslash # Char("r")
    /\ Newline # Return /\ Newline # Open /\ Newline # Close /\ Newline # Space
    /\ Newline # Char("n") /\ Newline # Char("r")
    /\ Return # Open /\ Return # Close /\ Return # Char("n") /\ Return # Char("r")
    /\ Open # Close /\ Open # Space /\ Close # Space
    /\ Open # Char("n") /\ Open # Char("r") /\ Close # Char("n") /\ Close # Char("r")
    /\ Char("n") # Char("r")
BY DEF Backslash, Newline, Return, Open, Close, Space, Char

\* A reader with another field, other fields, and another state of the escape.
LEMMA ReaderChanges ==
    ASSUME NEW fields, NEW field, NEW escaped, NEW r, r = Reader(fields, field, escaped)
    PROVE  /\ \A x : [r EXCEPT !.field = x] = Reader(fields, x, escaped)
           /\ \A x : [r EXCEPT !.fields = x] = Reader(x, field, escaped)
           /\ \A x : [r EXCEPT !.escaped = x] = Reader(fields, field, x)
<1>1. ASSUME NEW x
      PROVE  [Reader(fields, field, escaped) EXCEPT !.field = x] = Reader(fields, x, escaped)
  BY DEF Reader
<1>2. ASSUME NEW x
      PROVE  [Reader(fields, field, escaped) EXCEPT !.fields = x] = Reader(x, field, escaped)
  BY DEF Reader
<1>3. ASSUME NEW x
      PROVE  [Reader(fields, field, escaped) EXCEPT !.escaped = x] = Reader(fields, field, x)
  BY DEF Reader
<1> QED
  BY <1>1, <1>2, <1>3

\* What ends a field.
Delimiter(fields) == IF Len(fields) < FieldCount THEN Close ELSE Newline

\* After a backslash the reader takes the meaning of a piece.
LEMMA StepEscaped ==
    ASSUME NEW fields, NEW field, NEW p
    PROVE  ReadPiece(Reader(fields, field, Escaping), p) =
             Reader(fields, Append(field, Meaning(p)), Plain)
<1>1. PICK r : r = Reader(fields, field, Escaping)
  OBVIOUS
<1>2. PICK more : more = Append(field, Meaning(p))
  OBVIOUS
<1>3. r.field = field /\ r.escaped
  BY <1>1 DEF Reader, Plain, Escaping
<1>4. ReadPiece(r, p) = [r EXCEPT !.escaped = Plain, !.field = more]
  BY <1>2, <1>3 DEF Plain, Escaping, ReadPiece
<1>5. [r EXCEPT !.escaped = Plain, !.field = more] =
        [[r EXCEPT !.escaped = Plain] EXCEPT !.field = more]
  OBVIOUS
<1>6. [r EXCEPT !.escaped = Plain] = Reader(fields, field, Plain)
  BY <1>1, ReaderChanges
<1>7. [Reader(fields, field, Plain) EXCEPT !.field = more] = Reader(fields, more, Plain)
  BY ReaderChanges
<1>8. ReadPiece(r, p) = Reader(fields, more, Plain)
  BY <1>4, <1>5, <1>6, <1>7
<1> QED
  BY <1>1, <1>2, <1>8

\* A backslash is remembered.
LEMMA StepBackslash ==
    ASSUME NEW fields, NEW field
    PROVE  ReadPiece(Reader(fields, field, Plain), Backslash) = Reader(fields, field, Escaping)
<1>1. PICK r : r = Reader(fields, field, Plain)
  OBVIOUS
<1>2. ~r.escaped
  BY <1>1 DEF Reader, Plain, Escaping
<1>3. ReadPiece(r, Backslash) = [r EXCEPT !.escaped = Escaping]
  BY <1>2 DEF Plain, Escaping, ReadPiece
<1>4. [r EXCEPT !.escaped = Escaping] = Reader(fields, field, Escaping)
  BY <1>1, ReaderChanges
<1> QED
  BY <1>1, <1>3, <1>4

\* The delimiter ends a field.
LEMMA StepEnd ==
    ASSUME NEW fields, NEW field, NEW p, p = Delimiter(fields), p # Backslash
    PROVE  ReadPiece(Reader(fields, field, Plain), p) = Reader(Append(fields, field), <<>>, Plain)
<1>1. PICK r : r = Reader(fields, field, Plain)
  OBVIOUS
<1>2. PICK more : more = Append(fields, field)
  OBVIOUS
<1>3. r.fields = fields /\ r.field = field /\ ~r.escaped
  BY <1>1 DEF Reader, Plain, Escaping
<1>4. ReadPiece(r, p) = [r EXCEPT !.fields = more, !.field = <<>>]
  BY <1>2, <1>3 DEF Plain, Escaping, ReadPiece, Delimiter
<1>5. [r EXCEPT !.fields = more, !.field = <<>>] = [[r EXCEPT !.fields = more] EXCEPT !.field = <<>>]
  OBVIOUS
<1>6. [r EXCEPT !.fields = more] = Reader(more, field, Plain)
  BY <1>1, ReaderChanges
<1>7. [Reader(more, field, Plain) EXCEPT !.field = <<>>] = Reader(more, <<>>, Plain)
  BY ReaderChanges
<1>8. ReadPiece(r, p) = Reader(more, <<>>, Plain)
  BY <1>4, <1>5, <1>6, <1>7
<1> QED
  BY <1>1, <1>2, <1>8

\* A bracket at the beginning of a field opens it.
LEMMA StepOpen ==
    ASSUME NEW fields, Len(fields) < FieldCount
    PROVE  ReadPiece(Reader(fields, <<>>, Plain), Open) = Reader(fields, <<>>, Plain)
<1>1. PICK r : r = Reader(fields, <<>>, Plain)
  OBVIOUS
<1>2. r.fields = fields /\ r.field = <<>> /\ ~r.escaped
  BY <1>1 DEF Reader, Plain, Escaping
<1>3. Open # Backslash /\ Open # Close
  BY CharactersDiffer
<1>4. ReadPiece(r, Open) = r
  BY <1>2, <1>3 DEF Plain, Escaping, ReadPiece
<1> QED
  BY <1>1, <1>4

\* Any other piece is added to the field.
LEMMA StepPlain ==
    ASSUME NEW fields, NEW field, NEW p, p # Backslash, p # Delimiter(fields),
           ~(Len(fields) < FieldCount /\ p = Open)
    PROVE  ReadPiece(Reader(fields, field, Plain), p) = Reader(fields, Append(field, p), Plain)
<1>1. PICK r : r = Reader(fields, field, Plain)
  OBVIOUS
<1>2. PICK more : more = Append(field, p)
  OBVIOUS
<1>3. r.fields = fields /\ r.field = field /\ ~r.escaped
  BY <1>1 DEF Reader, Plain, Escaping
<1>4. ReadPiece(r, p) = [r EXCEPT !.field = more]
  BY <1>2, <1>3 DEF Plain, Escaping, ReadPiece, Delimiter
<1>5. [r EXCEPT !.field = more] = Reader(fields, more, Plain)
  BY <1>1, ReaderChanges
<1> QED
  BY <1>1, <1>2, <1>4, <1>5

\* One more piece for the reader.
LEMMA ReadsOneMore ==
    ASSUME NEW P, ArePieces(P), NEW line \in Seq(P), NEW p \in P
    PROVE  Append(line, p) \in Seq(P) /\ ReaderAfter(Append(line, p)) = ReadPiece(ReaderAfter(line), p)
<1>1. Newline \in P /\ Return \in P
  BY DEF ArePieces, Specials
<1> QED
  BY <1>1, ReaderOfLine

\* A piece without a meaning of its own is added to the field.
LEMMA ReadsPlainPiece ==
    ASSUME NEW P, ArePieces(P), NEW line \in Seq(P), NEW fields, NEW field, NEW p \in P,
           Reads(line, fields, field), p # Backslash, p # Delimiter(fields),
           ~(Len(fields) < FieldCount /\ p = Open)
    PROVE  Append(line, p) \in Seq(P) /\ Reads(Append(line, p), fields, Append(field, p))
<1>1. ReadPiece(ReaderAfter(line), p) = Reader(fields, Append(field, p), Plain)
  BY StepPlain DEF Reads
<1> QED
  BY <1>1, ReadsOneMore DEF Reads

\* A backslash and what follows it add the meaning of what follows.
LEMMA ReadsEscapedPiece ==
    ASSUME NEW P, ArePieces(P), NEW line \in Seq(P), NEW fields, NEW field, NEW p \in P,
           Reads(line, fields, field)
    PROVE  /\ Append(Append(line, Backslash), p) \in Seq(P)
           /\ Reads(Append(Append(line, Backslash), p), fields, Append(field, Meaning(p)))
<1>1. Backslash \in P
  BY DEF ArePieces, Specials
<1>2. PICK first : first = Append(line, Backslash)
  OBVIOUS
<1>3. ReadPiece(ReaderAfter(line), Backslash) = Reader(fields, field, Escaping)
  BY StepBackslash DEF Reads
<1>4. first \in Seq(P) /\ ReaderAfter(first) = Reader(fields, field, Escaping)
  BY <1>1, <1>2, <1>3, ReadsOneMore
<1>5. ReadPiece(ReaderAfter(first), p) = Reader(fields, Append(field, Meaning(p)), Plain)
  BY <1>4, StepEscaped
<1>6. Append(first, p) \in Seq(P) /\ ReaderAfter(Append(first, p)) = ReadPiece(ReaderAfter(first), p)
  BY <1>4, ReadsOneMore
<1> QED
  BY <1>2, <1>5, <1>6 DEF Reads

\* The end of a field.
LEMMA ReadsEnd ==
    ASSUME NEW P, ArePieces(P), NEW line \in Seq(P), NEW fields, NEW field,
           Reads(line, fields, field), NEW p, p = Delimiter(fields)
    PROVE  Append(line, p) \in Seq(P) /\ Reads(Append(line, p), Append(fields, field), <<>>)
<1>1. p \in P /\ p # Backslash
  BY CharactersDiffer DEF ArePieces, Specials, Delimiter
<1>2. ReadPiece(ReaderAfter(line), p) = Reader(Append(fields, field), <<>>, Plain)
  BY <1>1, StepEnd DEF Reads
<1> QED
  BY <1>1, <1>2, ReadsOneMore DEF Reads

\* The bracket that opens a field.
LEMMA ReadsOpen ==
    ASSUME NEW P, ArePieces(P), NEW line \in Seq(P), NEW fields, Reads(line, fields, <<>>),
           Len(fields) < FieldCount
    PROVE  Append(line, Open) \in Seq(P) /\ Reads(Append(line, Open), fields, <<>>)
<1>1. Open \in P
  BY DEF ArePieces, Specials
<1>2. ReadPiece(ReaderAfter(line), Open) = Reader(fields, <<>>, Plain)
  BY StepOpen DEF Reads
<1> QED
  BY <1>1, <1>2, ReadsOneMore DEF Reads

-----------------------------------------------------------------------------
(* Reading back what was rendered *)

\* Escaping one piece and reading it gives the piece.
LEMMA ReadsEscapedForm ==
    ASSUME NEW P, ArePieces(P), NEW line \in Seq(P), NEW fields, NEW field, NEW p \in P,
           Reads(line, fields, field), NEW b \in BOOLEAN, b <=> Len(fields) < FieldCount
    PROVE  /\ line \o Escaped(p, b) \in Seq(P)
           /\ Reads(line \o Escaped(p, b), fields, Append(field, p))
<1>1. \A q \in P : line \o <<q>> = Append(line, q)
  OBVIOUS
<1>2. Backslash \in P /\ Char("n") \in P /\ Char("r") \in P
  BY DEF ArePieces, Specials
<1>3. \A q \in P : line \o <<Backslash, q>> = Append(Append(line, Backslash), q)
  BY <1>2
<1>4. ASSUME NEW q \in P, Escaped(p, b) = <<Backslash, q>>, Meaning(q) = p
      PROVE  line \o Escaped(p, b) \in Seq(P) /\ Reads(line \o Escaped(p, b), fields, Append(field, p))
  <2>1. line \o Escaped(p, b) = Append(Append(line, Backslash), q)
    BY <1>3, <1>4
  <2>2. /\ Append(Append(line, Backslash), q) \in Seq(P)
        /\ Reads(Append(Append(line, Backslash), q), fields, Append(field, Meaning(q)))
    BY ReadsEscapedPiece
  <2> QED
    BY <1>4, <2>1, <2>2
<1>5. CASE p = Newline
  <2>1. Escaped(p, b) = <<Backslash, Char("n")>> /\ Meaning(Char("n")) = p
    BY <1>5 DEF Escaped, Meaning
  <2> QED
    BY <1>2, <1>4, <2>1
<1>6. CASE p = Return
  <2>1. Escaped(p, b) = <<Backslash, Char("r")>>
    BY <1>6, CharactersDiffer DEF Escaped
  <2>2. Meaning(Char("r")) = p
    BY <1>6, CharactersDiffer DEF Meaning
  <2> QED
    BY <1>2, <1>4, <2>1, <2>2
<1>7. CASE p = Backslash \/ (p \in {Open, Close} /\ b)
  <2>1. Escaped(p, b) = <<Backslash, p>>
    BY <1>7, CharactersDiffer DEF Escaped
  <2>2. Meaning(p) = p
    BY <1>7, CharactersDiffer DEF Meaning
  <2> QED
    BY <1>4, <2>1, <2>2
<1>8. CASE p \notin {Newline, Return, Backslash} /\ ~(p \in {Open, Close} /\ b)
  <2>1. Escaped(p, b) = <<p>>
    BY <1>8 DEF Escaped
  <2>2. p # Backslash /\ p # Delimiter(fields) /\ ~(Len(fields) < FieldCount /\ p = Open)
    BY <1>8 DEF Delimiter
  <2>3. Append(line, p) \in Seq(P) /\ Reads(Append(line, p), fields, Append(field, p))
    BY <2>2, ReadsPlainPiece
  <2> QED
    BY <1>1, <2>1, <2>3
<1> QED
  BY <1>5, <1>6, <1>7, <1>8

\* Escaping a text and reading it gives the text.
LEMMA ReadsEscapedText ==
    ASSUME NEW P, ArePieces(P), NEW line \in Seq(P), NEW fields, NEW field \in Seq(P),
           NEW text \in Seq(P), Reads(line, fields, field),
           NEW b \in BOOLEAN, b <=> Len(fields) < FieldCount
    PROVE  /\ AppendEscaped(line, text, b) \in Seq(P)
           /\ Reads(AppendEscaped(line, text, b), fields, field \o text)
<1> DEFINE T == {t \in Seq(P) : Reads(AppendEscaped(line, t, b), fields, field \o t)}
<1>1. Specials \subseteq P
  BY DEF ArePieces
<1>2. \A t \in Seq(P) : AppendEscaped(line, t, b) \in Seq(P)
  BY <1>1, EscapedText
<1>3. <<>> \in T
  <2>1. AppendEscaped(line, <<>>, b) = line
    BY <1>1, EscapedText
  <2>2. field \o <<>> = field /\ <<>> \in Seq(P)
    OBVIOUS
  <2> QED
    BY <2>1, <2>2
<1>4. ASSUME NEW t \in Seq(P), NEW p \in P, t \in T PROVE Append(t, p) \in T
  <2>1. AppendEscaped(line, Append(t, p), b) = AppendEscaped(line, t, b) \o Escaped(p, b)
    BY <1>1, EscapedTextGrows
  <2>2. Reads(AppendEscaped(line, t, b), fields, field \o t) /\ AppendEscaped(line, t, b) \in Seq(P)
    BY <1>2, <1>4
  <2>3. Reads(AppendEscaped(line, t, b) \o Escaped(p, b), fields, Append(field \o t, p))
    BY <2>2, ReadsEscapedForm
  <2>4. Append(field \o t, p) = field \o Append(t, p) /\ Append(t, p) \in Seq(P)
    <3>1. Append(t, p) \in Seq(P) /\ <<p>> \in Seq(P) /\ field \o t \in Seq(P)
      OBVIOUS
    <3>2. Append(t, p) = t \o <<p>> /\ Append(field \o t, p) = (field \o t) \o <<p>>
      BY <3>1
    <3>3. PICK last \in Seq(P) : last = <<p>>
      BY <3>1
    <3>4. (field \o t) \o last = field \o (t \o last)
      BY ConcatAssociative
    <3> QED
      BY <3>1, <3>2, <3>3, <3>4
  <2> QED
    BY <2>1, <2>3, <2>4
<1>5. Seq(P) \subseteq T
  <2> HIDE DEF T
  <2> QED
    BY <1>3, <1>4, SequenceInduction
<1> QED
  BY <1>2, <1>5

\* A field of one piece between brackets.
LEMMA ReadsField ==
    ASSUME NEW P, ArePieces(P), NEW line \in Seq(P), NEW fields, Reads(line, fields, <<>>),
           Len(fields) < FieldCount, NEW p \in P, p # Backslash, p # Open, p # Close
    PROVE  /\ Append(Append(Append(line, Open), p), Close) \in Seq(P)
           /\ Reads(Append(Append(Append(line, Open), p), Close), Append(fields, <<p>>), <<>>)
<1>1. Delimiter(fields) = Close /\ Append(<<>>, p) = <<p>>
  BY DEF Delimiter
<1>2. PICK opened : opened = Append(line, Open)
  OBVIOUS
<1>3. opened \in Seq(P) /\ Reads(opened, fields, <<>>)
  BY <1>2, ReadsOpen
<1>4. PICK filled : filled = Append(opened, p)
  OBVIOUS
<1>5. filled \in Seq(P) /\ Reads(filled, fields, Append(<<>>, p))
  BY <1>1, <1>3, <1>4, ReadsPlainPiece
<1>6. Append(filled, Close) \in Seq(P) /\ Reads(Append(filled, Close), Append(fields, <<p>>), <<>>)
  BY <1>1, <1>5, ReadsEnd
<1> QED
  BY <1>2, <1>4, <1>6

\* The last bracket of the header.
LEMMA HeaderIsWhole ==
    ASSUME NEW o, NEW a, NEW e, NEW b, NEW c, NEW d
    PROVE  Append(<<o, a, e, o, b, e, o, c, e, o, d, e>>, o) =
             <<o, a, e, o, b, e, o, c, e, o, d, e, o>>
<1>1. PICK s, t : /\ s = <<o, a, e, o, b, e, o, c, e, o, d, e>>
                  /\ t = <<o, a, e, o, b, e, o, c, e, o, d, e, o>>
  OBVIOUS
<1>2. t = Append(s, o)
  BY <1>1
<1> QED
  BY <1>1, <1>2

\* Four fields, and the bracket of the fifth.
LEMMA ReadsHeader ==
    ASSUME NEW P, ArePieces(P), NEW a \in P, NEW b \in P, NEW c \in P, NEW d \in P,
           {a, b, c, d} \cap Specials = {}
    PROVE  LET header == <<Open, a, Close, Open, b, Close, Open, c, Close, Open, d, Close, Open>>
           IN  header \in Seq(P) /\ Reads(header, <<<<a>>, <<b>>, <<c>>, <<d>>>>, <<>>)
<1>1. \A p \in {a, b, c, d} : p # Backslash /\ p # Open /\ p # Close
  BY DEF Specials
<1>2. Reads(<<>>, <<>>, <<>>) /\ <<>> \in Seq(P) /\ Len(<<>>) < FieldCount
  <2>1. Newline \in P /\ Return \in P
    BY DEF ArePieces, Specials
  <2>2. ReaderAfter(<<>>) = NewLine
    BY <2>1, ReaderOfLine
  <2> QED
    BY <2>2 DEF Reads, NewLine, Reader, Plain, FieldCount
<1>3. PICK l1, f1 : l1 = <<Open, a, Close>> /\ f1 = <<<<a>>>>
  OBVIOUS
<1>4. l1 = Append(Append(Append(<<>>, Open), a), Close) /\ f1 = Append(<<>>, <<a>>)
  BY <1>3
<1>5. l1 \in Seq(P) /\ Reads(l1, f1, <<>>) /\ Len(f1) < FieldCount
  <2>1. /\ Append(Append(Append(<<>>, Open), a), Close) \in Seq(P)
        /\ Reads(Append(Append(Append(<<>>, Open), a), Close), Append(<<>>, <<a>>), <<>>)
    BY <1>1, <1>2, ReadsField
  <2>2. Len(f1) < FieldCount
    BY <1>3 DEF FieldCount
  <2> QED
    BY <1>4, <2>1, <2>2
<1>6. PICK l2, f2 : l2 = <<Open, a, Close, Open, b, Close>> /\ f2 = <<<<a>>, <<b>>>>
  OBVIOUS
<1>7. l2 = Append(Append(Append(l1, Open), b), Close) /\ f2 = Append(f1, <<b>>)
  BY <1>3, <1>6
<1>8. l2 \in Seq(P) /\ Reads(l2, f2, <<>>) /\ Len(f2) < FieldCount
  <2>1. /\ Append(Append(Append(l1, Open), b), Close) \in Seq(P)
        /\ Reads(Append(Append(Append(l1, Open), b), Close), Append(f1, <<b>>), <<>>)
    BY <1>1, <1>5, ReadsField
  <2>2. Len(f2) < FieldCount
    BY <1>6 DEF FieldCount
  <2> QED
    BY <1>7, <2>1, <2>2
<1>9. PICK l3, f3 : l3 = <<Open, a, Close, Open, b, Close, Open, c, Close>>
                    /\ f3 = <<<<a>>, <<b>>, <<c>>>>
  OBVIOUS
<1>10. l3 = Append(Append(Append(l2, Open), c), Close) /\ f3 = Append(f2, <<c>>)
  BY <1>6, <1>9
<1>11. l3 \in Seq(P) /\ Reads(l3, f3, <<>>) /\ Len(f3) < FieldCount
  <2>1. /\ Append(Append(Append(l2, Open), c), Close) \in Seq(P)
        /\ Reads(Append(Append(Append(l2, Open), c), Close), Append(f2, <<c>>), <<>>)
    BY <1>1, <1>8, ReadsField
  <2>2. Len(f3) < FieldCount
    BY <1>9 DEF FieldCount
  <2> QED
    BY <1>10, <2>1, <2>2
<1>12. PICK l4, f4 : l4 = <<Open, a, Close, Open, b, Close, Open, c, Close, Open, d, Close>>
                     /\ f4 = <<<<a>>, <<b>>, <<c>>, <<d>>>>
  OBVIOUS
<1>13. l4 = Append(Append(Append(l3, Open), d), Close) /\ f4 = Append(f3, <<d>>)
  BY <1>9, <1>12
<1>14. l4 \in Seq(P) /\ Reads(l4, f4, <<>>) /\ Len(f4) < FieldCount
  <2>1. /\ Append(Append(Append(l3, Open), d), Close) \in Seq(P)
        /\ Reads(Append(Append(Append(l3, Open), d), Close), Append(f3, <<d>>), <<>>)
    BY <1>1, <1>11, ReadsField
  <2>2. Len(f4) < FieldCount
    BY <1>12 DEF FieldCount
  <2> QED
    BY <1>13, <2>1, <2>2
<1>15. Append(l4, Open) = <<Open, a, Close, Open, b, Close, Open, c, Close, Open, d, Close, Open>>
  BY <1>12, HeaderIsWhole
<1>16. Append(l4, Open) \in Seq(P) /\ Reads(Append(l4, Open), f4, <<>>)
  BY <1>14, ReadsOpen
<1> QED
  BY <1>12, <1>15, <1>16

\* The message of a record and the newline after it.
LEMMA ReadsMessage ==
    ASSUME NEW P, ArePieces(P), NEW line \in Seq(P), NEW fields, NEW message \in Seq(P),
           Reads(line, fields, <<>>), ~(Len(fields) < FieldCount)
    PROVE  LET body == AppendEscaped(Append(line, Space), message, FALSE)
           IN  /\ body \in Seq(P)
               /\ Reads(Append(body, Newline), Append(fields, <<Space>> \o message), <<>>)
<1>1. PICK spaced : spaced = Append(line, Space)
  OBVIOUS
<1>2. Space \in P /\ Space # Backslash /\ Space # Delimiter(fields) /\ Append(<<>>, Space) = <<Space>>
  BY CharactersDiffer DEF ArePieces, Delimiter
<1>3. spaced \in Seq(P) /\ Reads(spaced, fields, <<Space>>) /\ <<Space>> \in Seq(P)
  <2>1. Append(line, Space) \in Seq(P) /\ Reads(Append(line, Space), fields, Append(<<>>, Space))
    BY <1>2, ReadsPlainPiece
  <2> QED
    BY <1>1, <1>2, <2>1
<1>4. /\ AppendEscaped(spaced, message, FALSE) \in Seq(P)
      /\ Reads(AppendEscaped(spaced, message, FALSE), fields, <<Space>> \o message)
  <2>1. PICK b \in BOOLEAN : b = FALSE
    OBVIOUS
  <2>2. /\ AppendEscaped(spaced, message, b) \in Seq(P)
        /\ Reads(AppendEscaped(spaced, message, b), fields, <<Space>> \o message)
    BY <1>3, <2>1, ReadsEscapedText
  <2> QED
    BY <2>1, <2>2
<1>5. Newline = Delimiter(fields)
  BY DEF Delimiter
<1> QED
  BY <1>1, <1>4, <1>5, ReadsEnd

Severities == 1..6

\* The pieces of the header have no meaning for the reader.
LEMMA HeaderPieces ==
    ASSUME NEW time, NEW pid, NEW tid, NEW level \in Severities
    PROVE  {Timestamp(Normalized(time)), Decimal(pid), Decimal(tid), LevelName(level)}
             \cap Specials = {}
<1>1. \A p \in Specials : p.text \in {"backslash", "newline", "return", "[", "]", "n", "r"}
  BY DEF Specials, Backslash, Newline, Return, Open, Close, Char
<1>2. Timestamp(Normalized(time)).text = "timestamp" /\ Decimal(pid).text = "decimal"
      /\ Decimal(tid).text = "decimal"
  BY DEF Timestamp, Decimal
<1>3. LevelName(level).text \in {"FATAL", "ERROR", "WARN", "INFO", "DEBUG", "VERBOSE"}
  BY DEF LevelName, Severities
<1> QED
  BY <1>1, <1>2, <1>3

\* The line of a record ends with its newline.
LEMMA LineIsWhole ==
    ASSUME NEW P, ArePieces(P), NEW body \in Seq(P), NEW line, line = Append(body, Newline)
    PROVE  Front(line) \o <<Last(line)>> = line
<1>1. Newline \in P
  BY DEF ArePieces, Specials
<1>2. line \in Seq(P) /\ Len(line) = Len(body) + 1 /\ Len(body) \in Nat
  BY <1>1
<1>3. Front(line) = SubSeq(line, 1, Len(body)) /\ Last(line) = line[Len(body) + 1]
  BY <1>2 DEF Front, Last
<1>4. Front(line) = body
  BY <1>1, <1>2, <1>3
<1>5. Last(line) = Newline
  BY <1>1, <1>2, <1>3
<1> QED
  BY <1>1, <1>4, <1>5

\* What a reader should make of a record.
Fields(clock, pid, tid, level, context, message) ==
    <<<<Timestamp(clock)>>, <<Decimal(pid)>>, <<Decimal(tid)>>, <<LevelName(level)>>, context,
      <<Space>> \o message>>

\* The line is a text and a last piece.
IsWhole(line) == Front(line) \o <<Last(line)>> = line

\* A reader gets back what a record was rendered from.
LEMMA LineReadsBack ==
    ASSUME NEW P, NEW time, NEW pid, NEW tid, NEW level \in Severities,
           NEW context \in Seq(P), NEW message \in Seq(P),
           NEW line, line = ConsoleText(time, pid, tid, level, context, message)
    PROVE  /\ IsWhole(line)
           /\ ReadLine(line) = Fields(Normalized(time), pid, tid, level, context, message)
<1>1. PICK a, b, c, d : a = Timestamp(Normalized(time)) /\ b = Decimal(pid) /\ c = Decimal(tid)
                        /\ d = LevelName(level)
  OBVIOUS
<1>2. PICK Q : Q = P \cup {a, b, c, d} \cup Specials \cup {Space}
  OBVIOUS
<1>3. ArePieces(Q) /\ a \in Q /\ b \in Q /\ c \in Q /\ d \in Q /\ {a, b, c, d} \cap Specials = {}
  BY <1>1, <1>2, HeaderPieces DEF ArePieces
<1>4. context \in Seq(Q) /\ message \in Seq(Q)
  BY <1>2
<1>5. PICK header, fields :
        /\ header = <<Open, a, Close, Open, b, Close, Open, c, Close, Open, d, Close, Open>>
        /\ fields = <<<<a>>, <<b>>, <<c>>, <<d>>>>
  OBVIOUS
<1>6. header \in Seq(Q) /\ Reads(header, fields, <<>>)
  BY <1>3, <1>5, ReadsHeader
<1>7. PICK named : named = AppendEscaped(header, context, TRUE)
  OBVIOUS
<1>8. named \in Seq(Q) /\ Reads(named, fields, context)
  <2>1. PICK yes \in BOOLEAN : yes = TRUE
    OBVIOUS
  <2>2. Len(fields) < FieldCount /\ <<>> \in Seq(Q) /\ <<>> \o context = context
    BY <1>4, <1>5 DEF FieldCount
  <2>3. /\ AppendEscaped(header, context, yes) \in Seq(Q)
        /\ Reads(AppendEscaped(header, context, yes), fields, <<>> \o context)
    BY <1>3, <1>4, <1>6, <2>1, <2>2, ReadsEscapedText
  <2> QED
    BY <1>7, <2>1, <2>2, <2>3
<1>9. PICK closed, all : closed = Append(named, Close) /\ all = Append(fields, context)
  OBVIOUS
<1>10. closed \in Seq(Q) /\ Reads(closed, all, <<>>)
  <2>1. Delimiter(fields) = Close
    BY <1>5 DEF Delimiter, FieldCount
  <2> QED
    BY <1>3, <1>8, <1>9, <2>1, ReadsEnd
<1>11. PICK w, x, y, z, five : w = <<a>> /\ x = <<b>> /\ y = <<c>> /\ z = <<d>>
                               /\ five = <<w, x, y, z, context>>
  OBVIOUS
<1>12. fields = <<w, x, y, z>>
  BY <1>5, <1>11
<1>13. five = Append(fields, context)
  BY <1>11, <1>12
<1>14. all = <<w, x, y, z, context>> /\ ~(Len(all) < FieldCount)
  <2>1. all = five
    BY <1>9, <1>13
  <2>2. Len(five) = 5
    BY <1>11
  <2> QED
    BY <1>11, <2>1, <2>2 DEF FieldCount
<1>15. PICK said, six : said = <<Space>> \o message /\ six = <<w, x, y, z, context, said>>
  OBVIOUS
<1>16. six = Append(all, said)
  BY <1>14, <1>15
<1>17. PICK body : body = AppendEscaped(Append(closed, Space), message, FALSE)
  OBVIOUS
<1>18. body \in Seq(Q) /\ Reads(Append(body, Newline), six, <<>>)
  <2>1. ~(Len(all) < FieldCount)
    BY <1>14
  <2>2. /\ body \in Seq(Q)
        /\ Reads(Append(body, Newline), Append(all, <<Space>> \o message), <<>>)
    BY <1>3, <1>4, <1>10, <1>17, <2>1, ReadsMessage
  <2> QED
    BY <1>15, <1>16, <2>2
<1>20. line = Append(body, Newline)
  <2>1. named \o <<Close, Space>> = Append(closed, Space)
    BY <1>8, <1>9
  <2> QED
    BY <1>1, <1>5, <1>7, <1>17, <2>1 DEF ConsoleText
<1>21. ReadLine(line) = six
  <2>1. Reads(line, six, <<>>)
    BY <1>18, <1>20
  <2>2. ReaderAfter(line).fields = six
    BY <2>1 DEF Reads, Reader
  <2> QED
    BY <2>2 DEF ReaderAfter, NewLine, ReadLine
<1>22. IsWhole(line)
  BY <1>3, <1>18, <1>20, LineIsWhole DEF IsWhole
<1>23. six = <<<<a>>, <<b>>, <<c>>, <<d>>, context, <<Space>> \o message>>
  BY <1>11, <1>15
<1> QED
  BY <1>1, <1>21, <1>22, <1>23 DEF Fields

-----------------------------------------------------------------------------
(* Lines say what was logged *)

\* The steps with a rendered line.
Rendered == {"Write", "Part 1", "Part 2", "Leave"}

\* What is known of a thread in Flush: the time it read is that of its clock, its
\* line says what its stream holds, and the half it has written is of this line.
LineHolds(t) ==
    /\ pc[t] \in Rendered \cup {"Render"} =>
         /\ job[t].clock \in Clocks /\ IsConvertible(job[t].clock)
         /\ job[t].time = UnixMilliseconds(job[t].clock)
    /\ pc[t] \in Rendered => job[t].line = Text(t)
    /\ pc[t] = "Part 2" => stdout[Len(stdout)].text = Front(job[t].line)

LinesInv == (\A t \in Threads : LineHolds(t)) /\ LinesAreExact

\* What a line on stdout says.
Says(line, entry) ==
    /\ Bytes(line) <= RecordCapacity
    /\ ReadLine(line) =
         Fields(entry.clock, Pid, entry.tid, entry.level, entry.logger.name, entry.content)

\* The line of a thread inside fwrite can be cut before its last piece, and says
\* what the thread's stream holds.
LEMMA LineIsExact ==
    ASSUME StreamInv, NEW t \in Threads, LineHolds(t), pc[t] \in Rendered
    PROVE  /\ IsWhole(job[t].line)
           /\ Says(job[t].line, Part(t, 2))
<1> DEFINE s == job[t].stream
<1>1. /\ stream[s] \in StreamValues /\ stream[s].logger # Null
      /\ IsEmittable(stream[s].logger, stream[s].level, inserted[s])
  <2>1. pc[t] # "Idle"
    BY DEF Rendered
  <2> QED
    BY <2>1, RecordInFlush
<1>2. PICK name, content, level, clock, line :
        /\ name = stream[s].logger.name /\ content = stream[s].content
        /\ level = stream[s].level /\ clock = job[t].clock /\ line = job[t].line
  OBVIOUS
<1>3. content \in Seq(Pieces) /\ level \in Severities /\ name \in Seq(ToSet(name))
  BY <1>1, <1>2, LoggersAssumption DEF StreamValues, IsEmittable, IsEnabled, kFatal,
     kVerbose, Severities
<1>4. clock \in [second : Int, ms : 0..(MsPerSecond - 1)] /\ IsConvertible(clock)
  BY <1>2, ClocksAssumption DEF LineHolds
<1>12. PICK time : time = UnixMilliseconds(clock)
  OBVIOUS
<1>5. line = ConsoleText(time, Pid, t, level, name, content)
  BY <1>2, <1>12 DEF LineHolds, Text, Current, Rendered
<1>6. Normalized(time) = clock
  BY <1>4, <1>12, ClockReadsBack
<1>7. PICK P : P = Pieces \cup ToSet(name)
  OBVIOUS
<1>8. name \in Seq(P) /\ content \in Seq(P)
  BY <1>3, <1>7
<1>9. IsWhole(line) /\ ReadLine(line) = Fields(clock, Pid, t, level, name, content)
  <2>1. level \in Severities
    BY <1>3
  <2>2. IsWhole(line) /\ ReadLine(line) = Fields(Normalized(time), Pid, t, level, name, content)
    BY <1>5, <1>8, <2>1, LineReadsBack
  <2> QED
    BY <1>6, <2>2
<1>10. Bytes(line) <= RecordCapacity
  BY <1>2 DEF StreamInv, JobsAreTyped, JobIsTyped
<1>11. /\ Part(t, 2).clock = clock /\ Part(t, 2).tid = t /\ Part(t, 2).level = level
       /\ Part(t, 2).logger.name = name /\ Part(t, 2).content = content
  BY <1>2 DEF Part, Current
<1> QED
  BY <1>2, <1>9, <1>10, <1>11 DEF Says

\* What a thread renders from and into stays as it is in the steps of others.
LEMMA OthersKeepLines ==
    ASSUME StreamInv, NEW t \in Threads, SubmitStep(t) \/ \E s \in Streams : Operation(t, s),
           NEW u \in Threads \ {t}, LineHolds(u)
    PROVE  LineHolds(u)'
<1>1. Proceeds(t) \/ Finishes(t) \/ Operates(t)
  BY StepKinds
<1>2. DOMAIN pc = Threads /\ DOMAIN job = Threads
  BY DEF StreamInv, Inv, Shape
<1>3. pc'[u] = pc[u] /\ job'[u] = job[u]
  BY <1>1, <1>2 DEF Proceeds, Finishes, Finish, Operates, Create, InsertPiece, Move
<1>4. CASE pc[u] = "Idle"
  BY <1>3, <1>4 DEF LineHolds, Rendered
<1>5. CASE pc[u] # "Idle"
  <2>1. job[u].stream \in Streams /\ owner[job[u].stream] = u /\ u \notin {t, Null}
    BY <1>5, InFlush, ThreadsAssumption
  <2>2. stream'[job[u].stream] = stream[job[u].stream]
    BY <1>1, <2>1, OtherStreamsStay
  <2>3. Text(u)' = Text(u)
    BY <1>3, <2>2 DEF Text, Current
  <2>4. pc[u] = "Part 2" => UNCHANGED stdout
    <3>1. SUFFICES ASSUME pc[u] = "Part 2" PROVE ~WritePart(t)
      BY OnlyPartsAreWritten
    <3>2. pc[t] \notin {"Part 1", "Part 2"}
      BY <3>1 DEF StreamInv, Inv, LockIsExact, Inside
    <3> QED
      BY <3>2 DEF WritePart, Goto
  <2> QED
    BY <1>3, <2>3, <2>4 DEF LineHolds
<1> QED
  BY <1>4, <1>5

\* A thread that goes on has what it needs.
LEMMA StepKeepsLine ==
    ASSUME StreamInv, NEW t \in Threads, SubmitStep(t) \/ \E s \in Streams : Operation(t, s),
           LineHolds(t)
    PROVE  LineHolds(t)'
<1>1. DOMAIN pc = Threads /\ DOMAIN job = Threads
  BY DEF StreamInv, Inv, Shape
<1>2. CASE pc'[t] \in {"Idle", "Metadata"}
  BY <1>2 DEF LineHolds, Rendered
<1>3. ASSUME NEW s \in Streams, Operation(t, s) PROVE pc'[t] \in {"Idle", "Metadata"}
  BY <1>1, <1>3 DEF Operation, Create, InsertPiece, Move, BeginSubmit, FlushNothing, MayFlush, Owns,
     Finish
<1>4. ASSUME Back(t) PROVE pc'[t] \in {"Idle", "Metadata"}
  BY <1>1, <1>4 DEF Back, Finish
<1>5. CASE ReadMetadata(t)
  <2>1. PICK clock \in Clocks :
          /\ IsConvertible(clock)
          /\ job' = [job EXCEPT ![t].time = UnixMilliseconds(clock), ![t].clock = clock]
    BY <1>5 DEF ReadMetadata
  <2>2. job'[t].time = UnixMilliseconds(clock) /\ job'[t].clock = clock
    BY <1>1, <2>1 DEF StreamInv, Inv, Shape
  <2>3. pc'[t] = "Render"
    BY <1>1, <1>5 DEF ReadMetadata, Goto
  <2> QED
    BY <2>1, <2>2, <2>3 DEF LineHolds, Rendered
<1>6. CASE Render(t) /\ ~Back(t)
  <2> DEFINE line == RenderConsoleRecord(job[t].time, Text(t))
  <2>1. /\ pc[t] = "Render" /\ line # NoLine /\ pc' = [pc EXCEPT ![t] = "Write"]
        /\ job' = [job EXCEPT ![t].line = line] /\ UNCHANGED objects
    BY <1>6 DEF Render
  <2>2. line = Text(t)
    BY <2>1 DEF RenderConsoleRecord
  <2> HIDE DEF line
  <2>3. /\ job'[t].line = line /\ job'[t].time = job[t].time /\ job'[t].clock = job[t].clock
        /\ job'[t].stream = job[t].stream
    BY <1>1, <2>1 DEF StreamInv, Inv, Shape
  <2>4. Text(t)' = Text(t)
    BY <2>1, <2>3 DEF Text, Current, objects
  <2>5. pc'[t] = "Write"
    BY <1>1, <2>1
  <2> QED
    BY <2>1, <2>2, <2>3, <2>4, <2>5 DEF LineHolds
<1>7. CASE EnterWrite(t) \/ WritePart(t) \/ WriteFails(t)
  <2>1. /\ pc[t] \in Rendered /\ pc'[t] \in Rendered /\ UNCHANGED <<objects, job>>
    BY <1>1, <1>7 DEF EnterWrite, WritePart, WriteFails, Goto, Rendered
  <2>2. Text(t)' = Text(t)
    BY <2>1 DEF Text, Current, objects
  <2>3. ASSUME pc'[t] = "Part 2" PROVE stdout'[Len(stdout')].text = Front(job'[t].line)
    <3>1. pc[t] = "Part 1" /\ stdout' = Append(stdout, Part(t, 1))
      BY <1>1, <1>7, <2>3 DEF EnterWrite, WritePart, WriteFails, Goto
    <3>2. PICK e : e = Part(t, 1)
      OBVIOUS
    <3>3. stdout'[Len(stdout')] = e
      <4>1. PICK S : stdout \in Seq(S)
        BY DEF StreamInv, Inv, Shape
      <4>2. Grows(stdout, stdout', Len(stdout), e)
        BY <3>1, <3>2, <4>1, Appended
      <4> QED
        BY <4>2 DEF Grows
    <3>4. e.text = Front(job[t].line)
      BY <3>2 DEF Part
    <3> QED
      BY <2>1, <3>3, <3>4
  <2> QED
    BY <2>1, <2>2, <2>3 DEF LineHolds
<1> QED
  BY <1>2, <1>3, <1>4, <1>5, <1>6, <1>7 DEF SubmitStep, MetadataFails, Render, LeaveWrite

\* The line that a last part completes.
CompletedLine(parts, i) == parts[i - 1].text \o parts[i].text

\* The last part of a record completes its line.
LEMMA WriteKeepsLines ==
    ASSUME StreamInv, StreamInv', NEW t \in Threads, WritePart(t), LineHolds(t), LinesAreExact
    PROVE  LinesAreExact'
<1> DEFINE n == Len(stdout)
<1>1. PICK i \in {1, 2} : stdout' = Append(stdout, Part(t, i)) /\ (i = 2 => pc[t] = "Part 2")
  <2>1. CASE pc[t] = "Part 1"
    <3>1. stdout' = Append(stdout, Part(t, 1))
      BY <2>1 DEF WritePart, Goto
    <3> WITNESS 1 \in {1, 2}
    <3> QED
      BY <3>1
  <2>2. CASE pc[t] = "Part 2"
    <3>1. stdout' = Append(stdout, Part(t, 2))
      BY <2>2 DEF WritePart, Goto
    <3> WITNESS 2 \in {1, 2}
    <3> QED
      BY <2>2, <3>1
  <2> QED
    BY <2>1, <2>2 DEF WritePart, Goto
<1>2. PICK e : e = Part(t, i)
  OBVIOUS
<1>3. Grows(stdout, stdout', n, e)
  <2>1. PICK S : stdout \in Seq(S)
    BY DEF StreamInv, Inv, Shape
  <2> QED
    BY <1>1, <1>2, <2>1, Appended
<1> HIDE DEF n
<1>4. \A j \in 1..n : stdout[j].part = 2 => Says(CompletedLine(stdout, j), stdout[j])
  <2>1. DOMAIN stdout = 1..n
    BY <1>3 DEF Grows
  <2> QED
    BY <2>1 DEF LinesAreExact, Says, Fields, CompletedLine, Parts
<1>5. ASSUME NEW j \in 1..(n + 1), stdout'[j].part = 2
      PROVE  Says(CompletedLine(stdout', j), stdout'[j])
  <2>1. n \in Nat
    BY <1>3 DEF Grows
  <2>2. CASE j \in 1..n
    <3>1. stdout'[j] = stdout[j]
      BY <1>3, <2>2 DEF Grows
    <3>2. j > 1
      BY <1>3, <1>5, <2>2, <3>1 DEF StreamInv, Inv, RecordsDoNotInterleave, Grows
    <3>3. j - 1 \in 1..n
      BY <2>1, <2>2, <3>2, Places
    <3>4. stdout'[j - 1] = stdout[j - 1]
      BY <1>3, <3>3 DEF Grows
    <3> QED
      BY <1>4, <1>5, <2>2, <3>1, <3>4 DEF CompletedLine
  <2>3. CASE j = n + 1
    <3>1. stdout'[j] = e /\ i = 2
      <4>1. stdout'[j] = e
        BY <1>3, <2>3 DEF Grows
      <4>2. e.part = i
        BY <1>2 DEF Part
      <4> QED
        BY <1>5, <4>1, <4>2
    <3>2. pc[t] = "Part 2" /\ stdout # <<>> /\ stdout[n].text = Front(job[t].line)
      BY <1>1, <3>1 DEF LineHolds, StreamInv, Inv, HalfIsLast, n
    <3>3. n \in 1..n /\ j - 1 = n
      BY <1>3, <2>1, <2>3, <3>2, Places DEF Grows
    <3>4. stdout'[j - 1] = stdout[n]
      BY <1>3, <3>3 DEF Grows
    <3>5. e.text = <<Last(job[t].line)>>
      BY <1>2, <3>1 DEF Part
    <3>6. IsWhole(job[t].line) /\ Says(job[t].line, e)
      BY <1>2, <3>1, <3>2, LineIsExact DEF Rendered
    <3> QED
      BY <3>1, <3>2, <3>4, <3>5, <3>6 DEF CompletedLine, IsWhole
  <2> QED
    BY <2>1, <2>2, <2>3, Places
<1>6. DOMAIN stdout' = 1..(n + 1)
  BY <1>3 DEF Grows
<1> QED
  BY <1>5, <1>6 DEF LinesAreExact, Says, Fields, CompletedLine, Parts

\* AP-R3-LOG-006 and AP-R3-LOG-008, for every number of threads, every clock,
\* every name and every text: a complete record on stdout is a line within the
\* record buffer, and a reader gets back the clock reading, the process, the
\* thread, the severity, the name and the text it was made from.
THEOREM LinesSayWhatWasLogged == Spec => []LinesAreExact
<1>1. Init => LinesInv
  BY DEF Init, LinesInv, LineHolds, LinesAreExact, Rendered
<1>2. StreamInv /\ StreamInv' /\ LinesInv /\ [Next]_vars => LinesInv'
  <2> SUFFICES ASSUME StreamInv, StreamInv', LinesInv, [Next]_vars PROVE LinesInv'
    OBVIOUS
  <2>1. CASE UNCHANGED vars
    BY <2>1 DEF vars, objects, LinesInv, LineHolds, LinesAreExact, Text, Current
  <2>2. ASSUME NEW t \in Threads, SubmitStep(t) \/ \E s \in Streams : Operation(t, s)
        PROVE  LinesInv'
    <3>1. \A u \in Threads : LineHolds(u)'
      BY <2>2, OthersKeepLines, StepKeepsLine DEF LinesInv
    <3>2. LinesAreExact'
      <4>1. CASE WritePart(t)
        BY <4>1, WriteKeepsLines DEF LinesInv
      <4>2. CASE ~WritePart(t)
        <5>1. UNCHANGED stdout
          BY <2>2, <4>2, OnlyPartsAreWritten
        <5> QED
          BY <5>1 DEF LinesInv, LinesAreExact
      <4> QED
        BY <4>1, <4>2
    <3> QED
      BY <3>1, <3>2 DEF LinesInv
  <2> QED
    BY <2>1, <2>2 DEF Next, Finished
<1>3. Spec => []StreamInv
  BY InitStreams, NextStreams, PTL DEF Spec
<1> QED
  BY <1>1, <1>2, <1>3, PTL DEF Spec, LinesInv
=============================================================================

--------------------------- MODULE LoggerRegistry ---------------------------
(***************************************************************************)
(* The process-local registry of loggers behind ara::log::TryCreateLogger  *)
(* and ara::log::CreateLogger (platform/ara-log/src/logger_registry.cpp).  *)
(*                                                                         *)
(* Threads call Register and Find concurrently.  The registry is an        *)
(* intrusive singly linked list of separately allocated Logger objects,    *)
(* guarded by one POSIX mutex.  Every step below is one access to shared   *)
(* state, or one call that can fail: allocation, lock, unlock.  The        *)
(* registry is destroyed when the process exits normally.                  *)
(***************************************************************************)
EXTENDS Naturals, Sequences, Functions

CONSTANTS
    Threads,        \* the threads of the process that use the registry
    Loggers,        \* the addresses a Logger object can be allocated at
    Inputs,         \* the argument triples callers pass: id, description, threshold
    Null,           \* nullptr, and "no thread", "no call", "not allocated"
    CallsPerThread, \* BOUND: how many calls each thread makes
    UniqueIds       \* the IDs for which callers honour the unique-ID precondition

ASSUME NullAssumption ==
    /\ Null \notin Threads
    /\ Null \notin Loggers
    /\ Null \notin Inputs

ASSUME InputsAssumption ==
    \A in \in Inputs : in.threshold \in 0..255 /\ in.id # Null

ASSUME CallsAssumption == CallsPerThread \in Nat

ASSUME UniqueIdsAssumption == UniqueIds \subseteq {in.id : in \in Inputs}

\* LogLevel::kVerbose, the largest defined threshold.
kVerbose == 6

\* The error Register reports; ErrorCode carries no more than this here.
kOperationFailed == "kOperationFailed"

ASSUME ErrorAssumption == kOperationFailed \notin Loggers

VARIABLES
    process,   \* the life of the process and of its static registry
    mutex,     \* the thread that owns mutex_, or Null
    head,      \* head_
    next,      \* next_ of every logger
    contents,  \* what the object at an address was constructed with, or Null
    pc,        \* where each thread is
    local,     \* its arguments, local variables, and what its last call returned
    published, \* HISTORY: the loggers in the list, in the order they were published
    obtained   \* HISTORY: the references handed to the application

list == <<mutex, head, next, contents, published>>
vars == <<process, list, pc, local, obtained>>

-----------------------------------------------------------------------------
(* Where a thread can be *)

RegisterSteps == {"CheckThreshold", "AllocateId", "AllocateDescription",
                  "AllocateLogger", "RegisterLock", "Link", "SetHead",
                  "RegisterUnlock"}
FindSteps == {"FindLock", "FindHead", "FindCompare", "FindMatch",
              "FindUnlock", "FindReturn"}

\* Between a successful lock and the matching unlock.
CriticalSteps == {"Link", "SetHead", "RegisterUnlock",
                  "FindHead", "FindCompare", "FindMatch", "FindUnlock"}

\* Register owns a constructed logger that is not in the list yet.
OwningSteps == {"RegisterLock", "Link", "SetHead"}

\* std::terminate was called, and why.
Terminated == {"threshold terminated", "mutex terminated", "lookup terminated",
               "shutdown terminated"}

Up == process \in {"fresh", "running"}

ShuttingDown == process \in {"exiting", "exited", "shutdown terminated"}

\* No call under way: `request` its arguments; `buffers` what Register's
\* unique_ptrs own; `logger` of Register, `current` and `found` of Find;
\* `matches` of Find; `prior` (history) an identical registration had returned
\* when the lookup began.
NoCall(value, count) ==
    [request |-> Null, buffers |-> {}, logger |-> Null, matches |-> FALSE,
     prior |-> FALSE, result |-> value, calls |-> count]

Init ==
    /\ process = "fresh"
    /\ mutex = Null
    /\ head = Null
    /\ next = [l \in Loggers |-> Null]
    /\ contents = [l \in Loggers |-> Null]
    /\ pc = [t \in Threads |-> "Idle"]
    /\ local = [t \in Threads |-> NoCall(Null, 0)]
    /\ published = <<>>
    /\ obtained = {}

At(t, step) == process = "running" /\ pc[t] = step

Goto(t, from, to) == At(t, from) /\ pc' = [pc EXCEPT ![t] = to] /\ UNCHANGED process

Terminate(t, from, reason) ==
    At(t, from) /\ process' = reason /\ UNCHANGED <<list, pc, local, obtained>>

-----------------------------------------------------------------------------
(* Calls and returns *)

\* The first call constructs the function-local static registry; the language
\* makes the other threads wait for it, so construction is part of the call.
Call(t, in, step, known) ==
    /\ Up
    /\ pc[t] = "Idle"
    /\ local[t].calls < CallsPerThread
    /\ process' = "running"
    /\ pc' = [pc EXCEPT ![t] = step]
    /\ local' = [local EXCEPT ![t] = [NoCall(Null, @.calls + 1) EXCEPT
                                        !.request = in, !.prior = known]]
    /\ UNCHANGED <<list, obtained>>

\* As far as callers can tell, this ID is neither registered nor about to be:
\* a registration that reported an error may be tried again.
IdIsFree(id) ==
    /\ \A ref \in obtained : ref[1].id # id
    /\ \A u \in Threads : pc[u] \in RegisterSteps => local[u].request.id # id

CallRegister(t, in) ==
    (in.id \in UniqueIds => IdIsFree(in.id)) /\ Call(t, in, "CheckThreshold", FALSE)

CallFind(t, in) ==
    Call(t, in, "FindLock", \E l \in Loggers : <<in, l>> \in obtained)

\* Returning destroys the locals: the unique_ptrs free what they still own.
Return(t, value) ==
    /\ pc' = [pc EXCEPT ![t] = "Idle"]
    /\ local' = [local EXCEPT ![t] = NoCall(value, @.calls)]
    /\ obtained' = obtained \cup {<<local[t].request, l>> : l \in {value} \cap Loggers}
    /\ UNCHANGED process

-----------------------------------------------------------------------------
(* LoggerRegistry::Register *)

\* MUTANT: the range check accepts one value past kVerbose.
CheckThreshold_OffByOne(t) ==
    /\ Goto(t, "CheckThreshold", "AllocateId")
    /\ local[t].request.threshold <= kVerbose + 1
    /\ UNCHANGED <<list, local, obtained>>

CheckThreshold(t) ==
    \/ /\ Terminate(t, "CheckThreshold", "threshold terminated")
       /\ local[t].request.threshold > kVerbose
    \/ /\ Goto(t, "CheckThreshold", "AllocateId")
       /\ local[t].request.threshold <= kVerbose
       /\ UNCHANGED <<list, local, obtained>>

AllocateBuffer(t, from, buffer, to) ==
    /\ Goto(t, from, to)
    /\ local' = [local EXCEPT ![t].buffers = @ \cup {buffer}]
    /\ UNCHANGED <<list, obtained>>

AllocateId(t) == AllocateBuffer(t, "AllocateId", "id", "AllocateDescription")

AllocateDescription(t) ==
    AllocateBuffer(t, "AllocateDescription", "description", "AllocateLogger")

\* The constructor takes the buffers over; next_ starts as nullptr.
AllocateLogger(t) ==
    /\ Goto(t, "AllocateLogger", "RegisterLock")
    /\ \E l \in Loggers :
         /\ contents[l] = Null
         /\ contents' = [contents EXCEPT ![l] = local[t].request]
         /\ local' = [local EXCEPT ![t].logger = l, ![t].buffers = {}]
    /\ UNCHANGED <<mutex, head, next, published, obtained>>

\* Any of the three nothrow allocations yields nullptr.
AllocationFails(t) ==
    /\ \E step \in {"AllocateId", "AllocateDescription", "AllocateLogger"} : At(t, step)
    /\ Return(t, kOperationFailed)
    /\ UNCHANGED list

\* MUTANT: the list is entered whatever pthread_mutex_lock does.
RegisterLock_Unguarded(t) ==
    /\ Goto(t, "RegisterLock", "Link")
    /\ mutex' = t
    /\ UNCHANGED <<head, next, contents, published, local, obtained>>

RegisterLock(t) ==
    /\ Goto(t, "RegisterLock", "Link")
    /\ mutex = Null
    /\ mutex' = t
    /\ UNCHANGED <<head, next, contents, published, local, obtained>>

\* MUTANT: the failure path forgets to delete the logger.
RegisterLockFails_Leaks(t) ==
    At(t, "RegisterLock") /\ Return(t, kOperationFailed) /\ UNCHANGED list

\* MUTANT: the deleted logger is returned as if it had been registered.
RegisterLockFails_Dangles(t) ==
    /\ At(t, "RegisterLock")
    /\ contents' = [contents EXCEPT ![local[t].logger] = Null]
    /\ Return(t, local[t].logger)
    /\ UNCHANGED <<mutex, head, next, published>>

\* delete logger, which was never visible to anyone else.
RegisterLockFails(t) ==
    /\ At(t, "RegisterLock")
    /\ contents' = [contents EXCEPT ![local[t].logger] = Null]
    /\ Return(t, kOperationFailed)
    /\ UNCHANGED <<mutex, head, next, published>>

\* MUTANT: the old head is linked to the new logger, not the other way round.
Link_Backwards(t) ==
    /\ Goto(t, "Link", "SetHead")
    /\ next' = IF head = Null THEN next ELSE [next EXCEPT ![head] = local[t].logger]
    /\ UNCHANGED <<mutex, head, contents, published, local, obtained>>

\* MUTANT: the new logger is not linked at all.
Link_Forgotten(t) ==
    Goto(t, "Link", "SetHead") /\ UNCHANGED <<list, local, obtained>>

Link(t) ==
    /\ Goto(t, "Link", "SetHead")
    /\ next' = [next EXCEPT ![local[t].logger] = head]
    /\ UNCHANGED <<mutex, head, contents, published, local, obtained>>

SetHead(t) ==
    /\ Goto(t, "SetHead", "RegisterUnlock")
    /\ head' = local[t].logger
    /\ published' = Append(published, local[t].logger)
    /\ UNCHANGED <<mutex, next, contents, local, obtained>>

\* MUTANT: Register returns with the mutex held.
RegisterUnlock_Missing(t) ==
    At(t, "RegisterUnlock") /\ Return(t, local[t].logger) /\ UNCHANGED list

RegisterUnlock(t) ==
    /\ At(t, "RegisterUnlock")
    /\ mutex' = Null
    /\ Return(t, local[t].logger)
    /\ UNCHANGED <<head, next, contents, published>>

-----------------------------------------------------------------------------
(* LoggerRegistry::Find *)

FindLock(t) ==
    /\ Goto(t, "FindLock", "FindHead")
    /\ mutex = Null
    /\ mutex' = t
    /\ UNCHANGED <<head, next, contents, published, local, obtained>>

FindHead(t) ==
    /\ Goto(t, "FindHead", "FindCompare")
    /\ local' = [local EXCEPT ![t].logger = head]
    /\ UNCHANGED <<list, obtained>>

IsFound(t) ==
    local[t].logger # Null /\ contents[local[t].logger].id = local[t].request.id

\* MUTANT: the loop tests next_ instead of the node and misses the oldest one.
FindCompare_StopsEarly(t) ==
    \/ /\ Goto(t, "FindCompare", "FindMatch")
       /\ local[t].logger = Null \/ IsFound(t)
       /\ UNCHANGED <<list, local, obtained>>
    \/ /\ Goto(t, "FindCompare", "FindCompare")
       /\ local[t].logger # Null /\ ~IsFound(t)
       /\ LET after == next[local[t].logger]
          IN  local' = [local EXCEPT ![t].logger =
                          IF after # Null /\ next[after] = Null THEN Null ELSE after]
       /\ UNCHANGED <<list, obtained>>

\* One iteration of the loop: stop at the end or at the ID, else advance.
FindCompare(t) ==
    \/ /\ Goto(t, "FindCompare", "FindMatch")
       /\ local[t].logger = Null \/ IsFound(t)
       /\ UNCHANGED <<list, local, obtained>>
    \/ /\ Goto(t, "FindCompare", "FindCompare")
       /\ local[t].logger # Null /\ ~IsFound(t)
       /\ local' = [local EXCEPT ![t].logger = next[@]]
       /\ UNCHANGED <<list, obtained>>

\* MUTANT: the ID alone decides.
FindMatch_IdOnly(t) ==
    /\ Goto(t, "FindMatch", "FindUnlock")
    /\ local' = [local EXCEPT ![t].matches = local[t].logger # Null]
    /\ UNCHANGED <<list, obtained>>

FindMatch(t) ==
    /\ Goto(t, "FindMatch", "FindUnlock")
    /\ local' = [local EXCEPT ![t].matches =
                   local[t].logger # Null /\ contents[local[t].logger] = local[t].request]
    /\ UNCHANGED <<list, obtained>>

FindUnlock(t) ==
    /\ Goto(t, "FindUnlock", "FindReturn")
    /\ mutex' = Null
    /\ UNCHANGED <<head, next, contents, published, local, obtained>>

FindReturn(t) ==
    \/ ~local[t].matches /\ Terminate(t, "FindReturn", "lookup terminated")
    \/ /\ At(t, "FindReturn")
       /\ local[t].matches
       /\ Return(t, local[t].logger)
       /\ UNCHANGED list

\* pthread reports an error the code does not recover from: Find's lock, or
\* either unlock.
MutexTerminates(t) ==
    \E step \in {"FindLock", "FindUnlock", "RegisterUnlock"} :
        Terminate(t, step, "mutex terminated")

-----------------------------------------------------------------------------
(* Normal process exit: ~LoggerRegistry, once every user has stopped *)

Exit ==
    /\ Up
    /\ \A t \in Threads : pc[t] = "Idle"
    /\ process' = IF process = "fresh" THEN "exited" ELSE "exiting"
    /\ UNCHANGED <<list, pc, local, obtained>>

\* MUTANT: the link is not followed, and the same logger deleted again.
DestroyHead_NoAdvance ==
    /\ process = "exiting"
    /\ head # Null
    /\ contents' = [contents EXCEPT ![head] = Null]
    /\ UNCHANGED <<process, mutex, head, next, published, pc, local, obtained>>

DestroyHead ==
    /\ process = "exiting"
    /\ head # Null
    /\ head' = next[head]
    /\ contents' = [contents EXCEPT ![head] = Null]
    /\ next' = [next EXCEPT ![head] = Null]
    /\ published' = SubSeq(published, 1, Len(published) - 1)
    /\ UNCHANGED <<process, mutex, pc, local, obtained>>

DestroyMutex ==
    /\ process = "exiting"
    /\ head = Null
    /\ process' \in {"exited", "shutdown terminated"}
    /\ UNCHANGED <<list, pc, local, obtained>>

\* Nothing happens in a process that has ended.
Ended == process \in Terminated \cup {"exited"} /\ UNCHANGED vars

-----------------------------------------------------------------------------
\* What a thread does when pthread works; memory may run out.
Progress(t) ==
    \/ CheckThreshold(t) \/ AllocateId(t) \/ AllocateDescription(t)
    \/ AllocateLogger(t) \/ AllocationFails(t)
    \/ RegisterLock(t) \/ Link(t) \/ SetHead(t) \/ RegisterUnlock(t)
    \/ FindLock(t) \/ FindHead(t) \/ FindCompare(t) \/ FindMatch(t)
    \/ FindUnlock(t) \/ FindReturn(t)

Next ==
    \/ \E t \in Threads :
         \/ \E in \in Inputs : CallRegister(t, in) \/ CallFind(t, in)
         \/ Progress(t) \/ RegisterLockFails(t) \/ MutexTerminates(t)
    \/ Exit \/ DestroyHead \/ DestroyMutex
    \/ Ended

\* The scheduler runs every thread that can run, and the exit sequence runs to
\* its end once it has begun.  Nothing obliges a thread to make a call, nor
\* pthread to fail: no call is let out of a wait by an error.
Fairness ==
    /\ \A t \in Threads : WF_vars(Progress(t))
    /\ WF_vars(DestroyHead \/ DestroyMutex)

Spec == Init /\ [][Next]_vars /\ Fairness

-----------------------------------------------------------------------------
(* Properties *)

Addresses == Loggers \cup {Null}

Locals ==
    [request: Inputs \cup {Null}, buffers: SUBSET {"id", "description"},
     logger: Addresses, matches: BOOLEAN, prior: BOOLEAN,
     result: Addresses \cup {kOperationFailed}, calls: Nat]

\* The type invariant.  Every logger has a defined threshold: the check in the
\* constructor (logger.cpp:25) never fires behind Register's own.
TypeOK ==
    /\ process \in {"fresh", "running", "exiting", "exited"} \cup Terminated
    /\ mutex \in Threads \cup {Null}
    /\ head \in Addresses
    /\ next \in [Loggers -> Addresses]
    /\ contents \in [Loggers -> {in \in Inputs : in.threshold <= kVerbose} \cup {Null}]
    /\ pc \in [Threads -> RegisterSteps \cup FindSteps \cup {"Idle"}]
    /\ local \in [Threads -> Locals]
    /\ published \in Seq(Loggers)
    /\ obtained \in SUBSET (Inputs \X Loggers)

\* The mutex protects head_ and the traversal (logger_registry.h:43): a thread
\* is between lock and unlock exactly when it owns the mutex, so no two threads
\* touch the list at once.
ListIsGuarded == \A t \in Threads : pc[t] \in CriticalSteps <=> mutex = t

\* No registration is lost and the list never breaks: from head_, next_ leads
\* through every published logger exactly once, newest first, to nullptr, and
\* each of them is a live object.
ListShape ==
    /\ head = IF published = <<>> THEN Null ELSE published[Len(published)]
    /\ \A i \in DOMAIN published :
         /\ contents[published[i]] # Null
         /\ next[published[i]] = IF i = 1 THEN Null ELSE published[i - 1]
    /\ \A i, j \in DOMAIN published : published[i] = published[j] => i = j

\* The loggers a Register in progress has constructed and not yet published.
Unpublished == {local[t].logger : t \in {u \in Threads : pc[u] \in OwningSteps}}

\* Every allocation has one owner, on every failure path: a live logger is in
\* the list or belongs to exactly one Register that will publish or delete it;
\* name buffers belong to a Register that is still allocating.
EveryBlockIsOwned ==
    /\ {l \in Loggers : contents[l] # Null} = Range(published) \cup Unpublished
    /\ \A t \in Threads : pc[t] \in OwningSteps =>
         /\ local[t].logger \notin Range(published)
         /\ \A u \in Threads : pc[u] \in OwningSteps /\ local[u].logger = local[t].logger => u = t
    /\ \A t \in Threads :
         local[t].buffers # {} => pc[t] \in {"AllocateDescription", "AllocateLogger"}
    /\ process = "exited" => \A l \in Loggers : contents[l] = Null

\* References stay valid (AP-R3-LOG-003): whatever TryCreateLogger or
\* CreateLogger handed out denotes a live logger with the caller's inputs, in
\* the list, until shutdown begins.
ReferencesAreValid ==
    ~ShuttingDown =>
        \A ref \in obtained :
            contents[ref[2]] = ref[1] /\ ref[2] \in Range(published)

\* CreateLogger terminates only if its precondition is broken: for a unique ID
\* a lookup made after an identical registration has returned never calls
\* std::terminate, whatever is registered meanwhile, and however callers abuse
\* other IDs.
LookupNeverRefusesARegisteredContext ==
    \A t \in Threads :
        pc[t] \in {"FindUnlock", "FindReturn"} /\ local[t].prior
        /\ local[t].request.id \in UniqueIds => local[t].matches

\* A published logger is immutable while the process runs: no step of another
\* thread relocates, relinks, rewrites or frees it.
PublishedIsImmutable ==
    [][\A l \in Range(published) :
         ~ShuttingDown =>
            /\ contents'[l] = contents[l]
            /\ next'[l] = next[l]
            /\ l \in Range(published')]_vars

\* Every call returns or ends the process: the mutex is always given back, and
\* the traversal of the list comes to an end.
EveryCallEnds ==
    \A t \in Threads : pc[t] # "Idle" ~> (pc[t] = "Idle" \/ process \in Terminated)

\* A shutdown that has begun ends, with every logger deleted or in terminate.
ShutdownEnds == process = "exiting" ~> process \in Terminated \cup {"exited"}
=============================================================================

------------------------ MODULE LoggerRegistryProofs ------------------------
(***************************************************************************)
(* Proofs about LoggerRegistry, for any number of threads, loggers, inputs *)
(* and calls, and whether or not callers keep IDs unique: the list and its *)
(* mutex; who owns what is allocated and what is handed out, and what a    *)
(* lookup finds; that the registry implements ContextRegistry; and that    *)
(* HelloAdaptive, whose steps are steps of the registry, keeps the         *)
(* preconditions of its calls.                                             *)
(***************************************************************************)
EXTENDS HelloAdaptive, RegistryRefinement, TLAPS

\* A thread in a call has its arguments, and Register goes on only with a
\* defined threshold.
RequestsAreKept ==
    \A t \in Threads :
        /\ pc[t] # "Idle" => local[t].request \in Inputs
        /\ pc[t] \in RegisterSteps \ {"CheckThreshold"} =>
              local[t].request.threshold <= kVerbose

\* What Register has constructed and not published is its own: live, outside
\* the list, and nobody else's.
OwnersAreExclusive ==
    /\ \A t \in Threads : pc[t] \in OwningSteps =>
         /\ local[t].logger \in Loggers
         /\ contents[local[t].logger] = local[t].request
         /\ \A i \in DOMAIN published : published[i] # local[t].logger
    /\ \A t, u \in Threads :
         pc[t] \in OwningSteps /\ pc[u] \in OwningSteps /\ local[t].logger = local[u].logger
            => t = u

\* Between the two stores of a publication the new node already leads to head_.
LinkPrecedesHead ==
    \A t \in Threads : pc[t] = "SetHead" => next[local[t].logger] = head

\* Shutdown begins when no call is under way, and no call begins after it.
ShutdownIsQuiet == ShuttingDown => \A t \in Threads : pc[t] = "Idle"

Inv ==
    /\ TypeOK
    /\ RequestsAreKept
    /\ ListIsGuarded
    /\ ListShape
    /\ OwnersAreExclusive
    /\ LinkPrecedesHead
    /\ ShutdownIsQuiet

-----------------------------------------------------------------------------
(* Types *)

\* A thread between calls has well-typed locals.
LEMMA CallTyping ==
    ASSUME NEW value \in Addresses \cup {kOperationFailed}, NEW count \in Nat
    PROVE  NoCall(value, count) \in Locals
BY DEF NoCall, Locals, Addresses

\* The ways a step updates the locals keep them well-typed.
LEMMA LocalTyping ==
    ASSUME NEW r \in Locals
    PROVE  /\ r.calls \in Nat /\ r.logger \in Addresses
           /\ \A in \in Inputs, b \in BOOLEAN :
                [NoCall(Null, r.calls + 1) EXCEPT !.request = in, !.prior = b] \in Locals
           /\ \A b \in {"id", "description"} :
                [r EXCEPT !.buffers = r.buffers \cup {b}] \in Locals
           /\ \A l \in Addresses : [r EXCEPT !.logger = l] \in Locals
           /\ \A l \in Addresses : [r EXCEPT !.logger = l, !.buffers = {}] \in Locals
           /\ \A b \in BOOLEAN : [r EXCEPT !.matches = b] \in Locals
<1>1. r.calls \in Nat /\ r.logger \in Addresses
  BY DEF Locals
<1>2. ASSUME NEW in \in Inputs, NEW b \in BOOLEAN
      PROVE  [NoCall(Null, r.calls + 1) EXCEPT !.request = in, !.prior = b] \in Locals
  <2>1. ASSUME NEW q \in Locals PROVE [q EXCEPT !.request = in] \in Locals
    BY DEF Locals
  <2>2. ASSUME NEW q \in Locals PROVE [q EXCEPT !.prior = b] \in Locals
    BY DEF Locals
  <2>3. NoCall(Null, r.calls + 1) \in Locals
    BY <1>1 DEF NoCall, Locals, Addresses
  <2> DEFINE q1 == NoCall(Null, r.calls + 1)
             q2 == [q1 EXCEPT !.request = in]
  <2>4. q2 \in Locals
    BY <2>1, <2>3
  <2>5. [q2 EXCEPT !.prior = b] \in Locals
    BY <2>2, <2>4
  <2> QED
    BY <2>5
<1>3. ASSUME NEW b \in {"id", "description"}
      PROVE  [r EXCEPT !.buffers = r.buffers \cup {b}] \in Locals
  BY DEF Locals
<1>4. ASSUME NEW l \in Addresses
      PROVE  /\ [r EXCEPT !.logger = l] \in Locals
             /\ [r EXCEPT !.logger = l, !.buffers = {}] \in Locals
  BY DEF Locals
<1>5. ASSUME NEW b \in BOOLEAN PROVE [r EXCEPT !.matches = b] \in Locals
  BY DEF Locals
<1> QED
  BY <1>1, <1>2, <1>3, <1>4, <1>5

\* Returning a value of the right type keeps the types of what it touches.
LEMMA ReturnTyping ==
    ASSUME TypeOK, NEW t \in Threads, local[t].request \in Inputs,
           NEW value \in Addresses \cup {kOperationFailed}, Return(t, value)
    PROVE  /\ pc' \in [Threads -> RegisterSteps \cup FindSteps \cup {"Idle"}]
           /\ local' \in [Threads -> Locals]
           /\ obtained' \in SUBSET (Inputs \X Loggers)
           /\ process' = process
<1>1. local' \in [Threads -> Locals]
  <2>1. NoCall(value, local[t].calls) \in Locals
    BY CallTyping, LocalTyping DEF TypeOK
  <2> QED
    BY <2>1 DEF TypeOK, Return
<1>2. obtained' \in SUBSET (Inputs \X Loggers)
  BY DEF TypeOK, Return
<1> QED
  BY <1>1, <1>2 DEF TypeOK, Return

\* Every step keeps the types.
LEMMA TypeStep == Inv /\ [Next]_vars => TypeOK'
<1> SUFFICES ASSUME Inv, [Next]_vars PROVE TypeOK'
  OBVIOUS
<1>local. /\ local \in [Threads -> Locals]
          /\ pc \in [Threads -> RegisterSteps \cup FindSteps \cup {"Idle"}]
          /\ \A t \in Threads : pc[t] # "Idle" => local[t].request \in Inputs
  BY DEF Inv, TypeOK, RequestsAreKept
<1>reg. \A t \in Threads : pc[t] \in RegisterSteps \ {"CheckThreshold"} =>
           local[t].request \in {in \in Inputs : in.threshold <= kVerbose}
  BY DEF Inv, TypeOK, RequestsAreKept, RegisterSteps
<1>own. \A t \in Threads : pc[t] \in OwningSteps => local[t].logger \in Loggers
  BY DEF Inv, OwnersAreExclusive
<1>type. TypeOK
  BY DEF Inv
<1>null. Null \in Addresses /\ kOperationFailed \in Addresses \cup {kOperationFailed}
  BY DEF Addresses
<1> USE DEF RegisterSteps, FindSteps, Terminated, list
<1>1. ASSUME NEW t \in Threads, NEW in \in Inputs, CallRegister(t, in) \/ CallFind(t, in)
      PROVE  TypeOK'
  <2>1. PICK known \in BOOLEAN, step \in {"CheckThreshold", "FindLock"} : Call(t, in, step, known)
    BY <1>1 DEF CallRegister, CallFind
  <2>2. local' \in [Threads -> Locals]
    BY <2>1, <1>local, LocalTyping DEF Call
  <2> QED
    BY <2>1, <2>2, <1>type DEF TypeOK, Call
<1>2. ASSUME NEW t \in Threads, CheckThreshold(t) PROVE TypeOK'
  BY <1>2, <1>type DEF TypeOK, CheckThreshold, Goto, At, Terminate
<1>3. ASSUME NEW t \in Threads, AllocateId(t) \/ AllocateDescription(t) PROVE TypeOK'
  <2>1. PICK b \in {"id", "description"}, from \in RegisterSteps, to \in RegisterSteps :
          AllocateBuffer(t, from, b, to)
    BY <1>3 DEF AllocateId, AllocateDescription
  <2>2. local' \in [Threads -> Locals]
    BY <2>1, <1>local, LocalTyping DEF AllocateBuffer
  <2> QED
    BY <2>1, <2>2, <1>type DEF TypeOK, AllocateBuffer, Goto, At
<1>4. ASSUME NEW t \in Threads, AllocateLogger(t) PROVE TypeOK'
  <2>1. local' \in [Threads -> Locals]
    <3>1. PICK l \in Loggers :
            local' = [local EXCEPT ![t] = [local[t] EXCEPT !.logger = l, !.buffers = {}]]
      BY <1>4 DEF AllocateLogger
    <3>2. [local[t] EXCEPT !.logger = l, !.buffers = {}] \in Locals
      BY <1>local, LocalTyping DEF Addresses
    <3> QED
      BY <3>1, <3>2, <1>local
  <2>2. contents' \in [Loggers -> {in \in Inputs : in.threshold <= kVerbose} \cup {Null}]
    BY <1>4, <1>reg, <1>type DEF TypeOK, AllocateLogger, Goto, At
  <2> QED
    BY <1>4, <2>1, <2>2, <1>type DEF TypeOK, AllocateLogger, Goto, At
<1>5. ASSUME NEW t \in Threads, AllocationFails(t) PROVE TypeOK'
  <2>1. local[t].request \in Inputs /\ Return(t, kOperationFailed) /\ UNCHANGED list
    BY <1>5, <1>local DEF AllocationFails, At
  <2> QED
    BY <2>1, <1>type, <1>null, ReturnTyping DEF TypeOK
<1>6. ASSUME NEW t \in Threads, RegisterLock(t) \/ FindLock(t) PROVE TypeOK'
  BY <1>6, <1>type DEF TypeOK, RegisterLock, FindLock, Goto, At
<1>7. ASSUME NEW t \in Threads, RegisterLockFails(t) PROVE TypeOK'
  <2>1. local[t].request \in Inputs /\ Return(t, kOperationFailed)
    BY <1>7, <1>local DEF RegisterLockFails, At
  <2>2. contents' \in [Loggers -> {in \in Inputs : in.threshold <= kVerbose} \cup {Null}]
    BY <1>7, <1>type DEF TypeOK, RegisterLockFails
  <2> QED
    BY <1>7, <2>1, <2>2, <1>type, <1>null, ReturnTyping DEF TypeOK, RegisterLockFails
<1>8. ASSUME NEW t \in Threads, Link(t) PROVE TypeOK'
  BY <1>8, <1>type DEF TypeOK, Link, Goto, At
<1>9. ASSUME NEW t \in Threads, SetHead(t) PROVE TypeOK'
  BY <1>9, <1>own, <1>type DEF TypeOK, SetHead, Goto, At, OwningSteps, Addresses
<1>10. ASSUME NEW t \in Threads, RegisterUnlock(t) PROVE TypeOK'
  <2>1. local[t].request \in Inputs /\ Return(t, local[t].logger) /\ local[t].logger \in Addresses
    BY <1>10, <1>local, LocalTyping DEF RegisterUnlock, At
  <2> QED
    BY <1>10, <2>1, <1>type, ReturnTyping DEF TypeOK, RegisterUnlock
<1>11. ASSUME NEW t \in Threads, FindHead(t) PROVE TypeOK'
  <2>1. local' \in [Threads -> Locals]
    BY <1>11, <1>local, <1>type, LocalTyping DEF TypeOK, FindHead
  <2> QED
    BY <1>11, <2>1, <1>type DEF TypeOK, FindHead, Goto, At
<1>12. ASSUME NEW t \in Threads, FindCompare(t) PROVE TypeOK'
  <2>1. local' \in [Threads -> Locals]
    <3>1. local[t].logger # Null => next[local[t].logger] \in Addresses
      BY <1>local, <1>type, LocalTyping DEF TypeOK, Addresses
    <3>2. CASE UNCHANGED local
      BY <3>2, <1>local
    <3>3. CASE /\ local[t].logger # Null
               /\ local' = [local EXCEPT ![t] =
                              [local[t] EXCEPT !.logger = next[local[t].logger]]]
      <4> DEFINE after == next[local[t].logger]
      <4>1. [local[t] EXCEPT !.logger = after] \in Locals
        BY <3>1, <3>3, <1>local, LocalTyping
      <4> QED
        BY <3>3, <4>1, <1>local
    <3> QED
      BY <1>12, <3>2, <3>3 DEF FindCompare
  <2> QED
    BY <1>12, <2>1, <1>type DEF TypeOK, FindCompare, Goto, At
<1>13. ASSUME NEW t \in Threads, FindMatch(t) PROVE TypeOK'
  <2>1. local' \in [Threads -> Locals]
    <3> DEFINE b == local[t].logger # Null /\ contents[local[t].logger] = local[t].request
    <3>1. b \in BOOLEAN
      OBVIOUS
    <3>2. local' = [local EXCEPT ![t] = [local[t] EXCEPT !.matches = b]]
      BY <1>13 DEF FindMatch
    <3> HIDE DEF b
    <3> QED
      BY <3>1, <3>2, <1>local, LocalTyping
  <2> QED
    BY <1>13, <2>1, <1>type DEF TypeOK, FindMatch, Goto, At
<1>14. ASSUME NEW t \in Threads, FindUnlock(t) PROVE TypeOK'
  BY <1>14, <1>type DEF TypeOK, FindUnlock, Goto, At
<1>15. ASSUME NEW t \in Threads, FindReturn(t) PROVE TypeOK'
  <2>1. CASE Terminate(t, "FindReturn", "lookup terminated")
    BY <2>1, <1>type DEF TypeOK, Terminate
  <2>2. CASE At(t, "FindReturn") /\ Return(t, local[t].logger) /\ UNCHANGED list
    <3>1. local[t].request \in Inputs /\ local[t].logger \in Addresses
      BY <2>2, <1>local, LocalTyping DEF At
    <3> QED
      BY <2>2, <3>1, <1>type, ReturnTyping DEF TypeOK
  <2> QED
    BY <1>15, <2>1, <2>2 DEF FindReturn
<1>16. ASSUME NEW t \in Threads, MutexTerminates(t) PROVE TypeOK'
  BY <1>16, <1>type DEF TypeOK, MutexTerminates, Terminate
<1>17. ASSUME Exit \/ DestroyMutex PROVE TypeOK'
  BY <1>17, <1>type DEF TypeOK, Exit, DestroyMutex
<1>18. ASSUME DestroyHead PROVE TypeOK'
  <2>1. head \in Loggers /\ published # <<>>
    BY <1>18, <1>type DEF DestroyHead, TypeOK, Addresses, Inv, ListShape
  <2>2. published' \in Seq(Loggers)
    BY <1>18, <2>1, <1>type DEF DestroyHead, TypeOK
  <2> QED
    BY <1>18, <2>1, <2>2, <1>type, <1>null DEF DestroyHead, TypeOK
<1>19. CASE UNCHANGED vars
  BY <1>19, <1>type DEF TypeOK, vars
<1> QED
  BY <1>1, <1>2, <1>3, <1>4, <1>5, <1>6, <1>7, <1>8, <1>9, <1>10, <1>11, <1>12, <1>13,
     <1>14, <1>15, <1>16, <1>17, <1>18, <1>19 DEF Next, Progress, Ended

\* Arguments stay what the caller passed, and the threshold check holds on.
LEMMA RequestStep == Inv /\ [Next]_vars => RequestsAreKept'
<1> SUFFICES ASSUME Inv, [Next]_vars PROVE RequestsAreKept'
  OBVIOUS
<1> USE NullAssumption DEF Inv, TypeOK, list, RegisterSteps, FindSteps,
        CriticalSteps, OwningSteps, RequestsAreKept, kVerbose, Locals
<1>1. ASSUME NEW t \in Threads, NEW in \in Inputs, NEW known \in BOOLEAN,
             NEW step \in {"CheckThreshold", "FindLock"}, Call(t, in, step, known) PROVE RequestsAreKept'
  BY <1>1 DEF Call, NoCall
<1>2. ASSUME NEW t \in Threads, CheckThreshold(t) PROVE RequestsAreKept'
  BY <1>2 DEF CheckThreshold, Goto, At, Terminate
<1>3. ASSUME NEW t \in Threads, AllocateId(t) \/ AllocateDescription(t) PROVE RequestsAreKept'
  <2>1. PICK b \in {"id", "description"}, from \in {"AllocateId", "AllocateDescription"},
               to \in {"AllocateDescription", "AllocateLogger"} : AllocateBuffer(t, from, b, to)
    BY <1>3 DEF AllocateId, AllocateDescription
  <2>2. [local[t] EXCEPT !.buffers = local[t].buffers \cup {b}].request = local[t].request
    OBVIOUS
  <2>3. local' = [local EXCEPT ![t] = [local[t] EXCEPT !.buffers = local[t].buffers \cup {b}]]
    BY <2>1 DEF AllocateBuffer
  <2>4. \A u \in Threads : local'[u].request = local[u].request
    BY <2>2, <2>3
  <2> QED
    BY <2>1, <2>4 DEF AllocateBuffer, Goto, At
<1>4. ASSUME NEW t \in Threads, AllocateLogger(t) PROVE RequestsAreKept'
  BY <1>4 DEF AllocateLogger, Goto, At
<1>5. ASSUME NEW t \in Threads, AllocationFails(t) PROVE RequestsAreKept'
  BY <1>5 DEF AllocationFails, At, Return, NoCall
<1>6. ASSUME NEW t \in Threads, RegisterLock(t) \/ FindLock(t) PROVE RequestsAreKept'
  BY <1>6 DEF RegisterLock, FindLock, Goto, At
<1>7. ASSUME NEW t \in Threads, RegisterLockFails(t) PROVE RequestsAreKept'
  BY <1>7 DEF RegisterLockFails, At, Return, NoCall
<1>8. ASSUME NEW t \in Threads, Link(t) PROVE RequestsAreKept'
  BY <1>8 DEF Link, Goto, At
<1>9. ASSUME NEW t \in Threads, SetHead(t) PROVE RequestsAreKept'
  BY <1>9 DEF SetHead, Goto, At
<1>10. ASSUME NEW t \in Threads, RegisterUnlock(t) PROVE RequestsAreKept'
  BY <1>10 DEF RegisterUnlock, At, Return, NoCall
<1>11. ASSUME NEW t \in Threads, FindHead(t) PROVE RequestsAreKept'
  BY <1>11 DEF FindHead, Goto, At
<1>12. ASSUME NEW t \in Threads, FindCompare(t) PROVE RequestsAreKept'
  <2>1. /\ pc[t] = "FindCompare" /\ pc'[t] \in {"FindCompare", "FindMatch"}
        /\ \A u \in Threads : u # t => pc'[u] = pc[u]
        /\ \/ local' = local
           \/ local' = [local EXCEPT ![t] = [local[t] EXCEPT !.logger = next[local[t].logger]]]
    BY <1>12 DEF FindCompare, Goto, At
  <2>2. [local[t] EXCEPT !.logger = next[local[t].logger]].request = local[t].request
    OBVIOUS
  <2>3. \A u \in Threads : local'[u].request = local[u].request
    BY <2>1, <2>2
  <2> QED
    BY <2>1, <2>3
<1>13. ASSUME NEW t \in Threads, FindMatch(t) PROVE RequestsAreKept'
  BY <1>13 DEF FindMatch, Goto, At
<1>14. ASSUME NEW t \in Threads, FindUnlock(t) PROVE RequestsAreKept'
  BY <1>14 DEF FindUnlock, Goto, At
<1>15. ASSUME NEW t \in Threads, FindReturn(t) PROVE RequestsAreKept'
  <2>1. CASE Terminate(t, "FindReturn", "lookup terminated")
    BY <2>1 DEF Terminate, At
  <2>2. CASE At(t, "FindReturn") /\ Return(t, local[t].logger) /\ UNCHANGED list
    BY <2>2 DEF At, Return, NoCall
  <2> QED
    BY <1>15, <2>1, <2>2 DEF FindReturn
<1>16. ASSUME NEW t \in Threads, MutexTerminates(t) PROVE RequestsAreKept'
  BY <1>16 DEF MutexTerminates, Terminate, At
<1>17. ASSUME Exit \/ DestroyMutex PROVE RequestsAreKept'
  BY <1>17 DEF Exit, DestroyMutex
<1>18. ASSUME DestroyHead PROVE RequestsAreKept'
  BY <1>18 DEF DestroyHead
<1>19. CASE UNCHANGED vars
  BY <1>19 DEF vars
<1> QED
  BY <1>1, <1>2, <1>3, <1>4, <1>5, <1>6, <1>7, <1>8, <1>9, <1>10, <1>11, <1>12, <1>13,
     <1>14, <1>15, <1>16, <1>17, <1>18, <1>19
  DEF Next, Progress, Ended, CallRegister, CallFind

\* Every step keeps the mutex with the thread between lock and unlock.
LEMMA GuardStep == Inv /\ [Next]_vars => ListIsGuarded'
<1> SUFFICES ASSUME Inv, [Next]_vars PROVE ListIsGuarded'
  OBVIOUS
<1> USE NullAssumption DEF Inv, TypeOK, list, RegisterSteps, FindSteps,
        CriticalSteps, OwningSteps, ListIsGuarded
<1>1. ASSUME NEW t \in Threads, NEW in \in Inputs, NEW known \in BOOLEAN,
             NEW step \in {"CheckThreshold", "FindLock"}, Call(t, in, step, known) PROVE ListIsGuarded'
  BY <1>1 DEF Call, NoCall
<1>2. ASSUME NEW t \in Threads, CheckThreshold(t) PROVE ListIsGuarded'
  BY <1>2 DEF CheckThreshold, Goto, At, Terminate
<1>3. ASSUME NEW t \in Threads, AllocateId(t) \/ AllocateDescription(t) PROVE ListIsGuarded'
  BY <1>3 DEF AllocateId, AllocateDescription, AllocateBuffer, Goto, At
<1>4. ASSUME NEW t \in Threads, AllocateLogger(t) PROVE ListIsGuarded'
  BY <1>4 DEF AllocateLogger, Goto, At
<1>5. ASSUME NEW t \in Threads, AllocationFails(t) PROVE ListIsGuarded'
  BY <1>5 DEF AllocationFails, At, Return, NoCall
<1>6. ASSUME NEW t \in Threads, RegisterLock(t) \/ FindLock(t) PROVE ListIsGuarded'
  BY <1>6 DEF RegisterLock, FindLock, Goto, At
<1>7. ASSUME NEW t \in Threads, RegisterLockFails(t) PROVE ListIsGuarded'
  BY <1>7 DEF RegisterLockFails, At, Return, NoCall
<1>8. ASSUME NEW t \in Threads, Link(t) PROVE ListIsGuarded'
  BY <1>8 DEF Link, Goto, At
<1>9. ASSUME NEW t \in Threads, SetHead(t) PROVE ListIsGuarded'
  BY <1>9 DEF SetHead, Goto, At
<1>10. ASSUME NEW t \in Threads, RegisterUnlock(t) PROVE ListIsGuarded'
  BY <1>10 DEF RegisterUnlock, At, Return, NoCall
<1>11. ASSUME NEW t \in Threads, FindHead(t) PROVE ListIsGuarded'
  BY <1>11 DEF FindHead, Goto, At
<1>12. ASSUME NEW t \in Threads, FindCompare(t) PROVE ListIsGuarded'
  BY <1>12 DEF FindCompare, Goto, At
<1>13. ASSUME NEW t \in Threads, FindMatch(t) PROVE ListIsGuarded'
  BY <1>13 DEF FindMatch, Goto, At
<1>14. ASSUME NEW t \in Threads, FindUnlock(t) PROVE ListIsGuarded'
  BY <1>14 DEF FindUnlock, Goto, At
<1>15. ASSUME NEW t \in Threads, FindReturn(t) PROVE ListIsGuarded'
  BY <1>15 DEF FindReturn, At, Terminate, Return, NoCall
<1>16. ASSUME NEW t \in Threads, MutexTerminates(t) PROVE ListIsGuarded'
  BY <1>16 DEF MutexTerminates, Terminate, At
<1>17. ASSUME Exit \/ DestroyMutex PROVE ListIsGuarded'
  BY <1>17 DEF Exit, DestroyMutex
<1>18. ASSUME DestroyHead PROVE ListIsGuarded'
  BY <1>18 DEF DestroyHead
<1>19. CASE UNCHANGED vars
  BY <1>19 DEF vars
<1> QED
  BY <1>1, <1>2, <1>3, <1>4, <1>5, <1>6, <1>7, <1>8, <1>9, <1>10, <1>11, <1>12, <1>13,
     <1>14, <1>15, <1>16, <1>17, <1>18, <1>19
  DEF Next, Progress, Ended, CallRegister, CallFind

\* No call is under way once shutdown has begun.
LEMMA QuietStep == Inv /\ [Next]_vars => ShutdownIsQuiet'
<1> SUFFICES ASSUME Inv, [Next]_vars PROVE ShutdownIsQuiet'
  OBVIOUS
<1> USE NullAssumption DEF Inv, TypeOK, list, RegisterSteps, FindSteps,
        CriticalSteps, OwningSteps, ShutdownIsQuiet, ShuttingDown, Terminated,
        Up
<1>1. ASSUME NEW t \in Threads, NEW in \in Inputs, NEW known \in BOOLEAN,
             NEW step \in {"CheckThreshold", "FindLock"}, Call(t, in, step, known) PROVE ShutdownIsQuiet'
  BY <1>1 DEF Call, NoCall
<1>2. ASSUME NEW t \in Threads, CheckThreshold(t) PROVE ShutdownIsQuiet'
  BY <1>2 DEF CheckThreshold, Goto, At, Terminate
<1>3. ASSUME NEW t \in Threads, AllocateId(t) \/ AllocateDescription(t) PROVE ShutdownIsQuiet'
  BY <1>3 DEF AllocateId, AllocateDescription, AllocateBuffer, Goto, At
<1>4. ASSUME NEW t \in Threads, AllocateLogger(t) PROVE ShutdownIsQuiet'
  BY <1>4 DEF AllocateLogger, Goto, At
<1>5. ASSUME NEW t \in Threads, AllocationFails(t) PROVE ShutdownIsQuiet'
  BY <1>5 DEF AllocationFails, At, Return, NoCall
<1>6. ASSUME NEW t \in Threads, RegisterLock(t) \/ FindLock(t) PROVE ShutdownIsQuiet'
  BY <1>6 DEF RegisterLock, FindLock, Goto, At
<1>7. ASSUME NEW t \in Threads, RegisterLockFails(t) PROVE ShutdownIsQuiet'
  BY <1>7 DEF RegisterLockFails, At, Return, NoCall
<1>8. ASSUME NEW t \in Threads, Link(t) PROVE ShutdownIsQuiet'
  BY <1>8 DEF Link, Goto, At
<1>9. ASSUME NEW t \in Threads, SetHead(t) PROVE ShutdownIsQuiet'
  BY <1>9 DEF SetHead, Goto, At
<1>10. ASSUME NEW t \in Threads, RegisterUnlock(t) PROVE ShutdownIsQuiet'
  BY <1>10 DEF RegisterUnlock, At, Return, NoCall
<1>11. ASSUME NEW t \in Threads, FindHead(t) PROVE ShutdownIsQuiet'
  BY <1>11 DEF FindHead, Goto, At
<1>12. ASSUME NEW t \in Threads, FindCompare(t) PROVE ShutdownIsQuiet'
  BY <1>12 DEF FindCompare, Goto, At
<1>13. ASSUME NEW t \in Threads, FindMatch(t) PROVE ShutdownIsQuiet'
  BY <1>13 DEF FindMatch, Goto, At
<1>14. ASSUME NEW t \in Threads, FindUnlock(t) PROVE ShutdownIsQuiet'
  BY <1>14 DEF FindUnlock, Goto, At
<1>15. ASSUME NEW t \in Threads, FindReturn(t) PROVE ShutdownIsQuiet'
  BY <1>15 DEF FindReturn, At, Terminate, Return, NoCall
<1>16. ASSUME NEW t \in Threads, MutexTerminates(t) PROVE ShutdownIsQuiet'
  BY <1>16 DEF MutexTerminates, Terminate, At
<1>17. ASSUME Exit \/ DestroyMutex PROVE ShutdownIsQuiet'
  BY <1>17 DEF Exit, DestroyMutex
<1>18. ASSUME DestroyHead PROVE ShutdownIsQuiet'
  BY <1>18 DEF DestroyHead
<1>19. CASE UNCHANGED vars
  BY <1>19 DEF vars
<1> QED
  BY <1>1, <1>2, <1>3, <1>4, <1>5, <1>6, <1>7, <1>8, <1>9, <1>10, <1>11, <1>12, <1>13,
     <1>14, <1>15, <1>16, <1>17, <1>18, <1>19
  DEF Next, Progress, Ended, CallRegister, CallFind

\* Nobody moves head_ between the two stores of a publication.
LEMMA LinkStep == Inv /\ [Next]_vars => LinkPrecedesHead'
<1> SUFFICES ASSUME Inv, [Next]_vars PROVE LinkPrecedesHead'
  OBVIOUS
<1> USE NullAssumption DEF Inv, TypeOK, list, RegisterSteps, FindSteps,
        CriticalSteps, OwningSteps, ListIsGuarded, LinkPrecedesHead,
        OwnersAreExclusive, ShutdownIsQuiet, ShuttingDown, Locals
<1>1. ASSUME NEW t \in Threads, NEW in \in Inputs, NEW known \in BOOLEAN,
             NEW step \in {"CheckThreshold", "FindLock"}, Call(t, in, step, known) PROVE LinkPrecedesHead'
  BY <1>1 DEF Call, NoCall
<1>2. ASSUME NEW t \in Threads, CheckThreshold(t) PROVE LinkPrecedesHead'
  BY <1>2 DEF CheckThreshold, Goto, At, Terminate
<1>3. ASSUME NEW t \in Threads, AllocateId(t) \/ AllocateDescription(t) PROVE LinkPrecedesHead'
  BY <1>3 DEF AllocateId, AllocateDescription, AllocateBuffer, Goto, At
<1>4. ASSUME NEW t \in Threads, AllocateLogger(t) PROVE LinkPrecedesHead'
  BY <1>4 DEF AllocateLogger, Goto, At
<1>5. ASSUME NEW t \in Threads, AllocationFails(t) PROVE LinkPrecedesHead'
  BY <1>5 DEF AllocationFails, At, Return, NoCall
<1>6. ASSUME NEW t \in Threads, RegisterLock(t) \/ FindLock(t) PROVE LinkPrecedesHead'
  BY <1>6 DEF RegisterLock, FindLock, Goto, At
<1>7. ASSUME NEW t \in Threads, RegisterLockFails(t) PROVE LinkPrecedesHead'
  BY <1>7 DEF RegisterLockFails, At, Return, NoCall
<1>8. ASSUME NEW t \in Threads, Link(t) PROVE LinkPrecedesHead'
  BY <1>8 DEF Link, Goto, At
<1>9. ASSUME NEW t \in Threads, SetHead(t) PROVE LinkPrecedesHead'
  BY <1>9 DEF SetHead, Goto, At
<1>10. ASSUME NEW t \in Threads, RegisterUnlock(t) PROVE LinkPrecedesHead'
  BY <1>10 DEF RegisterUnlock, At, Return, NoCall
<1>11. ASSUME NEW t \in Threads, FindHead(t) PROVE LinkPrecedesHead'
  BY <1>11 DEF FindHead, Goto, At
<1>12. ASSUME NEW t \in Threads, FindCompare(t) PROVE LinkPrecedesHead'
  BY <1>12 DEF FindCompare, Goto, At
<1>13. ASSUME NEW t \in Threads, FindMatch(t) PROVE LinkPrecedesHead'
  BY <1>13 DEF FindMatch, Goto, At
<1>14. ASSUME NEW t \in Threads, FindUnlock(t) PROVE LinkPrecedesHead'
  BY <1>14 DEF FindUnlock, Goto, At
<1>15. ASSUME NEW t \in Threads, FindReturn(t) PROVE LinkPrecedesHead'
  <2>1. CASE Terminate(t, "FindReturn", "lookup terminated")
    BY <2>1 DEF Terminate, At
  <2>2. CASE At(t, "FindReturn") /\ Return(t, local[t].logger) /\ UNCHANGED list
    BY <2>2 DEF At, Return, NoCall
  <2> QED
    BY <1>15, <2>1, <2>2 DEF FindReturn
<1>16. ASSUME NEW t \in Threads, MutexTerminates(t) PROVE LinkPrecedesHead'
  BY <1>16 DEF MutexTerminates, Terminate, At
<1>17. ASSUME Exit \/ DestroyMutex PROVE LinkPrecedesHead'
  BY <1>17 DEF Exit, DestroyMutex
<1>18. ASSUME DestroyHead PROVE LinkPrecedesHead'
  BY <1>18 DEF DestroyHead
<1>19. CASE UNCHANGED vars
  BY <1>19 DEF vars
<1> QED
  BY <1>1, <1>2, <1>3, <1>4, <1>5, <1>6, <1>7, <1>8, <1>9, <1>10, <1>11, <1>12, <1>13,
     <1>14, <1>15, <1>16, <1>17, <1>18, <1>19
  DEF Next, Progress, Ended, CallRegister, CallFind

\* A step that touches neither contents nor the list, lets no thread become an
\* owner and leaves the owners their loggers.
LEMMA OwnerFrame ==
    ASSUME Inv, UNCHANGED <<contents, published>>,
           \A t \in Threads : pc'[t] \in OwningSteps =>
              /\ pc[t] \in OwningSteps
              /\ local'[t].logger = local[t].logger
              /\ local'[t].request = local[t].request
    PROVE  OwnersAreExclusive'
BY DEF Inv, OwnersAreExclusive

\* No step publishes, deletes or reuses a logger some Register still owns.
LEMMA OwnerStep == Inv /\ [Next]_vars => OwnersAreExclusive'
<1> SUFFICES ASSUME Inv, [Next]_vars PROVE OwnersAreExclusive'
  OBVIOUS
<1> USE NullAssumption DEF OwningSteps, list
<1>type. Inv /\ pc \in [Threads -> RegisterSteps \cup FindSteps \cup {"Idle"}]
         /\ local \in [Threads -> Locals]
  BY DEF Inv, TypeOK
<1>1. ASSUME NEW t \in Threads, NEW in \in Inputs, NEW known \in BOOLEAN,
             NEW step \in {"CheckThreshold", "FindLock"}, Call(t, in, step, known) PROVE OwnersAreExclusive'
  BY <1>1, OwnerFrame, <1>type DEF Call, NoCall
<1>2. ASSUME NEW t \in Threads, CheckThreshold(t) PROVE OwnersAreExclusive'
  BY <1>2, OwnerFrame, <1>type DEF CheckThreshold, Goto, At, Terminate
<1>3. ASSUME NEW t \in Threads, AllocateId(t) \/ AllocateDescription(t) PROVE OwnersAreExclusive'
  BY <1>3, OwnerFrame, <1>type DEF AllocateId, AllocateDescription, AllocateBuffer, Goto, At
<1>4. ASSUME NEW t \in Threads, AllocateLogger(t) PROVE OwnersAreExclusive'
  <2> USE DEF Inv, TypeOK, RegisterSteps, OwnersAreExclusive, ListShape, RequestsAreKept, Locals
  <2> QED
    BY <1>4 DEF AllocateLogger, Goto, At
<1>5. ASSUME NEW t \in Threads, AllocationFails(t) PROVE OwnersAreExclusive'
  BY <1>5, OwnerFrame, <1>type DEF AllocationFails, At, Return, NoCall
<1>6. ASSUME NEW t \in Threads, RegisterLock(t) \/ FindLock(t) PROVE OwnersAreExclusive'
  BY <1>6, OwnerFrame, <1>type DEF RegisterLock, FindLock, Goto, At
<1>7. ASSUME NEW t \in Threads, RegisterLockFails(t) PROVE OwnersAreExclusive'
  <2> USE DEF Inv, TypeOK, OwnersAreExclusive, ListShape, Locals
  <2> QED
    BY <1>7 DEF RegisterLockFails, At, Return, NoCall
<1>8. ASSUME NEW t \in Threads, Link(t) PROVE OwnersAreExclusive'
  BY <1>8, OwnerFrame, <1>type DEF Link, Goto, At
<1>9. ASSUME NEW t \in Threads, SetHead(t) PROVE OwnersAreExclusive'
  <2> USE DEF Inv, TypeOK, OwnersAreExclusive, ListShape
  <2> QED
    BY <1>9 DEF SetHead, Goto, At
<1>10. ASSUME NEW t \in Threads, RegisterUnlock(t) PROVE OwnersAreExclusive'
  BY <1>10, OwnerFrame, <1>type DEF RegisterUnlock, At, Return, NoCall
<1>11. ASSUME NEW t \in Threads, FindHead(t) PROVE OwnersAreExclusive'
  BY <1>11, OwnerFrame, <1>type DEF FindHead, Goto, At
<1>12. ASSUME NEW t \in Threads, FindCompare(t) PROVE OwnersAreExclusive'
  <2>1. /\ pc' = [pc EXCEPT ![t] = "FindCompare"] \/ pc' = [pc EXCEPT ![t] = "FindMatch"]
        /\ \A u \in Threads : u # t => local'[u] = local[u]
        /\ UNCHANGED <<contents, published>>
    BY <1>12, <1>type DEF FindCompare, Goto, At
  <2> QED
    BY <2>1, OwnerFrame, <1>type
<1>13. ASSUME NEW t \in Threads, FindMatch(t) PROVE OwnersAreExclusive'
  BY <1>13, OwnerFrame, <1>type DEF FindMatch, Goto, At
<1>14. ASSUME NEW t \in Threads, FindUnlock(t) PROVE OwnersAreExclusive'
  BY <1>14, OwnerFrame, <1>type DEF FindUnlock, Goto, At
<1>15. ASSUME NEW t \in Threads, FindReturn(t) PROVE OwnersAreExclusive'
  <2>1. CASE Terminate(t, "FindReturn", "lookup terminated")
    BY <2>1, OwnerFrame, <1>type DEF Terminate, At
  <2>2. CASE At(t, "FindReturn") /\ Return(t, local[t].logger) /\ UNCHANGED list
    BY <2>2, OwnerFrame, <1>type DEF At, Return, NoCall
  <2> QED
    BY <1>15, <2>1, <2>2 DEF FindReturn
<1>16. ASSUME NEW t \in Threads, MutexTerminates(t) PROVE OwnersAreExclusive'
  BY <1>16, OwnerFrame, <1>type DEF MutexTerminates, Terminate, At
<1>17. ASSUME Exit \/ DestroyMutex PROVE OwnersAreExclusive'
  BY <1>17, OwnerFrame, <1>type DEF Exit, DestroyMutex
<1>18. ASSUME DestroyHead PROVE OwnersAreExclusive'
  <2> USE DEF Inv, TypeOK, OwnersAreExclusive, ShutdownIsQuiet, ShuttingDown
  <2> QED
    BY <1>18 DEF DestroyHead
<1>19. CASE UNCHANGED vars
  BY <1>19, OwnerFrame, <1>type DEF vars
<1> QED
  BY <1>1, <1>2, <1>3, <1>4, <1>5, <1>6, <1>7, <1>8, <1>9, <1>10, <1>11, <1>12, <1>13,
     <1>14, <1>15, <1>16, <1>17, <1>18, <1>19
  DEF Next, Progress, Ended, CallRegister, CallFind

\* ~LoggerRegistry deletes the newest logger: the list without it is still a list.
LEMMA DestroyKeepsShape ==
    ASSUME TypeOK, ListShape, DestroyHead PROVE ListShape'
<1> DEFINE n == Len(published)
<1>1. /\ published \in Seq(Loggers) /\ n \in Nat /\ n # 0 /\ DOMAIN published = 1..n
      /\ head = published[n] /\ head \in Loggers
      /\ \A i \in 1..n : published[i] \in Loggers
  BY DEF TypeOK, ListShape, DestroyHead, Addresses
<1>2. published' = SubSeq(published, 1, n - 1)
  BY DEF DestroyHead
<1>3. /\ DOMAIN published' = 1..(n - 1) /\ Len(published') = n - 1
      /\ \A i \in 1..(n - 1) : published'[i] = published[i]
  BY <1>1, <1>2
<1>4. \A i \in 1..n : /\ contents[published[i]] # Null
                      /\ next[published[i]] = IF i = 1 THEN Null ELSE published[i - 1]
  BY <1>1 DEF ListShape
<1>5. \A i, j \in 1..n : published[i] = published[j] => i = j
  BY <1>1 DEF ListShape
<1>6. \A l \in Loggers : l # head => contents'[l] = contents[l] /\ next'[l] = next[l]
  BY DEF DestroyHead, TypeOK
<1>7. head' = IF n = 1 THEN Null ELSE published[n - 1]
  BY <1>1, <1>4 DEF DestroyHead
<1> HIDE DEF n
<1>8. head' = IF published' = <<>> THEN Null ELSE published'[Len(published')]
  <2>1. CASE n = 1
    BY <2>1, <1>2, <1>7, <1>3, <1>1
  <2>2. CASE n # 1
    <3>1. n - 1 \in 1..(n - 1)
      BY <2>2, <1>1
    <3>2. published' # <<>>
      BY <3>1, <1>3
    <3> QED
      BY <3>1, <3>2, <2>2, <1>3, <1>7
  <2> QED
    BY <2>1, <2>2
<1>9. ASSUME NEW i \in 1..(n - 1)
      PROVE  /\ contents'[published'[i]] # Null
             /\ next'[published'[i]] = IF i = 1 THEN Null ELSE published'[i - 1]
  <2>1. i \in 1..n /\ n \in 1..n /\ i # n
    BY <1>1
  <2>2. published[i] \in Loggers /\ published[i] # head
    BY <2>1, <1>1, <1>5
  <2>3. i # 1 => i - 1 \in 1..(n - 1)
    BY <1>1
  <2> QED
    BY <2>1, <2>2, <2>3, <1>3, <1>4, <1>6
<1>10. ASSUME NEW i \in 1..(n - 1), NEW j \in 1..(n - 1), published'[i] = published'[j] PROVE i = j
  <2>1. i \in 1..n /\ j \in 1..n
    BY <1>1
  <2> QED
    BY <2>1, <1>3, <1>5, <1>10
<1> QED
  BY <1>3, <1>8, <1>9, <1>10 DEF ListShape

\* No step breaks the list: only SetHead and the destructor change it.
LEMMA ShapeStep == Inv /\ [Next]_vars => ListShape'
<1> SUFFICES ASSUME Inv, [Next]_vars PROVE ListShape'
  OBVIOUS
<1> USE NullAssumption DEF Inv, TypeOK, list, RegisterSteps, FindSteps,
        CriticalSteps, OwningSteps, ListIsGuarded, LinkPrecedesHead,
        ListShape, OwnersAreExclusive, ShutdownIsQuiet, ShuttingDown,
        RequestsAreKept, Addresses
<1>1. ASSUME NEW t \in Threads, NEW in \in Inputs, NEW known \in BOOLEAN,
             NEW step \in {"CheckThreshold", "FindLock"}, Call(t, in, step, known) PROVE ListShape'
  BY <1>1 DEF Call, NoCall
<1>2. ASSUME NEW t \in Threads, CheckThreshold(t) PROVE ListShape'
  BY <1>2 DEF CheckThreshold, Goto, At, Terminate
<1>3. ASSUME NEW t \in Threads, AllocateId(t) \/ AllocateDescription(t) PROVE ListShape'
  BY <1>3 DEF AllocateId, AllocateDescription, AllocateBuffer, Goto, At
<1>4. ASSUME NEW t \in Threads, AllocateLogger(t) PROVE ListShape'
  BY <1>4 DEF AllocateLogger, Goto, At
<1>5. ASSUME NEW t \in Threads, AllocationFails(t) PROVE ListShape'
  BY <1>5 DEF AllocationFails, At, Return, NoCall
<1>6. ASSUME NEW t \in Threads, RegisterLock(t) \/ FindLock(t) PROVE ListShape'
  BY <1>6 DEF RegisterLock, FindLock, Goto, At
<1>7. ASSUME NEW t \in Threads, RegisterLockFails(t) PROVE ListShape'
  BY <1>7 DEF RegisterLockFails, At, Return, NoCall
<1>8. ASSUME NEW t \in Threads, Link(t) PROVE ListShape'
  BY <1>8 DEF Link, Goto, At
<1>9. ASSUME NEW t \in Threads, SetHead(t) PROVE ListShape'
  BY <1>9 DEF SetHead, Goto, At
<1>10. ASSUME NEW t \in Threads, RegisterUnlock(t) PROVE ListShape'
  BY <1>10 DEF RegisterUnlock, At, Return, NoCall
<1>11. ASSUME NEW t \in Threads, FindHead(t) PROVE ListShape'
  BY <1>11 DEF FindHead, Goto, At
<1>12. ASSUME NEW t \in Threads, FindCompare(t) PROVE ListShape'
  BY <1>12 DEF FindCompare, Goto, At
<1>13. ASSUME NEW t \in Threads, FindMatch(t) PROVE ListShape'
  BY <1>13 DEF FindMatch, Goto, At
<1>14. ASSUME NEW t \in Threads, FindUnlock(t) PROVE ListShape'
  BY <1>14 DEF FindUnlock, Goto, At
<1>15. ASSUME NEW t \in Threads, FindReturn(t) PROVE ListShape'
  <2>1. CASE Terminate(t, "FindReturn", "lookup terminated")
    BY <2>1 DEF Terminate, At
  <2>2. CASE At(t, "FindReturn") /\ Return(t, local[t].logger) /\ UNCHANGED list
    BY <2>2 DEF At, Return, NoCall
  <2> QED
    BY <1>15, <2>1, <2>2 DEF FindReturn
<1>16. ASSUME NEW t \in Threads, MutexTerminates(t) PROVE ListShape'
  BY <1>16 DEF MutexTerminates, Terminate, At
<1>17. ASSUME Exit \/ DestroyMutex PROVE ListShape'
  BY <1>17 DEF Exit, DestroyMutex
<1>18. ASSUME DestroyHead PROVE ListShape'
  BY <1>18, DestroyKeepsShape
<1>19. CASE UNCHANGED vars
  BY <1>19 DEF vars
<1> QED
  BY <1>1, <1>2, <1>3, <1>4, <1>5, <1>6, <1>7, <1>8, <1>9, <1>10, <1>11, <1>12, <1>13,
     <1>14, <1>15, <1>16, <1>17, <1>18, <1>19
  DEF Next, Progress, Ended, CallRegister, CallFind

\* The process starts with an empty list and idle threads.
LEMMA InitInv == Init => Inv
<1> SUFFICES ASSUME Init PROVE Inv
  OBVIOUS
<1>1. TypeOK
  BY NullAssumption, CallTyping DEF Init, TypeOK, Addresses
<1>2. RequestsAreKept /\ OwnersAreExclusive /\ LinkPrecedesHead /\ ShutdownIsQuiet
  BY DEF Init, RequestsAreKept, OwnersAreExclusive, LinkPrecedesHead, ShutdownIsQuiet,
         RegisterSteps, OwningSteps
<1>3. ListIsGuarded /\ ListShape
  BY NullAssumption DEF Init, ListIsGuarded, ListShape, CriticalSteps
<1> QED
  BY <1>1, <1>2, <1>3 DEF Inv

\* Inv is inductive.
LEMMA InvStep == Inv /\ [Next]_vars => Inv'
BY TypeStep, RequestStep, GuardStep, QuietStep, LinkStep, OwnerStep, ShapeStep DEF Inv

\* Inv holds in every run.
LEMMA Invariance == Spec => []Inv
BY InitInv, InvStep, PTL DEF Spec

\* Every variable keeps its type in every run; in particular a constructed
\* logger always has a defined threshold, so the check in the constructor
\* (logger.cpp:25) never fires behind the one in Register.
THEOREM TypeCorrect == Spec => []TypeOK
<1>1. Inv => TypeOK
  BY DEF Inv
<1> QED
  BY <1>1, Invariance, PTL

\* Mutual exclusion: the mutex is held exactly by the thread between lock and
\* unlock, so two threads are never both in the list.
THEOREM ListGuarded == Spec => []ListIsGuarded
<1>1. Inv => ListIsGuarded
  BY DEF Inv
<1> QED
  BY <1>1, Invariance, PTL

\* The list is whole at every instant, for every number of threads and loggers:
\* head_ and next_ spell the published loggers, newest first, each once and alive.
THEOREM ListWellFormed == Spec => []ListShape
<1>1. Inv => ListShape
  BY DEF Inv
<1> QED
  BY <1>1, Invariance, PTL

-----------------------------------------------------------------------------
(* Ownership: nothing leaks, references stay valid, published loggers never  *)
(* change, lookups walk the whole list and find what is registered.          *)

\* A live logger is in the list or belongs to a Register.
LiveLoggersAreOwned ==
    \A l \in Loggers : contents[l] # Null =>
        l \in Range(published) \/ \E t \in Threads : pc[t] \in OwningSteps /\ local[t].logger = l

\* Only a Register that allocates has buffers.
BuffersAreOwned ==
    \A t \in Threads : local[t].buffers # {} => pc[t] \in {"AllocateDescription", "AllocateLogger"}

\* Before the first call and after the exit there is nothing.
NothingOutlivesTheProcess ==
    /\ process = "fresh" => published = <<>> /\ \A t \in Threads : pc[t] = "Idle"
    /\ process = "exited" => published = <<>>

\* What the traversal is at: 0 is the end of the list.
Entry(j) == IF j = 0 THEN Null ELSE published[j]

\* Every context newer than the j-th has another ID than this lookup's.
SkippedTo(t, j) ==
    /\ j \in 0..Len(published)
    /\ local[t].logger = Entry(j)
    /\ \A i \in DOMAIN published : i > j => contents[published[i]].id # local[t].request.id

\* A lookup has skipped only what it had to, and stops at its ID or at the end.
TraversalOf(t) ==
    /\ pc[t] = "FindCompare" => \E j \in 0..Len(published) : SkippedTo(t, j)
    /\ pc[t] = "FindMatch" =>
         \E j \in 0..Len(published) :
           SkippedTo(t, j) /\ (j # 0 => contents[published[j]].id = local[t].request.id)

TraversalIsExact == \A t \in Threads : TraversalOf(t)

\* What a call is about to return is in the list, with the inputs of the call.
Answers(t) ==
    \/ pc[t] = "RegisterUnlock"
    \/ pc[t] \in {"FindUnlock", "FindReturn"} /\ local[t].matches

AnswerOf(t) ==
    Answers(t) => local[t].logger \in Range(published) /\ contents[local[t].logger] = local[t].request

AnswersAreListed == \A t \in Threads : AnswerOf(t)

\* An ID whose callers keep it unique has one registration at a time, no other
\* once a logger with it is in the list, and one such logger; a caller who looks
\* can see the registration or its result.
Registers(t, id) == pc[t] \in RegisterSteps /\ local[t].request.id = id

RegisteredOnce(id) ==
    /\ \A t, u \in Threads : Registers(t, id) /\ Registers(u, id) => t = u
    /\ \A l \in Range(published) : contents[l].id = id =>
         /\ \/ \E t \in Threads : Registers(t, id) /\ pc[t] = "RegisterUnlock"
            \/ \E ref \in obtained : ref[1].id = id
         /\ \A t \in Threads : Registers(t, id) => pc[t] = "RegisterUnlock"
         /\ \A m \in Range(published) : contents[m].id = id => m = l

UniqueIdsAreRegisteredOnce == \A id \in UniqueIds : RegisteredOnce(id)

\* A lookup made after an identical registration has something to find.
PriorOf(t) ==
    pc[t] \in FindSteps /\ local[t].prior =>
        \E l \in Range(published) : contents[l] = local[t].request

PriorIsListed == \A t \in Threads : PriorOf(t)

OwnershipInv ==
    /\ Inv
    /\ LiveLoggersAreOwned
    /\ BuffersAreOwned
    /\ NothingOutlivesTheProcess
    /\ TraversalIsExact
    /\ AnswersAreListed
    /\ ReferencesAreValid
    /\ UniqueIdsAreRegisteredOnce
    /\ PriorIsListed
    /\ LookupNeverRefusesARegisteredContext

-----------------------------------------------------------------------------
(* The list as a sequence *)

\* A publication adds one logger to those in the list.
LEMMA RangeOfAppend ==
    ASSUME NEW S, NEW s \in Seq(S), NEW e \in S
    PROVE  Range(Append(s, e)) = Range(s) \cup {e}
<1>1. /\ Len(s) \in Nat /\ DOMAIN s = 1..Len(s)
      /\ DOMAIN Append(s, e) = 1..(Len(s) + 1)
      /\ \A i \in 1..Len(s) : Append(s, e)[i] = s[i]
      /\ Append(s, e)[Len(s) + 1] = e
  OBVIOUS
<1>2. \A i \in 1..(Len(s) + 1) : i \in 1..Len(s) \/ i = Len(s) + 1
  BY <1>1
<1>3. 1..Len(s) \subseteq 1..(Len(s) + 1) /\ Len(s) + 1 \in 1..(Len(s) + 1)
  BY <1>1
<1> QED
  BY <1>1, <1>2, <1>3 DEF Range

\* A deletion takes away only the newest.
LEMMA RangeOfFront ==
    ASSUME NEW S, NEW s \in Seq(S), s # <<>>
    PROVE  /\ Range(SubSeq(s, 1, Len(s) - 1)) \subseteq Range(s)
           /\ \A x \in Range(s) : x = s[Len(s)] \/ x \in Range(SubSeq(s, 1, Len(s) - 1))
<1> DEFINE n == Len(s)  f == SubSeq(s, 1, n - 1)
<1>1. /\ n \in Nat /\ n # 0 /\ DOMAIN s = 1..n
      /\ DOMAIN f = 1..(n - 1) /\ \A i \in 1..(n - 1) : f[i] = s[i]
  OBVIOUS
<1> HIDE DEF n, f
<1>2. \A i \in 1..n : i = n \/ i \in 1..(n - 1)
  BY <1>1
<1>3. \A i \in 1..(n - 1) : i \in 1..n
  BY <1>1
<1>4. Range(f) \subseteq Range(s) /\ \A x \in Range(s) : x = s[n] \/ x \in Range(f)
  BY <1>1, <1>2, <1>3 DEF Range
<1> QED
  BY <1>4 DEF n, f

\* What is in the list is an allocated address.
LEMMA ListedLoggers ==
    ASSUME TypeOK
    PROVE  /\ Range(published) \subseteq Loggers
           /\ published \in Seq(Loggers) /\ Len(published) \in Nat
           /\ DOMAIN published = 1..Len(published)
           /\ \A l : l \in Range(published) <=> \E i \in DOMAIN published : published[i] = l
BY DEF TypeOK, Range

-----------------------------------------------------------------------------
(* Ownership *)

\* A step that neither makes, deletes nor publishes a logger and leaves every
\* owner its logger.
LEMMA LiveFrame ==
    ASSUME LiveLoggersAreOwned, UNCHANGED <<contents, published>>,
           \A t \in Threads : pc[t] \in OwningSteps =>
              pc'[t] \in OwningSteps /\ local'[t].logger = local[t].logger
    PROVE  LiveLoggersAreOwned'
BY DEF LiveLoggersAreOwned

\* No step forgets a live logger.
LEMMA LiveStep == Inv /\ LiveLoggersAreOwned /\ [Next]_vars => LiveLoggersAreOwned'
<1> SUFFICES ASSUME Inv, LiveLoggersAreOwned, [Next]_vars PROVE LiveLoggersAreOwned'
  OBVIOUS
<1> USE NullAssumption DEF OwningSteps, list
<1>type. TypeOK /\ pc \in [Threads -> RegisterSteps \cup FindSteps \cup {"Idle"}]
         /\ local \in [Threads -> Locals] /\ contents \in [Loggers -> Inputs \cup {Null}]
  BY DEF Inv, TypeOK
<1>1. ASSUME NEW t \in Threads, NEW in \in Inputs, NEW known \in BOOLEAN,
             NEW step \in {"CheckThreshold", "FindLock"}, Call(t, in, step, known)
      PROVE  LiveLoggersAreOwned'
  BY <1>1, LiveFrame, <1>type DEF Call, NoCall
<1>2. ASSUME NEW t \in Threads, CheckThreshold(t) PROVE LiveLoggersAreOwned'
  BY <1>2, LiveFrame, <1>type DEF CheckThreshold, Goto, At, Terminate
<1>3. ASSUME NEW t \in Threads, AllocateId(t) \/ AllocateDescription(t) PROVE LiveLoggersAreOwned'
  BY <1>3, LiveFrame, <1>type DEF AllocateId, AllocateDescription, AllocateBuffer, Goto, At
<1>4. ASSUME NEW t \in Threads, AllocateLogger(t) PROVE LiveLoggersAreOwned'
  BY <1>4, <1>type DEF AllocateLogger, Goto, At, LiveLoggersAreOwned, Locals
<1>5. ASSUME NEW t \in Threads, AllocationFails(t) PROVE LiveLoggersAreOwned'
  BY <1>5, LiveFrame, <1>type DEF AllocationFails, At, Return, NoCall
<1>6. ASSUME NEW t \in Threads, RegisterLock(t) \/ FindLock(t) PROVE LiveLoggersAreOwned'
  BY <1>6, LiveFrame, <1>type DEF RegisterLock, FindLock, Goto, At
<1>7. ASSUME NEW t \in Threads, RegisterLockFails(t) PROVE LiveLoggersAreOwned'
  BY <1>7, <1>type DEF RegisterLockFails, At, Return, NoCall, LiveLoggersAreOwned
<1>8. ASSUME NEW t \in Threads, Link(t) PROVE LiveLoggersAreOwned'
  BY <1>8, LiveFrame, <1>type DEF Link, Goto, At
<1>9. ASSUME NEW t \in Threads, SetHead(t) PROVE LiveLoggersAreOwned'
  <2>1. local[t].logger \in Loggers
    BY <1>9 DEF SetHead, Goto, At, Inv, OwnersAreExclusive
  <2>2. Range(published') = Range(published) \cup {local[t].logger}
    BY <1>9, <2>1, <1>type, RangeOfAppend, ListedLoggers DEF SetHead
  <2> QED
    BY <1>9, <2>2, <1>type DEF SetHead, Goto, At, LiveLoggersAreOwned
<1>10. ASSUME NEW t \in Threads, RegisterUnlock(t) PROVE LiveLoggersAreOwned'
  BY <1>10, LiveFrame, <1>type DEF RegisterUnlock, At, Return, NoCall
<1>11. ASSUME NEW t \in Threads, FindHead(t) PROVE LiveLoggersAreOwned'
  BY <1>11, LiveFrame, <1>type DEF FindHead, Goto, At
<1>12. ASSUME NEW t \in Threads, FindCompare(t) PROVE LiveLoggersAreOwned'
  <2>1. /\ pc' = [pc EXCEPT ![t] = "FindCompare"] \/ pc' = [pc EXCEPT ![t] = "FindMatch"]
        /\ \A u \in Threads : u # t => local'[u] = local[u]
        /\ pc[t] = "FindCompare" /\ UNCHANGED <<contents, published>>
    BY <1>12, <1>type DEF FindCompare, Goto, At
  <2> QED
    BY <2>1, LiveFrame, <1>type
<1>13. ASSUME NEW t \in Threads, FindMatch(t) PROVE LiveLoggersAreOwned'
  BY <1>13, LiveFrame, <1>type DEF FindMatch, Goto, At
<1>14. ASSUME NEW t \in Threads, FindUnlock(t) PROVE LiveLoggersAreOwned'
  BY <1>14, LiveFrame, <1>type DEF FindUnlock, Goto, At
<1>15. ASSUME NEW t \in Threads, FindReturn(t) PROVE LiveLoggersAreOwned'
  <2>1. CASE Terminate(t, "FindReturn", "lookup terminated")
    BY <2>1, LiveFrame, <1>type DEF Terminate, At
  <2>2. CASE At(t, "FindReturn") /\ Return(t, local[t].logger) /\ UNCHANGED list
    BY <2>2, LiveFrame, <1>type DEF At, Return, NoCall
  <2> QED
    BY <1>15, <2>1, <2>2 DEF FindReturn
<1>16. ASSUME NEW t \in Threads, MutexTerminates(t) PROVE LiveLoggersAreOwned'
  BY <1>16, LiveFrame, <1>type DEF MutexTerminates, Terminate, At
<1>17. ASSUME Exit \/ DestroyMutex PROVE LiveLoggersAreOwned'
  BY <1>17, LiveFrame, <1>type DEF Exit, DestroyMutex
<1>18. ASSUME DestroyHead PROVE LiveLoggersAreOwned'
  <2>1. published # <<>> /\ head = published[Len(published)]
    BY <1>18 DEF DestroyHead, Inv, ListShape
  <2>2. \A x \in Range(published) : x = head \/ x \in Range(published')
    BY <1>18, <2>1, <1>type, RangeOfFront, ListedLoggers DEF DestroyHead
  <2> QED
    BY <1>18, <2>2, <1>type DEF DestroyHead, LiveLoggersAreOwned
<1>19. CASE UNCHANGED vars
  BY <1>19, LiveFrame DEF vars
<1> QED
  BY <1>1, <1>2, <1>3, <1>4, <1>5, <1>6, <1>7, <1>8, <1>9, <1>10, <1>11, <1>12, <1>13,
     <1>14, <1>15, <1>16, <1>17, <1>18, <1>19
  DEF Next, Progress, Ended, CallRegister, CallFind

\* Until shutdown, no step changes, relinks or removes a logger of the list.
LEMMA ListedStep ==
    Inv /\ [Next]_vars /\ ~ShuttingDown =>
        \A l \in Range(published) :
            contents'[l] = contents[l] /\ next'[l] = next[l] /\ l \in Range(published')
<1> DEFINE Stable == \A l \in Range(published) :
                        contents'[l] = contents[l] /\ next'[l] = next[l] /\ l \in Range(published')
<1> SUFFICES ASSUME Inv, [Next]_vars, ~ShuttingDown PROVE Stable
  OBVIOUS
<1> USE NullAssumption DEF OwningSteps, list
<1>type. /\ TypeOK /\ ListShape /\ OwnersAreExclusive
         /\ contents \in [Loggers -> Inputs \cup {Null}] /\ next \in [Loggers -> Addresses]
  BY DEF Inv, TypeOK
<1>listed. \A l \in Range(published) : l \in Loggers /\ contents[l] # Null
  BY <1>type, ListedLoggers DEF ListShape
<1>owned. \A t \in Threads : pc[t] \in OwningSteps =>
             local[t].logger \in Loggers /\ local[t].logger \notin Range(published)
  BY <1>type, ListedLoggers DEF OwnersAreExclusive
<1>1. ASSUME NEW t \in Threads, NEW in \in Inputs, NEW known \in BOOLEAN,
             NEW step \in {"CheckThreshold", "FindLock"}, Call(t, in, step, known) PROVE Stable
  BY <1>1 DEF Call
<1>2. ASSUME NEW t \in Threads,
             \/ CheckThreshold(t) \/ AllocateId(t) \/ AllocateDescription(t) \/ RegisterLock(t)
             \/ FindLock(t) \/ FindHead(t) \/ FindCompare(t) \/ FindMatch(t) \/ FindUnlock(t)
      PROVE  Stable
  BY <1>2 DEF CheckThreshold, AllocateId, AllocateDescription, AllocateBuffer, RegisterLock,
              FindLock, FindHead, FindCompare, FindMatch, FindUnlock, Terminate
<1>3. ASSUME NEW t \in Threads,
             AllocationFails(t) \/ RegisterUnlock(t) \/ FindReturn(t) \/ MutexTerminates(t)
      PROVE  Stable
  BY <1>3 DEF AllocationFails, RegisterUnlock, FindReturn, MutexTerminates, Terminate
<1>4. ASSUME NEW t \in Threads, AllocateLogger(t) PROVE Stable
  BY <1>4, <1>type, <1>listed DEF AllocateLogger
<1>5. ASSUME NEW t \in Threads, RegisterLockFails(t) PROVE Stable
  BY <1>5, <1>type, <1>listed, <1>owned DEF RegisterLockFails, At
<1>6. ASSUME NEW t \in Threads, Link(t) PROVE Stable
  BY <1>6, <1>type, <1>listed, <1>owned DEF Link, Goto, At
<1>7. ASSUME NEW t \in Threads, SetHead(t) PROVE Stable
  <2>1. local[t].logger \in Loggers
    BY <1>7, <1>owned DEF SetHead, Goto, At
  <2>2. Range(published') = Range(published) \cup {local[t].logger}
    BY <1>7, <2>1, <1>type, RangeOfAppend, ListedLoggers DEF SetHead
  <2> QED
    BY <1>7, <2>2 DEF SetHead
<1>8. ASSUME Exit \/ DestroyMutex PROVE Stable
  BY <1>8 DEF Exit, DestroyMutex
<1>9. ~DestroyHead
  BY DEF DestroyHead, ShuttingDown
<1>10. CASE UNCHANGED vars
  BY <1>10 DEF vars
<1> QED
  BY <1>1, <1>2, <1>3, <1>4, <1>5, <1>6, <1>7, <1>8, <1>9, <1>10
  DEF Next, Progress, Ended, CallRegister, CallFind

\* No step leaves name buffers behind.
LEMMA BuffersStep == Inv /\ BuffersAreOwned /\ [Next]_vars => BuffersAreOwned'
<1> SUFFICES ASSUME Inv, BuffersAreOwned, [Next]_vars PROVE BuffersAreOwned'
  OBVIOUS
<1> USE DEF BuffersAreOwned, list
<1>type. /\ pc \in [Threads -> RegisterSteps \cup FindSteps \cup {"Idle"}]
         /\ local \in [Threads -> Locals]
  BY DEF Inv, TypeOK
<1>1. ASSUME NEW t \in Threads, NEW in \in Inputs, NEW known \in BOOLEAN,
             NEW step \in {"CheckThreshold", "FindLock"}, Call(t, in, step, known)
      PROVE  BuffersAreOwned'
  BY <1>1, <1>type DEF Call, NoCall
<1>2. ASSUME NEW t \in Threads, CheckThreshold(t) PROVE BuffersAreOwned'
  BY <1>2, <1>type DEF CheckThreshold, Goto, At, Terminate
<1>3. ASSUME NEW t \in Threads, AllocateId(t) \/ AllocateDescription(t) PROVE BuffersAreOwned'
  BY <1>3, <1>type DEF AllocateId, AllocateDescription, AllocateBuffer, Goto, At
<1>4. ASSUME NEW t \in Threads, AllocateLogger(t) PROVE BuffersAreOwned'
  BY <1>4, <1>type DEF AllocateLogger, Goto, At, Locals
<1>5. ASSUME NEW t \in Threads, NEW value, Return(t, value) PROVE BuffersAreOwned'
  BY <1>5, <1>type DEF Return, NoCall
<1>6. ASSUME NEW t \in Threads, RegisterLock(t) \/ FindLock(t) \/ Link(t) \/ SetHead(t) \/ FindUnlock(t)
      PROVE  BuffersAreOwned'
  BY <1>6, <1>type DEF RegisterLock, FindLock, Link, SetHead, FindUnlock, Goto, At
<1>7. ASSUME NEW t \in Threads, FindHead(t) \/ FindMatch(t) PROVE BuffersAreOwned'
  BY <1>7, <1>type DEF FindHead, FindMatch, Goto, At, Locals
<1>8. ASSUME NEW t \in Threads, FindCompare(t) PROVE BuffersAreOwned'
  BY <1>8, <1>type DEF FindCompare, Goto, At, Locals
<1>9. ASSUME NEW t \in Threads, NEW step, NEW reason, Terminate(t, step, reason) PROVE BuffersAreOwned'
  BY <1>9 DEF Terminate
<1>10. ASSUME Exit \/ DestroyHead \/ DestroyMutex PROVE BuffersAreOwned'
  BY <1>10 DEF Exit, DestroyHead, DestroyMutex
<1>11. CASE UNCHANGED vars
  BY <1>11 DEF vars
<1> QED
  BY <1>1, <1>2, <1>3, <1>4, <1>5, <1>6, <1>7, <1>8, <1>9, <1>10, <1>11
  DEF Next, Progress, Ended, CallRegister, CallFind, AllocationFails, RegisterLockFails,
      RegisterUnlock, FindReturn, MutexTerminates

\* A process starts with an empty list and exits with one.
LEMMA LifeStep ==
    Inv /\ NothingOutlivesTheProcess /\ [Next]_vars => NothingOutlivesTheProcess'
<1> SUFFICES ASSUME Inv, NothingOutlivesTheProcess, [Next]_vars PROVE NothingOutlivesTheProcess'
  OBVIOUS
<1> USE DEF NothingOutlivesTheProcess, list
<1>1. ASSUME NEW t \in Threads, NEW in \in Inputs, NEW known \in BOOLEAN,
             NEW step \in {"CheckThreshold", "FindLock"}, Call(t, in, step, known)
      PROVE  NothingOutlivesTheProcess'
  BY <1>1 DEF Call
<1>2. ASSUME NEW t \in Threads, NEW step, At(t, step), UNCHANGED process
      PROVE  NothingOutlivesTheProcess'
  BY <1>2 DEF At
<1>3. ASSUME NEW t \in Threads, NEW step, NEW reason \in Terminated, Terminate(t, step, reason)
      PROVE  NothingOutlivesTheProcess'
  BY <1>3 DEF Terminate, Terminated
<1>4. ASSUME Exit \/ DestroyHead PROVE NothingOutlivesTheProcess'
  BY <1>4 DEF Exit, DestroyHead, Up
<1>5. ASSUME DestroyMutex PROVE NothingOutlivesTheProcess'
  <2>1. published = <<>>
    <3>1. published \in Seq(Loggers) /\ ListShape /\ head = Null
      BY <1>5 DEF DestroyMutex, Inv, TypeOK
    <3>2. ASSUME published # <<>> PROVE FALSE
      <4>1. Len(published) \in DOMAIN published /\ published[Len(published)] \in Loggers
        BY <3>1, <3>2
      <4> QED
        BY <4>1, <3>1, <3>2, NullAssumption DEF ListShape
    <3> QED
      BY <3>2
  <2> QED
    BY <1>5, <2>1 DEF DestroyMutex
<1>6. CASE UNCHANGED vars
  BY <1>6 DEF vars
<1>7. ASSUME NEW t \in Threads, Progress(t) \/ RegisterLockFails(t) \/ MutexTerminates(t)
      PROVE  NothingOutlivesTheProcess'
  BY <1>2, <1>3, <1>7
  DEF Progress, Terminated, CheckThreshold, AllocateId, AllocateDescription, AllocateBuffer,
      AllocateLogger, AllocationFails, RegisterLock, RegisterLockFails, Link, SetHead,
      RegisterUnlock, FindLock, FindHead, FindCompare, FindMatch, FindUnlock, FindReturn,
      MutexTerminates, Goto, Return
<1> QED
  BY <1>1, <1>4, <1>5, <1>6, <1>7 DEF Next, Ended, CallRegister, CallFind

-----------------------------------------------------------------------------
(* Lookups and references *)

\* What other threads do does not disturb a traversal, since the list is locked.
LEMMA TraversalFrame ==
    ASSUME Inv, UNCHANGED published,
           \A l \in Range(published) : contents'[l] = contents[l],
           NEW t \in Threads, TraversalOf(t),
           pc'[t] \in {"FindCompare", "FindMatch"} =>
              /\ pc'[t] = pc[t]
              /\ local'[t].logger = local[t].logger /\ local'[t].request = local[t].request
    PROVE  TraversalOf(t)'
<1>1. \A i \in DOMAIN published : contents'[published[i]] = contents[published[i]]
  BY DEF Range
<1>2. ASSUME NEW j \in 0..Len(published), SkippedTo(t, j), pc'[t] \in {"FindCompare", "FindMatch"}
      PROVE  SkippedTo(t, j)'
  BY <1>1, <1>2 DEF SkippedTo, Entry
<1>3. \A j \in 0..Len(published) : j # 0 => j \in DOMAIN published
  BY ListedLoggers DEF Inv
<1> QED
  BY <1>1, <1>2, <1>3 DEF TraversalOf

\* The first step of a traversal.
LEMMA FindHeadStep ==
    ASSUME Inv, NEW t \in Threads, FindHead(t) PROVE TraversalOf(t)'
<1>1. /\ published \in Seq(Loggers) /\ Len(published) \in Nat
      /\ DOMAIN published = 1..Len(published)
      /\ local \in [Threads -> Locals] /\ pc \in [Threads -> RegisterSteps \cup FindSteps \cup {"Idle"}]
  BY ListedLoggers DEF Inv, TypeOK
<1>2. /\ pc'[t] = "FindCompare" /\ local'[t].logger = head /\ UNCHANGED <<published, contents>>
  BY <1>1 DEF FindHead, Goto, At, Locals, list
<1>3. published = <<>> <=> Len(published) = 0
  BY <1>1
<1>4. SkippedTo(t, Len(published))'
  BY <1>1, <1>2, <1>3 DEF SkippedTo, Entry, Inv, ListShape
<1> QED
  BY <1>1, <1>2, <1>4 DEF TraversalOf

\* Every further step: on to the next older logger, or out of the loop.
LEMMA FindCompareStep ==
    ASSUME Inv, NEW t \in Threads, TraversalOf(t), FindCompare(t) PROVE TraversalOf(t)'
<1>1. /\ published \in Seq(Loggers) /\ Len(published) \in Nat
      /\ DOMAIN published = 1..Len(published) /\ Null \notin Loggers
      /\ \A i \in 1..Len(published) : published[i] \in Loggers
      /\ local \in [Threads -> Locals] /\ pc \in [Threads -> RegisterSteps \cup FindSteps \cup {"Idle"}]
  BY ListedLoggers, NullAssumption DEF Inv, TypeOK
<1>2. PICK j \in 0..Len(published) : SkippedTo(t, j)
  BY DEF FindCompare, Goto, At, TraversalOf
<1>3. UNCHANGED <<published, contents>>
  BY DEF FindCompare, list
<1>4. j # 0 => j \in 1..Len(published) /\ j - 1 \in 0..Len(published)
  BY <1>1
<1>5. CASE /\ pc' = [pc EXCEPT ![t] = "FindMatch"] /\ local' = local
           /\ local[t].logger = Null \/ IsFound(t)
  <2>1. j # 0 => contents[published[j]].id = local[t].request.id
    BY <1>1, <1>2, <1>4, <1>5 DEF SkippedTo, Entry, IsFound
  <2>2. SkippedTo(t, j)'
    BY <1>2, <1>3, <1>5 DEF SkippedTo, Entry
  <2> QED
    BY <1>1, <1>3, <1>5, <2>1, <2>2 DEF TraversalOf
<1>6. CASE /\ pc' = [pc EXCEPT ![t] = "FindCompare"]
           /\ local' = [local EXCEPT ![t].logger = next[@]]
           /\ local[t].logger # Null /\ ~IsFound(t)
  <2>1. j # 0 /\ local[t].logger = published[j]
    BY <1>2, <1>6 DEF SkippedTo, Entry
  <2>2. next[published[j]] = Entry(j - 1)
    BY <1>1, <1>4, <2>1 DEF Inv, ListShape, Entry
  <2>3. local'[t].logger = Entry(j - 1) /\ local'[t].request = local[t].request
    BY <1>1, <1>6, <2>1, <2>2 DEF Locals
  <2>4. \A i \in DOMAIN published : i > j - 1 => contents[published[i]].id # local[t].request.id
    BY <1>1, <1>2, <1>6, <2>1 DEF SkippedTo, IsFound
  <2>5. SkippedTo(t, j - 1)'
    BY <1>3, <1>4, <2>1, <2>3, <2>4 DEF SkippedTo, Entry
  <2> QED
    BY <1>1, <1>3, <1>4, <1>6, <2>1, <2>5 DEF TraversalOf
<1> QED
  BY <1>5, <1>6 DEF FindCompare, Goto

\* Every lookup examines the whole list from the newest logger on.
LEMMA TraversalStep == Inv /\ TraversalIsExact /\ [Next]_vars => TraversalIsExact'
<1> SUFFICES ASSUME Inv, TraversalIsExact, [Next]_vars, NEW u \in Threads PROVE TraversalOf(u)'
  BY DEF TraversalIsExact
<1> DEFINE Looks(t) == pc'[t] \in {"FindCompare", "FindMatch"}
           Keeps(t) == Looks(t) => /\ pc'[t] = pc[t] /\ local'[t].logger = local[t].logger
                                   /\ local'[t].request = local[t].request
<1> USE DEF list
<1>type. /\ pc \in [Threads -> RegisterSteps \cup FindSteps \cup {"Idle"}]
         /\ local \in [Threads -> Locals] /\ TraversalOf(u)
  BY DEF Inv, TypeOK, TraversalIsExact
<1>frame. ASSUME UNCHANGED published, Keeps(u), ~ShuttingDown PROVE TraversalOf(u)'
  BY <1>frame, <1>type, ListedStep, TraversalFrame
<1>quiet. ASSUME ~Looks(u) PROVE TraversalOf(u)'
  BY <1>quiet DEF TraversalOf
<1>up. ASSUME NEW t \in Threads, NEW step, At(t, step) PROVE ~ShuttingDown
  BY <1>up DEF At, ShuttingDown
<1>1. ASSUME NEW t \in Threads, NEW in \in Inputs, NEW known \in BOOLEAN,
             NEW step \in {"CheckThreshold", "FindLock"}, Call(t, in, step, known)
      PROVE  TraversalOf(u)'
  <2>1. ~ShuttingDown /\ Keeps(u) /\ UNCHANGED published
    BY <1>1, <1>type DEF Call, NoCall, Up, ShuttingDown
  <2> QED
    BY <2>1, <1>frame
<1>2. ASSUME NEW t \in Threads,
             \/ CheckThreshold(t) \/ AllocateId(t) \/ AllocateDescription(t) \/ AllocateLogger(t)
             \/ RegisterLock(t) \/ Link(t) \/ FindLock(t) \/ FindUnlock(t) \/ FindMatch(t)
      PROVE  TraversalOf(u)'
  <2>1. ~ShuttingDown /\ UNCHANGED published
    BY <1>2, <1>up DEF CheckThreshold, AllocateId, AllocateDescription, AllocateBuffer,
       AllocateLogger, RegisterLock, Link, FindLock, FindUnlock, FindMatch, Goto, Terminate
  <2>2. Keeps(u)
    BY <1>2, <1>type DEF CheckThreshold, AllocateId, AllocateDescription, AllocateBuffer,
       AllocateLogger, RegisterLock, Link, FindLock, FindUnlock, FindMatch, Goto, At, Terminate
  <2> QED
    BY <2>1, <2>2, <1>frame
<1>3. ASSUME NEW t \in Threads, NEW step, NEW value, At(t, step), Return(t, value), UNCHANGED published
      PROVE  TraversalOf(u)'
  <2>1. Keeps(u)
    BY <1>3, <1>type DEF Return, NoCall
  <2> QED
    BY <2>1, <1>3, <1>frame, <1>up
<1>4. ASSUME NEW t \in Threads, NEW step, NEW reason, Terminate(t, step, reason)
      PROVE  TraversalOf(u)'
  BY <1>4, <1>frame, <1>up DEF Terminate
<1>5. ASSUME NEW t \in Threads, SetHead(t) PROVE TraversalOf(u)'
  <2>1. pc[t] = "SetHead" /\ pc' = [pc EXCEPT ![t] = "RegisterUnlock"]
    BY <1>5 DEF SetHead, Goto, At
  <2>2. u # t => pc[u] \notin CriticalSteps
    BY <2>1, NullAssumption DEF Inv, ListIsGuarded, CriticalSteps
  <2> QED
    BY <2>1, <2>2, <1>quiet, <1>type DEF CriticalSteps
<1>6. ASSUME NEW t \in Threads, FindHead(t) \/ FindCompare(t) PROVE TraversalOf(u)'
  <2>1. CASE u = t
    BY <1>6, <2>1, <1>type, FindHeadStep, FindCompareStep
  <2>2. CASE u # t
    <3>1. ~ShuttingDown /\ UNCHANGED published
      BY <1>6, <1>up DEF FindHead, FindCompare, Goto
    <3>2. Keeps(u)
      BY <1>6, <2>2, <1>type DEF FindHead, FindCompare, Goto
    <3> QED
      BY <3>1, <3>2, <1>frame
  <2> QED
    BY <2>1, <2>2
<1>7. ASSUME Exit \/ DestroyHead \/ DestroyMutex PROVE TraversalOf(u)'
  <2>1. pc'[u] = "Idle"
    BY <1>7 DEF Exit, DestroyHead, DestroyMutex, Inv, ShutdownIsQuiet, ShuttingDown
  <2> QED
    BY <2>1, <1>quiet
<1>8. CASE UNCHANGED vars
  BY <1>8, <1>type, TraversalFrame DEF vars
<1>9. ASSUME NEW t \in Threads,
             \/ AllocationFails(t) \/ RegisterLockFails(t) \/ RegisterUnlock(t)
             \/ FindReturn(t) \/ MutexTerminates(t)
      PROVE  TraversalOf(u)'
  BY <1>3, <1>4, <1>9
  DEF AllocationFails, RegisterLockFails, RegisterUnlock, FindReturn, MutexTerminates
<1> QED
  BY <1>1, <1>2, <1>5, <1>6, <1>7, <1>8, <1>9 DEF Next, Progress, Ended, CallRegister, CallFind

\* What other threads do does not disturb an answer, since loggers do not change.
LEMMA AnswerFrame ==
    ASSUME \A l \in Range(published) : contents'[l] = contents[l] /\ l \in Range(published'),
           NEW t \in Threads, AnswerOf(t),
           Answers(t)' => /\ Answers(t) /\ local'[t].logger = local[t].logger
                          /\ local'[t].request = local[t].request
    PROVE  AnswerOf(t)'
BY DEF AnswerOf

\* A registration answers with the logger it has published, a lookup with the
\* one it has compared.
LEMMA AnswersStep ==
    Inv /\ TraversalIsExact /\ AnswersAreListed /\ [Next]_vars => AnswersAreListed'
<1> SUFFICES ASSUME Inv, TraversalIsExact, AnswersAreListed, [Next]_vars, NEW u \in Threads
             PROVE  AnswerOf(u)'
  BY DEF AnswersAreListed
<1> DEFINE Keeps(t) == Answers(t)' => /\ Answers(t) /\ local'[t].logger = local[t].logger
                                      /\ local'[t].request = local[t].request
<1> USE DEF list
<1>type. /\ pc \in [Threads -> RegisterSteps \cup FindSteps \cup {"Idle"}]
         /\ local \in [Threads -> Locals] /\ AnswerOf(u)
  BY DEF Inv, TypeOK, AnswersAreListed
<1>frame. ASSUME Keeps(u), ~ShuttingDown PROVE AnswerOf(u)'
  BY <1>frame, <1>type, ListedStep, AnswerFrame
<1>quiet. ASSUME ~Answers(u)' PROVE AnswerOf(u)'
  BY <1>quiet DEF AnswerOf
<1>up. ASSUME NEW t \in Threads, NEW step, At(t, step) PROVE ~ShuttingDown
  BY <1>up DEF At, ShuttingDown
<1>1. ASSUME NEW t \in Threads, NEW in \in Inputs, NEW known \in BOOLEAN,
             NEW step \in {"CheckThreshold", "FindLock"}, Call(t, in, step, known)
      PROVE  AnswerOf(u)'
  <2>1. ~ShuttingDown /\ Keeps(u)
    BY <1>1, <1>type DEF Call, NoCall, Up, ShuttingDown, Answers
  <2> QED
    BY <2>1, <1>frame
<1>2. ASSUME NEW t \in Threads,
             \/ CheckThreshold(t) \/ AllocateId(t) \/ AllocateDescription(t) \/ AllocateLogger(t)
             \/ RegisterLock(t) \/ Link(t) \/ FindLock(t) \/ FindHead(t)
      PROVE  AnswerOf(u)'
  <2>1. ~ShuttingDown
    BY <1>2, <1>up DEF CheckThreshold, AllocateId, AllocateDescription, AllocateBuffer,
       AllocateLogger, RegisterLock, Link, FindLock, FindHead, Goto, Terminate
  <2>2. Keeps(u)
    BY <1>2, <1>type DEF CheckThreshold, AllocateId, AllocateDescription, AllocateBuffer,
       AllocateLogger, RegisterLock, Link, FindLock, FindHead, Goto, At, Terminate, Answers
  <2> QED
    BY <2>1, <2>2, <1>frame
<1>3. ASSUME NEW t \in Threads, NEW step, NEW value, At(t, step), Return(t, value)
      PROVE  AnswerOf(u)'
  <2>1. Keeps(u)
    BY <1>3, <1>type DEF Return, NoCall, Answers
  <2> QED
    BY <2>1, <1>3, <1>frame, <1>up
<1>4. ASSUME NEW t \in Threads, NEW step, NEW reason, Terminate(t, step, reason)
      PROVE  AnswerOf(u)'
  BY <1>4, <1>frame, <1>up DEF Terminate, Answers
<1>5. ASSUME NEW t \in Threads, SetHead(t) PROVE AnswerOf(u)'
  <2>1. CASE u = t
    <3>1. /\ local[t].logger \in Loggers /\ contents[local[t].logger] = local[t].request
          /\ UNCHANGED <<contents, local>>
      BY <1>5 DEF SetHead, Goto, At, Inv, OwnersAreExclusive, OwningSteps
    <3>2. Range(published') = Range(published) \cup {local[t].logger}
      BY <1>5, <3>1, RangeOfAppend, ListedLoggers DEF SetHead, Inv
    <3> QED
      BY <2>1, <3>1, <3>2 DEF AnswerOf
  <2>2. CASE u # t
    BY <1>5, <2>2, <1>type, <1>frame, <1>up DEF SetHead, Goto, Answers
  <2> QED
    BY <2>1, <2>2
<1>6. ASSUME NEW t \in Threads, FindMatch(t) PROVE AnswerOf(u)'
  <2>1. CASE u = t
    <3>1. PICK j \in 0..Len(published) : SkippedTo(t, j)
      BY <1>6 DEF FindMatch, Goto, At, TraversalIsExact, TraversalOf
    <3>2. local[t].logger # Null => local[t].logger \in Range(published)
      BY <3>1, ListedLoggers DEF SkippedTo, Entry, Inv
    <3>3. /\ local'[t].logger = local[t].logger /\ local'[t].request = local[t].request
          /\ local'[t].matches =
               (local[t].logger # Null /\ contents[local[t].logger] = local[t].request)
          /\ pc'[t] = "FindUnlock" /\ UNCHANGED <<contents, published>>
      BY <1>6, <1>type DEF FindMatch, Goto, Locals
    <3> QED
      BY <2>1, <3>2, <3>3 DEF AnswerOf, Answers
  <2>2. CASE u # t
    <3>1. Keeps(u)
      BY <1>6, <2>2, <1>type DEF FindMatch, Goto, Answers
    <3> QED
      BY <3>1, <1>6, <1>frame, <1>up DEF FindMatch, Goto
  <2> QED
    BY <2>1, <2>2
<1>7. ASSUME NEW t \in Threads, FindCompare(t) PROVE AnswerOf(u)'
  <2>1. Keeps(u)
    BY <1>7, <1>type DEF FindCompare, Goto, Answers
  <2> QED
    BY <2>1, <1>7, <1>frame, <1>up DEF FindCompare, Goto
<1>8. ASSUME NEW t \in Threads, FindUnlock(t) PROVE AnswerOf(u)'
  <2>1. Keeps(u)
    BY <1>8, <1>type DEF FindUnlock, Goto, At, Answers
  <2> QED
    BY <2>1, <1>8, <1>frame, <1>up DEF FindUnlock, Goto
<1>9. ASSUME Exit \/ DestroyHead \/ DestroyMutex PROVE AnswerOf(u)'
  <2>1. pc'[u] = "Idle"
    BY <1>9 DEF Exit, DestroyHead, DestroyMutex, Inv, ShutdownIsQuiet, ShuttingDown
  <2> QED
    BY <2>1, <1>quiet DEF Answers
<1>10. CASE UNCHANGED vars
  BY <1>10, <1>type DEF vars, AnswerOf, Answers
<1>11. ASSUME NEW t \in Threads,
              \/ AllocationFails(t) \/ RegisterLockFails(t) \/ RegisterUnlock(t)
              \/ FindReturn(t) \/ MutexTerminates(t)
       PROVE  AnswerOf(u)'
  BY <1>3, <1>4, <1>11
  DEF AllocationFails, RegisterLockFails, RegisterUnlock, FindReturn, MutexTerminates
<1> QED
  BY <1>1, <1>2, <1>5, <1>6, <1>7, <1>8, <1>9, <1>10, <1>11
  DEF Next, Progress, Ended, CallRegister, CallFind

\* The application gets at most one new reference in a step, an answer.
LEMMA ObtainedStep ==
    ASSUME Inv, [Next]_vars
    PROVE  \/ obtained' = obtained
           \/ \E t \in Threads :
                /\ Answers(t) /\ ~ShuttingDown
                /\ local[t].logger \in Loggers
                /\ obtained' = obtained \cup {<<local[t].request, local[t].logger>>}
<1> DEFINE New(t) == /\ Answers(t) /\ ~ShuttingDown
                     /\ local[t].logger \in Loggers
                     /\ obtained' = obtained \cup {<<local[t].request, local[t].logger>>}
<1>1. ASSUME NEW t \in Threads, RegisterUnlock(t) \/ FindReturn(t)
      PROVE  obtained' = obtained \/ New(t)
  <2>1. CASE Terminate(t, "FindReturn", "lookup terminated")
    BY <2>1 DEF Terminate
  <2>2. CASE Return(t, local[t].logger) /\ ~ShuttingDown /\ Answers(t)
    BY <2>2 DEF Return
  <2> QED
    BY <1>1, <2>1, <2>2 DEF RegisterUnlock, FindReturn, At, ShuttingDown, Answers
<1>2. ASSUME NEW t \in Threads, AllocationFails(t) \/ RegisterLockFails(t)
      PROVE  obtained' = obtained
  BY <1>2, ErrorAssumption DEF AllocationFails, RegisterLockFails, Return
<1>3. ASSUME NEW t \in Threads, NEW step, NEW reason, Terminate(t, step, reason)
      PROVE  obtained' = obtained
  BY <1>3 DEF Terminate
<1>4. ASSUME NEW t \in Threads,
             \/ CheckThreshold(t) \/ AllocateId(t) \/ AllocateDescription(t) \/ AllocateLogger(t)
             \/ RegisterLock(t) \/ Link(t) \/ SetHead(t) \/ FindLock(t) \/ FindHead(t)
             \/ FindCompare(t) \/ FindMatch(t) \/ FindUnlock(t) \/ MutexTerminates(t)
      PROVE  obtained' = obtained
  BY <1>3, <1>4 DEF CheckThreshold, AllocateId, AllocateDescription, AllocateBuffer, AllocateLogger,
     RegisterLock, Link, SetHead, FindLock, FindHead, FindCompare, FindMatch, FindUnlock,
     MutexTerminates
<1>5. ASSUME NEW t \in Threads, NEW in \in Inputs, CallRegister(t, in) \/ CallFind(t, in)
      PROVE  obtained' = obtained
  BY <1>5 DEF CallRegister, CallFind, Call
<1>6. ASSUME Exit \/ DestroyHead \/ DestroyMutex \/ UNCHANGED vars PROVE obtained' = obtained
  BY <1>6 DEF Exit, DestroyHead, DestroyMutex, vars
<1> QED
  BY <1>1, <1>2, <1>4, <1>5, <1>6 DEF Next, Progress, Ended

\* A process that shuts down does not come up again.
LEMMA ShutdownIsFinal == Inv /\ [Next]_vars /\ ShuttingDown => ShuttingDown'
<1> SUFFICES ASSUME Inv, [Next]_vars, ShuttingDown PROVE ShuttingDown'
  OBVIOUS
<1>1. ASSUME NEW t \in Threads, NEW step PROVE ~At(t, step)
  BY DEF At, ShuttingDown
<1>2. ASSUME NEW t \in Threads
      PROVE  ~(Progress(t) \/ RegisterLockFails(t) \/ MutexTerminates(t))
  BY <1>1 DEF Progress, CheckThreshold, AllocateId, AllocateDescription, AllocateBuffer,
     AllocateLogger, AllocationFails, RegisterLock, RegisterLockFails, Link, SetHead,
     RegisterUnlock, FindLock, FindHead, FindCompare, FindMatch, FindUnlock, FindReturn,
     MutexTerminates, Goto, Terminate
<1>3. ASSUME NEW t \in Threads, NEW in \in Inputs
      PROVE  ~(CallRegister(t, in) \/ CallFind(t, in))
  BY DEF CallRegister, CallFind, Call, Up, ShuttingDown
<1>4. ASSUME Exit \/ DestroyHead \/ DestroyMutex \/ UNCHANGED vars PROVE ShuttingDown'
  BY <1>4 DEF Exit, DestroyHead, DestroyMutex, vars, Up, ShuttingDown
<1> QED
  BY <1>2, <1>3, <1>4 DEF Next, Ended

\* What the application has stays valid until shutdown.
LEMMA ReferencesStep ==
    Inv /\ AnswersAreListed /\ ReferencesAreValid /\ [Next]_vars => ReferencesAreValid'
<1> SUFFICES ASSUME Inv, AnswersAreListed, ReferencesAreValid, [Next]_vars, ~ShuttingDown',
                    NEW ref \in obtained'
             PROVE  contents'[ref[2]] = ref[1] /\ ref[2] \in Range(published')
  BY DEF ReferencesAreValid
<1>1. ~ShuttingDown
  BY ShutdownIsFinal
<1>2. contents[ref[2]] = ref[1] /\ ref[2] \in Range(published)
  <2>1. CASE ref \in obtained
    BY <1>1, <2>1 DEF ReferencesAreValid
  <2>2. CASE ref \notin obtained
    BY <2>2, ObtainedStep DEF AnswersAreListed, AnswerOf
  <2> QED
    BY <2>1, <2>2
<1> QED
  BY <1>1, <1>2, ListedStep

-----------------------------------------------------------------------------
(* Unique IDs *)

\* A step that publishes nothing, begins no registration and ends none that has
\* published.
LEMMA UniqueFrame ==
    ASSUME NEW id, RegisteredOnce(id), UNCHANGED published, obtained \subseteq obtained',
           \A l \in Range(published) : contents'[l] = contents[l],
           \A t \in Threads : pc'[t] \in RegisterSteps \/ pc[t] = "RegisterUnlock" =>
              /\ pc[t] \in RegisterSteps /\ local'[t].request = local[t].request
              /\ pc[t] = "RegisterUnlock" <=> pc'[t] = "RegisterUnlock"
    PROVE  RegisteredOnce(id)'
<1> USE DEF RegisterSteps
<1>1. \A t \in Threads : Registers(t, id)' => Registers(t, id)
  BY DEF Registers
<1>2. \A t \in Threads : Registers(t, id) /\ pc[t] = "RegisterUnlock" =>
                           Registers(t, id)' /\ pc'[t] = "RegisterUnlock"
  BY DEF Registers
<1>3. \A t \in Threads : Registers(t, id)' /\ pc[t] = "RegisterUnlock" => pc'[t] = "RegisterUnlock"
  BY DEF Registers
<1> QED
  BY <1>1, <1>2, <1>3 DEF RegisteredOnce

\* A call to Register begins only when its ID is free.
LEMMA CallRegisterKeepsIdsUnique ==
    ASSUME Inv, NEW id \in UniqueIds, RegisteredOnce(id),
           NEW t \in Threads, NEW in \in Inputs, CallRegister(t, in)
    PROVE  RegisteredOnce(id)'
<1>1. /\ pc[t] = "Idle" /\ pc' = [pc EXCEPT ![t] = "CheckThreshold"]
      /\ \A u \in Threads : u # t => local'[u] = local[u]
      /\ local'[t].request = in /\ UNCHANGED <<contents, published, obtained>>
      /\ pc \in [Threads -> RegisterSteps \cup FindSteps \cup {"Idle"}]
  BY DEF CallRegister, Call, NoCall, list, Inv, TypeOK
<1>2. CASE in.id # id
  <2>1. ~Registers(t, id) /\ ~Registers(t, id)'
    BY <1>1, <1>2 DEF Registers, RegisterSteps
  <2>2. \A u \in Threads : u # t => (Registers(u, id)' <=> Registers(u, id)) /\ pc'[u] = pc[u]
    BY <1>1 DEF Registers
  <2> QED
    BY <1>1, <2>1, <2>2 DEF RegisteredOnce
<1>3. CASE in.id = id
  <2>1. /\ \A ref \in obtained : ref[1].id # id
        /\ \A u \in Threads : ~Registers(u, id)
    BY <1>3 DEF CallRegister, IdIsFree, Registers
  <2>2. \A l \in Range(published) : contents[l].id # id
    BY <2>1 DEF RegisteredOnce
  <2>3. \A u \in Threads : u # t => ~Registers(u, id)'
    BY <1>1, <2>1 DEF Registers
  <2> QED
    BY <1>1, <2>2, <2>3 DEF RegisteredOnce
<1> QED
  BY <1>2, <1>3

\* A publication is the only one of its ID.
LEMMA SetHeadKeepsIdsUnique ==
    ASSUME Inv, NEW id \in UniqueIds, RegisteredOnce(id), NEW t \in Threads, SetHead(t)
    PROVE  RegisteredOnce(id)'
<1>1. /\ pc[t] = "SetHead" /\ pc' = [pc EXCEPT ![t] = "RegisterUnlock"]
      /\ UNCHANGED <<contents, local, obtained>>
      /\ local[t].logger \in Loggers /\ contents[local[t].logger] = local[t].request
      /\ pc \in [Threads -> RegisterSteps \cup FindSteps \cup {"Idle"}]
  BY DEF SetHead, Goto, At, Inv, TypeOK, OwnersAreExclusive, OwningSteps
<1>2. Range(published') = Range(published) \cup {local[t].logger}
  BY <1>1, RangeOfAppend, ListedLoggers DEF SetHead, Inv
<1>3. \A u \in Threads : Registers(u, id)' <=> Registers(u, id)
  BY <1>1 DEF Registers, RegisterSteps
<1>4. CASE Registers(t, id)
  <2>1. \A l \in Range(published) : contents[l].id # id
    BY <1>1, <1>4 DEF RegisteredOnce
  <2>2. Registers(t, id)' /\ pc'[t] = "RegisterUnlock" /\ \A u \in Threads : Registers(u, id)' => u = t
    BY <1>1, <1>3, <1>4 DEF RegisteredOnce
  <2> QED
    BY <1>1, <1>2, <2>1, <2>2 DEF RegisteredOnce
<1>5. CASE ~Registers(t, id)
  <2>1. contents[local[t].logger].id # id
    BY <1>1, <1>5 DEF Registers, RegisterSteps
  <2>2. \A u \in Threads : Registers(u, id) => pc'[u] = pc[u]
    BY <1>1, <1>5
  <2> QED
    BY <1>1, <1>2, <1>3, <2>1, <2>2 DEF RegisteredOnce
<1> QED
  BY <1>4, <1>5

\* The caller that gets the logger is the one who keeps the ID from then on.
LEMMA RegisterUnlockKeepsIdsUnique ==
    ASSUME Inv, AnswersAreListed, NEW id \in UniqueIds, RegisteredOnce(id),
           NEW t \in Threads, RegisterUnlock(t)
    PROVE  RegisteredOnce(id)'
<1>1. /\ pc[t] = "RegisterUnlock" /\ pc' = [pc EXCEPT ![t] = "Idle"]
      /\ \A u \in Threads : u # t => local'[u] = local[u]
      /\ UNCHANGED <<contents, published>>
      /\ pc \in [Threads -> RegisterSteps \cup FindSteps \cup {"Idle"}]
  BY DEF RegisterUnlock, At, Return, Inv, TypeOK
<1>2. local[t].logger \in Loggers
  BY <1>1, ListedLoggers DEF AnswersAreListed, AnswerOf, Answers, Inv
<1>3. obtained' = obtained \cup {<<local[t].request, local[t].logger>>}
  BY <1>2 DEF RegisterUnlock, Return
<1>4. ~Registers(t, id)'
  BY <1>1 DEF Registers, RegisterSteps
<1>5. \A u \in Threads : u # t => (Registers(u, id)' <=> Registers(u, id)) /\ pc'[u] = pc[u]
  BY <1>1 DEF Registers
<1>6. Registers(t, id) => \E ref \in obtained' : ref[1].id = id
  <2>1. <<local[t].request, local[t].logger>> \in obtained'
    BY <1>3
  <2>2. <<local[t].request, local[t].logger>>[1] = local[t].request
    OBVIOUS
  <2> QED
    BY <2>1, <2>2 DEF Registers
<1>7. \A u, v \in Threads : Registers(u, id)' /\ Registers(v, id)' => u = v
  BY <1>4, <1>5 DEF RegisteredOnce
<1>8. ASSUME NEW l \in Range(published), contents[l].id = id
      PROVE  /\ \/ \E u \in Threads : Registers(u, id)' /\ pc'[u] = "RegisterUnlock"
                \/ \E ref \in obtained' : ref[1].id = id
             /\ \A u \in Threads : Registers(u, id)' => pc'[u] = "RegisterUnlock"
             /\ \A m \in Range(published) : contents[m].id = id => m = l
  BY <1>3, <1>4, <1>5, <1>6, <1>8 DEF RegisteredOnce
<1> QED
  BY <1>1, <1>7, <1>8 DEF RegisteredOnce

\* Unique IDs stay unique, whatever callers do with others.
LEMMA UniqueStep ==
    Inv /\ AnswersAreListed /\ UniqueIdsAreRegisteredOnce /\ [Next]_vars
        => UniqueIdsAreRegisteredOnce'
<1> SUFFICES ASSUME Inv, AnswersAreListed, UniqueIdsAreRegisteredOnce, [Next]_vars,
                    NEW id \in UniqueIds
             PROVE  RegisteredOnce(id)'
  BY DEF UniqueIdsAreRegisteredOnce
<1> DEFINE Keeps == \A t \in Threads : pc'[t] \in RegisterSteps \/ pc[t] = "RegisterUnlock" =>
                      /\ pc[t] \in RegisterSteps /\ local'[t].request = local[t].request
                      /\ pc[t] = "RegisterUnlock" <=> pc'[t] = "RegisterUnlock"
<1> USE DEF list
<1>type. /\ pc \in [Threads -> RegisterSteps \cup FindSteps \cup {"Idle"}]
         /\ local \in [Threads -> Locals] /\ RegisteredOnce(id)
  BY DEF Inv, TypeOK, UniqueIdsAreRegisteredOnce
<1>frame. ASSUME Keeps, UNCHANGED published, ~ShuttingDown PROVE RegisteredOnce(id)'
  BY <1>frame, <1>type, ListedStep, ObtainedStep, UniqueFrame
<1>up. ASSUME NEW t \in Threads, NEW step, At(t, step) PROVE ~ShuttingDown
  BY <1>up DEF At, ShuttingDown
<1>1. ASSUME NEW t \in Threads, NEW in \in Inputs, CallFind(t, in) PROVE RegisteredOnce(id)'
  <2>1. ~ShuttingDown /\ UNCHANGED published
    BY <1>1 DEF CallFind, Call, Up, ShuttingDown
  <2>2. Keeps
    BY <1>1, <1>type DEF CallFind, Call, NoCall, RegisterSteps
  <2> QED
    BY <2>1, <2>2, <1>frame
<1>2. ASSUME NEW t \in Threads,
             \/ CheckThreshold(t) \/ AllocateId(t) \/ AllocateDescription(t) \/ AllocateLogger(t)
             \/ RegisterLock(t) \/ Link(t)
      PROVE  RegisteredOnce(id)'
  <2>1. ~ShuttingDown /\ UNCHANGED published
    BY <1>2, <1>up DEF CheckThreshold, AllocateId, AllocateDescription, AllocateBuffer,
       AllocateLogger, RegisterLock, Link, Goto, Terminate
  <2>2. \A u \in Threads : local'[u].request = local[u].request
    <3>1. CASE CheckThreshold(t) \/ RegisterLock(t) \/ Link(t)
      BY <3>1 DEF CheckThreshold, RegisterLock, Link, Terminate
    <3>2. CASE AllocateId(t) \/ AllocateDescription(t)
      BY <3>2, <1>type DEF AllocateId, AllocateDescription, AllocateBuffer, Locals
    <3>3. CASE AllocateLogger(t)
      BY <3>3, <1>type DEF AllocateLogger, Locals
    <3> QED
      BY <1>2, <3>1, <3>2, <3>3
  <2>3. \/ UNCHANGED pc
        \/ /\ pc[t] \in RegisterSteps \ {"RegisterUnlock"}
           /\ \E to \in RegisterSteps \ {"RegisterUnlock"} : pc' = [pc EXCEPT ![t] = to]
    BY <1>2 DEF CheckThreshold, AllocateId, AllocateDescription, AllocateBuffer,
       AllocateLogger, RegisterLock, Link, Goto, At, Terminate, RegisterSteps
  <2>4. Keeps
    BY <2>2, <2>3, <1>type DEF RegisterSteps
  <2> QED
    BY <2>1, <2>4, <1>frame
<1>3. ASSUME NEW t \in Threads, NEW step \in {"FindLock", "FindHead", "FindCompare", "FindMatch", "FindUnlock"},
             NEW to \in FindSteps, Goto(t, step, to), UNCHANGED published,
             \A u \in Threads : u # t => local'[u] = local[u]
      PROVE  RegisteredOnce(id)'
  <2>1. Keeps
    BY <1>3, <1>type DEF Goto, At, RegisterSteps, FindSteps
  <2> QED
    BY <2>1, <1>3, <1>frame, <1>up DEF Goto
<1>4. ASSUME NEW t \in Threads, FindLock(t) \/ FindHead(t) \/ FindCompare(t) \/ FindMatch(t) \/ FindUnlock(t)
      PROVE  RegisteredOnce(id)'
  <2>1. /\ UNCHANGED published
        /\ \A u \in Threads : u # t => local'[u] = local[u]
    BY <1>4, <1>type DEF FindLock, FindHead, FindCompare, FindMatch, FindUnlock
  <2> QED
    BY <1>3, <1>4, <2>1 DEF FindLock, FindHead, FindCompare, FindMatch, FindUnlock, FindSteps
<1>5. ASSUME NEW t \in Threads, NEW step \in RegisterSteps \cup FindSteps, step # "RegisterUnlock",
             NEW value, At(t, step), Return(t, value), UNCHANGED published
      PROVE  RegisteredOnce(id)'
  <2>1. Keeps
    BY <1>5, <1>type DEF At, Return, RegisterSteps
  <2> QED
    BY <2>1, <1>5, <1>frame, <1>up
<1>6. ASSUME NEW t \in Threads, NEW step, NEW reason, Terminate(t, step, reason)
      PROVE  RegisteredOnce(id)'
  <2>1. Keeps
    BY <1>6 DEF Terminate, RegisterSteps
  <2> QED
    BY <2>1, <1>6, <1>frame, <1>up DEF Terminate
<1>7. ASSUME NEW t \in Threads,
             AllocationFails(t) \/ RegisterLockFails(t) \/ FindReturn(t) \/ MutexTerminates(t)
      PROVE  RegisteredOnce(id)'
  BY <1>5, <1>6, <1>7
  DEF AllocationFails, RegisterLockFails, FindReturn, MutexTerminates, RegisterSteps, FindSteps
<1>8. ASSUME DestroyHead PROVE RegisteredOnce(id)'
  <2>1. \A t \in Threads : ~Registers(t, id) /\ ~Registers(t, id)'
    BY <1>8 DEF DestroyHead, Registers, RegisterSteps, Inv, ShutdownIsQuiet, ShuttingDown
  <2>2. published # <<>> /\ head = published[Len(published)]
    BY <1>8 DEF DestroyHead, Inv, ListShape
  <2>3. published' = SubSeq(published, 1, Len(published) - 1) /\ published \in Seq(Loggers)
    BY <1>8 DEF DestroyHead, Inv, TypeOK
  <2>4. /\ Range(published') \subseteq Range(published)
        /\ head \notin Range(published')
    <3>1. /\ DOMAIN published = 1..Len(published) /\ Len(published) \in Nat /\ Len(published) # 0
          /\ DOMAIN published' = 1..(Len(published) - 1)
          /\ \A i \in 1..(Len(published) - 1) : published'[i] = published[i]
      BY <2>2, <2>3
    <3>2. \A i \in 1..(Len(published) - 1) : published[i] # published[Len(published)]
      BY <3>1 DEF Inv, ListShape
    <3> QED
      BY <2>2, <2>3, <3>1, <3>2, RangeOfFront DEF Range
  <2>5. \A l \in Range(published') : contents'[l] = contents[l]
    BY <1>8, <2>4, ListedLoggers DEF DestroyHead, Inv, TypeOK
  <2>6. obtained' = obtained
    BY <1>8 DEF DestroyHead
  <2> QED
    BY <1>type, <2>1, <2>4, <2>5, <2>6 DEF RegisteredOnce
<1>9. ASSUME Exit \/ DestroyMutex \/ UNCHANGED vars PROVE RegisteredOnce(id)'
  <2>1. UNCHANGED <<contents, published, pc, local, obtained>>
    BY <1>9 DEF Exit, DestroyMutex, vars
  <2> QED
    BY <2>1, <1>type DEF RegisteredOnce, Registers
<1> QED
  BY <1>type, <1>1, <1>2, <1>4, <1>7, <1>8, <1>9, CallRegisterKeepsIdsUnique,
     SetHeadKeepsIdsUnique, RegisterUnlockKeepsIdsUnique
  DEF Next, Progress, Ended

\* A lookup goes on having something to find, and finds it.
LEMMA PriorFrame ==
    ASSUME \A l \in Range(published) : contents'[l] = contents[l] /\ l \in Range(published'),
           NEW t \in Threads, PriorOf(t),
           pc'[t] \in FindSteps /\ local'[t].prior =>
              pc[t] \in FindSteps /\ local[t].prior /\ local'[t].request = local[t].request
    PROVE  PriorOf(t)'
BY DEF PriorOf, FindSteps

LEMMA PriorStep ==
    Inv /\ ReferencesAreValid /\ PriorIsListed /\ [Next]_vars => PriorIsListed'
<1> SUFFICES ASSUME Inv, ReferencesAreValid, PriorIsListed, [Next]_vars, NEW u \in Threads
             PROVE  PriorOf(u)'
  BY DEF PriorIsListed
<1> DEFINE Keeps(t) == pc'[t] \in FindSteps /\ local'[t].prior =>
                pc[t] \in FindSteps /\ local[t].prior /\ local'[t].request = local[t].request
<1> USE DEF list
<1>type. /\ pc \in [Threads -> RegisterSteps \cup FindSteps \cup {"Idle"}]
         /\ local \in [Threads -> Locals] /\ PriorOf(u)
  BY DEF Inv, TypeOK, PriorIsListed
<1>frame. ASSUME Keeps(u), ~ShuttingDown PROVE PriorOf(u)'
  BY <1>frame, <1>type, ListedStep, PriorFrame
<1>up. ASSUME NEW t \in Threads, NEW step, At(t, step) PROVE ~ShuttingDown
  BY <1>up DEF At, ShuttingDown
<1>1. ASSUME NEW t \in Threads, NEW in \in Inputs, CallRegister(t, in) PROVE PriorOf(u)'
  <2>1. ~ShuttingDown /\ Keeps(u)
    BY <1>1, <1>type DEF CallRegister, Call, NoCall, Up, ShuttingDown, FindSteps
  <2> QED
    BY <2>1, <1>frame
<1>2. ASSUME NEW t \in Threads, NEW in \in Inputs, CallFind(t, in) PROVE PriorOf(u)'
  <2> DEFINE known == \E l \in Loggers : <<in, l>> \in obtained
  <2>1. ~ShuttingDown /\ UNCHANGED <<contents, published>>
    BY <1>2 DEF CallFind, Call, Up, ShuttingDown
  <2>2. \A l \in Loggers : <<in, l>> \in obtained => l \in Range(published) /\ contents[l] = in
    BY <2>1 DEF ReferencesAreValid
  <2>3. u = t => local'[u].request = in /\ (local'[u].prior => known)
    BY <1>2, <1>type DEF CallFind, Call, NoCall
  <2>4. u # t => Keeps(u)
    BY <1>2, <1>type DEF CallFind, Call
  <2> QED
    BY <2>1, <2>2, <2>3, <2>4, <1>frame DEF PriorOf
<1>3. ASSUME NEW t \in Threads,
             \/ CheckThreshold(t) \/ AllocateId(t) \/ AllocateDescription(t) \/ AllocateLogger(t)
             \/ RegisterLock(t) \/ Link(t) \/ SetHead(t)
      PROVE  PriorOf(u)'
  <2>1. ~ShuttingDown
    BY <1>3, <1>up DEF CheckThreshold, AllocateId, AllocateDescription, AllocateBuffer,
       AllocateLogger, RegisterLock, Link, SetHead, Goto, Terminate
  <2>2. u # t => local'[u] = local[u]
    BY <1>3, <1>type DEF CheckThreshold, AllocateId, AllocateDescription, AllocateBuffer,
       AllocateLogger, RegisterLock, Link, SetHead, Terminate
  <2>3. \/ UNCHANGED <<pc, local>>
        \/ \E to \in RegisterSteps : pc' = [pc EXCEPT ![t] = to]
    BY <1>3 DEF CheckThreshold, AllocateId, AllocateDescription, AllocateBuffer,
       AllocateLogger, RegisterLock, Link, SetHead, Goto, Terminate, RegisterSteps
  <2>4. Keeps(u)
    BY <2>2, <2>3, <1>type DEF RegisterSteps, FindSteps
  <2> QED
    BY <2>1, <2>4, <1>frame
<1>4. ASSUME NEW t \in Threads, FindLock(t) \/ FindHead(t) \/ FindCompare(t) \/ FindMatch(t) \/ FindUnlock(t)
      PROVE  PriorOf(u)'
  <2>1. ~ShuttingDown
    BY <1>4, <1>up DEF FindLock, FindHead, FindCompare, FindMatch, FindUnlock, Goto
  <2>2. /\ local'[u].request = local[u].request /\ local'[u].prior = local[u].prior
    <3>1. CASE FindLock(t) \/ FindUnlock(t)
      BY <3>1 DEF FindLock, FindUnlock
    <3>2. CASE FindHead(t) \/ FindMatch(t)
      BY <3>2, <1>type DEF FindHead, FindMatch, Locals
    <3>3. CASE FindCompare(t)
      BY <3>3, <1>type DEF FindCompare, Locals
    <3> QED
      BY <1>4, <3>1, <3>2, <3>3
  <2>3. pc[t] \in FindSteps /\ \E to \in FindSteps : pc' = [pc EXCEPT ![t] = to]
    BY <1>4 DEF FindLock, FindHead, FindCompare, FindMatch, FindUnlock, Goto, At, FindSteps
  <2>4. Keeps(u)
    BY <2>2, <2>3, <1>type
  <2> QED
    BY <2>1, <2>4, <1>frame
<1>5. ASSUME NEW t \in Threads, NEW step, NEW value, At(t, step), Return(t, value)
      PROVE  PriorOf(u)'
  <2>1. Keeps(u)
    BY <1>5, <1>type DEF Return, NoCall, FindSteps
  <2> QED
    BY <2>1, <1>5, <1>frame, <1>up
<1>6. ASSUME NEW t \in Threads, NEW step, NEW reason, Terminate(t, step, reason)
      PROVE  PriorOf(u)'
  BY <1>6, <1>frame, <1>up DEF Terminate
<1>7. ASSUME NEW t \in Threads,
             \/ AllocationFails(t) \/ RegisterLockFails(t) \/ RegisterUnlock(t)
             \/ FindReturn(t) \/ MutexTerminates(t)
      PROVE  PriorOf(u)'
  BY <1>5, <1>6, <1>7
  DEF AllocationFails, RegisterLockFails, RegisterUnlock, FindReturn, MutexTerminates
<1>8. ASSUME Exit \/ DestroyHead \/ DestroyMutex PROVE PriorOf(u)'
  <2>1. pc'[u] = "Idle"
    BY <1>8 DEF Exit, DestroyHead, DestroyMutex, Inv, ShutdownIsQuiet, ShuttingDown
  <2> QED
    BY <2>1 DEF PriorOf, FindSteps
<1>9. CASE UNCHANGED vars
  BY <1>9, <1>type DEF vars, PriorOf
<1> QED
  BY <1>1, <1>2, <1>3, <1>4, <1>7, <1>8, <1>9 DEF Next, Progress, Ended

\* The comparison of a lookup that has something to find under a unique ID
\* succeeds: the logger it stopped at is the only one with that ID.
LEMMA FindMatchSucceeds ==
    ASSUME Inv, TraversalIsExact, PriorIsListed, UniqueIdsAreRegisteredOnce,
           NEW t \in Threads, pc[t] = "FindMatch", local[t].prior, local[t].request.id \in UniqueIds
    PROVE  local[t].logger # Null /\ contents[local[t].logger] = local[t].request
<1>1. PICK l \in Range(published) : contents[l] = local[t].request
  BY DEF PriorIsListed, PriorOf, FindSteps
<1>2. PICK i \in DOMAIN published : published[i] = l
  BY <1>1, ListedLoggers DEF Inv
<1>3. PICK j \in 0..Len(published) :
        SkippedTo(t, j) /\ (j # 0 => contents[published[j]].id = local[t].request.id)
  BY DEF TraversalIsExact, TraversalOf
<1>4. /\ DOMAIN published = 1..Len(published) /\ Len(published) \in Nat
      /\ Range(published) \subseteq Loggers
  BY ListedLoggers DEF Inv
<1>5. ~(i > j)
  BY <1>1, <1>2, <1>3 DEF SkippedTo
<1>6. j # 0 /\ j \in DOMAIN published
  BY <1>2, <1>4, <1>5
<1>7. local[t].logger = published[j] /\ published[j] \in Range(published)
  BY <1>3, <1>6 DEF SkippedTo, Entry, Range
<1>8. published[j] = l
  BY <1>1, <1>3, <1>6, <1>7 DEF UniqueIdsAreRegisteredOnce, RegisteredOnce
<1> QED
  BY <1>1, <1>4, <1>7, <1>8, NullAssumption

\* So such a lookup never terminates the process.
LEMMA LookupStep ==
    Inv /\ TraversalIsExact /\ PriorIsListed /\ UniqueIdsAreRegisteredOnce
        /\ LookupNeverRefusesARegisteredContext /\ [Next]_vars
            => LookupNeverRefusesARegisteredContext'
<1> SUFFICES ASSUME Inv, TraversalIsExact, PriorIsListed, UniqueIdsAreRegisteredOnce,
                    LookupNeverRefusesARegisteredContext, [Next]_vars, NEW u \in Threads,
                    pc'[u] \in {"FindUnlock", "FindReturn"} /\ local'[u].prior
                       /\ local'[u].request.id \in UniqueIds
             PROVE  local'[u].matches
  BY DEF LookupNeverRefusesARegisteredContext
<1> USE DEF list
<1>type. /\ pc \in [Threads -> RegisterSteps \cup FindSteps \cup {"Idle"}]
         /\ local \in [Threads -> Locals]
  BY DEF Inv, TypeOK
<1>frame. ASSUME pc[u] \in {"FindUnlock", "FindReturn"}, local'[u] = local[u] PROVE local'[u].matches
  BY <1>frame DEF LookupNeverRefusesARegisteredContext
<1>1. ASSUME NEW t \in Threads, NEW in \in Inputs, NEW known \in BOOLEAN,
             NEW step \in {"CheckThreshold", "FindLock"}, Call(t, in, step, known)
      PROVE  local'[u].matches
  BY <1>1, <1>frame, <1>type DEF Call
<1>2. ASSUME NEW t \in Threads,
             \/ CheckThreshold(t) \/ AllocateId(t) \/ AllocateDescription(t) \/ AllocateLogger(t)
             \/ RegisterLock(t) \/ Link(t) \/ SetHead(t) \/ FindLock(t) \/ FindHead(t) \/ FindCompare(t)
      PROVE  local'[u].matches
  <2>1. u # t => local'[u] = local[u]
    BY <1>2, <1>type DEF CheckThreshold, AllocateId, AllocateDescription, AllocateBuffer,
       AllocateLogger, RegisterLock, Link, SetHead, FindLock, FindHead, FindCompare, Terminate
  <2>2. \/ UNCHANGED <<pc, local>>
        \/ \E to \in (RegisterSteps \cup FindSteps) \ {"FindUnlock", "FindReturn"} :
             pc' = [pc EXCEPT ![t] = to]
    BY <1>2 DEF CheckThreshold, AllocateId, AllocateDescription, AllocateBuffer, AllocateLogger,
       RegisterLock, Link, SetHead, FindLock, FindHead, FindCompare, Goto, Terminate,
       RegisterSteps, FindSteps
  <2> QED
    BY <2>1, <2>2, <1>frame, <1>type
<1>3. ASSUME NEW t \in Threads, FindMatch(t) PROVE local'[u].matches
  <2>1. CASE u = t
    <3>1. /\ pc[t] = "FindMatch"
          /\ local'[t].prior = local[t].prior /\ local'[t].request = local[t].request
          /\ local'[t].matches =
               (local[t].logger # Null /\ contents[local[t].logger] = local[t].request)
      BY <1>3, <1>type DEF FindMatch, Goto, At, Locals
    <3>2. local[t].logger # Null /\ contents[local[t].logger] = local[t].request
      BY <2>1, <3>1, FindMatchSucceeds
    <3> QED
      BY <2>1, <3>1, <3>2
  <2>2. CASE u # t
    BY <1>3, <2>2, <1>type, <1>frame DEF FindMatch, Goto
  <2> QED
    BY <2>1, <2>2
<1>4. ASSUME NEW t \in Threads, FindUnlock(t) PROVE local'[u].matches
  BY <1>4, <1>type, <1>frame DEF FindUnlock, Goto, At
<1>5. ASSUME NEW t \in Threads, NEW value, Return(t, value) PROVE local'[u].matches
  BY <1>5, <1>type, <1>frame DEF Return
<1>6. ASSUME NEW t \in Threads, NEW step, NEW reason, Terminate(t, step, reason)
      PROVE  local'[u].matches
  BY <1>6, <1>frame DEF Terminate
<1>7. ASSUME Exit \/ DestroyHead \/ DestroyMutex \/ UNCHANGED vars PROVE local'[u].matches
  BY <1>7, <1>frame DEF Exit, DestroyHead, DestroyMutex, vars
<1>8. ASSUME NEW t \in Threads,
             \/ AllocationFails(t) \/ RegisterLockFails(t) \/ RegisterUnlock(t)
             \/ FindReturn(t) \/ MutexTerminates(t)
      PROVE  local'[u].matches
  BY <1>5, <1>6, <1>8
  DEF AllocationFails, RegisterLockFails, RegisterUnlock, FindReturn, MutexTerminates
<1> QED
  BY <1>1, <1>2, <1>3, <1>4, <1>7, <1>8 DEF Next, Progress, Ended, CallRegister, CallFind

-----------------------------------------------------------------------------
(* Theorems *)

\* The process starts with nothing.
LEMMA InitOwnership == Init => OwnershipInv
<1> SUFFICES ASSUME Init PROVE OwnershipInv
  OBVIOUS
<1>1. Inv
  BY InitInv
<1>2. /\ Range(published) = {} /\ obtained = {}
      /\ \A t \in Threads : pc[t] = "Idle" /\ local[t].buffers = {}
      /\ \A l \in Loggers : contents[l] = Null
      /\ published = <<>> /\ process = "fresh"
  BY DEF Init, Range, NoCall
<1>3. LiveLoggersAreOwned /\ BuffersAreOwned /\ NothingOutlivesTheProcess /\ ReferencesAreValid
  BY <1>2 DEF LiveLoggersAreOwned, BuffersAreOwned, NothingOutlivesTheProcess, ReferencesAreValid
<1>4. TraversalIsExact /\ AnswersAreListed /\ PriorIsListed /\ LookupNeverRefusesARegisteredContext
  BY <1>2 DEF TraversalIsExact, TraversalOf, AnswersAreListed, AnswerOf, Answers, PriorIsListed,
     PriorOf, FindSteps, LookupNeverRefusesARegisteredContext
<1>5. UniqueIdsAreRegisteredOnce
  BY <1>2 DEF UniqueIdsAreRegisteredOnce, RegisteredOnce, Registers, RegisterSteps
<1> QED
  BY <1>1, <1>3, <1>4, <1>5 DEF OwnershipInv

\* OwnershipInv is inductive.
LEMMA OwnershipStep == OwnershipInv /\ [Next]_vars => OwnershipInv'
BY InvStep, LiveStep, BuffersStep, LifeStep, TraversalStep, AnswersStep, ReferencesStep,
   UniqueStep, PriorStep, LookupStep
DEF OwnershipInv

\* OwnershipInv holds in every run.
LEMMA OwnershipHolds == Spec => []OwnershipInv
BY InitOwnership, OwnershipStep, PTL DEF Spec

\* Nothing leaks and nothing is freed twice, on every failure path: each live
\* logger is in the list or of exactly one Register, buffers belong to a
\* Register that allocates, and after the exit nothing is left.
THEOREM BlocksOwned == Spec => []EveryBlockIsOwned
<1>1. OwnershipInv => EveryBlockIsOwned
  <2> SUFFICES ASSUME OwnershipInv PROVE EveryBlockIsOwned
    OBVIOUS
  <2>1. /\ Inv /\ TypeOK /\ ListShape /\ OwnersAreExclusive /\ LiveLoggersAreOwned
        /\ BuffersAreOwned /\ NothingOutlivesTheProcess /\ ShutdownIsQuiet
        /\ contents \in [Loggers -> Inputs \cup {Null}]
    BY DEF OwnershipInv, Inv, TypeOK
  <2>2. /\ \A l \in Range(published) : l \in Loggers /\ contents[l] # Null
        /\ \A i \in DOMAIN published : published[i] \in Range(published)
        /\ \A l \in Range(published) : \E i \in DOMAIN published : published[i] = l
    BY <2>1, ListedLoggers DEF ListShape
  <2>3. \A t \in Threads : pc[t] \in OwningSteps =>
          /\ local[t].logger \in Loggers /\ contents[local[t].logger] # Null
          /\ local[t].logger \notin Range(published)
    <3>1. \A t \in Threads : pc[t] \in OwningSteps => local[t].request \in Inputs
      BY <2>1 DEF Inv, RequestsAreKept, OwningSteps
    <3> QED
      BY <2>1, <2>2, <3>1, NullAssumption DEF OwnersAreExclusive
  <2>4. {l \in Loggers : contents[l] # Null} = Range(published) \cup Unpublished
    BY <2>1, <2>2, <2>3 DEF LiveLoggersAreOwned, Unpublished
  <2>5. process = "exited" => \A l \in Loggers : contents[l] = Null
    <3>1. ASSUME process = "exited" PROVE Range(published) = {} /\ Unpublished = {}
      BY <2>1, <3>1 DEF NothingOutlivesTheProcess, Range, Unpublished, ShutdownIsQuiet,
         ShuttingDown, OwningSteps
    <3> QED
      BY <2>4, <3>1
  <2>6. \A t, u \in Threads :
          pc[t] \in OwningSteps /\ pc[u] \in OwningSteps /\ local[u].logger = local[t].logger => u = t
    BY <2>1 DEF OwnersAreExclusive
  <2> QED
    BY <2>1, <2>3, <2>4, <2>5, <2>6 DEF EveryBlockIsOwned, BuffersAreOwned
<1> QED
  BY <1>1, OwnershipHolds, PTL

\* Until shutdown, what TryCreateLogger and CreateLogger return denotes a live
\* logger in the list with the caller's inputs, for any number of callers.
THEOREM ReferencesValid == Spec => []ReferencesAreValid
<1>1. OwnershipInv => ReferencesAreValid
  BY DEF OwnershipInv
<1> QED
  BY <1>1, OwnershipHolds, PTL

\* CreateLogger of a context whose registration has returned never terminates
\* the process if its ID is kept unique, whatever happens to other IDs.
THEOREM RegisteredContextsAreFound == Spec => []LookupNeverRefusesARegisteredContext
<1>1. OwnershipInv => LookupNeverRefusesARegisteredContext
  BY DEF OwnershipInv
<1> QED
  BY <1>1, OwnershipHolds, PTL

\* No step changes, relinks, moves or frees a logger of the list before shutdown.
THEOREM ListedNeverChanges == Spec => PublishedIsImmutable
<1>1. Inv /\ [Next]_vars =>
        [\A l \in Range(published) :
           ~ShuttingDown => /\ contents'[l] = contents[l]
                            /\ next'[l] = next[l]
                            /\ l \in Range(published')]_vars
  BY ListedStep
<1> QED
  BY <1>1, Invariance, PTL DEF Spec, PublishedIsImmutable

-----------------------------------------------------------------------------
(* Refinement: every call of the registry takes effect at one instant.       *)

\* What the contract sees of a step is what it sees of the thread that moves.
LEMMA OneThreadMoves ==
    ASSUME NEW t \in Threads, \A u \in Threads : u # t => pc'[u] = pc[u] /\ local'[u] = local[u]
    PROVE  /\ Phases' = [Phases EXCEPT ![t] = PhaseOf(t)']
           /\ Ops' = [Ops EXCEPT ![t] = OpOf(t)']
           /\ Requests' = [Requests EXCEPT ![t] = local'[t].request]
           /\ Results' = [Results EXCEPT ![t] = ResultOf(t)']
<1>1. ASSUME NEW u \in Threads, u # t
      PROVE  PhaseOf(u)' = PhaseOf(u) /\ OpOf(u)' = OpOf(u) /\ ResultOf(u)' = ResultOf(u)
  BY <1>1 DEF PhaseOf, OpOf, ResultOf, Effective
<1> QED
  BY <1>1 DEF Phases, Ops, Requests, Results

\* The contexts of the contract are those of the list.
LEMMA SameContexts ==
    ASSUME Inv, UNCHANGED published, \A l \in Range(published) : contents'[l] = contents[l]
    PROVE  Registered' = Registered
<1>1. \A i \in DOMAIN published : contents'[published[i]] = contents[published[i]]
  BY DEF Range
<1> QED
  BY <1>1 DEF Registered, Context

\* A step of a thread that the contract does not see.
LEMMA Stutters ==
    ASSUME Inv, [Next]_vars, UNCHANGED <<process, published>>, ~ShuttingDown,
           NEW t \in Threads, \A u \in Threads : u # t => pc'[u] = pc[u] /\ local'[u] = local[u],
           PhaseOf(t)' = PhaseOf(t), OpOf(t)' = OpOf(t), ResultOf(t)' = ResultOf(t),
           local'[t].request = local[t].request
    PROVE  UNCHANGED Registry!vars
<1>1. Registered' = Registered
  BY SameContexts, ListedStep
<1>2. Status' = Status
  BY DEF Status, Up
<1>3. UNCHANGED <<Phases, Ops, Requests, Results>>
  BY OneThreadMoves DEF Phases, Ops, Requests, Results
<1> QED
  BY <1>1, <1>2, <1>3 DEF Registry!vars

\* std::terminate in a call aborts the contract too.
LEMMA TerminateAborts ==
    ASSUME Inv, NEW t \in Threads, NEW step \in RegisterSteps \cup FindSteps, NEW reason \in Terminated,
           Terminate(t, step, reason)
    PROVE  Registry!Abort
<1>1. process = "running" /\ pc[t] = step /\ process' \in Terminated
      /\ UNCHANGED <<contents, published, pc, local>>
  BY DEF Terminate, At, list
<1>2. Status = "up" /\ Status' = "aborted"
  BY <1>1 DEF Status, Up, Terminated
<1>3. Phases[t] # "idle"
  BY <1>1 DEF Phases, PhaseOf, RegisterSteps, FindSteps
<1>4. UNCHANGED <<Registered, Phases, Ops, Requests, Results>>
  BY <1>1 DEF Registered, Context, Phases, PhaseOf, Ops, OpOf, Requests, Results, ResultOf, Effective
<1> QED
  BY <1>2, <1>3, <1>4 DEF Registry!Abort

\* A call begins.
LEMMA CallInvokes ==
    ASSUME Inv, [Next]_vars, NEW t \in Threads, NEW in \in Inputs, NEW known \in BOOLEAN,
           NEW step \in {"CheckThreshold", "FindLock"}, Call(t, in, step, known)
    PROVE  Registry!Invoke(t, IF step = "FindLock" THEN "Find" ELSE "Register", in)
<1>1. /\ Up /\ process' = "running" /\ pc[t] = "Idle" /\ pc' = [pc EXCEPT ![t] = step]
      /\ local'[t].request = in /\ local'[t].result = Null
      /\ \A u \in Threads : u # t => local'[u] = local[u]
      /\ UNCHANGED <<contents, published>>
      /\ pc \in [Threads -> RegisterSteps \cup FindSteps \cup {"Idle"}]
  BY DEF Call, NoCall, list, Inv, TypeOK
<1>2. Status = "up" /\ Status' = "up"
  BY <1>1 DEF Status, Up
<1>3. Phases[t] = "idle"
  BY <1>1 DEF Phases, PhaseOf
<1>4. /\ PhaseOf(t)' = "pending" /\ ResultOf(t)' = Null
      /\ OpOf(t)' = IF step = "FindLock" THEN "Find" ELSE "Register"
  BY <1>1 DEF PhaseOf, OpOf, ResultOf, Effective, RegisterSteps
<1>5. Registered' = Registered
  BY <1>1 DEF Registered, Context
<1>6. \A u \in Threads : u # t => pc'[u] = pc[u] /\ local'[u] = local[u]
  BY <1>1
<1> QED
  BY <1>1, <1>2, <1>3, <1>4, <1>5, <1>6, OneThreadMoves DEF Registry!Invoke

\* What a return looks like to the contract.
LEMMA ReturnFinishes ==
    ASSUME Inv, [Next]_vars, NEW t \in Threads, NEW value, pc[t] # "Idle", process = "running",
           Return(t, value), UNCHANGED published
    PROVE  /\ Registry!Finish(t) /\ Results' = [Results EXCEPT ![t] = value]
           /\ Status = "up"
<1>1. /\ pc' = [pc EXCEPT ![t] = "Idle"] /\ UNCHANGED process
      /\ local'[t].request = Null /\ local'[t].result = value
      /\ \A u \in Threads : u # t => local'[u] = local[u]
      /\ pc \in [Threads -> RegisterSteps \cup FindSteps \cup {"Idle"}]
  BY DEF Return, NoCall, Inv, TypeOK
<1>2. Status = "up" /\ Status' = "up"
  BY <1>1 DEF Status, Up
<1>3. PhaseOf(t)' = "idle" /\ OpOf(t)' = Null /\ ResultOf(t)' = value
  BY <1>1 DEF PhaseOf, OpOf, ResultOf, Effective
<1>4. Registered' = Registered
  BY SameContexts, ListedStep DEF ShuttingDown
<1>5. \A u \in Threads : u # t => pc'[u] = pc[u] /\ local'[u] = local[u]
  BY <1>1
<1> QED
  BY <1>1, <1>2, <1>3, <1>4, <1>5, OneThreadMoves DEF Registry!Finish

\* A registration that fails registers nothing.
LEMMA FailureFails ==
    ASSUME Inv, [Next]_vars, NEW t \in Threads, AllocationFails(t) \/ RegisterLockFails(t)
    PROVE  Registry!FailRegister(t)
<1>1. /\ process = "running" /\ pc[t] \in RegisterSteps \ {"RegisterUnlock"}
      /\ Return(t, kOperationFailed) /\ UNCHANGED published
  BY DEF AllocationFails, RegisterLockFails, At, RegisterSteps, list
<1>2. Phases[t] = "pending" /\ Ops[t] = "Register"
  BY <1>1 DEF Phases, PhaseOf, Ops, OpOf, Effective, RegisterSteps
<1> QED
  BY <1>1, <1>2, ReturnFinishes DEF Registry!FailRegister, RegisterSteps, kOperationFailed

\* The store to head_ is the instant at which a registration takes effect.
LEMMA SetHeadRegisters ==
    ASSUME Inv, [Next]_vars, NEW t \in Threads, SetHead(t)
    PROVE  Registry!Register(t)
<1> DEFINE l == local[t].logger
<1>1. /\ process = "running" /\ process' = process
      /\ pc[t] = "SetHead" /\ pc' = [pc EXCEPT ![t] = "RegisterUnlock"]
      /\ published' = Append(published, l) /\ UNCHANGED <<contents, local>>
      /\ l \in Loggers /\ contents[l] = local[t].request
      /\ \A i \in DOMAIN published : published[i] # l
      /\ published \in Seq(Loggers)
      /\ pc \in [Threads -> RegisterSteps \cup FindSteps \cup {"Idle"}]
  BY DEF SetHead, Goto, At, Inv, TypeOK, OwnersAreExclusive, OwningSteps
<1>2. Status = "up" /\ Status' = "up"
  BY <1>1 DEF Status, Up
<1>3. Phases[t] = "pending" /\ Ops[t] = "Register" /\ Requests[t] = local[t].request
  BY <1>1 DEF Phases, PhaseOf, Ops, OpOf, Requests, Effective, RegisterSteps
<1>4. /\ PhaseOf(t)' = "done" /\ OpOf(t)' = Ops[t] /\ ResultOf(t)' = l
      /\ local'[t].request = Requests[t]
  BY <1>1, <1>3 DEF PhaseOf, OpOf, ResultOf, Effective, RegisterSteps
<1>5. \A i \in DOMAIN Registered : Registered[i].logger # l
  BY <1>1 DEF Registered, Context
<1>6. Registered' = Append(Registered, [inputs |-> Requests[t], logger |-> l])
  <2>1. /\ DOMAIN published = 1..Len(published) /\ Len(published) \in Nat
        /\ DOMAIN published' = 1..(Len(published) + 1)
        /\ \A i \in 1..Len(published) : published'[i] = published[i]
        /\ published'[Len(published) + 1] = l
    BY <1>1
  <2>2. Registered = [i \in 1..Len(published) |-> Context(published[i])]
    BY <2>1 DEF Registered
  <2>3. Registered' = [i \in 1..(Len(published) + 1) |-> Context(published'[i])]
    BY <1>1, <2>1 DEF Registered, Context
  <2>4. Context(l) = [inputs |-> Requests[t], logger |-> l]
    BY <1>1, <1>3 DEF Context
  <2> HIDE DEF l
  <2>5. Append(Registered, Context(l)) =
          [i \in 1..(Len(published) + 1) |->
             IF i = Len(published) + 1 THEN Context(l) ELSE Context(published[i])]
    BY <2>1, <2>2
  <2>6. \A i \in 1..(Len(published) + 1) : i = Len(published) + 1 \/ i \in 1..Len(published)
    BY <2>1
  <2> QED
    BY <2>1, <2>3, <2>4, <2>5, <2>6
<1>7. \A u \in Threads : u # t => pc'[u] = pc[u] /\ local'[u] = local[u]
  BY <1>1
<1>8. /\ Phases' = [Phases EXCEPT ![t] = "done"] /\ Results' = [Results EXCEPT ![t] = l]
      /\ UNCHANGED <<Ops, Requests>>
  BY <1>4, <1>7, OneThreadMoves DEF Ops, Requests
<1> QED
  BY <1>1, <1>2, <1>3, <1>5, <1>6, <1>8 DEF Registry!Register

\* A call that returns responds with its answer.
LEMMA ReturnResponds ==
    ASSUME Inv, AnswersAreListed, [Next]_vars, NEW t \in Threads, process = "running", Answers(t),
           Return(t, local[t].logger), UNCHANGED published
    PROVE  Registry!Respond(t)
<1>1. pc[t] # "Idle" /\ Effective(t) /\ ResultOf(t) = local[t].logger
  BY DEF Answers, Effective, ResultOf
<1>2. Phases[t] = "done" /\ Results[t] = local[t].logger
  BY <1>1 DEF Phases, PhaseOf, Results
<1>3. local[t].logger # Null
  BY ListedLoggers, NullAssumption DEF AnswersAreListed, AnswerOf, Inv
<1>4. /\ Registry!Finish(t) /\ Results' = [Results EXCEPT ![t] = local[t].logger]
      /\ Status = "up"
  BY <1>1, ReturnFinishes
<1>5. Results' = Results
  BY <1>2, <1>4 DEF Results
<1> QED
  BY <1>2, <1>3, <1>4, <1>5 DEF Registry!Respond

\* The position the traversal stops at is that of the newest context of its ID.
LEMMA TraversalFindsNewest ==
    ASSUME Inv, TraversalIsExact, NEW t \in Threads, pc[t] = "FindMatch"
    PROVE  LET j == Registry!Newest(local[t].request.id)
           IN  /\ local[t].logger = Entry(j)
               /\ j = 0 \/ j \in DOMAIN published
<1> DEFINE id == local[t].request.id
           places == {i \in DOMAIN Registered : Registered[i].inputs.id = id}
<1>1. PICK j \in 0..Len(published) :
        SkippedTo(t, j) /\ (j # 0 => contents[published[j]].id = id)
  BY DEF TraversalIsExact, TraversalOf
<1>2. DOMAIN published = 1..Len(published) /\ Len(published) \in Nat
  BY ListedLoggers DEF Inv
<1>3. places = {i \in DOMAIN published : contents[published[i]].id = id}
  BY DEF Registered, Context
<1>4. \A i \in places : i <= j
  BY <1>1, <1>2, <1>3 DEF SkippedTo
<1>5. CASE j = 0
  <2>1. places = {}
    BY <1>2, <1>3, <1>4, <1>5
  <2>2. Registry!Newest(id) = 0
    BY <2>1 DEF Registry!Newest
  <2> QED
    BY <1>1, <1>5, <2>2 DEF SkippedTo
<1>6. CASE j # 0
  <2>1. j \in places /\ j \in DOMAIN published
    BY <1>1, <1>2, <1>3, <1>6
  <2> HIDE DEF places
  <2>2. \A k \in places : (\A i \in places : i <= k) => k = j
    <3>1. \A k \in places : k \in Nat
      BY <1>2, <1>3
    <3> QED
      BY <1>4, <2>1, <3>1
  <2>3. (CHOOSE k \in places : \A i \in places : i <= k) = j
    BY <1>4, <2>1, <2>2
  <2>4. Registry!Newest(id) = IF places = {} THEN 0
                              ELSE CHOOSE k \in places : \A i \in places : i <= k
    BY DEF places, Registry!Newest
  <2> QED
    BY <1>1, <2>1, <2>3, <2>4 DEF SkippedTo
<1> QED
  BY <1>5, <1>6

\* The comparison is the instant at which a lookup takes effect.
LEMMA FindMatchFinds ==
    ASSUME Inv, TraversalIsExact, [Next]_vars, NEW t \in Threads, FindMatch(t)
    PROVE  Registry!Find(t)
<1> DEFINE l == local[t].logger
           j == Registry!Newest(Requests[t].id)
<1>1. /\ process = "running" /\ process' = process
      /\ pc[t] = "FindMatch" /\ pc' = [pc EXCEPT ![t] = "FindUnlock"]
      /\ local'[t].request = local[t].request /\ local'[t].logger = l
      /\ local'[t].matches = (l # Null /\ contents[l] = local[t].request)
      /\ \A u \in Threads : u # t => local'[u] = local[u]
      /\ UNCHANGED <<contents, published>>
      /\ pc \in [Threads -> RegisterSteps \cup FindSteps \cup {"Idle"}]
  BY DEF FindMatch, Goto, At, list, Inv, TypeOK, Locals
<1>2. Status = "up" /\ Status' = "up"
  BY <1>1 DEF Status, Up
<1>3. Phases[t] = "pending" /\ Ops[t] = "Find" /\ Requests[t] = local[t].request
  BY <1>1 DEF Phases, PhaseOf, Ops, OpOf, Requests, Effective, RegisterSteps
<1>4. /\ PhaseOf(t)' = "done" /\ OpOf(t)' = Ops[t]
      /\ ResultOf(t)' = IF l # Null /\ contents[l] = local[t].request THEN l ELSE Null
  BY <1>1, <1>3 DEF PhaseOf, OpOf, ResultOf, Effective, RegisterSteps
<1>5. l = Entry(j) /\ (j = 0 \/ j \in DOMAIN published)
  BY <1>1, <1>3, TraversalFindsNewest
<1>6. /\ l # Null <=> j # 0
      /\ j # 0 => Registered[j].inputs = contents[l] /\ Registered[j].logger = l
  <2>1. /\ DOMAIN published = 1..Len(published) /\ Len(published) \in Nat
        /\ \A i \in DOMAIN published : published[i] # Null
    BY ListedLoggers, NullAssumption DEF Inv, Range
  <2> HIDE DEF j
  <2> QED
    BY <1>5, <2>1 DEF Entry, Registered, Context
<1>7. ResultOf(t)' = IF j # 0 /\ Registered[j].inputs = Requests[t] THEN Registered[j].logger ELSE Null
  BY <1>3, <1>4, <1>6
<1>8. Registered' = Registered
  BY <1>1 DEF Registered, Context
<1>9. \A u \in Threads : u # t => pc'[u] = pc[u] /\ local'[u] = local[u]
  BY <1>1
<1>10. /\ Phases' = [Phases EXCEPT ![t] = "done"] /\ Results' = [Results EXCEPT ![t] = ResultOf(t)']
       /\ UNCHANGED <<Ops, Requests>>
  BY <1>1, <1>4, <1>9, OneThreadMoves DEF Ops, Requests
<1> QED
  BY <1>2, <1>3, <1>7, <1>8, <1>10 DEF Registry!Find

\* Shutdown exits, and then releases the contexts one by one.
LEMMA ShutdownReleases ==
    ASSUME Inv, Exit \/ DestroyHead \/ DestroyMutex
    PROVE  Registry!Exit \/ Registry!Release \/ Registry!Abort \/ UNCHANGED Registry!vars
<1>1. CASE Exit
  <2>1. Status = "up" /\ Status' = "down"
    BY <1>1 DEF Exit, Status, Up, Terminated
  <2>2. \A t \in Threads : Phases[t] = "idle"
    BY <1>1 DEF Exit, Phases, PhaseOf
  <2>3. UNCHANGED <<Registered, Phases, Ops, Requests, Results>>
    BY <1>1 DEF Exit, list, Registered, Context, Phases, PhaseOf, Ops, OpOf, Requests, Results,
       ResultOf, Effective
  <2> QED
    BY <2>1, <2>2, <2>3 DEF Registry!Exit
<1>2. CASE DestroyHead
  <2> DEFINE n == Len(published)
  <2>1. /\ published \in Seq(Loggers) /\ published # <<>> /\ n \in Nat /\ n # 0
        /\ DOMAIN published = 1..n /\ head = published[n]
        /\ \A i \in 1..n : published[i] \in Loggers
        /\ contents \in [Loggers -> Inputs \cup {Null}]
        /\ \A i, k \in 1..n : published[i] = published[k] => i = k
    BY <1>2 DEF DestroyHead, Inv, TypeOK, ListShape
  <2>2. /\ published' = SubSeq(published, 1, n - 1)
        /\ contents' = [contents EXCEPT ![head] = Null] /\ UNCHANGED <<process, pc, local>>
        /\ process = "exiting"
    BY <1>2 DEF DestroyHead
  <2>3. Status = "down" /\ Status' = "down"
    BY <2>2 DEF Status, Up, Terminated
  <2>4. UNCHANGED <<Phases, Ops, Requests, Results>>
    BY <2>2 DEF Phases, PhaseOf, Ops, OpOf, Requests, Results, ResultOf, Effective
  <2>5. DOMAIN published' = 1..(n - 1) /\ \A i \in 1..(n - 1) : published'[i] = published[i]
    BY <2>1, <2>2
  <2>6. Registered = [i \in 1..n |-> Context(published[i])]
    BY <2>1 DEF Registered
  <2>7. Registered' = [i \in 1..(n - 1) |-> Context(published[i])]
    <3> HIDE DEF n
    <3>1. \A i \in 1..(n - 1) : i \in 1..n /\ i # n /\ n \in 1..n
      BY <2>1
    <3>2. \A i \in 1..(n - 1) : published[i] # head
      BY <2>1, <3>1
    <3>3. \A i \in 1..(n - 1) : contents'[published[i]] = contents[published[i]]
      BY <2>1, <2>2, <3>1, <3>2
    <3> QED
      BY <2>5, <3>3 DEF Registered, Context
  <2> HIDE DEF n
  <2>8. Len(Registered) = n /\ Registered # <<>>
    BY <2>1, <2>6
  <2>9. SubSeq(Registered, 1, n - 1) = [i \in 1..(n - 1) |-> Context(published[i])]
    BY <2>1, <2>6
  <2> QED
    BY <2>3, <2>4, <2>7, <2>8, <2>9 DEF Registry!Release
<1>3. CASE DestroyMutex
  <2>1. Status = "down" /\ Status' \in {"down", "aborted"}
    BY <1>3 DEF DestroyMutex, Status, Up, Terminated
  <2>2. UNCHANGED <<Registered, Phases, Ops, Requests, Results>>
    BY <1>3 DEF DestroyMutex, list, Registered, Context, Phases, PhaseOf, Ops, OpOf, Requests,
       Results, ResultOf, Effective
  <2> QED
    BY <2>1, <2>2 DEF Registry!Abort, Registry!vars
<1> QED
  BY <1>1, <1>2, <1>3

\* The steps between those instants.
LEMMA ProgressStutters ==
    ASSUME Inv, [Next]_vars, NEW t \in Threads,
           \/ AllocateId(t) \/ AllocateDescription(t) \/ AllocateLogger(t) \/ RegisterLock(t)
           \/ Link(t) \/ FindLock(t) \/ FindHead(t) \/ FindCompare(t) \/ FindUnlock(t)
           \/ CheckThreshold(t) /\ UNCHANGED process
    PROVE  UNCHANGED Registry!vars
<1> USE DEF list
<1>type. /\ pc \in [Threads -> RegisterSteps \cup FindSteps \cup {"Idle"}]
         /\ local \in [Threads -> Locals]
  BY DEF Inv, TypeOK
<1>1. /\ process = "running" /\ UNCHANGED <<process, published>>
      /\ \A u \in Threads : u # t => pc'[u] = pc[u] /\ local'[u] = local[u]
  BY <1>type DEF CheckThreshold, AllocateId, AllocateDescription, AllocateBuffer, AllocateLogger,
     RegisterLock, Link, FindLock, FindHead, FindCompare, FindUnlock, Goto, At, Terminate, Terminated
<1>2. local'[t].request = local[t].request /\ local'[t].result = local[t].result
      /\ (pc[t] = "FindUnlock" => local' = local)
  <2>1. CASE UNCHANGED local
    BY <2>1
  <2>2. CASE AllocateId(t) \/ AllocateDescription(t)
    BY <2>2, <1>type DEF AllocateId, AllocateDescription, AllocateBuffer, Goto, At, Locals
  <2>3. CASE AllocateLogger(t)
    <3>1. PICK l \in Loggers :
            local' = [local EXCEPT ![t] = [local[t] EXCEPT !.logger = l, !.buffers = {}]]
      BY <2>3 DEF AllocateLogger
    <3>2. pc[t] # "FindUnlock"
      BY <2>3 DEF AllocateLogger, Goto, At
    <3> QED
      BY <3>1, <3>2, <1>type DEF Locals
  <2>4. CASE FindHead(t)
    BY <2>4, <1>type DEF FindHead, Goto, At, Locals
  <2>5. CASE FindCompare(t)
    BY <2>5, <1>type DEF FindCompare, Goto, At, Locals
  <2> QED
    BY <2>1, <2>2, <2>3, <2>4, <2>5
    DEF CheckThreshold, RegisterLock, Link, FindLock, FindUnlock, Terminate
<1>3. \/ /\ pc[t] \in RegisterSteps \ {"RegisterUnlock"}
         /\ \E to \in RegisterSteps \ {"RegisterUnlock"} : pc' = [pc EXCEPT ![t] = to]
      \/ /\ pc[t] \in FindSteps \ {"FindUnlock", "FindReturn"}
         /\ \E to \in FindSteps \ {"FindUnlock", "FindReturn"} : pc' = [pc EXCEPT ![t] = to]
      \/ pc[t] = "FindUnlock" /\ pc' = [pc EXCEPT ![t] = "FindReturn"]
  BY <1>1 DEF CheckThreshold, AllocateId, AllocateDescription, AllocateBuffer, AllocateLogger,
     RegisterLock, Link, FindLock, FindHead, FindCompare, FindUnlock, Goto, At, Terminate,
     Terminated, RegisterSteps, FindSteps
<1>4. PhaseOf(t)' = PhaseOf(t) /\ OpOf(t)' = OpOf(t)
  BY <1>type, <1>3 DEF PhaseOf, OpOf, Effective, RegisterSteps, FindSteps
<1>5. ResultOf(t)' = ResultOf(t)
  BY <1>type, <1>2, <1>3 DEF ResultOf, Effective, RegisterSteps, FindSteps
<1>6. ~ShuttingDown
  BY <1>1 DEF ShuttingDown
<1> QED
  BY <1>1, <1>2, <1>4, <1>5, <1>6, Stutters

-----------------------------------------------------------------------------
\* A process that has just started looks like an empty registry.
LEMMA StartsEmpty == Init => Registry!Init
<1> SUFFICES ASSUME Init PROVE Registry!Init
  OBVIOUS
<1>1. Status = "up"
  BY DEF Init, Status, Up
<1>2. Registered = <<>>
  <2>1. DOMAIN published = {}
    BY DEF Init
  <2>2. Registered = [i \in {} |-> Context(published[i])]
    BY <2>1 DEF Registered
  <2> QED
    BY <2>2
<1>3. \A t \in Threads : /\ PhaseOf(t) = "idle" /\ OpOf(t) = Null /\ ResultOf(t) = Null
                          /\ local[t].request = Null
  BY DEF Init, NoCall, PhaseOf, OpOf, ResultOf, Effective
<1> QED
  BY <1>1, <1>2, <1>3 DEF Registry!Init, Phases, Ops, Requests, Results

\* Every step of the registry is a step of its contract or none.
LEMMA EveryStepRefines == OwnershipInv /\ [Next]_vars => [Registry!Next]_(Registry!vars)
<1> SUFFICES ASSUME OwnershipInv, [Next]_vars PROVE [Registry!Next]_(Registry!vars)
  OBVIOUS
<1> USE DEF list
<1>inv. Inv /\ TraversalIsExact /\ AnswersAreListed
  BY DEF OwnershipInv
<1>1. ASSUME NEW t \in Threads, NEW in \in Inputs, CallRegister(t, in) \/ CallFind(t, in)
      PROVE  Registry!Next
  <2>1. CASE CallRegister(t, in)
    <3>1. Registry!Invoke(t, IF "CheckThreshold" = "FindLock" THEN "Find" ELSE "Register", in)
      BY <1>inv, <2>1, CallInvokes DEF CallRegister
    <3> QED
      BY <3>1 DEF Registry!Next
  <2>2. CASE CallFind(t, in)
    <3>1. Registry!Invoke(t, IF "FindLock" = "FindLock" THEN "Find" ELSE "Register", in)
      BY <1>inv, <2>2, CallInvokes DEF CallFind
    <3> QED
      BY <3>1 DEF Registry!Next
  <2> QED
    BY <1>1, <2>1, <2>2
<1>2. ASSUME NEW t \in Threads, NEW step \in RegisterSteps \cup FindSteps,
             NEW reason \in Terminated, Terminate(t, step, reason)
      PROVE  Registry!Next
  BY <1>2, <1>inv, TerminateAborts DEF Registry!Next
<1>3. ASSUME NEW t \in Threads, CheckThreshold(t) PROVE [Registry!Next]_(Registry!vars)
  <2>1. CASE UNCHANGED process
    BY <1>3, <1>inv, <2>1, ProgressStutters
  <2>2. CASE Terminate(t, "CheckThreshold", "threshold terminated")
    BY <1>2, <2>2 DEF RegisterSteps, Terminated
  <2> QED
    BY <1>3, <2>1, <2>2 DEF CheckThreshold, Goto
<1>4. ASSUME NEW t \in Threads,
             \/ AllocateId(t) \/ AllocateDescription(t) \/ AllocateLogger(t) \/ RegisterLock(t)
             \/ Link(t) \/ FindLock(t) \/ FindHead(t) \/ FindCompare(t) \/ FindUnlock(t)
      PROVE  UNCHANGED Registry!vars
  BY <1>4, <1>inv, ProgressStutters
<1>5. ASSUME NEW t \in Threads, AllocationFails(t) \/ RegisterLockFails(t) PROVE Registry!Next
  BY <1>5, <1>inv, FailureFails DEF Registry!Next
<1>6. ASSUME NEW t \in Threads, SetHead(t) PROVE Registry!Next
  BY <1>6, <1>inv, SetHeadRegisters DEF Registry!Next
<1>7. ASSUME NEW t \in Threads, FindMatch(t) PROVE Registry!Next
  BY <1>7, <1>inv, FindMatchFinds DEF Registry!Next
<1>8. ASSUME NEW t \in Threads, process = "running", Answers(t), Return(t, local[t].logger),
             UNCHANGED published
      PROVE  Registry!Next
  BY <1>8, <1>inv, ReturnResponds DEF Registry!Next
<1>9. ASSUME NEW t \in Threads, RegisterUnlock(t) PROVE Registry!Next
  BY <1>9, <1>8 DEF RegisterUnlock, At, Answers
<1>10. ASSUME NEW t \in Threads, FindReturn(t) PROVE Registry!Next
  <2>1. CASE Terminate(t, "FindReturn", "lookup terminated")
    BY <2>1, <1>2 DEF FindSteps, Terminated
  <2>2. CASE At(t, "FindReturn") /\ local[t].matches /\ Return(t, local[t].logger) /\ UNCHANGED list
    BY <2>2, <1>8 DEF At, Answers
  <2> QED
    BY <1>10, <2>1, <2>2 DEF FindReturn
<1>11. ASSUME NEW t \in Threads, MutexTerminates(t) PROVE Registry!Next
  BY <1>11, <1>2 DEF MutexTerminates, RegisterSteps, FindSteps, Terminated
<1>12. ASSUME Exit \/ DestroyHead \/ DestroyMutex PROVE [Registry!Next]_(Registry!vars)
  BY <1>12, <1>inv, ShutdownReleases DEF Registry!Next
<1>13. CASE UNCHANGED vars
  BY <1>13 DEF vars, Registry!vars, Status, Up, Registered, Context, Phases, PhaseOf, Ops, OpOf,
     Requests, Results, ResultOf, Effective
<1> QED
  BY <1>1, <1>3, <1>4, <1>5, <1>6, <1>7, <1>9, <1>10, <1>11, <1>12, <1>13 DEF Next, Progress, Ended

\* The registry is linearizable, for any number of threads, loggers and calls:
\* every Register and Find takes effect at one instant between its call and
\* its return, and a failed registration leaves nothing behind.
THEOREM RegistryIsLinearizable == Spec => ImplementsContextRegistry
BY StartsEmpty, EveryStepRefines, OwnershipHolds, PTL DEF Spec, ImplementsContextRegistry, Registry!Spec

-----------------------------------------------------------------------------
(* The application: main keeps the preconditions of the calls it makes *)

\* A call of main has its context, and a registration that has succeeded has
\* handed out a logger; so a lookup comes after a registration of the same.
Registering ==
    /\ pc[main] \in RegisterSteps \cup {"Idle"}
    /\ pc[main] \in RegisterSteps => local[main].request = context
    /\ pc[main] = "Idle" =>
         local[main].result = kOperationFailed \/ \E l \in Loggers : <<context, l>> \in obtained

LookingUp ==
    /\ pc[main] \in FindSteps \cup {"Idle"}
    /\ pc[main] \in FindSteps => local[main].request = context /\ local[main].prior

AppSteps == {"Start", "Initialize", "LookUp", "Greet", "EXIT_SUCCESS", "EXIT_FAILURE"}

\* What main is doing between its calls, and in them.
MainInv ==
    /\ app = "Start" => process = "fresh" /\ pc[main] = "Idle"
    /\ app = "Initialize" => Registering
    /\ app = "LookUp" => LookingUp
    /\ app \in {"Greet", "EXIT_SUCCESS", "EXIT_FAILURE"} => pc[main] = "Idle"

HelloInv ==
    /\ OwnershipInv
    /\ app \in AppSteps
    /\ MainInv
    /\ OnlyTheMutexTerminates

\* The application uses the registry as any process may: its steps are steps of
\* the registry, or leave the registry alone.
LEMMA HelloStepsAreRegistrySteps == [HelloNext]_allVars => [Next]_vars
<1> SUFFICES ASSUME [HelloNext]_allVars PROVE [Next]_vars
  OBVIOUS
<1>1. main \in Threads /\ context \in Inputs
  BY MainAssumption
<1>2. CASE Initialize
  BY <1>1, <1>2 DEF Initialize, Next
<1>3. CASE LookUp
  BY <1>1, <1>3 DEF LookUp, Next
<1>4. CASE Fail \/ LogStartup \/ LogGreeting \/ UNCHANGED allVars
  BY <1>4 DEF Fail, LogStartup, LogGreeting, Record, allVars
<1>5. CASE RegistryStep
  BY <1>1, <1>5 DEF RegistryStep, Next
<1>6. CASE Shutdown \/ Ended
  BY <1>6 DEF Shutdown, Next
<1> QED
  BY <1>2, <1>3, <1>4, <1>5, <1>6 DEF HelloNext

LEMMA InitHello == HelloInit => HelloInv
BY InitOwnership, MainAssumption
   DEF HelloInit, HelloInv, AppSteps, MainInv, OnlyTheMutexTerminates, Init

\* What a step of a call in the registry can do to main.
LEMMA RegistryStepKeepsMain ==
    ASSUME OwnershipInv, app \in AppSteps, MainInv, OnlyTheMutexTerminates, RegistryStep
    PROVE  MainInv' /\ OnlyTheMutexTerminates'
<1> USE DEF RegisterSteps, FindSteps
<1>1. main \in Threads /\ pc \in [Threads -> RegisterSteps \cup FindSteps \cup {"Idle"}]
      /\ local \in [Threads -> Locals] /\ app' = app
  BY MainAssumption DEF OwnershipInv, Inv, TypeOK, RegistryStep
<1>2. process = "running" /\ pc[main] # "Idle"
  BY DEF RegistryStep, Progress, CheckThreshold, AllocateId, AllocateDescription, AllocateLogger,
     AllocateBuffer, AllocationFails, RegisterLock, Link, SetHead, RegisterUnlock, FindLock,
     FindHead, FindCompare, FindMatch, FindUnlock, FindReturn, RegisterLockFails, MutexTerminates,
     Goto, At, Terminate
<1>3. /\ local[main].request = context
      /\ \/ app = "Initialize" /\ pc[main] \in RegisterSteps
         \/ app = "LookUp" /\ pc[main] \in FindSteps /\ local[main].prior
  BY <1>2 DEF MainInv, Registering, LookingUp, AppSteps
\* The call goes on, returns, or ends the process.
<1>4. ASSUME process' \in {process, "mutex terminated"}, local'[main].request = local[main].request,
             local'[main].prior = local[main].prior,
             \/ pc[main] \in RegisterSteps /\ pc'[main] \in RegisterSteps
             \/ pc[main] \in FindSteps /\ pc'[main] \in FindSteps
      PROVE  MainInv' /\ OnlyTheMutexTerminates'
  BY <1>1, <1>3, <1>4 DEF MainInv, Registering, LookingUp, OnlyTheMutexTerminates
<1>5. ASSUME NEW value, Return(main, value),
             pc[main] \in RegisterSteps => value \in Loggers \cup {kOperationFailed}
      PROVE  MainInv' /\ OnlyTheMutexTerminates'
  <2>1. /\ pc'[main] = "Idle" /\ process' = process /\ local'[main].result = value
        /\ value \in Loggers => <<local[main].request, value>> \in obtained'
    BY <1>1, <1>5 DEF Return, NoCall
  <2> QED
    BY <1>1, <1>3, <1>5, <2>1 DEF MainInv, Registering, LookingUp, OnlyTheMutexTerminates
<1> USE DEF Goto, At, Terminate, list
<1>6. CASE CheckThreshold(main)
  <2>1. ~(local[main].request.threshold > kVerbose)
    BY <1>3, MainAssumption DEF kInfo, kVerbose
  <2> QED
    BY <1>1, <1>4, <1>6, <2>1 DEF CheckThreshold
<1>7. CASE AllocateId(main) \/ AllocateDescription(main)
  <2>1. /\ process' = process /\ pc[main] \in RegisterSteps /\ pc'[main] \in RegisterSteps
        /\ \E b : local' = [local EXCEPT ![main].buffers = @ \cup {b}]
    BY <1>1, <1>7 DEF AllocateId, AllocateDescription, AllocateBuffer
  <2>2. local'[main].request = local[main].request /\ local'[main].prior = local[main].prior
    BY <1>1, <2>1 DEF Locals
  <2> QED
    BY <1>4, <2>1, <2>2
<1>8. CASE AllocateLogger(main)
  <2>1. PICK l \in Loggers :
          local' = [local EXCEPT ![main] = [local[main] EXCEPT !.logger = l, !.buffers = {}]]
    BY <1>8 DEF AllocateLogger
  <2>2. local'[main].request = local[main].request /\ local'[main].prior = local[main].prior
    BY <1>1, <2>1 DEF Locals
  <2> QED
    BY <1>1, <1>4, <1>8, <2>2 DEF AllocateLogger
<1>9. CASE RegisterLock(main) \/ Link(main) \/ SetHead(main) \/ FindLock(main) \/ FindUnlock(main)
  BY <1>1, <1>4, <1>9 DEF RegisterLock, Link, SetHead, FindLock, FindUnlock
<1>10. CASE FindHead(main) \/ FindCompare(main) \/ FindMatch(main)
  <2>1. process' = process /\ pc[main] \in FindSteps /\ pc'[main] \in FindSteps
    BY <1>1, <1>10 DEF FindHead, FindCompare, FindMatch
  <2>2. \/ local' = local
        \/ \E l : local' = [local EXCEPT ![main].logger = l]
        \/ \E m : local' = [local EXCEPT ![main].matches = m]
    BY <1>10 DEF FindHead, FindCompare, FindMatch
  <2>3. local'[main].request = local[main].request /\ local'[main].prior = local[main].prior
    BY <1>1, <2>2 DEF Locals
  <2> QED
    BY <1>4, <2>1, <2>3
<1>11. CASE AllocationFails(main) \/ RegisterLockFails(main)
  BY <1>5, <1>11 DEF AllocationFails, RegisterLockFails
<1>12. CASE RegisterUnlock(main)
  <2>1. local[main].logger \in Range(published) /\ Range(published) \subseteq Loggers
    BY <1>1, <1>12, ListedLoggers
       DEF RegisterUnlock, OwnershipInv, AnswersAreListed, AnswerOf, Answers, Inv
  <2> QED
    BY <1>5, <1>12, <2>1 DEF RegisterUnlock
\* A lookup finds what the registration has put in the list.
<1>13. CASE FindReturn(main)
  <2>1. local[main].matches
    BY <1>1, <1>3, <1>13, MainAssumption
       DEF FindReturn, OwnershipInv, LookupNeverRefusesARegisteredContext
  <2> QED
    BY <1>3, <1>5, <1>13, <2>1 DEF FindReturn
<1>14. CASE MutexTerminates(main)
  BY <1>3, <1>4, <1>14 DEF MutexTerminates
<1> QED
  BY <1>6, <1>7, <1>8, <1>9, <1>10, <1>11, <1>12, <1>13, <1>14 DEF RegistryStep, Progress

LEMMA HelloStep == HelloInv /\ [HelloNext]_allVars => HelloInv'
<1> SUFFICES ASSUME HelloInv, [HelloNext]_allVars PROVE HelloInv'
  OBVIOUS
<1>1. OwnershipInv'
  BY HelloStepsAreRegistrySteps, OwnershipStep DEF HelloInv
<1>2. app \in AppSteps /\ MainInv /\ OnlyTheMutexTerminates /\ main \in Threads
      /\ pc \in [Threads -> RegisterSteps \cup FindSteps \cup {"Idle"}]
      /\ local \in [Threads -> Locals]
  BY MainAssumption DEF HelloInv, OwnershipInv, Inv, TypeOK
<1> USE DEF AppSteps
<1>3. CASE Initialize
  <2>1. /\ pc'[main] = "CheckThreshold" /\ local'[main].request = context /\ process' = "running"
        /\ app' = "Initialize"
    BY <1>2, <1>3 DEF Initialize, CallRegister, Call, NoCall
  <2> QED
    BY <1>1, <2>1 DEF HelloInv, MainInv, Registering, RegisterSteps, OnlyTheMutexTerminates
<1>4. CASE LookUp
  <2>1. \E l \in Loggers : <<context, l>> \in obtained
    BY <1>2, <1>4 DEF LookUp, Returned, MainInv, Registering
  <2>2. /\ pc'[main] = "FindLock" /\ local'[main].request = context /\ local'[main].prior
        /\ process' = "running" /\ app' = "LookUp"
    BY <1>2, <1>4, <2>1 DEF LookUp, CallFind, Call, NoCall
  <2> QED
    BY <1>1, <2>2 DEF HelloInv, MainInv, LookingUp, FindSteps, OnlyTheMutexTerminates
<1>5. CASE Fail \/ LogStartup \/ LogGreeting
  BY <1>1, <1>2, <1>5
     DEF Fail, LogStartup, LogGreeting, Record, Returned, vars, HelloInv, MainInv,
         OnlyTheMutexTerminates
<1>6. CASE RegistryStep
  BY <1>1, <1>2, <1>6, RegistryStepKeepsMain DEF RegistryStep, HelloInv
<1>7. CASE Shutdown
  BY <1>1, <1>2, <1>7
     DEF Shutdown, Exit, DestroyHead, DestroyMutex, HelloInv, MainInv, OnlyTheMutexTerminates
<1>8. CASE (Ended /\ UNCHANGED <<app, output>>) \/ UNCHANGED allVars
  BY <1>1, <1>2, <1>8
     DEF Ended, allVars, vars, HelloInv, MainInv, Registering, LookingUp, OnlyTheMutexTerminates
<1> QED
  BY <1>3, <1>4, <1>5, <1>6, <1>7, <1>8 DEF HelloNext

\* Wherever memory runs out and whichever lock fails, main never calls
\* CreateLogger without a registered context, nor registers an undefined
\* threshold: of the reasons to terminate only a failing mutex is left.
THEOREM OnlyTheMutexEndsMain == HelloSpec => []OnlyTheMutexTerminates
<1>1. HelloInv => OnlyTheMutexTerminates
  BY DEF HelloInv
<1> QED
  BY <1>1, InitHello, HelloStep, PTL DEF HelloSpec
=============================================================================

--------------------------- MODULE ContextRegistry ---------------------------
(***************************************************************************)
(* What the logger registry promises its callers (docs/requirements/       *)
(* release-3-ara-log.md, AP-R3-LOG-003), without list, mutex or heap: each *)
(* call takes effect at one instant between its start and its end.         *)
(***************************************************************************)
EXTENDS Naturals, Sequences

CONSTANTS Threads, Loggers, Inputs, Null

VARIABLES
    status,     \* "up", "down" after a normal exit began, "aborted"
    registered, \* the contexts, as records [inputs, logger], oldest first
    phase,      \* "idle", "pending", "done" (effective, not yet returned)
    op,         \* "Register" or "Find" while a call is under way, else Null
    request,    \* its inputs
    answer      \* what the call returns or returned: a logger, Null, an error

vars == <<status, registered, phase, op, request, answer>>

Init ==
    /\ status = "up"
    /\ registered = <<>>
    /\ phase = [t \in Threads |-> "idle"]
    /\ op = [t \in Threads |-> Null]
    /\ request = [t \in Threads |-> Null]
    /\ answer = [t \in Threads |-> Null]

\* The position of the newest context registered under an ID, 0 if none.
Newest(id) ==
    LET places == {i \in DOMAIN registered : registered[i].inputs.id = id}
    IN  IF places = {} THEN 0
        ELSE CHOOSE i \in places : \A j \in places : j <= i

Invoke(t, operation, in) ==
    /\ status = "up"
    /\ phase[t] = "idle"
    /\ phase' = [phase EXCEPT ![t] = "pending"]
    /\ op' = [op EXCEPT ![t] = operation]
    /\ request' = [request EXCEPT ![t] = in]
    /\ answer' = [answer EXCEPT ![t] = Null]
    /\ UNCHANGED <<status, registered>>

\* A registration becomes visible, all at once, as a logger of its own.
Register(t) ==
    /\ status = "up"
    /\ phase[t] = "pending" /\ op[t] = "Register"
    /\ \E l \in Loggers :
         /\ \A i \in DOMAIN registered : registered[i].logger # l
         /\ registered' = Append(registered, [inputs |-> request[t], logger |-> l])
         /\ answer' = [answer EXCEPT ![t] = l]
    /\ phase' = [phase EXCEPT ![t] = "done"]
    /\ UNCHANGED <<status, op, request>>

Finish(t) ==
    /\ phase' = [phase EXCEPT ![t] = "idle"]
    /\ op' = [op EXCEPT ![t] = Null]
    /\ request' = [request EXCEPT ![t] = Null]
    /\ UNCHANGED <<status, registered>>

\* A failed registration reports the error and registers nothing.
FailRegister(t) ==
    /\ status = "up"
    /\ phase[t] = "pending" /\ op[t] = "Register"
    /\ answer' = [answer EXCEPT ![t] = "kOperationFailed"]
    /\ Finish(t)

\* A lookup sees the contexts of one instant: the newest one with its ID if
\* the other inputs are equal too, otherwise it is refused.
Find(t) ==
    /\ status = "up"
    /\ phase[t] = "pending" /\ op[t] = "Find"
    /\ LET i == Newest(request[t].id)
       IN  answer' = [answer EXCEPT ![t] =
                        IF i # 0 /\ registered[i].inputs = request[t]
                        THEN registered[i].logger ELSE Null]
    /\ phase' = [phase EXCEPT ![t] = "done"]
    /\ UNCHANGED <<status, registered, op, request>>

\* A call returns only a logger; a refused lookup never returns.
Respond(t) ==
    /\ status = "up"
    /\ phase[t] = "done"
    /\ answer[t] # Null
    /\ Finish(t)
    /\ UNCHANGED answer

\* std::terminate, inside a call or during shutdown.
Abort ==
    /\ status = "down" \/ \E t \in Threads : phase[t] # "idle"
    /\ status # "aborted"
    /\ status' = "aborted"
    /\ UNCHANGED <<registered, phase, op, request, answer>>

Exit ==
    /\ status = "up"
    /\ \A t \in Threads : phase[t] = "idle"
    /\ status' = "down"
    /\ UNCHANGED <<registered, phase, op, request, answer>>

\* Shutdown releases the contexts, the newest first.
Release ==
    /\ status = "down"
    /\ registered # <<>>
    /\ registered' = SubSeq(registered, 1, Len(registered) - 1)
    /\ UNCHANGED <<status, phase, op, request, answer>>

Next ==
    \/ \E t \in Threads :
         \/ \E in \in Inputs, operation \in {"Register", "Find"} : Invoke(t, operation, in)
         \/ Register(t) \/ FailRegister(t) \/ Find(t) \/ Respond(t)
    \/ Abort \/ Exit \/ Release

Spec == Init /\ [][Next]_vars
=============================================================================

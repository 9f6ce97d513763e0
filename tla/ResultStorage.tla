---------------------------- MODULE ResultStorage ----------------------------
(***************************************************************************)
(* ara::core::Result<T, ErrorCode> over its two-slot storage               *)
(* (platform/ara-core/include/ara/core/result.h), used by one thread.      *)
(*                                                                         *)
(* Payload constructors and destructors are the application's code: a      *)
(* constructor may throw, may move from the payload it replaces, and both  *)
(* may look at the very Result they are working for.  So an emplacement is *)
(* several steps, and observers run between them.  Result<void, ErrorCode> *)
(* is the instance whose only value payload is std::monostate.             *)
(***************************************************************************)
EXTENDS Naturals

CONSTANTS
    Results,  \* the places where a Result object can live
    Values,   \* the value payloads
    Errors,   \* the error payloads: records [value, converter]
    Empty,    \* an optional without value; no object
    Moved     \* what a move leaves behind in the payload it moved from

ASSUME PayloadAssumption ==
    /\ Values # {} /\ Moved \notin Values
    /\ Empty \notin Results
    /\ \A e \in Errors : e.converter \in {"throws", "returns"}

VARIABLES
    process, \* "running", or what called std::terminate
    alive,   \* the Result objects that exist
    slots,   \* slots_ of each: a payload with its alternative, or Empty
    active,  \* active_ of each
    movedFrom, \* HISTORY: the objects moved from, which may only be destroyed
    work,    \* the emplacement under way
    outcome  \* what the last access gave the application

vars == <<process, alive, slots, active, movedFrom, work, outcome>>

New == [alternative : {"value"}, payload : Values]
  \cup [alternative : {"error"}, payload : Errors]

Payloads == New \cup [alternative : {"value"}, payload : {Moved}]

ASSUME EmptyAssumption == Empty \notin Payloads

\* ErrorCode is trivially copyable: a move leaves it as it was.
AfterMove(p) == IF p.alternative = "value" THEN [p EXCEPT !.payload = Moved] ELSE p

NoWork == [result |-> Empty, step |-> "Idle", new |-> Empty]
NoSlots == [i \in 0..1 |-> Empty]

Init ==
    /\ process = "running"
    /\ alive = {}
    /\ slots = [r \in Results |-> NoSlots]
    /\ active = [r \in Results |-> 0]
    /\ movedFrom = {}
    /\ work = NoWork
    /\ outcome = Empty

Active(r) == slots[r][active[r]]

HasValue(r) == Active(r).alternative = "value"

\* Application code is running and may use r: no emplacement is under way, or
\* it is inside a payload constructor or destructor that the emplacement calls.
Usable(r) ==
    /\ process = "running"
    /\ work.step \in {"Idle", "Construct", "Destroy"}
    /\ r \in alive \ movedFrom

-----------------------------------------------------------------------------
(* Construction, copy, move, destruction *)

\* FromValue, FromError and the converting constructors.  A payload constructor
\* that throws leaves no object, hence no step.
Construct(r, payload) ==
    /\ process = "running" /\ work = NoWork
    /\ r \notin alive
    /\ alive' = alive \cup {r}
    /\ slots' = [slots EXCEPT ![r][0] = payload]
    /\ active' = [active EXCEPT ![r] = 0]
    /\ UNCHANGED <<process, movedFrom, work, outcome>>

\* The defaulted copy constructor: both slots and active_.
Copy(r, to) ==
    /\ Usable(r) /\ work = NoWork
    /\ to \notin alive
    /\ alive' = alive \cup {to}
    /\ slots' = [slots EXCEPT ![to] = slots[r]]
    /\ active' = [active EXCEPT ![to] = active[r]]
    /\ UNCHANGED <<process, movedFrom, work, outcome>>

\* MUTANT: active_ is not moved with the slots.
Move_ForgetsActive(r, to) ==
    /\ Usable(r) /\ work = NoWork
    /\ to \notin alive
    /\ alive' = alive \cup {to}
    /\ slots' = [slots EXCEPT ![to] = slots[r], ![r][active[r]] = AfterMove(@)]
    /\ active' = [active EXCEPT ![to] = 0]
    /\ movedFrom' = movedFrom \cup {r}
    /\ UNCHANGED <<process, work, outcome>>

\* The defaulted move constructor: each engaged payload is moved from, and
\* stays engaged in the object left behind.
Move(r, to) ==
    /\ Usable(r) /\ work = NoWork
    /\ to \notin alive
    /\ alive' = alive \cup {to}
    /\ slots' = [slots EXCEPT ![to] = slots[r], ![r][active[r]] = AfterMove(@)]
    /\ active' = [active EXCEPT ![to] = active[r]]
    /\ movedFrom' = movedFrom \cup {r}
    /\ UNCHANGED <<process, work, outcome>>

Destroy(r) ==
    /\ process = "running" /\ work = NoWork
    /\ r \in alive
    /\ alive' = alive \ {r}
    /\ movedFrom' = movedFrom \ {r}
    /\ slots' = [slots EXCEPT ![r] = NoSlots]
    /\ active' = [active EXCEPT ![r] = 0]
    /\ UNCHANGED <<process, work, outcome>>

-----------------------------------------------------------------------------
(* EmplaceValue and EmplaceError *)

\* MUTANT: the payload is destroyed before its replacement is constructed.
BeginEmplace_ResetsFirst(r, payload) ==
    /\ Usable(r) /\ work = NoWork
    /\ work' = [result |-> r, step |-> "Construct", new |-> payload]
    /\ slots' = [slots EXCEPT ![r][active[r]] = Empty]
    /\ UNCHANGED <<process, alive, active, movedFrom, outcome>>

BeginEmplace(r, payload) ==
    /\ Usable(r) /\ work = NoWork
    /\ work' = [result |-> r, step |-> "Construct", new |-> payload]
    /\ UNCHANGED <<process, alive, slots, active, movedFrom, outcome>>

\* The constructor may take its argument out of the payload being replaced:
\* r.EmplaceValue(std::move(r).Value()).  It may throw after that.
MoveFromReplaced ==
    /\ process = "running" /\ work.step = "Construct"
    /\ LET r == work.result
       IN  /\ HasValue(r) /\ work.new.alternative = "value"
           /\ work' = [work EXCEPT !.new = Active(r)]
           /\ slots' = [slots EXCEPT ![r][active[r]] = AfterMove(@)]
    /\ UNCHANGED <<process, alive, active, movedFrom, outcome>>

\* The new payload is constructed in the inactive slot.
ConstructReplacement ==
    /\ process = "running" /\ work.step = "Construct"
    /\ LET r == work.result
       IN  slots' = [slots EXCEPT ![r][1 - active[r]] = work.new]
    /\ work' = [work EXCEPT !.step = "Switch"]
    /\ UNCHANGED <<process, alive, active, movedFrom, outcome>>

\* The exception leaves emplace at once.
ConstructorThrows ==
    /\ process = "running" /\ work.step = "Construct"
    /\ work' = NoWork
    /\ UNCHANGED <<process, alive, slots, active, movedFrom, outcome>>

Switch ==
    /\ process = "running" /\ work.step = "Switch"
    /\ active' = [active EXCEPT ![work.result] = 1 - @]
    /\ work' = [work EXCEPT !.step = "Reset", !.new = Empty]
    /\ UNCHANGED <<process, alive, slots, movedFrom, outcome>>

\* MUTANT: the previous payload is never destroyed.
Reset_Leaks ==
    /\ process = "running" /\ work.step = "Reset"
    /\ work' = [work EXCEPT !.step = "Destroy"]
    /\ UNCHANGED <<process, alive, slots, active, movedFrom, outcome>>

\* reset() disengages the optional, then runs the payload's destructor.
Reset ==
    /\ process = "running" /\ work.step = "Reset"
    /\ slots' = [slots EXCEPT ![work.result][1 - active[work.result]] = Empty]
    /\ work' = [work EXCEPT !.step = "Destroy"]
    /\ UNCHANGED <<process, alive, active, movedFrom, outcome>>

EndEmplace ==
    /\ process = "running" /\ work.step = "Destroy"
    /\ work' = NoWork
    /\ UNCHANGED <<process, alive, slots, active, movedFrom, outcome>>

-----------------------------------------------------------------------------
(* Queries and access *)

Give(value) ==
    outcome' = value /\ UNCHANGED <<process, alive, slots, active, movedFrom, work>>

Terminate(reason) ==
    process' = reason /\ UNCHANGED <<alive, slots, active, movedFrom, work, outcome>>

\* ResultStorage::index and get both check for an empty active slot first.
QueryHasValue(r) ==
    /\ Usable(r)
    /\ IF Active(r) = Empty THEN Terminate("empty slot")
       ELSE Give([kind |-> IF HasValue(r) THEN "yes" ELSE "no", value |-> Empty])

\* Value() and Error(): the payload, or std::terminate for the other alternative.
Access(r, alternative) ==
    /\ Usable(r)
    /\ IF Active(r) = Empty THEN Terminate("empty slot")
       ELSE IF Active(r).alternative # alternative THEN Terminate("wrong alternative")
       ELSE Give([kind |-> "access", value |-> Active(r)])

\* MUTANT: an error whose converter returns is treated as a success.
ValueOrThrow_FallsThrough(r) ==
    /\ Usable(r) /\ Active(r) # Empty
    /\ ~HasValue(r) => Active(r).payload.converter = "returns"
    /\ Give([kind |-> "access", value |-> [Active(r) EXCEPT !.alternative = "value"]])

\* The domain converts the error to an exception; a converter that returns ends
\* in std::terminate.
ThrowAsException(error) ==
    \/ error.payload.converter = "throws" /\ Give([kind |-> "exception", value |-> error])
    \/ error.payload.converter = "returns" /\ Terminate("converter returned")

ValueOrThrow(r) ==
    /\ Usable(r)
    /\ IF Active(r) = Empty THEN Terminate("empty slot")
       ELSE IF HasValue(r) THEN Give([kind |-> "access", value |-> Active(r)])
       ELSE ThrowAsException(Active(r))

Ended == process # "running" /\ UNCHANGED vars

-----------------------------------------------------------------------------
EmplaceStep ==
    \/ MoveFromReplaced \/ ConstructReplacement \/ ConstructorThrows
    \/ Switch \/ Reset \/ EndEmplace

Next ==
    \/ \E r \in Results :
         \/ \E payload \in New : Construct(r, payload) \/ BeginEmplace(r, payload)
         \/ \E to \in Results : Copy(r, to) \/ Move(r, to)
         \/ Destroy(r)
         \/ QueryHasValue(r)
         \/ \E alternative \in {"value", "error"} : Access(r, alternative)
         \/ ValueOrThrow(r)
    \/ EmplaceStep
    \/ Ended

Spec == Init /\ [][Next]_vars

-----------------------------------------------------------------------------
(* Properties *)

TypeOK ==
    /\ process \in {"running", "wrong alternative", "converter returned"}
    /\ alive \in SUBSET Results
    /\ slots \in [Results -> [0..1 -> Payloads \cup {Empty}]]
    /\ active \in [Results -> 0..1]
    /\ movedFrom \in SUBSET alive
    /\ work \in [result: Results \cup {Empty}, new: Payloads \cup {Empty},
                 step: {"Idle", "Construct", "Switch", "Reset", "Destroy"}]

\* DD-04, DD-06: whatever throws and whoever looks, the active slot of a live
\* Result holds a payload; the "internal invariant violation" terminate of
\* index() and get() is never reached.
ActiveSlotIsEngaged == \A r \in alive : Active(r) # Empty

\* A replacement leaves nothing behind: the other slot of a Result is engaged
\* only between the construction of a replacement and the reset that follows,
\* when no application code runs, and a destroyed Result holds no payload.
OnlyReplacementsUseTheOtherSlot ==
    /\ \A r \in alive :
         slots[r][1 - active[r]] # Empty =>
            work.result = r /\ work.step \in {"Switch", "Reset"}
    /\ \A r \in Results \ alive : slots[r] = NoSlots
=============================================================================

---------------------------- MODULE CheckedResult ----------------------------
(***************************************************************************)
(* What a Result promises (docs/requirements/release-3-ara-core.md,        *)
(* AP-R3-CORE-005 to 010): one alternative at any time, replaced in one    *)
(* step or not at all, and checked access.                                 *)
(***************************************************************************)
CONSTANTS Results, New, Empty, Moved

VARIABLES
    state,  \* "running" or "terminated"
    holds,  \* what each Result holds: [alternative, payload], or Empty
    outcome

vars == <<state, holds, outcome>>

AfterMove(p) == IF p.alternative = "value" THEN [p EXCEPT !.payload = Moved] ELSE p

Init == state = "running" /\ holds = [r \in Results |-> Empty] /\ outcome = Empty

\* A Result appears, with a new payload or with that of another one.
Appear(r) ==
    /\ holds[r] = Empty
    /\ \E p \in New : holds' = [holds EXCEPT ![r] = p]
    /\ UNCHANGED <<state, outcome>>

Copy(r, to) ==
    /\ holds[r] # Empty /\ holds[to] = Empty
    /\ holds' = [holds EXCEPT ![to] = holds[r]]
    /\ UNCHANGED <<state, outcome>>

\* A moved-from Result keeps its alternative.
Move(r, to) ==
    /\ holds[r] # Empty /\ holds[to] = Empty
    /\ holds' = [holds EXCEPT ![to] = holds[r], ![r] = AfterMove(@)]
    /\ UNCHANGED <<state, outcome>>

Vanish(r) ==
    /\ holds[r] # Empty
    /\ holds' = [holds EXCEPT ![r] = Empty]
    /\ UNCHANGED <<state, outcome>>

\* The replacement takes effect at once.
Replace(r) ==
    /\ holds[r] # Empty
    /\ \E p \in New \cup {AfterMove(q) : q \in New} : holds' = [holds EXCEPT ![r] = p]
    /\ UNCHANGED <<state, outcome>>

\* An application that constructs from the payload it replaces moves from it.
TakeOut(r) ==
    /\ holds[r] # Empty
    /\ holds' = [holds EXCEPT ![r] = AfterMove(@)]
    /\ UNCHANGED <<state, outcome>>

Query(r) ==
    /\ holds[r] # Empty
    /\ outcome' = [kind |-> IF holds[r].alternative = "value" THEN "yes" ELSE "no",
                    value |-> Empty]
    /\ UNCHANGED <<state, holds>>

Read(r) ==
    /\ holds[r] # Empty
    /\ outcome' = [kind |-> "access", value |-> holds[r]]
    /\ UNCHANGED <<state, holds>>

\* Only an error is thrown.
Throw(r) ==
    /\ holds[r] # Empty
    /\ holds[r].alternative = "error"
    /\ outcome' = [kind |-> "exception", value |-> holds[r]]
    /\ UNCHANGED <<state, holds>>

\* Access to the alternative that a Result does not hold.
Terminate == state' = "terminated" /\ UNCHANGED <<holds, outcome>>

Step(r) ==
    \/ Appear(r) \/ Vanish(r) \/ Replace(r) \/ TakeOut(r)
    \/ Query(r) \/ Read(r) \/ Throw(r)

Next ==
    /\ state = "running"
    /\ \/ \E r \in Results : Step(r)
       \/ \E r, to \in Results : Copy(r, to) \/ Move(r, to)
       \/ Terminate

Spec == Init /\ [][Next]_vars
=============================================================================

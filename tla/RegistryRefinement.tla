------------------------- MODULE RegistryRefinement -------------------------
(***************************************************************************)
(* The refinement mapping from LoggerRegistry to ContextRegistry.  A       *)
(* registration is effective once head_ points to it, a lookup once it has *)
(* compared the logger it found.                                           *)
(***************************************************************************)
EXTENDS LoggerRegistry

Effective(t) == pc[t] \in {"RegisterUnlock", "FindUnlock", "FindReturn"}

Status ==
    IF Up THEN "up" ELSE IF process \in Terminated THEN "aborted" ELSE "down"

Context(l) == [inputs |-> contents[l], logger |-> l]

PhaseOf(t) == IF pc[t] = "Idle" THEN "idle" ELSE IF Effective(t) THEN "done" ELSE "pending"

OpOf(t) == IF pc[t] = "Idle" THEN Null ELSE IF pc[t] \in RegisterSteps THEN "Register" ELSE "Find"

ResultOf(t) ==
    IF ~Effective(t) THEN local[t].result
    ELSE IF pc[t] = "RegisterUnlock" \/ local[t].matches THEN local[t].logger ELSE Null

Registered == [i \in DOMAIN published |-> Context(published[i])]
Phases == [t \in Threads |-> PhaseOf(t)]
Ops == [t \in Threads |-> OpOf(t)]
Requests == [t \in Threads |-> local[t].request]
Results == [t \in Threads |-> ResultOf(t)]

Registry == INSTANCE ContextRegistry WITH
    status <- Status, registered <- Registered,
    phase <- Phases, op <- Ops, request <- Requests, answer <- Results

\* The registry implements its contract: every Register and Find is atomic,
\* a failed registration leaves no context behind, and a lookup never answers
\* from a list that another thread is halfway through changing.
ImplementsContextRegistry == Registry!Spec
=============================================================================

--------------------------- MODULE MCResultStorage ---------------------------
(***************************************************************************)
(* Instances of ResultStorage for TLC, and its refinement of CheckedResult.*)
(***************************************************************************)
EXTENDS ResultStorage

CONSTANTS v1, v2, unit, e1, e2

\* An error of a domain that converts errors to exceptions, and one of a domain
\* whose converter returns.
MCErrors == {[value |-> e1, converter |-> "throws"],
             [value |-> e2, converter |-> "returns"]}

-----------------------------------------------------------------------------
(* The refinement mapping: a Result holds what its active slot holds. *)

State == IF process = "running" THEN "running" ELSE "terminated"

HeldBy(r) == IF r \in alive THEN Active(r) ELSE Empty

Held == [r \in Results |-> HeldBy(r)]

Contract == INSTANCE CheckedResult WITH state <- State, holds <- Held

\* DD-04: two slots and a switch make a replacement atomic.  Nobody, not even
\* the constructors and destructors that run in the middle of one, sees a
\* Result without a payload or with a payload it should not have, and a
\* constructor that throws leaves what was there.
ImplementsCheckedResult == Contract!Spec
=============================================================================

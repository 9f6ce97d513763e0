-------------------------- MODULE MCLoggerRegistry --------------------------
(***************************************************************************)
(* Instances of LoggerRegistry, and of its refinement of ContextRegistry,  *)
(* for TLC.                                                                *)
(***************************************************************************)
EXTENDS RegistryRefinement

CONSTANTS c1, c2, d1, d2

\* One context that callers ask for with two descriptions, and another with two
\* thresholds and with an undefined one.
MCInputs == {[id |-> c1, description |-> d1, threshold |-> 4],
             [id |-> c1, description |-> d2, threshold |-> 4],
             [id |-> c2, description |-> d1, threshold |-> 6],
             [id |-> c2, description |-> d1, threshold |-> 0],
             [id |-> c2, description |-> d1, threshold |-> 7]}

\* Two contexts with one set of inputs each.
MCInputsTwo == {[id |-> c1, description |-> d1, threshold |-> 4],
                [id |-> c2, description |-> d1, threshold |-> 0]}

\* Callers keep the first ID unique and register the second as they like.
MCUniqueIds == {c1}
=============================================================================

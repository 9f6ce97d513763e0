----------------------------- MODULE MCEsbmcGate -----------------------------
(***************************************************************************)
(* An instance of EsbmcGate for TLC.                                       *)
(***************************************************************************)
EXTENDS EsbmcGate

MCProofs == <<"p", "q">>

\* An edit repairs the first proof with exceptions and breaks the second
\* without them.
MCHolds(p, mode, version) ==
    IF p = "p" THEN mode = "OFF" \/ version = 2 ELSE mode = "ON" \/ version = 1
=============================================================================

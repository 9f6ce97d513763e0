--------------------------- MODULE MCHelloAdaptive ---------------------------
(***************************************************************************)
(* An instance of HelloAdaptive for TLC.                                   *)
(***************************************************************************)
EXTENDS HelloAdaptive

\* "HELLO", its description, and LogLevel::kInfo.
MCContext == [id |-> "HELLO", description |-> "AdaptivePi hello application", threshold |-> 4]

MCInputs == {MCContext}
=============================================================================

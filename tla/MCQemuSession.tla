---------------------------- MODULE MCQemuSession ----------------------------
(***************************************************************************)
(* Instances of QemuSession for TLC: their constants are in the .cfg files.*)
(***************************************************************************)
EXTENDS QemuSession

=============================================================================

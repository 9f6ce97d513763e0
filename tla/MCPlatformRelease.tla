-------------------------- MODULE MCPlatformRelease --------------------------
(***************************************************************************)
(* Instances of PlatformRelease for TLC.                                   *)
(***************************************************************************)
EXTENDS PlatformRelease

\* The second image was built without a change that the metadata shows, and goes
\* with the SDK of the first; the second SDK goes with neither image.
MCMetadata(part, n) == IF part = "sdk" /\ n = 2 THEN "new" ELSE "old"
=============================================================================

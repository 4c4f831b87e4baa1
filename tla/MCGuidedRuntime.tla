--------------------------- MODULE MCGuidedRuntime ---------------------------
(* GuidedRuntime for TLC.                                                   *)
EXTENDS GuidedRuntime

CONSTANTS c1, c2, p1, voice
=============================================================================

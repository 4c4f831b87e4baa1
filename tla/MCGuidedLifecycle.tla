--------------------------- MODULE MCGuidedLifecycle ---------------------------
(***************************************************************************)
(* GuidedLifecycle for TLC: scenarios of two lines have a first line, a    *)
(* last line and a step between them.                                      *)
(***************************************************************************)
EXTENDS GuidedLifecycle
=============================================================================

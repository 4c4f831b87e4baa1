---------------------------- MODULE MCAssessment ----------------------------
(***************************************************************************)
(* Assessment with its constants given by MCAssessment*.cfg.               *)
(***************************************************************************)
EXTENDS Assessment
=============================================================================

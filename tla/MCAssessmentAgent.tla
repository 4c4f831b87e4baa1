-------------------------- MODULE MCAssessmentAgent --------------------------
(* AssessmentAgent for TLC.                                                 *)
EXTENDS AssessmentAgent
=============================================================================

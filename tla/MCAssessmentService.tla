------------------------ MODULE MCAssessmentService ------------------------
(***************************************************************************)
(* Instances of AssessmentService: two request threads in one process or   *)
(* in two, three keys of which two carry the same response id.             *)
(***************************************************************************)
EXTENDS AssessmentService, TLC

CONSTANTS t1, t2, p1, p2, k1, k2, k3

OneProcess   == (t1 :> p1) @@ (t2 :> p1)
TwoProcesses == (t1 :> p1) @@ (t2 :> p2)
ReusedId     == (k1 :> "r1") @@ (k2 :> "r2") @@ (k3 :> "r2")
=============================================================================

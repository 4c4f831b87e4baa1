--------------------------- MODULE MCGuidedSession ---------------------------
(***************************************************************************)
(* GuidedSession for TLC: threads are interchangeable.  Two keys are used  *)
(* with one attempt_id, as by a client that makes up a new key for a retry *)
(* or by two clients; one has its own.                                     *)
(***************************************************************************)
EXTENDS GuidedSession, TLC

CONSTANTS t1, t2, k1, k2, k3, a1, a2

TwoAttempts == k1 :> a1 @@ k2 :> a1 @@ k3 :> a2

Symmetry == Permutations(Threads)
=============================================================================

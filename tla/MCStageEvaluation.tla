--------------------------- MODULE MCStageEvaluation ---------------------------
(* StageEvaluation for TLC: marks on both sides of every mark and critical  *)
(* bound, the flags on a strong and on a middling answer.                   *)
EXTENDS StageEvaluation

MCMarks == {[task |-> t, interaction |-> i, fluency |-> r, coherence |-> r,
             lexical |-> r, intelligibility |-> n] :
                t \in 1..4, i \in 2..4, r \in {2, 3, 4}, n \in {1, 2}}
Clean(s) == [scores |-> s, invalid |-> FALSE, blocked |-> FALSE, relevant |-> TRUE,
             achieved |-> TRUE]
Best   == [d \in Dimensions |-> 4]
Middle == [d \in Dimensions |-> 2]

MCOutputs ==
    {Clean(s) : s \in MCMarks}
        \cup UNION {{[Clean(s) EXCEPT !.blocked = TRUE],
                     [Clean(s) EXCEPT !.relevant = FALSE],
                     [Clean(s) EXCEPT !.achieved = FALSE],
                     [Clean(s) EXCEPT !.invalid = TRUE]} : s \in {Best, Middle}}
MCHints == {NoHint, 0, 5, 9}
MCRules == {NoRule, 0, 4}
=============================================================================

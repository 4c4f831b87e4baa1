---------------------------- MODULE MCFluencyTurns ----------------------------
(* FluencyTurns for TLC: a monologue and a short turn, a session that is    *)
(* new or has two turns, a caller in assessment mode and one that submits   *)
(* the learner's own first turn with other timings.                         *)
EXTENDS FluencyTurns

\* n words of the given length, and a pause before the last one.
Speak(n, length, pause) ==
    [i \in 1..n |-> LET start == (i - 1) * length + (IF i = n THEN pause ELSE 0)
                    IN  [start |-> start, end |-> start + length]]
Turn(n, spoken, index) ==
    [id |-> n, tokens |-> 5, window |-> 30, unusable |-> FALSE, words |-> spoken, index |-> index]

MCSpoken  == <<[words |-> Speak(5, 70, 20), index |-> 44],
               [words |-> Speak(5, 1, 20), index |-> 90],
               [words |-> Speak(8, 10, 0), index |-> 50],
               [words |-> Speak(6, 4, 0), index |-> 50]>>
MCEarlier ==
    {{}, {Observation("free", Turn(11, Speak(8, 10, 6), 61)),
          Observation("free", Turn(12, Speak(6, 10, 5), 30))}}
MCOthers  ==
    {[mode |-> "free", says |-> [id |-> 1, from |-> 3]],
     [mode |-> "assessment", says |-> [id |-> 21, from |-> 4]]}
=============================================================================

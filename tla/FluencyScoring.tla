----------------------------- MODULE FluencyScoring -----------------------------
(***************************************************************************)
(* The decisions of services/fluency: which learner turns count, when a    *)
(* session has enough of them for a score, and what an index of delivery   *)
(* is worth at a level.  The features of a turn are abstracted to the ones *)
(* these decisions read; the four subscores are not modelled, an eligible  *)
(* turn simply has some index.  Times are tenths of a second.              *)
(***************************************************************************)
EXTENDS Integers, Sequences, FiniteSets, SequencesExt, FiniteSetsExt

Modes    == {"assessment", "guided", "free"}
NoIndex  == -1
Indexes  == 0..100

\* FluencySettings, the defaults.
MinimumTurn == [assessment |-> [words |-> 5, time |-> 25],
                guided     |-> [words |-> 2, time |-> 8],
                free       |-> [words |-> 5, time |-> 25]]

\* A turn as it is sent: its words with their times, sorted (none when the STT
\* gave none), the words of its transcript, the length of the response
\* window, whether the audio was unusable, and the index it would be given.
\* extract_features, as far as the decisions read it.
LongestGap == 5         \* pause_threshold_seconds
AtLeastZero(n) == IF n < 0 THEN 0 ELSE n
Total(values)  == MapThenSumSet(LAMBDA x : values[x], DOMAIN values)     \* sum

Features(turn) ==
    LET said   == turn.words
        n      == Len(said)
        gap(i) == AtLeastZero(said[i + 1].start - said[i].end)
        long   == {i \in 1..(n - 1) : gap(i) > LongestGap}
        pauses == Total([i \in long |-> gap(i)])
        time   == IF n = 0 THEN turn.window ELSE AtLeastZero(said[n].end - said[1].start)
    IN  [timed  |-> n > 0,
         words  |-> IF n = 0 THEN turn.tokens ELSE n,
         time   |-> time,
         speech |-> IF n = 0 THEN time ELSE AtLeastZero(time - pauses)]

\* _insufficiency_reasons
Eligible(mode, turn) ==
    LET f == Features(turn)
    IN  /\ ~turn.unusable
        /\ f.timed
        /\ f.words >= MinimumTurn[mode].words
        /\ f.time >= MinimumTurn[mode].time

\* score_observation
Status(mode, turn) ==
    CASE turn.unusable                            -> "invalid_audio"
      [] ~turn.unusable /\ Eligible(mode, turn)   -> "scored"
      [] ~turn.unusable /\ ~Eligible(mode, turn)  -> "insufficient_evidence"

Observation(mode, turn) ==
    [turn   |-> turn.id,
     mode   |-> mode,
     status |-> Status(mode, turn),
     speech |-> Features(turn).speech,
     timed  |-> Features(turn).timed,
     index  |-> IF Eligible(mode, turn) THEN turn.index ELSE NoIndex]

-----------------------------------------------------------------------------
\* _evidence of a session: the observations that count and their speech.
Counted(observations) == {o \in observations : o.status = "scored"}
Speech(observations)  == Total([o \in Counted(observations) |-> o.speech])

\* _enough_evidence
EnoughEvidence(mode, turns, speech) ==
    CASE mode = "assessment" -> turns >= 2 /\ speech >= 120
      [] mode = "guided"     -> turns >= 3 /\ (turns >= 5 \/ speech >= 80)
      [] mode = "free"       -> turns >= 3 /\ (turns >= 5 \/ speech >= 300)

\* One turn weighs between one second and thirty.
Capped(speech) == IF speech > 300 THEN 300 ELSE IF speech < 10 THEN 10 ELSE speech

\* Python's round: an exact half goes to the even neighbour.
Rounded(a, b) ==
    LET q == a \div b
        r == a % b
    IN  IF 2 * r > b \/ (2 * r = b /\ q % 2 = 1) THEN q + 1 ELSE q

Average(observations) ==
    Rounded(Total([o \in observations |-> o.index * Capped(o.speech)]),
            Total([o \in observations |-> Capped(o.speech)]))

\* aggregate_session
Confident(mode, turns, speech, timed, total) ==
    /\ 10 * timed >= 9 * total
    /\ \/ turns >= 8 /\ speech >= 600
       \/ mode = "assessment" /\ turns >= 6 /\ speech >= 450

Session(mode, observations) ==
    LET counted == Counted(observations)
        turns   == Cardinality(counted)
        speech  == Speech(observations)
        timed   == Cardinality({o \in observations : o.timed})
    IN  IF ~EnoughEvidence(mode, turns, speech)
        THEN [status |-> "insufficient_evidence", turns |-> turns,
              index |-> NoIndex, confidence |-> "low"]
        ELSE [status |-> "scored", turns |-> turns, index |-> Average(counted),
              confidence |-> IF Confident(mode, turns, speech, timed, Cardinality(observations))
                             THEN "high" ELSE "medium"]

-----------------------------------------------------------------------------
\* ASSESSMENT_LEVEL_ANCHORS, A1 = 0; cefr_estimate_from_index, with -1 for
\* Pre-A1.
Anchor           == <<30, 45, 60, 75>>
Estimate(index)  == Cardinality({n \in 1..4 : index >= Anchor[n]}) - 1

\* assessment_dimension_score of an eligible turn at a level.
\* Mutant: the anchor of the level above is used.
OneLevelUp(index, level) ==
    LET difference == index - (IF level = 3 THEN 90 ELSE Anchor[level + 2])
    IN  Cardinality({bound \in {-24, -12, 0, 12} : difference >= bound})

DimensionScore(index, level) ==
    LET difference == index - Anchor[level + 1]
    IN  Cardinality({bound \in {-24, -12, 0, 12} : difference >= bound})
=============================================================================

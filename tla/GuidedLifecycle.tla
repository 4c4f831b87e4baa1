---------------------------- MODULE GuidedLifecycle ----------------------------
(***************************************************************************)
(* A guided session as its callers may think of it: every call takes       *)
(* effect at once, on the record as it then is.  GuidedSession shows that  *)
(* the service, which has no lock, amounts to this.                        *)
(***************************************************************************)
EXTENDS GuidedRules

VARIABLE record

vars == <<record>>

Init == record = NewRecord

Control(control) ==
    /\ MayControl(record, control)
    /\ record' = AfterControl(record, control)

Attempt ==
    /\ MaySpeak(record)
    /\ \E unclear, queued \in BOOLEAN : record' = AfterAttempt(record, unclear, queued)

\* A result, or a failure to ask for one, may come at any time and again.
Pronunciation ==
    \E i \in DOMAIN record.attempts, status \in {"completed", "failed"} :
        /\ record.attempts[i].pronunciation # "not_requested"
        /\ record' = AfterPronunciation(record, i, status)

Next == (\E control \in Controls : Control(control)) \/ Attempt \/ Pronunciation

Spec == Init /\ [][Next]_vars

\* A learner who reads whenever a line can be read, a worker that shows the
\* lines, and nobody who leaves the session paused.
FairSpec ==
    /\ Spec
    /\ SF_vars(Control("prompt_ready"))
    /\ SF_vars(Attempt)
    /\ WF_vars(Control("resume"))

-----------------------------------------------------------------------------
(***************************************************************************)
(* Properties.                                                             *)
(***************************************************************************)
TypeOK == record \in Records

\* status, state and paused_from_state are three fields that every call keeps
\* in step: the view and the allowed actions are computed from the one, the
\* report from the other, and resume relies on the third.
FieldsAgree ==
    /\ InProgress(record) <=> record.state \in Active \cup {"paused"}
    /\ ~InProgress(record) => record.state = record.status
    /\ record.state = "paused" <=> record.pausedFrom # "none"

\* No line is skipped and none is read ahead: the lines before the current
\* one were read, those after it were not, a retry is only decided on a line
\* that was read, and a completed scenario is one whose every line was read.
LinesInOrder ==
    LET position == IF record.state = "paused" THEN record.pausedFrom ELSE record.state IN
    /\ \A turn \in Turns :
          /\ turn < record.turn => AttemptsAt(record, turn) # {}
          /\ turn > record.turn => AttemptsAt(record, turn) = {}
    /\ position \in {"awaiting_retry_decision", "completed"} =>
          AttemptsAt(record, record.turn) # {}
    /\ record.status = "completed" => record.turn = NumTurns

\* The report aggregates one attempt per line that was read: the last one.
LastAttemptSelected ==
    \A i \in DOMAIN record.attempts :
        record.attempts[i].selected <=>
            \A j \in AttemptsAt(record, record.attempts[i].turn) : j <= i

\* guided_mode_v0_2.md: "at most two retries".  The retry numbers of
\* a line count 0, 1, 2 whatever pauses, retries and decisions came between,
\* and a third failure always leads on to the next line.
AtMostTwoRetries ==
    /\ \A i \in DOMAIN record.attempts :
          record.attempts[i].retry =
              Cardinality({j \in AttemptsAt(record, record.attempts[i].turn) : j < i})
    /\ InProgress(record) => RetryNumber(record) <= MaxRetries

\* No mix of retries, decisions and pauses makes a session longer than three
\* attempts for each line it has come to.
AttemptsBounded == Len(record.attempts) <= (MaxRetries + 1) * record.turn

\* The record tells what happened: its status fields agree, the lines were read
\* in order, retries and selected attempts are those of each line, and there
\* are finitely many.
RecordSound ==
    FieldsAgree /\ LinesInOrder /\ LastAttemptSelected /\ AtMostTwoRetries /\ AttemptsBounded

\* Nothing reopens a session that has ended, and no call moves it by more
\* than a line; only pronunciation results may still arrive.
EndIsFinal ==
    [][/\ record'.turn \in {record.turn, record.turn + 1}
       /\ ~InProgress(record) =>
             /\ [record' EXCEPT !.attempts = <<>>] = [record EXCEPT !.attempts = <<>>]
             /\ Len(record'.attempts) = Len(record.attempts)]_vars

\* resume restores the exact state the pause left, and the retry that was
\* pending stays pending: the learner loses nothing by pausing.
PauseLosesNothing ==
    [][record.state = "paused" /\ record'.state \in Active =>
          record' = [record EXCEPT !.state = record.pausedFrom, !.pausedFrom = "none"]]_vars

\* No call undoes what calls before it did: an ended session stays as it was
\* and a pause gives back what it took.
StepsSound == EndIsFinal /\ PauseLosesNothing

\* A learner who keeps reading gets to the end, however unclear the reading.
SessionEnds == <>~InProgress(record)
=============================================================================

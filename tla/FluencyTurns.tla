------------------------------ MODULE FluencyTurns ------------------------------
(***************************************************************************)
(* The fluency of one practice session.  ConversationFluencyTracker        *)
(* collects the word timings of the learner's speech and submits every     *)
(* turn from a task of its own; each submission runs in a thread, is tried *)
(* twice, and the first try may still be running when the second begins.   *)
(* The service handles every try in a thread of its own, one query at a    *)
(* time (services/fluency/api.py), behind the rate limiter.  Any other     *)
(* holder of the service token may submit to the session as well, in the   *)
(* mode it likes.                                                          *)
(***************************************************************************)
EXTENDS RateLimiter, FluencyScoring

CONSTANTS
    MaxTurns,       \* bound on the turns of the conversation
    Spoken,         \* utterance -> its timed words, and the index they are worth;
                    \* those after MaxTurns are the other callers'
    Earlier,        \* tables of the turns before, one of which is stored already
    Others,         \* what other callers may submit: a set of [mode, says]
    MaxOthers,      \* bound on those that are submitted
    MaxTimeouts     \* bound on tries that nobody waits for any more

Turns == 1..MaxTurns

ASSUME TurnsAssumption ==
    /\ {MaxTurns, MaxOthers, MaxTimeouts} \subseteq Nat
    /\ Turns \subseteq DOMAIN Spoken
    /\ \A n \in DOMAIN Spoken :
          /\ Spoken[n].index \in Indexes
          /\ Spoken[n].words \in Seq([start : Int, end : Int])
    /\ \A o \in Others : o.mode \in Modes /\ o.says.from \in DOMAIN Spoken \ (0..MaxTurns)
    /\ \A table \in Earlier :
          /\ IsFiniteSet(table)
          /\ \A o \in table :
                /\ o.mode \in Modes /\ o.speech \in Int
                /\ o.index \in (IF o.status = "scored" THEN Indexes ELSE {NoIndex})
          /\ \A o, p \in table : o.turn = p.turn => o = p

VARIABLES
    words,          \* _words: the utterance they belong to, 0 for none
    heard,          \* utterances spoken
    added,          \* conversation items added
    tasks,          \* submit_turn tasks that have not begun, first in first out
    tries,          \* requests, with the thread that handles each
    rows,           \* the table fluency_observations, rows of the session
    timeouts, submitted     \* Others that have been submitted

trackerVars == <<words, heard, added, tasks>>
serverVars  == <<rows, submitted, timeouts>>
vars        == <<limiterVars, trackerVars, serverVars, tries>>

\* A turn names the utterance its timings are from, 0 for none; this is what is
\* sent for it.
Sent(says) ==
    [id |-> says.id, tokens |-> 5, window |-> 30, unusable |-> FALSE,
     words |-> IF says.from = 0 THEN <<>> ELSE Spoken[says.from].words,
     index |-> IF says.from = 0 THEN 0 ELSE Spoken[says.from].index]

\* A try: where its thread is, what it found stored, and what it answers.
Try(n, mode, says) ==
    [n |-> n, mode |-> mode, says |-> says, at |-> "arrive", found |-> {},
     answer |-> [status |-> 0]]
Ours(says) == says.from \in 0..MaxTurns

Init ==
    /\ LimiterInit
    /\ words = 0 /\ heard = 0 /\ added = 0
    /\ tasks = <<>>
    /\ tries = {}
    /\ rows \in Earlier
    /\ timeouts = 0 /\ submitted = {}

-----------------------------------------------------------------------------
\* The tracker.  Word timings replace the ones before, and arrive while the
\* learner speaks; the item of an utterance follows when the turn is over.
Hear ==
    /\ heard < MaxTurns
    /\ heard' = heard + 1
    /\ words' \in {words, heard + 1}
    /\ UNCHANGED <<limiterVars, added, tasks, serverVars, tries>>

\* Mutant: an item is added for every event of the STT.
ItemAddedTwice ==
    /\ added < heard + 1
    /\ added' = added + 1
    /\ tasks' = Append(tasks, added + 1)
    /\ UNCHANGED <<limiterVars, words, heard, serverVars, tries>>

ItemAdded ==
    /\ added < heard
    /\ added' = added + 1
    /\ tasks' = Append(tasks, added + 1)
    /\ UNCHANGED <<limiterVars, words, heard, serverVars, tries>>

\* submit_turn up to its await.
\* Mutant: the timings are not forgotten.
SubmitKeepsWords ==
    /\ tasks # <<>>
    /\ tries' = tries \cup {Try(1, "free", [id |-> Head(tasks), from |-> words])}
    /\ tasks' = Tail(tasks)
    /\ UNCHANGED <<limiterVars, words, heard, added, serverVars>>

SubmitTurn ==
    /\ tasks # <<>>
    /\ tries' = tries \cup {Try(1, "free", [id |-> Head(tasks), from |-> words])}
    /\ tasks' = Tail(tasks)
    /\ words' = 0
    /\ UNCHANGED <<limiterVars, heard, added, serverVars>>

\* Another caller; the same turn may be submitted in another mode.
SubmitOther ==
    /\ Cardinality(submitted) < MaxOthers
    /\ \E o \in Others \ submitted :
          /\ tries' = tries \cup {Try(1, o.mode, o.says)}
          /\ submitted' = submitted \cup {o}
    /\ UNCHANGED <<limiterVars, trackerVars, rows, timeouts>>

\* The client's second try: the first one timed out, or was answered by a 500.
Retry ==
    /\ \E t \in tries :
          /\ t.n = 1 /\ Ours(t.says)
          /\ ~\E s \in tries : s.n = 2 /\ s.says = t.says
          /\ \/ t.at # "done" /\ timeouts < MaxTimeouts /\ timeouts' = timeouts + 1
             \/ t.answer.status = 500 /\ UNCHANGED timeouts
          /\ tries' = tries \cup {Try(2, t.mode, t.says)}
    /\ UNCHANGED <<limiterVars, trackerVars, rows, submitted>>

-----------------------------------------------------------------------------
\* The service: the steps of one thread.
Move(t, at)          == tries' = (tries \ {t}) \cup {[t EXCEPT !.at = at]}
Answer(t, status)    == tries' = (tries \ {t}) \cup
                            {[t EXCEPT !.at = "done", !.answer = [status |-> status]]}
RowsOf(turn)         == {o \in rows : o.turn = turn}
OtherMode(mode)      == \E o \in rows : o.mode # mode

Arrive(t) ==
    /\ t.at = "arrive"
    /\ \/ Admit /\ Move(t, "look")
       \/ Refuse /\ Answer(t, 429)
    /\ UNCHANGED rows

\* get_fluency_observation
Look(t) ==
    /\ t.at = "look"
    /\ tries' = (tries \ {t}) \cup {[t EXCEPT !.at = "check", !.found = RowsOf(t.says.id)]}
    /\ UNCHANGED <<limiterVars, rows>>

\* The mode must be the session's.
Check(t) ==
    /\ t.at = "check"
    /\ IF OtherMode(t.mode) THEN Answer(t, 409)
       ELSE Move(t, IF t.found = {} THEN "save" ELSE "list")
    /\ UNCHANGED <<limiterVars, rows>>

\* save_fluency_observation looks once more, ...
SaveLook(t) ==
    /\ t.at = "save"
    /\ tries' = (tries \ {t}) \cup
          {[t EXCEPT !.at = IF RowsOf(t.says.id) = {} THEN "insert" ELSE "list",
                     !.found = RowsOf(t.says.id)]}
    /\ UNCHANGED <<limiterVars, rows>>

\* ... inserts, and when the key is taken (the primary key) takes what is there.
\* Mutant: what was scored is answered although it was not stored.
InsertOwn(t) ==
    /\ t.at = "insert"
    /\ LET own == Observation(t.mode, Sent(t.says))
       IN  /\ rows' = IF RowsOf(t.says.id) = {} THEN rows \cup {own} ELSE rows
           /\ tries' = (tries \ {t}) \cup {[t EXCEPT !.at = "list", !.found = {own}]}
    /\ UNCHANGED limiterVars

Insert(t) ==
    /\ t.at = "insert"
    /\ LET own  == Observation(t.mode, Sent(t.says))
           held == RowsOf(t.says.id)
       IN  /\ rows' = IF held = {} THEN rows \cup {own} ELSE rows
           /\ tries' = (tries \ {t}) \cup
                 {[t EXCEPT !.at = "list", !.found = IF held = {} THEN {own} ELSE held]}
    /\ UNCHANGED limiterVars

\* list_fluency_observations and aggregate_session, which refuses a session of
\* two modes.
\* Mutant: the modes are only checked before the insert.
ListUnchecked(t) ==
    /\ t.at = "list"
    /\ tries' = (tries \ {t}) \cup
             {[t EXCEPT !.at = "done",
                        !.answer = [status |-> 200, of |-> rows,
                                    session |-> Session(t.mode, rows)]]}
    /\ UNCHANGED <<limiterVars, rows>>

List(t) ==
    /\ t.at = "list"
    /\ IF OtherMode(t.mode) THEN Answer(t, 500)
       ELSE tries' = (tries \ {t}) \cup
             {[t EXCEPT !.at = "done",
                        !.answer = [status |-> 200, of |-> rows,
                                    session |-> Session(t.mode, rows)]]}
    /\ UNCHANGED <<limiterVars, rows>>

Serve(t) ==
    /\ Arrive(t) \/ Look(t) \/ Check(t) \/ SaveLook(t) \/ Insert(t) \/ List(t)
    /\ UNCHANGED <<trackerVars, timeouts, submitted>>

Next ==
    \/ Hear \/ ItemAdded \/ SubmitTurn \/ SubmitOther \/ Retry
    \/ \E t \in tries : Serve(t)
    \/ Tick /\ UNCHANGED <<trackerVars, serverVars, tries>>

Spec == Init /\ [][Next]_vars

-----------------------------------------------------------------------------
Steps == {"arrive", "look", "check", "save", "insert", "list", "done"}

TypeOK ==
    /\ LimiterTypeOK
    /\ words \in 0..MaxTurns
    /\ heard \in 0..MaxTurns /\ added \in 0..heard
    /\ tasks \in Seq(Turns)
    /\ \A t \in tries : t.at \in Steps /\ t.mode \in Modes /\ t.n \in 1..2
    /\ \A o \in rows : o.mode \in Modes /\ o.index \in Indexes \cup {NoIndex}
    /\ \A o, p \in rows : o.turn = p.turn => o = p      \* the primary key
    /\ submitted \subseteq Others /\ timeouts \in 0..MaxTimeouts

\* Speech is counted once: the tracker never sends two turns with the timings
\* of the same utterance, however the tasks, the speech and the items interleave.
WordsCountOnce ==
    \A s, t \in tries :
        s.says.from = t.says.from /\ s.says.from \in Turns => s.says.id = t.says.id

Answered == {t \in tries : t.at = "done" /\ t.answer.status = 200}

\* Whoever is told that a turn was observed is shown the observation that is
\* stored, and a session that includes it: two tries of one turn, or two
\* callers, never get different scores for it.
AnsweredIsStored ==
    \A t \in Answered : t.found \subseteq rows /\ t.found \subseteq t.answer.of

\* No score is ever made of turns of two modes, although two first turns of
\* different modes may both be stored.
OneModePerScore ==
    \A t \in Answered : \A o \in t.answer.of : o.mode = t.mode

\* The score of a session lies between those of its weakest and its strongest
\* turn, and its level is the highest one at which the rubric of the
\* assessment would give the index a 3.
ScoreIsFair ==
    \A t \in Answered :
        LET session == t.answer.session
            counted == Counted(t.answer.of)
        IN  session.status = "scored" =>
              /\ \E o \in counted : o.index <= session.index
              /\ \E o \in counted : o.index >= session.index
              /\ \A level \in 0..3 : Estimate(session.index) >= level
                                        <=> DimensionScore(session.index, level) >= 3

\* Every caller that is told a score may rely on it: it is made of what is
\* stored, of one mode, and fair to the turns it is made of.
AnswersHold == AnsweredIsStored /\ OneModePerScore /\ ScoreIsFair
=============================================================================

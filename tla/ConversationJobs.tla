---------------------------- MODULE ConversationJobs ----------------------------
(***************************************************************************)
(* ConversationStart together with JobPersistence: the worker of a job     *)
(* writes every turn of the conversation in a task of its own, and after   *)
(* the conversation it waits for the tasks, writes the whole history once  *)
(* more (free practice only) and finishes the session's row.  A write that *)
(* fails is only logged.  Events are written by the same tasks, nothing    *)
(* reads them, and they are left out.                                      *)
(***************************************************************************)
EXTENDS ConversationStart

CONSTANT MaxItems       \* bound on the turns spoken

ASSUME JobsAssumption == MaxItems \in Nat

VARIABLES
    turns,      \* the table conversation_turns: sets of [item, seq]
    spoken,     \* items are numbered in the order they were spoken
    history,    \* per job: the items its process has heard, session.history
    pending,    \* per job: the tasks that still have to write their turn
    count,      \* per job: _turn_sequence
    broken,     \* per job: is _unrecoverable_error set?
    stage,      \* per job: what the process is doing
    done,       \* per job: how many items reconcile_history has written
    processes   \* per job: how many processes have run it

log  == <<turns, spoken, history, pending, count, broken, stage, done, processes>>
vars == <<startVars, log>>

Items  == 1..MaxItems
Turns  == [item : Items, seq : Items]
Stages == {"idle", "talking", "flushing", "draining", "reconciling", "finishing"}

\* The mode a job was dispatched with: guided sessions have no AgentSession.
Guided(j) == job[j].contract.mode = "guided"

Init ==
    /\ StartInit
    /\ turns = {}
    /\ spoken = 0
    /\ history = [j \in Jobs |-> {}]
    /\ pending = [j \in Jobs |-> {}]
    /\ count = [j \in Jobs |-> 0]
    /\ broken = [j \in Jobs |-> FALSE]
    /\ stage = [j \in Jobs |-> "idle"]
    /\ done = [j \in Jobs |-> 0]
    /\ processes = [j \in Jobs |-> 0]

In(j, st)    == job[j].phase = "running" /\ stage[j] = st
Enter(j, st) == stage' = [stage EXCEPT ![j] = st]
Leave(j)     == job' = [job EXCEPT ![j].phase = "left"] /\ Enter(j, "idle")
Fault        == faults < MaxFaults /\ faults' = faults + 1

\* What a step of the worker leaves alone.
Api == UNCHANGED <<holder, request, livekit, deletes, reruns>>

-----------------------------------------------------------------------------
\* A new JobPersistence, whose start claims the row (or ends the job).
StartJob(j) ==
    /\ Claim(j)
    /\ history' = [history EXCEPT ![j] = {}]
    /\ pending' = [pending EXCEPT ![j] = {}]
    /\ count' = [count EXCEPT ![j] = 0]
    /\ broken' = [broken EXCEPT ![j] = FALSE]
    /\ done' = [done EXCEPT ![j] = 0]
    /\ processes' = [processes EXCEPT ![j] = @ + 1]
    /\ IF job'[j].phase = "running" THEN Enter(j, "talking") ELSE UNCHANGED stage
    /\ UNCHANGED <<turns, spoken>>

\* record_turn and record_text_turn take the next number and schedule a task.
Say(j) ==
    /\ In(j, "talking")
    /\ spoken < MaxItems
    /\ spoken' = spoken + 1
    /\ history' = [history EXCEPT ![j] = @ \cup {spoken + 1}]
    /\ count' = [count EXCEPT ![j] = @ + 1]
    /\ pending' = [pending EXCEPT ![j] = @ \cup {[item |-> spoken + 1, seq |-> count[j] + 1]}]
    /\ UNCHANGED <<startVars, turns, broken, stage, done, processes>>

\* record_error for an error the AgentSession cannot recover from.
Break(j) ==
    /\ In(j, "talking")
    /\ ~Guided(j)
    /\ broken' = [broken EXCEPT ![j] = TRUE]
    /\ UNCHANGED <<startVars, turns, spoken, history, pending, count, stage, done, processes>>

\* upsert_turn.  A turn that is stored keeps its number; a new one needs the
\* session's row (foreign key) and a number that is free (unique constraint).
Stored(item)   == \E t \in turns : t.item = item
\* Mutant: every write inserts its row.
InsertsOnly(t) == Exists /\ \A u \in turns : u.seq # t.seq
Accepts(t)     == Stored(t.item) \/ (Exists /\ \A u \in turns : u.seq # t.seq)
\* Mutant: the number is one too high.
OneTooHigh(t)  == IF Stored(t.item) THEN turns ELSE turns \cup {[t EXCEPT !.seq = @ + 1]}
Upserted(t)    == IF Stored(t.item) THEN turns ELSE turns \cup {t}

\* A task ends: it wrote its turn, or its exception was logged.  A locked row
\* makes the foreign key wait.
\* Mutant: the number is taken when the row is written.
WriteLate(j, t) ==
    /\ job[j].phase = "running"
    /\ t \in pending[j]
    /\ holder = Nobody
    /\ turns' = turns \cup {[t EXCEPT !.seq = Cardinality(turns) + 1]}
    /\ pending' = [pending EXCEPT ![j] = @ \ {t}]
    /\ UNCHANGED <<row, job, spoken, history, count, broken, stage, done, processes, faults>> /\ Api

Write(j, t) ==
    /\ job[j].phase = "running"
    /\ t \in pending[j]
    /\ holder = Nobody
    /\ \/ turns' = (IF Accepts(t) THEN Upserted(t) ELSE turns) /\ UNCHANGED faults
       \/ Fault /\ UNCHANGED turns
    /\ pending' = [pending EXCEPT ![j] = @ \ {t}]
    /\ UNCHANGED <<row, job, spoken, history, count, broken, stage, done, processes>> /\ Api

\* The conversation is over: on_session_end, or the end of the guided script.
HangUp(j) ==
    /\ In(j, "talking")
    /\ Enter(j, "flushing")
    /\ UNCHANGED <<startVars, turns, spoken, history, pending, count, broken, done, processes>>

\* fail_before_session_end, when the guided script raises or the AgentSession
\* does not start; without an AgentSession there is only a flush left to do.
FailEarly(j) ==
    /\ In(j, "talking")
    /\ Guided(j) \/ history[j] = {}
    /\ holder = Nobody
    /\ broken' = [broken EXCEPT ![j] = TRUE]
    /\ \/ row' = Settled("failed") /\ UNCHANGED faults
       \/ Fault /\ UNCHANGED row
    /\ \/ Enter(j, "draining")
       \/ ~Guided(j) /\ Enter(j, "flushing")
    /\ UNCHANGED <<job, turns, spoken, history, pending, count, done, processes>> /\ Api

\* flush
\* Mutant: the history is not reconciled.
FlushedOnly(j) ==
    /\ pending[j] = {}
    /\ \/ In(j, "flushing") /\ Enter(j, "finishing") /\ UNCHANGED job
       \/ In(j, "draining") /\ Leave(j)
    /\ UNCHANGED <<row, holder, request, livekit, bounds, turns, spoken, history, pending,
                   count, broken, done, processes>>

Flushed(j) ==
    /\ pending[j] = {}
    /\ \/ In(j, "flushing") /\ Enter(j, IF Guided(j) THEN "finishing" ELSE "reconciling")
                            /\ UNCHANGED job
       \/ In(j, "draining") /\ Leave(j)
    /\ UNCHANGED <<row, holder, request, livekit, bounds, turns, spoken, history, pending,
                   count, broken, done, processes>>

\* reconcile_history: the items of the history again, numbered from 1.  An
\* exception ends finalize: it is logged, and the row stays as it is.
Nth(S, n) == CHOOSE x \in S : Cardinality({y \in S : y <= x}) = n

Reconcile(j) ==
    /\ In(j, "reconciling")
    /\ holder = Nobody
    /\ IF done[j] = Cardinality(history[j])
       THEN Enter(j, "finishing") /\ UNCHANGED <<turns, done, job, faults>>
       ELSE LET t == [item |-> Nth(history[j], done[j] + 1), seq |-> done[j] + 1]
            IN  \/ /\ Accepts(t)
                   /\ turns' = Upserted(t)
                   /\ done' = [done EXCEPT ![j] = @ + 1]
                   /\ UNCHANGED <<stage, job, faults>>
                \/ /\ ~Accepts(t) /\ Leave(j) /\ UNCHANGED <<turns, done, faults>>
                \/ /\ Fault /\ Leave(j) /\ UNCHANGED <<turns, done>>
    /\ UNCHANGED <<row, spoken, history, pending, count, broken, processes>> /\ Api

\* finalize_session, and for a guided session whose last write failed
\* mark_failed.
\* Mutant: what happened before the end is forgotten.
FinishCompleted(j) ==
    /\ In(j, "finishing")
    /\ holder = Nobody
    /\ row' = Settled("completed")
    /\ Leave(j)
    /\ UNCHANGED <<turns, spoken, history, pending, count, broken, done, processes, faults>> /\ Api

Finish(j) ==
    /\ In(j, "finishing")
    /\ holder = Nobody
    /\ \/ row' = Settled(IF broken[j] THEN "failed" ELSE "completed") /\ UNCHANGED faults
       \/ Fault /\ row' = (IF Guided(j) THEN Settled("failed") ELSE row)
    /\ Leave(j)
    /\ UNCHANGED <<turns, spoken, history, pending, count, broken, done, processes>> /\ Api

-----------------------------------------------------------------------------
\* The other steps: the tasks of a dead process are gone, and DELETE takes the
\* turns along.
DieWithTasks(j) ==
    /\ Die(j)
    /\ pending' = [pending EXCEPT ![j] = {}]
    /\ Enter(j, "idle")
    /\ UNCHANGED <<turns, spoken, history, count, broken, done, processes>>

DeleteAll ==
    /\ Delete
    /\ turns' = {}
    /\ UNCHANGED <<spoken, history, pending, count, broken, stage, done, processes>>

Elsewhere ==
    \/ \E r \in Requests : Start(r) \/ Fail(r)
    \/ \E j \in Jobs : Rerun(j)
    \/ Expire

Worker(j) ==
    \/ StartJob(j) \/ HangUp(j) \/ Flushed(j) \/ Reconcile(j) \/ Finish(j)
    \/ \E t \in pending[j] : Write(j, t)

Next ==
    \/ Elsewhere /\ UNCHANGED log
    \/ \E j \in Jobs : Worker(j) \/ Say(j) \/ Break(j) \/ FailEarly(j) \/ DieWithTasks(j)
    \/ DeleteAll

Spec == Init /\ [][Next]_vars

\* A request and a worker that are running go on, and every conversation ends.
\* A request that waits for the row gets it: the lock queue is first in, first
\* out.  Faults, deletions and what is said are never promised.
FairSpec ==
    /\ Spec
    /\ \A r \in Requests : WF_vars(step[r] # "idle" /\ step[r] # "lock" /\ Start(r) /\ UNCHANGED log)
    /\ \A r \in Requests : SF_vars(step[r] = "lock" /\ Start(r) /\ UNCHANGED log)
    /\ \A j \in Jobs : SF_vars(Worker(j))

-----------------------------------------------------------------------------
TypeOK ==
    /\ StartTypeOK
    /\ turns \subseteq Turns
    /\ spoken \in 0..MaxItems
    /\ history \in [Jobs -> SUBSET Items]
    /\ pending \in [Jobs -> SUBSET Turns]
    /\ count \in [Jobs -> 0..MaxItems]
    /\ broken \in [Jobs -> BOOLEAN]
    /\ stage \in [Jobs -> Stages]
    /\ done \in [Jobs -> 0..MaxItems]
    /\ processes \in [Jobs -> 0..(MaxReruns + 1)]

\* Tasks commit in any order, some fail and reconciliation fills the gaps, yet
\* GET /turns lists the turns in the order they were spoken, as long as no
\* second process took a job over: that one numbers its turns from 1 again.
TurnsInOrder ==
    reruns = 0 /\ deletes = 0 =>
        \A t, u \in turns : t.item < u.item => t.seq < u.seq

\* A free conversation that is reported as completed has every turn of its
\* history in the table: the writes that failed on the way were repaired.
CompletedHasHistory ==
    row.status = "completed" /\ deletes = 0 =>
        \A j \in Jobs : row.job = j /\ ~Guided(j) => \A i \in history[j] : Stored(i)

\* The turns a conversation leaves behind are its history.
HistoryKept == TurnsInOrder /\ CompletedHasHistory

\* A conversation that ended is finished in the table, so that it is not shown
\* as running for ever: lost writes on the way do not prevent it, only a fault
\* of the final writes themselves, or a job that a second process took over.
JobIsFinished ==
    \A j \in Jobs :
        (In(j, "flushing") /\ faults = MaxFaults /\ processes[j] = 1)
            ~> (row.status \in Finished \cup {"none"} \/ deletes > 0)

\* The row reaches one end, and keeps it.
RowSettles == FinishedIsFinal /\ JobIsFinished

\* A start that was answered with a room gets its agent: the worker claims the
\* row, unless the claim of the row's own dispatch failed.  (Then the row stays
\* as it is, and whoever starts the session again is told that it is connected.
\* After a DELETE the room may still hold the dispatch of a job that is over,
\* and start takes it for an agent on its way.)
ClaimFailed == \E j \in Jobs : row.dispatch = j /\ job[j].phase = "lost"

StartedIsClaimed ==
    (\E r \in Requests : step[r] = "connected") /\ row.status = "starting"
        ~> (row.status # "starting" \/ ClaimFailed \/ deletes > 0)
=============================================================================

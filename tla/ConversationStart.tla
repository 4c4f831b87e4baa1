--------------------------- MODULE ConversationStart ---------------------------
(***************************************************************************)
(* POST /sessions/start and the worker's claim of the session, for one     *)
(* session id: requests of any number of API replicas, the row in          *)
(* conversation_sessions, and LiveKit's room with its dispatches (external,*)
(* modelled from how orchestration.py uses it).  Each action is one        *)
(* database round trip or one LiveKit call; a request may fail at any of   *)
(* them, also after the dispatch was made and before its answer arrived.   *)
(***************************************************************************)
EXTENDS FiniteSets, Naturals

CONSTANTS
    Requests,       \* start requests for the session id
    Nobody,         \* the holder of a free row lock
    Contracts,      \* metadata a request may carry: [subject, mode]
    Jobs,           \* LiveKit's ids, one for a dispatch and the job it makes
    NoJob,
    MaxFaults,      \* bound on failed calls and deaths of processes
    MaxDeletes,     \* bound on DELETE /sessions/{id}
    MaxReruns       \* bound on jobs LiveKit hands to a fresh process

ASSUME StartAssumption ==
    /\ Nobody \notin Requests
    /\ NoJob \notin Jobs
    /\ Contracts # {}
    /\ {MaxFaults, MaxDeletes, MaxReruns} \subseteq Nat

VARIABLES
    row,                \* the row of conversation_sessions
    holder,             \* the request that has the row locked
    step, asked, found, \* per request: its next call, its metadata, its dispatch
    room, dispatches,   \* LiveKit: does the room exist, and its dispatches
    job,                \* LiveKit's jobs: their phase and their metadata
    faults, deletes, reruns

livekit   == <<room, dispatches>>
request   == <<step, asked, found>>
bounds    == <<faults, deletes, reruns>>
startVars == <<row, holder, request, livekit, job, bounds>>

Finished == {"completed", "failed"}
Calls    == {"read", "insert", "lock", "list", "room", "relist", "create", "commit"}
Answers  == {"connected", "conflict", "ended", "error"}
Phases   == {"none", "assigned", "running", "refused", "lost", "crashed", "left"}

\* Any contract will do for the fields of a row or a job that is not there.
Unbound == CHOOSE c \in Contracts : TRUE
NoRow   == [status |-> "none", contract |-> Unbound, job |-> NoJob, dispatch |-> NoJob]
Exists  == row.status # "none"

StartInit ==
    /\ row = NoRow
    /\ holder = Nobody
    /\ step = [r \in Requests |-> "idle"]
    /\ asked = [r \in Requests |-> Unbound]
    /\ found = [r \in Requests |-> NoJob]
    /\ room = FALSE
    /\ dispatches = {}
    /\ job = [j \in Jobs |-> [phase |-> "none", contract |-> Unbound]]
    /\ faults = 0 /\ deletes = 0 /\ reruns = 0

-----------------------------------------------------------------------------
(* ConversationOrchestrator.start                                           *)

GoTo(r, call) == step' = [step EXCEPT ![r] = call]

Begin(r) ==
    /\ step[r] = "idle"
    /\ \E c \in Contracts : asked' = [asked EXCEPT ![r] = c]
    /\ GoTo(r, "read")
    /\ UNCHANGED <<row, holder, found, livekit, job, bounds>>

\* reserve_session looks for the row ...
Read(r) ==
    /\ step[r] = "read"
    /\ GoTo(r, IF Exists THEN "lock" ELSE "insert")
    /\ UNCHANGED <<row, holder, asked, found, livekit, job, bounds>>

\* ... and inserts it; a replica that was faster makes the insert fail and its
\* row is used.
Insert(r) ==
    /\ step[r] = "insert"
    /\ row' = IF Exists THEN row
              ELSE [NoRow EXCEPT !.status = "starting", !.contract = asked[r]]
    /\ GoTo(r, "lock")
    /\ UNCHANGED <<holder, asked, found, livekit, job, bounds>>

\* lock_session (SELECT ... FOR UPDATE), the contract and the status.  Only a
\* row without a dispatch stays locked for the calls to LiveKit.
Verdict(c) ==
    IF ~Exists THEN "error"
    ELSE IF row.contract # c THEN "conflict"
    ELSE IF row.status \in Finished THEN "ended"
    ELSE IF row.dispatch # NoJob THEN "connected"
    ELSE "list"

\* Mutant: a plain SELECT without FOR UPDATE.
SelectOnly(r) ==
    /\ step[r] = "lock"
    /\ GoTo(r, Verdict(asked[r]))
    /\ UNCHANGED <<row, holder, asked, found, livekit, job, bounds>>

Lock(r) ==
    /\ step[r] = "lock"
    /\ holder = Nobody
    /\ GoTo(r, Verdict(asked[r]))
    /\ holder' = IF Verdict(asked[r]) = "list" THEN r ELSE Nobody
    /\ UNCHANGED <<row, asked, found, livekit, job, bounds>>

\* _matching_dispatch: a dispatch of this session that the room already has.
Look(r, otherwise) ==
    /\ IF dispatches = {}
       THEN GoTo(r, otherwise) /\ UNCHANGED found
       ELSE /\ GoTo(r, "commit")
            /\ \E d \in dispatches : found' = [found EXCEPT ![r] = d]
    /\ UNCHANGED <<row, holder, asked, livekit, job, bounds>>

List(r)      == step[r] = "list" /\ Look(r, "room")
ListAgain(r) == step[r] = "relist" /\ Look(r, "create")

\* _ensure_room
EnsureRoom(r) ==
    /\ step[r] = "room"
    /\ room' = TRUE
    /\ GoTo(r, "relist")
    /\ UNCHANGED <<row, holder, asked, found, dispatches, job, bounds>>

\* create_dispatch: a fresh id, whose job LiveKit assigns at once.
Unused == {j \in Jobs : job[j].phase = "none"}
Fresh  == CHOOSE j \in Unused : TRUE

Made(r) ==
    /\ Unused # {}
    /\ dispatches' = dispatches \cup {Fresh}
    /\ job' = [job EXCEPT ![Fresh] = [phase |-> "assigned", contract |-> asked[r]]]

Create(r) ==
    /\ step[r] = "create"
    /\ Made(r)
    /\ found' = [found EXCEPT ![r] = Fresh]
    /\ GoTo(r, "commit")
    /\ UNCHANGED <<row, holder, asked, room, bounds>>

\* The end of the locked block writes the dispatch and frees the row.
Commit(r) ==
    /\ step[r] = "commit"
    /\ row' = [row EXCEPT !.dispatch = found[r]]
    /\ holder' = Nobody
    /\ GoTo(r, "connected")
    /\ UNCHANGED <<asked, found, livekit, job, bounds>>

\* A call raises, or the replica dies: the transaction is rolled back.  The
\* dispatch may have been made without the request learning of it.
Fail(r) ==
    /\ step[r] \in Calls
    /\ faults < MaxFaults
    /\ faults' = faults + 1
    /\ GoTo(r, "error")
    /\ holder' = IF holder = r THEN Nobody ELSE holder
    /\ \/ UNCHANGED <<dispatches, job>>
       \/ step[r] = "create" /\ Made(r)
    /\ UNCHANGED <<row, asked, found, room, deletes, reruns>>

-----------------------------------------------------------------------------
(* SessionRepository: what the worker and the API do to the row             *)

\* create_session by the worker of job j.  _matches leaves the mode out.
\* Mutant: only the dispatch that the row names may claim it.
ClaimOwnDispatch(j) ==
    /\ job[j].phase = "assigned"
    /\ holder = Nobody
    /\ LET runs == row.dispatch = j
       IN  /\ row' = IF runs THEN [row EXCEPT !.status = "active", !.job = j] ELSE row
           /\ job' = [job EXCEPT ![j].phase = IF runs THEN "running" ELSE "refused"]
    /\ UNCHANGED <<holder, request, livekit, bounds>>

Claim(j) ==
    /\ job[j].phase = "assigned"
    /\ holder = Nobody
    /\ LET mine  == job[j].contract
           fits  == row.contract.subject = mine.subject
           taken == [row EXCEPT !.status = "active", !.job = j]
           runs  == \/ ~Exists
                    \/ fits /\ (row.status = "starting" \/ row.job = j)
       IN  /\ row' = IF ~Exists THEN [taken EXCEPT !.contract = mine]
                     ELSE IF fits /\ row.status = "starting" THEN taken
                     ELSE row
           /\ job' = [job EXCEPT ![j].phase = IF runs THEN "running" ELSE "refused"]
    /\ UNCHANGED <<holder, request, livekit, bounds>>

\* finalize_session and mark_failed: whatever row has the id, if there is one.
Settled(status) == IF Exists THEN [row EXCEPT !.status = status] ELSE row

\* delete_session
Delete ==
    /\ Exists
    /\ holder = Nobody
    /\ deletes < MaxDeletes
    /\ deletes' = deletes + 1
    /\ row' = NoRow
    /\ UNCHANGED <<holder, request, livekit, job, faults, reruns>>

-----------------------------------------------------------------------------
(* LiveKit (external)                                                       *)

\* A worker process dies, or its claim raises: english_tutor_session awaits
\* persistence.start outside its try block, so that nobody tries it again.
Fate(j) == IF job[j].phase = "assigned" THEN "lost" ELSE "crashed"

Die(j) ==
    /\ job[j].phase \in {"assigned", "running"}
    /\ faults < MaxFaults
    /\ faults' = faults + 1
    /\ job' = [job EXCEPT ![j].phase = Fate(j)]
    /\ UNCHANGED <<row, holder, request, livekit, deletes, reruns>>

\* LiveKit may give the job to a fresh process.
Rerun(j) ==
    /\ job[j].phase \in {"lost", "crashed"}
    /\ j \in dispatches
    /\ reruns < MaxReruns
    /\ reruns' = reruns + 1
    /\ job' = [job EXCEPT ![j].phase = "assigned"]
    /\ UNCHANGED <<row, holder, request, livekit, faults, deletes>>

\* A room without an agent empties and expires after empty_timeout, which is
\* far longer than the calls between _ensure_room and create_dispatch.
Expire ==
    /\ room
    /\ \A j \in Jobs : job[j].phase \notin {"assigned", "running"}
    /\ \A r \in Requests : step[r] \notin {"relist", "create"}
    /\ room' = FALSE
    /\ dispatches' = {}
    /\ UNCHANGED <<row, holder, request, job, bounds>>

-----------------------------------------------------------------------------
Start(r) ==
    \/ Begin(r) \/ Read(r) \/ Insert(r) \/ Lock(r) \/ List(r) \/ EnsureRoom(r)
    \/ ListAgain(r) \/ Create(r) \/ Commit(r)

StartTypeOK ==
    /\ row \in [status : {"none", "starting", "active"} \cup Finished,
               contract : Contracts, job : Jobs \cup {NoJob}, dispatch : Jobs \cup {NoJob}]
    /\ holder \in Requests \cup {Nobody}
    /\ step \in [Requests -> {"idle"} \cup Calls \cup Answers]
    /\ asked \in [Requests -> Contracts]
    /\ found \in [Requests -> Jobs \cup {NoJob}]
    /\ room \in BOOLEAN
    /\ dispatches \subseteq Jobs
    /\ job \in [Jobs -> [phase : Phases, contract : Contracts]]
    /\ faults \in 0..MaxFaults /\ deletes \in 0..MaxDeletes /\ reruns \in 0..MaxReruns

\* Retries, replicas, lost answers and dead processes never put two dispatches
\* of one session in its room: one agent speaks to the learner (start holds
\* the row while it looks, and looks again after the room was made).
OneDispatch == Cardinality(dispatches) <= 1

\* A finished session is never started or claimed again, and a failed one does
\* not turn into a completed one; only DELETE ends its life.  (A job that a
\* second process took over has forgotten the first one's error.)
FinishedIsFinal ==
    [][row.status \in Finished /\ reruns = 0 =>
           row'.status \in {row.status, "none"}]_startVars
=============================================================================

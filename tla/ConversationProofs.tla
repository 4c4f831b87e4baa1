-------------------------- MODULE ConversationProofs --------------------------
(***************************************************************************)
(* Proofs about ConversationJobs for any requests, jobs, contracts and     *)
(* bounds.  The invariant comes in two halves: what start and LiveKit see  *)
(* (the row, its lock, the room and who lives in it), and what the workers *)
(* do with the log of the conversation.                                    *)
(***************************************************************************)
EXTENDS ConversationJobs, FiniteSetTheorems, WellFoundedInduction, TLAPS

-----------------------------------------------------------------------------
(***************************************************************************)
(* Nth: the elements of a history, in the order they were spoken.          *)
(***************************************************************************)
\* A set of numbers has a least member.
LEMMA LeastOf ==
    ASSUME NEW S \in SUBSET Nat, S # {}
    PROVE  \E m \in S : \A n \in S : m <= n
<1> DEFINE less == {ss \in Nat \X Nat : ss[1] < ss[2]}
<1>1. IsWellFoundedOn(less, Nat)
  BY NatLessThanWellFounded DEF OpToRel
<1>2. PICK m \in S : \A n \in S : ~(<<n, m>> \in less)
  <2> HIDE DEF less
  <2> QED
    BY <1>1, WFMin
<1>3. ASSUME NEW n \in S PROVE m <= n
  <2>1. m \in Nat /\ n \in Nat
    OBVIOUS
  <2>2. <<n, m>> \in less <=> n < m
    BY <2>1
  <2> QED
    BY <1>2, <2>1, <2>2
<1> QED
  BY <1>3

UpTo(S, k) == {y \in S : y <= k}

LEMMA UpToFacts ==
    ASSUME NEW m \in Nat, NEW S \in SUBSET (1 .. m), NEW k \in Int
    PROVE  /\ \A y : y \in UpTo(S, k) <=> y \in S /\ y <= k
           /\ \A y \in S : y \in Nat /\ 1 <= y /\ y <= m
           /\ IsFiniteSet(S) /\ Cardinality(S) \in Nat
           /\ IsFiniteSet(UpTo(S, k)) /\ Cardinality(UpTo(S, k)) \in Nat
           /\ Cardinality(UpTo(S, k)) <= Cardinality(S)
<1>1. IsFiniteSet(1 .. m)
  <2>1. 1 \in Int /\ m \in Int
    OBVIOUS
  <2> QED
    BY ONLY <2>1, FS_Interval
<1>2. IsFiniteSet(S)
  BY <1>1, FS_Subset
<1>3. UpTo(S, k) \subseteq S /\ \A y : y \in UpTo(S, k) <=> y \in S /\ y <= k
  BY DEF UpTo
<1>4. \A y \in S : y \in Nat /\ 1 <= y /\ y <= m
  OBVIOUS
<1>5. IsFiniteSet(UpTo(S, k)) /\ Cardinality(UpTo(S, k)) <= Cardinality(S)
  BY <1>2, <1>3, FS_Subset
<1>6. Cardinality(S) \in Nat /\ Cardinality(UpTo(S, k)) \in Nat
  BY <1>2, <1>5, FS_CardinalityType
<1> QED
  BY <1>2, <1>3, <1>4, <1>5, <1>6

\* No two members have the same number of members up to them.
LEMMA RanksDiffer ==
    ASSUME NEW m \in Nat, NEW S \in SUBSET (1 .. m), NEW x \in S, NEW y \in S,
           Cardinality(UpTo(S, x)) = Cardinality(UpTo(S, y))
    PROVE  x = y
<1>1. x \in Int /\ y \in Int
  OBVIOUS
<1>2. ASSUME NEW a \in S, NEW b \in S, a < b,
             Cardinality(UpTo(S, a)) = Cardinality(UpTo(S, b))
      PROVE  FALSE
  <2>1. a \in Int /\ b \in Int
    OBVIOUS
  <2>2. UpTo(S, a) \subseteq UpTo(S, b) /\ b \in UpTo(S, b) /\ b \notin UpTo(S, a)
    <3>1. \A z : z \in UpTo(S, a) <=> z \in S /\ z <= a
      BY <2>1, UpToFacts
    <3>2. \A z : z \in UpTo(S, b) <=> z \in S /\ z <= b
      BY <2>1, UpToFacts
    <3>3. \A z \in S : z <= a => z <= b
      BY <1>2, <2>1
    <3>4. b <= b /\ ~(b <= a)
      BY <1>2, <2>1
    <3> QED
      BY <3>1, <3>2, <3>3, <3>4
  <2>3. IsFiniteSet(UpTo(S, b))
    BY <2>1, UpToFacts
  <2> QED
    BY <1>2, <2>2, <2>3, FS_Subset
<1> QED
  BY <1>1, <1>2

LEMMA NthIsThere ==
    ASSUME NEW m \in Nat, NEW S \in SUBSET (1 .. m), NEW n \in 1 .. Cardinality(S)
    PROVE  Nth(S, n) \in S /\ Cardinality(UpTo(S, Nth(S, n))) = n
<1> DEFINE K == {k \in Nat : Cardinality(UpTo(S, k)) >= n}
<1>1. Cardinality(S) \in Nat /\ n \in Nat /\ n >= 1 /\ n <= Cardinality(S)
  <2>1. Cardinality(S) \in Nat
    BY UpToFacts
  <2> QED
    BY <2>1
<1>2. UpTo(S, m) = S /\ m \in K
  <2>1. UpTo(S, m) = S
    <3>1. \A y \in S : y <= m
      OBVIOUS
    <3> QED
      BY <3>1 DEF UpTo
  <2> QED
    BY <1>1, <2>1
<1>3. PICK k \in K : \A l \in K : k <= l
  BY <1>2, LeastOf
<1>4. k # 0
  <2>1. UpTo(S, 0) = {}
    <3>1. \A y \in S : y \in Nat /\ ~(y <= 0)
      OBVIOUS
    <3> QED
      BY <3>1 DEF UpTo
  <2>2. Cardinality(UpTo(S, 0)) = 0
    BY <2>1, FS_EmptySet
  <2> QED
    BY <1>1, <2>2
<1>5. k - 1 \in Nat /\ k - 1 \in Int /\ k \in Int /\ ~(k <= k - 1)
  BY <1>4
<1>6. /\ Cardinality(UpTo(S, k - 1)) \in Nat /\ Cardinality(UpTo(S, k)) \in Nat
      /\ IsFiniteSet(UpTo(S, k - 1))
  BY <1>5, UpToFacts
<1>7. Cardinality(UpTo(S, k - 1)) < n /\ Cardinality(UpTo(S, k)) >= n
  BY <1>1, <1>3, <1>5, <1>6
<1>8. \A y \in S : y <= k <=> y <= k - 1 \/ y = k
  BY <1>1, <1>5
<1>9. k \in S
  <2> SUFFICES ASSUME k \notin S PROVE FALSE
    OBVIOUS
  <2>1. UpTo(S, k) = UpTo(S, k - 1)
    BY <1>8 DEF UpTo
  <2> QED
    BY <1>1, <1>6, <1>7, <2>1
<1>10. Cardinality(UpTo(S, k)) = n
  <2>1. UpTo(S, k) = UpTo(S, k - 1) \cup {k} /\ k \notin UpTo(S, k - 1)
    BY <1>5, <1>8, <1>9 DEF UpTo
  <2>2. Cardinality(UpTo(S, k)) = Cardinality(UpTo(S, k - 1)) + 1
    BY <1>6, <2>1, FS_AddElement
  <2> QED
    BY <1>1, <1>6, <1>7, <2>2
<1>11. \E x \in S : Cardinality({y \in S : y <= x}) = n
  BY <1>9, <1>10 DEF UpTo
<1> QED
  BY <1>11 DEF Nth, UpTo

\* Every member is one of them, ...
LEMMA EveryIsNth ==
    ASSUME NEW m \in Nat, NEW S \in SUBSET (1 .. m), NEW x \in S
    PROVE  \E n \in 1 .. Cardinality(S) : Nth(S, n) = x
<1> DEFINE n == Cardinality(UpTo(S, x))
<1>1. x \in Int /\ n \in Nat /\ n <= Cardinality(S) /\ Cardinality(S) \in Nat
      /\ IsFiniteSet(UpTo(S, x))
  <2>1. x \in Int
    OBVIOUS
  <2> QED
    BY <2>1, UpToFacts
<1>2. x \in UpTo(S, x)
  BY <1>1 DEF UpTo
<1>3. n # 0
  BY <1>1, <1>2, FS_EmptySet
<1>4. n \in 1 .. Cardinality(S)
  BY <1>1, <1>3
<1>5. Nth(S, n) \in S /\ Cardinality(UpTo(S, Nth(S, n))) = n
  BY <1>4, NthIsThere
<1>6. Nth(S, n) = x
  BY <1>5, RanksDiffer
<1> QED
  BY <1>4, <1>6

\* ... and where none is missing the n-th is n.
LEMMA NthOfAll ==
    ASSUME NEW m \in Nat, NEW n \in 1 .. m
    PROVE  Cardinality(1 .. m) = m /\ Nth(1 .. m, n) = n
<1>1. Cardinality(1 .. m) = m
  <2>1. 1 \in Int /\ m \in Int /\ (IF 1 > m THEN 0 ELSE m - 1 + 1) = m
    OBVIOUS
  <2> QED
    BY <2>1, FS_Interval
<1>2. n \in Nat /\ n \in 1 .. Cardinality(1 .. m)
  BY <1>1
<1>3. UpTo(1 .. m, n) = 1 .. n
  BY DEF UpTo
<1>4. Cardinality(1 .. n) = n
  <2>1. 1 \in Int /\ n \in Int /\ (IF 1 > n THEN 0 ELSE n - 1 + 1) = n
    BY <1>2
  <2> QED
    BY <2>1, FS_Interval
<1>5. Nth(1 .. m, n) \in 1 .. m /\ Cardinality(UpTo(1 .. m, Nth(1 .. m, n))) = n
  BY <1>2, NthIsThere
<1>6. n \in 1 .. m /\ Cardinality(UpTo(1 .. m, n)) = n
  BY <1>3, <1>4
<1>7. Nth(1 .. m, n) = n
  BY <1>5, <1>6, RanksDiffer
<1> QED
  BY <1>1, <1>7

-----------------------------------------------------------------------------
(***************************************************************************)
(* The invariant: the row and the room.                                    *)
(***************************************************************************)
\* Between the SELECT ... FOR UPDATE and the commit the row belongs to one
\* request, and it is a row that is not finished.
Calling == {"list", "room", "relist", "create", "commit"}

RowHeld ==
    /\ \A r \in Requests : holder = r <=> step[r] \in Calling
    /\ holder # Nobody => row.status \in {"starting", "active"}

\* Whoever is on its way to the room, or in it, is its one dispatch.
Live(j) == job[j].phase \in {"assigned", "running"}

Alone == \A d, e \in dispatches : d = e

OneAgent ==
    /\ \A r \in Requests : step[r] = "create" => dispatches = {}
    /\ Alone
    /\ \A j \in Jobs : Live(j) => dispatches = {j}

StartingIsFree == row.status \in {"none", "starting"} => row.job = NoJob

StartInv == StartTypeOK /\ RowHeld /\ OneAgent /\ StartingIsFree

-----------------------------------------------------------------------------
(***************************************************************************)
(* The invariant: the workers and the log.                                 *)
(***************************************************************************)
LogTypeOK ==
    /\ turns \subseteq Turns
    /\ spoken \in 0..MaxItems
    /\ history \in [Jobs -> SUBSET Items]
    /\ pending \in [Jobs -> SUBSET Turns]
    /\ count \in [Jobs -> 0..MaxItems]
    /\ broken \in [Jobs -> BOOLEAN]
    /\ stage \in [Jobs -> Stages]
    /\ done \in [Jobs -> 0..MaxItems]
    /\ processes \in [Jobs -> 0..(MaxReruns + 1)]

Bounded ==
    \A j \in Jobs :
        /\ count[j] <= spoken
        /\ history[j] \subseteq 1 .. spoken
        /\ done[j] <= Cardinality(history[j])
        /\ processes[j] <= reruns + 1
        /\ job[j].phase = "assigned" => processes[j] <= reruns
        /\ job[j].phase = "none" => processes[j] = 0

\* Without a second process, only the job that broke is left in a failed row.
EndedWell ==
    row.status \in Finished /\ reruns = 0 =>
        \A j \in Jobs :
            /\ job[j].phase # "assigned"
            /\ job[j].phase = "running" =>
                  row.status = "failed" /\ broken[j] /\ stage[j] # "talking"

\* Without a DELETE the row belongs to the only job that ever worked.
Worked(j) == job[j].phase \in {"running", "crashed", "left"}

OwnRow ==
    deletes = 0 =>
        /\ \A j \in Jobs : job[j].phase # "none" => Exists
        /\ \A j \in Jobs : Worked(j) => row.job = j
        /\ \A j \in Jobs : row.job = j => job[j].phase # "none"
        /\ row.status = "completed" => \A j \in Jobs : row.job = j => job[j].phase = "left"

\* What reconcile_history has reached so far is stored.
AllStored(j) == \A i \in history[j] : Stored(i)

Repairs(j) ==
    /\ In(j, "talking") \/ In(j, "flushing") => done[j] = 0
    /\ deletes = 0 /\ In(j, "reconciling") => \A n \in 1 .. done[j] : Stored(Nth(history[j], n))
    /\ deletes = 0 /\ In(j, "finishing") /\ ~Guided(j) => AllStored(j)

Repaired == \A j \in Jobs : Repairs(j)

\* Without a second process and without a DELETE a turn has the number of its
\* item, in the table and in every task.
InStep ==
    reruns = 0 /\ deletes = 0 =>
        /\ \A t \in turns : t.item = t.seq
        /\ \A j \in Jobs : \A t \in pending[j] : t.item = t.seq
        /\ row.job = NoJob => spoken = 0
        /\ \A j \in Jobs : row.job = j =>
               job[j].phase # "assigned" /\ history[j] = 1 .. spoken /\ count[j] = spoken

LogInv ==
    /\ LogTypeOK
    /\ Bounded
    /\ EndedWell
    /\ OwnRow
    /\ Repaired
    /\ InStep
    /\ CompletedHasHistory

IInv == StartInv /\ LogInv

-----------------------------------------------------------------------------
(***************************************************************************)
(* The row and the room, step by step.                                     *)
(***************************************************************************)
LEMMA Choices ==
    /\ Unbound \in Contracts
    /\ Unused # {} => Fresh \in Unused
    /\ NoRow \in [status : {"none", "starting", "active"} \cup Finished,
                  contract : Contracts, job : Jobs \cup {NoJob}, dispatch : Jobs \cup {NoJob}]
<1>1. Unbound \in Contracts
  BY StartAssumption DEF Unbound
<1>2. Unused # {} => Fresh \in Unused
  BY DEF Fresh
<1> QED
  BY <1>1, <1>2 DEF NoRow

Rows == [status : {"none", "starting", "active"} \cup Finished,
         contract : Contracts, job : Jobs \cup {NoJob}, dispatch : Jobs \cup {NoJob}]

\* A step of start that only moves a request on.
LEMMA MovesOn ==
    ASSUME StartInv, NEW r \in Requests, NEW call \in {"idle"} \cup Calls \cup Answers, GoTo(r, call),
           asked' \in [Requests -> Contracts], found' \in [Requests -> Jobs \cup {NoJob}],
           room' \in BOOLEAN,
           holder' \in {holder, r, Nobody}, holder' = r <=> call \in Calling,
           holder' = holder \/ holder \in {r, Nobody},
           call = "create" => dispatches = {},
           holder' # Nobody => row.status \in {"starting", "active"},
           UNCHANGED <<row, dispatches, job, bounds>>
    PROVE  StartInv'
<1>1. /\ step' \in [Requests -> {"idle"} \cup Calls \cup Answers] /\ step'[r] = call
      /\ \A q \in Requests \ {r} : step'[q] = step[q]
  BY DEF GoTo, StartInv, StartTypeOK
<1>2. StartTypeOK'
  BY <1>1 DEF StartInv, StartTypeOK, bounds
<1>3. RowHeld'
  <2>1. ASSUME NEW q \in Requests, q # r PROVE (holder = q <=> step[q] \in Calling)'
    BY <1>1, <2>1, StartAssumption DEF StartInv, RowHeld
  <2> QED
    BY <1>1, <2>1 DEF RowHeld
<1>4. OneAgent'
  BY <1>1 DEF StartInv, OneAgent, Alone, Live
<1> QED
  BY <1>2, <1>3, <1>4 DEF StartInv, StartingIsFree

LEMMA BeginKeeps ==
    ASSUME StartInv, NEW r \in Requests, Begin(r) \/ Read(r) \/ EnsureRoom(r)
    PROVE  StartInv'
<1>1. \A q \in Requests : holder = q <=> step[q] \in Calling
  BY DEF StartInv, RowHeld
<1>2. PICK call \in {"read", "lock", "insert", "relist"} :
             GoTo(r, call) /\ (call \in Calling <=> step[r] \in Calling)
  BY DEF Begin, Read, EnsureRoom, Calling
<1>3. call \in Calls /\ call # "create"
  BY <1>2 DEF Calls
<1>4. /\ asked' \in [Requests -> Contracts] /\ found' = found /\ room' \in BOOLEAN
      /\ UNCHANGED <<row, holder, dispatches, job, bounds>>
  <2>1. asked' = asked \/ \E c \in Contracts : asked' = [asked EXCEPT ![r] = c]
    BY DEF Begin, Read, EnsureRoom
  <2>2. asked' \in [Requests -> Contracts]
    BY <2>1 DEF StartInv, StartTypeOK
  <2>3. room' \in {room, TRUE} /\ room \in BOOLEAN
    BY DEF Begin, Read, EnsureRoom, livekit, StartInv, StartTypeOK
  <2>4. found' = found /\ UNCHANGED <<row, holder, dispatches, job, bounds>>
    BY DEF Begin, Read, EnsureRoom, livekit
  <2> QED
    BY <2>2, <2>3, <2>4
<1> QED
  BY <1>1, <1>2, <1>3, <1>4, MovesOn DEF StartInv, StartTypeOK, RowHeld

LEMMA LockKeeps ==
    ASSUME StartInv, NEW r \in Requests, Lock(r)
    PROVE  StartInv'
<1> DEFINE call == Verdict(asked[r])
<1>1. /\ call \in {"error", "conflict", "ended", "connected", "list"}
      /\ call = "list" => row.status \in {"starting", "active"}
  BY DEF Verdict, Exists, StartInv, StartTypeOK
<1>2. call \in Calls \cup Answers /\ (call \in Calling <=> call = "list") /\ call # "create"
  BY <1>1 DEF Calls, Answers, Calling
<1>3. /\ GoTo(r, call) /\ holder = Nobody /\ holder' = IF call = "list" THEN r ELSE Nobody
      /\ UNCHANGED <<row, asked, found, room, dispatches, job, bounds>>
  BY DEF Lock, livekit
<1> HIDE DEF call
<1> QED
  BY <1>1, <1>2, <1>3, MovesOn, StartAssumption DEF StartInv, StartTypeOK

LEMMA LookKeeps ==
    ASSUME StartInv, NEW r \in Requests, List(r) \/ ListAgain(r)
    PROVE  StartInv'
<1>1. PICK otherwise \in {"room", "create"} : Look(r, otherwise) /\ step[r] \in Calling
  BY DEF List, ListAgain, Calling
<1>2. holder = r /\ holder # Nobody /\ row.status \in {"starting", "active"}
  BY <1>1, StartAssumption DEF StartInv, RowHeld
<1>3. PICK call \in {"room", "create", "commit"} :
             GoTo(r, call) /\ (call = "create" => dispatches = {})
  BY <1>1 DEF Look
<1>4. call \in Calls /\ call \in Calling
  BY <1>3 DEF Calls, Calling
<1>5. found' \in [Requests -> Jobs \cup {NoJob}]
  BY <1>1 DEF Look, StartInv, StartTypeOK
<1>6. UNCHANGED <<row, holder, asked, room, dispatches, job, bounds>>
  BY <1>1 DEF Look, livekit
<1> QED
  BY <1>2, <1>3, <1>4, <1>5, <1>6, MovesOn DEF StartInv, StartTypeOK

\* A step that writes the row of whoever has it, or a new one.
LEMMA InsertKeeps ==
    ASSUME StartInv, NEW r \in Requests, Insert(r)
    PROVE  StartInv'
<1> DEFINE new == [NoRow EXCEPT !.status = "starting", !.contract = asked[r]]
<1>1. /\ step' = [step EXCEPT ![r] = "lock"]
      /\ UNCHANGED <<holder, asked, found, room, dispatches, job, bounds>>
      /\ row' = row \/ (~Exists /\ row' = new)
  BY DEF Insert, GoTo, livekit
<1>2. new \in Rows /\ new.status = "starting" /\ new.job = NoJob
  BY Choices DEF NoRow, Rows, StartInv, StartTypeOK
<1> HIDE DEF new
<1>3. "lock" \in Calls /\ "lock" \notin Calling /\ "insert" \notin Calling /\ "lock" # "create"
  BY DEF Calls, Calling
<1>4. StartTypeOK'
  BY <1>1, <1>2, <1>3 DEF StartInv, StartTypeOK, Rows, bounds
<1>5. RowHeld'
  <2>1. step[r] = "insert"
    BY DEF Insert
  <2>2. \A q \in Requests : step'[q] \in Calling <=> step[q] \in Calling
    BY <1>1, <1>3, <2>1 DEF StartInv, StartTypeOK
  <2>3. holder' # Nobody => row'.status \in {"starting", "active"}
    BY <1>1, <1>2 DEF StartInv, RowHeld
  <2> QED
    BY <1>1, <2>2, <2>3 DEF StartInv, RowHeld
<1>6. OneAgent'
  BY <1>1, <1>3 DEF StartInv, StartTypeOK, OneAgent, Alone, Live
<1>7. StartingIsFree'
  BY <1>1, <1>2 DEF StartInv, StartingIsFree
<1> QED
  BY <1>4, <1>5, <1>6, <1>7 DEF StartInv

\* The holder is done with the row.
LEMMA LettingGo ==
    ASSUME StartInv, NEW r \in Requests, NEW call \in Answers, GoTo(r, call),
           holder' = (IF holder = r THEN Nobody ELSE holder)
    PROVE  /\ step' \in [Requests -> {"idle"} \cup Calls \cup Answers] /\ step'[r] = call
           /\ \A q \in Requests : holder' = q <=> step'[q] \in Calling
           /\ holder' \in Requests \cup {Nobody} /\ (holder' # Nobody => holder' = holder)
           /\ \A q \in Requests : step'[q] = "create" => q # r /\ step[q] = "create"
<1>1. /\ step' \in [Requests -> {"idle"} \cup Calls \cup Answers] /\ step'[r] = call
      /\ \A q \in Requests \ {r} : step'[q] = step[q]
  BY DEF GoTo, StartInv, StartTypeOK
<1>2. call \notin Calling /\ call # "create"
  BY DEF Answers, Calling
<1>3. ASSUME NEW q \in Requests PROVE holder' = q <=> step'[q] \in Calling
  BY <1>1, <1>2, StartAssumption DEF StartInv, RowHeld
<1> QED
  BY <1>1, <1>2, <1>3 DEF StartInv, StartTypeOK

LEMMA CommitKeeps ==
    ASSUME StartInv, NEW r \in Requests, Commit(r)
    PROVE  StartInv'
<1>1. /\ GoTo(r, "connected") /\ holder' = Nobody /\ row' = [row EXCEPT !.dispatch = found[r]]
      /\ UNCHANGED <<asked, found, room, dispatches, job, bounds>>
  BY DEF Commit, livekit
<1>2. holder = r /\ "connected" \in Answers
  BY DEF Commit, StartInv, RowHeld, Calling, Answers
<1>3. /\ step' \in [Requests -> {"idle"} \cup Calls \cup Answers]
      /\ \A q \in Requests : holder' = q <=> step'[q] \in Calling
      /\ \A q \in Requests : step'[q] = "create" => q # r /\ step[q] = "create"
  BY <1>1, <1>2, LettingGo
<1>4. row' \in Rows /\ row'.status = row.status /\ row'.job = row.job
  BY <1>1 DEF StartInv, StartTypeOK, Rows
<1>5. StartTypeOK'
  BY <1>1, <1>3, <1>4 DEF StartInv, StartTypeOK, Rows, bounds
<1>6. RowHeld' /\ OneAgent' /\ StartingIsFree'
  BY <1>1, <1>3, <1>4 DEF StartInv, RowHeld, OneAgent, Alone, Live, StartingIsFree
<1> QED
  BY <1>5, <1>6 DEF StartInv

\* A dispatch is only made in an empty room, by the one request in charge.
LEMMA MadeAlone ==
    ASSUME StartInv, NEW r \in Requests, step[r] = "create", Made(r)
    PROVE  /\ Fresh \in Jobs /\ job[Fresh].phase = "none" /\ dispatches' = {Fresh} /\ holder = r
           /\ row.status \in {"starting", "active"}
           /\ job' = [job EXCEPT ![Fresh] = [phase |-> "assigned", contract |-> asked[r]]]
           /\ job' \in [Jobs -> [phase : Phases, contract : Contracts]]
           /\ \A j \in Jobs \ {Fresh} : job'[j] = job[j] /\ ~Live(j)
           /\ Alone' /\ \A j \in Jobs : Live(j)' => dispatches' = {j}
           /\ \A q \in Requests : step[q] = "create" => q = r
<1>1. dispatches = {} /\ holder = r /\ r # Nobody
  BY StartAssumption DEF StartInv, RowHeld, OneAgent, Calling
<1>2. Fresh \in Jobs /\ job[Fresh].phase = "none"
  BY Choices DEF Made, Unused
<1>3. dispatches' = {Fresh} /\ job' = [job EXCEPT ![Fresh] = [phase |-> "assigned", contract |-> asked[r]]]
  BY <1>1 DEF Made
<1>4. \A j \in Jobs : ~Live(j)
  BY <1>1 DEF StartInv, OneAgent
<1>5. job' \in [Jobs -> [phase : Phases, contract : Contracts]]
  BY <1>2, <1>3 DEF StartInv, StartTypeOK, Phases
<1>6. \A j \in Jobs \ {Fresh} : job'[j] = job[j]
  BY <1>3 DEF StartInv, StartTypeOK
<1>7. Alone'
  BY <1>3 DEF Alone
<1>8. \A j \in Jobs : Live(j)' => dispatches' = {j}
  BY <1>3, <1>4, <1>6 DEF Live
<1>9. row.status \in {"starting", "active"} /\ \A q \in Requests : step[q] = "create" => q = r
  BY <1>1 DEF StartInv, RowHeld, Calling
<1> QED
  BY <1>1, <1>2, <1>3, <1>4, <1>5, <1>6, <1>7, <1>8, <1>9

LEMMA CreateKeeps ==
    ASSUME StartInv, NEW r \in Requests, Create(r)
    PROVE  StartInv'
<1>1. /\ step[r] = "create" /\ Made(r) /\ step' = [step EXCEPT ![r] = "commit"]
      /\ found' = [found EXCEPT ![r] = Fresh]
      /\ UNCHANGED <<row, holder, asked, room, bounds>>
  BY DEF Create, GoTo
<1>2. /\ Fresh \in Jobs /\ dispatches' = {Fresh} /\ holder = r
      /\ job' \in [Jobs -> [phase : Phases, contract : Contracts]]
      /\ Alone' /\ \A j \in Jobs : Live(j)' => dispatches' = {j}
      /\ \A q \in Requests : step[q] = "create" => q = r
  BY <1>1, MadeAlone
<1>3. {"create", "commit"} \subseteq Calling \cap Calls
  BY DEF Calls, Calling
<1>4. StartTypeOK'
  BY <1>1, <1>2, <1>3 DEF StartInv, StartTypeOK, bounds
<1>5. \A q \in Requests : /\ step'[q] \in Calling <=> step[q] \in Calling
                          /\ step'[q] # "create"
  BY <1>1, <1>2, <1>3 DEF StartInv, StartTypeOK
<1>6. RowHeld' /\ OneAgent' /\ StartingIsFree'
  BY <1>1, <1>2, <1>5 DEF StartInv, RowHeld, OneAgent, StartingIsFree
<1> QED
  BY <1>4, <1>6 DEF StartInv

LEMMA FailKeeps ==
    ASSUME StartInv, NEW r \in Requests, Fail(r)
    PROVE  StartInv'
<1>1. /\ GoTo(r, "error") /\ holder' = (IF holder = r THEN Nobody ELSE holder)
      /\ UNCHANGED <<row, asked, found, room, deletes, reruns>>
      /\ faults < MaxFaults /\ faults' = faults + 1
      /\ UNCHANGED <<dispatches, job>> \/ (step[r] = "create" /\ Made(r))
  BY DEF Fail
<1>2. /\ step' \in [Requests -> {"idle"} \cup Calls \cup Answers]
      /\ \A q \in Requests : holder' = q <=> step'[q] \in Calling
      /\ holder' \in Requests \cup {Nobody} /\ (holder' # Nobody => holder' = holder)
      /\ \A q \in Requests : step'[q] = "create" => q # r /\ step[q] = "create"
  BY <1>1, LettingGo DEF Answers
<1>3. /\ dispatches' \subseteq Jobs /\ job' \in [Jobs -> [phase : Phases, contract : Contracts]]
      /\ Alone' /\ (\A j \in Jobs : Live(j)' => dispatches' = {j})
      /\ \A q \in Requests : step'[q] = "create" => dispatches' = {}
  <2>1. CASE UNCHANGED <<dispatches, job>>
    BY <1>2, <2>1 DEF StartInv, StartTypeOK, OneAgent, Alone, Live
  <2>2. CASE step[r] = "create" /\ Made(r)
    BY <1>2, <2>2, MadeAlone
  <2> QED
    BY <1>1, <2>1, <2>2
<1>4. faults' \in 0 .. MaxFaults
  BY <1>1, StartAssumption DEF StartInv, StartTypeOK
<1>5. StartTypeOK'
  BY <1>1, <1>2, <1>3, <1>4 DEF StartInv, StartTypeOK
<1>6. RowHeld' /\ OneAgent' /\ StartingIsFree'
  BY <1>1, <1>2, <1>3 DEF StartInv, RowHeld, OneAgent, StartingIsFree
<1> QED
  BY <1>5, <1>6 DEF StartInv

\* What LiveKit does.
LEMMA RerunKeeps ==
    ASSUME StartInv, NEW j \in Jobs, Rerun(j)
    PROVE  StartInv'
<1>1. /\ job' = [job EXCEPT ![j].phase = "assigned"] /\ j \in dispatches
      /\ reruns < MaxReruns /\ reruns' = reruns + 1
      /\ UNCHANGED <<row, holder, step, asked, found, room, dispatches, faults, deletes>>
  BY DEF Rerun, request, livekit
<1>2. dispatches = {j}
  BY <1>1 DEF StartInv, OneAgent, Alone
<1>3. StartTypeOK'
  BY <1>1, StartAssumption DEF StartInv, StartTypeOK, Phases
<1>4. OneAgent'
  BY <1>1, <1>2 DEF StartInv, StartTypeOK, OneAgent, Alone, Live
<1> QED
  BY <1>1, <1>3, <1>4 DEF StartInv, RowHeld, StartingIsFree

LEMMA ExpireKeeps ==
    ASSUME StartInv, Expire
    PROVE  StartInv'
<1>1. /\ dispatches' = {} /\ room' = FALSE /\ UNCHANGED <<row, holder, request, job, bounds>>
      /\ \A j \in Jobs : ~Live(j)
  BY DEF Expire, Live
<1>2. StartTypeOK'
  BY <1>1 DEF StartInv, StartTypeOK, request, bounds
<1>3. OneAgent'
  BY <1>1 DEF OneAgent, Alone, Live
<1> QED
  BY <1>1, <1>2, <1>3 DEF StartInv, RowHeld, StartingIsFree, request

LEMMA StartKeeps ==
    ASSUME StartInv, Elsewhere
    PROVE  StartInv'
BY BeginKeeps, InsertKeeps, LockKeeps, LookKeeps, CommitKeeps, CreateKeeps, FailKeeps, RerunKeeps,
   ExpireKeeps DEF Elsewhere, Start

\* What the workers do to the row and to the jobs.
LEMMA WorkersKeepStart ==
    ASSUME StartInv, UNCHANGED <<holder, step, asked, found, room, dispatches, deletes, reruns>>,
           faults' \in 0 .. MaxFaults,
           \/ row' = row
           \/ holder = Nobody /\ \E status \in Finished : row' = Settled(status),
           \/ job' = job
           \/ \E j \in Jobs, phase \in {"left", "lost", "crashed"} :
                 job' = [job EXCEPT ![j].phase = phase]
    PROVE  StartInv'
<1>1. /\ job' \in [Jobs -> [phase : Phases, contract : Contracts]]
      /\ \A j \in Jobs : Live(j)' => Live(j)
  BY DEF StartInv, StartTypeOK, Live, Phases
<1>2. row' \in Rows /\ (row' = row \/ (holder = Nobody /\ row'.status \in Finished))
  <2>1. ASSUME NEW status \in Finished, row' = Settled(status)
        PROVE  row' = row \/ (row' \in Rows /\ row'.status \in Finished)
    BY <2>1 DEF Settled, StartInv, StartTypeOK, Rows
  <2>2. row \in Rows
    BY DEF StartInv, StartTypeOK, Rows
  <2> QED
    BY <2>1, <2>2
<1>3. StartTypeOK'
  BY <1>1, <1>2 DEF StartInv, StartTypeOK, Rows
<1>4. RowHeld'
  BY <1>2 DEF StartInv, RowHeld
<1>5. OneAgent'
  BY <1>1 DEF StartInv, OneAgent, Alone
<1>6. StartingIsFree'
  BY <1>2 DEF StartInv, StartingIsFree, Finished
<1> QED
  BY <1>3, <1>4, <1>5, <1>6 DEF StartInv

LEMMA ClaimKeeps ==
    ASSUME StartInv, NEW j \in Jobs, Claim(j)
    PROVE  StartInv'
<1>1. /\ job[j].phase = "assigned" /\ holder = Nobody
      /\ UNCHANGED <<holder, step, asked, found, room, dispatches, faults, deletes, reruns>>
  BY DEF Claim, request, livekit, bounds
<1>2. /\ job' \in [Jobs -> [phase : Phases, contract : Contracts]]
      /\ \A k \in Jobs : Live(k)' => Live(k)
  <2>1. PICK phase \in {"running", "refused"} : job' = [job EXCEPT ![j].phase = phase]
    BY DEF Claim
  <2> QED
    BY <1>1, <2>1 DEF StartInv, StartTypeOK, Live, Phases
<1>3. row' \in Rows /\ (row' = row \/ row'.status = "active")
  <2> DEFINE taken == [row EXCEPT !.status = "active", !.job = j]
  <2>1. row \in Rows /\ job[j].contract \in Contracts
    BY DEF StartInv, StartTypeOK, Rows
  <2>2. taken \in Rows /\ taken.status = "active"
    BY <2>1 DEF Rows
  <2>3. [taken EXCEPT !.contract = job[j].contract] \in Rows
        /\ [taken EXCEPT !.contract = job[j].contract].status = "active"
    <3> HIDE DEF taken
    <3> QED
      BY <2>1, <2>2 DEF Rows
  <2>4. row' \in {row, taken, [taken EXCEPT !.contract = job[j].contract]}
    BY DEF Claim
  <2> QED
    BY <2>1, <2>2, <2>3, <2>4
<1>4. StartTypeOK'
  BY <1>1, <1>2, <1>3 DEF StartInv, StartTypeOK, Rows
<1>5. RowHeld' /\ OneAgent' /\ StartingIsFree'
  BY <1>1, <1>2, <1>3 DEF StartInv, RowHeld, OneAgent, Alone, StartingIsFree
<1> QED
  BY <1>4, <1>5 DEF StartInv

LEMMA DeleteKeeps ==
    ASSUME StartInv, Delete
    PROVE  StartInv'
<1>1. /\ holder = Nobody /\ row' = NoRow /\ deletes < MaxDeletes /\ deletes' = deletes + 1
      /\ UNCHANGED <<holder, step, asked, found, room, dispatches, job, faults, reruns>>
  BY DEF Delete, request, livekit
<1>2. NoRow.status = "none" /\ NoRow.job = NoJob
  BY DEF NoRow
<1>3. StartTypeOK'
  BY <1>1, Choices, StartAssumption DEF StartInv, StartTypeOK
<1> QED
  BY <1>1, <1>2, <1>3 DEF StartInv, RowHeld, OneAgent, Alone, Live, StartingIsFree

-----------------------------------------------------------------------------
(***************************************************************************)
(* The workers and the log, while start goes on.                           *)
(***************************************************************************)
\* Neither the jobs nor the row's owner change.
LEMMA LogUntouched ==
    ASSUME IInv, UNCHANGED <<log, job, deletes, reruns>>,
           row'.status = row.status, row'.job = row.job
    PROVE  LogInv'
<1>1. LogTypeOK' /\ Bounded'
  BY DEF IInv, LogInv, LogTypeOK, Bounded, log
<1>2. EndedWell' /\ OwnRow'
  BY DEF IInv, LogInv, EndedWell, OwnRow, Worked, Exists, log
<1>3. Repaired' /\ InStep' /\ CompletedHasHistory'
  BY DEF IInv, LogInv, Repaired, Repairs, AllStored, In, Stored, Guided, InStep, log,
         CompletedHasHistory
<1> QED
  BY <1>1, <1>2, <1>3 DEF LogInv

LEMMA InsertKeepsLog ==
    ASSUME IInv, NEW r \in Requests, Insert(r), UNCHANGED log
    PROVE  LogInv'
<1>1. UNCHANGED <<job, deletes, reruns>>
  BY DEF Insert, bounds
<1>2. CASE row' = row
  BY <1>1, <1>2, LogUntouched
<1>3. CASE ~Exists /\ row'.status = "starting" /\ row'.job = NoJob
  <2>1. row.job = NoJob
    BY <1>3 DEF IInv, StartInv, StartingIsFree, Exists
  <2>2. LogTypeOK' /\ Bounded'
    BY <1>1 DEF IInv, LogInv, LogTypeOK, Bounded, log
  <2>3. EndedWell' /\ OwnRow'
    BY <1>1, <1>3, <2>1 DEF IInv, LogInv, EndedWell, OwnRow, Worked, Exists, Finished, log
  <2>4. Repaired'
    BY <1>1 DEF IInv, LogInv, Repaired, Repairs, AllStored, In, Stored, Guided, log
  <2>5. InStep' /\ CompletedHasHistory'
    BY <1>1, <1>3, <2>1 DEF IInv, LogInv, InStep, CompletedHasHistory, log
  <2> QED
    BY <2>2, <2>3, <2>4, <2>5 DEF LogInv
<1>4. ~Exists /\ row' # row => row'.status = "starting" /\ row'.job = NoJob
  BY DEF Insert, NoRow
<1> QED
  BY <1>2, <1>3, <1>4 DEF Insert

LEMMA MadeKeepsLog ==
    ASSUME IInv, NEW r \in Requests, step[r] = "create", Made(r),
           UNCHANGED <<log, row, deletes, reruns>>
    PROVE  LogInv'
<1>1. /\ Fresh \in Jobs /\ job[Fresh].phase = "none" /\ row.status \in {"starting", "active"}
      /\ job' = [job EXCEPT ![Fresh] = [phase |-> "assigned", contract |-> asked[r]]]
      /\ \A j \in Jobs \ {Fresh} : job'[j] = job[j]
  BY MadeAlone DEF IInv
<1>2. job'[Fresh].phase = "assigned"
  BY <1>1 DEF IInv, StartInv, StartTypeOK
<1>3. LogTypeOK' /\ Bounded'
  <2>1. processes[Fresh] = 0 /\ reruns \in Nat
    BY <1>1, StartAssumption DEF IInv, LogInv, Bounded, StartInv, StartTypeOK
  <2> QED
    BY <1>1, <1>2, <2>1 DEF IInv, LogInv, LogTypeOK, Bounded, log
<1>4. EndedWell' /\ CompletedHasHistory'
  BY <1>1 DEF EndedWell, CompletedHasHistory, Finished
<1>5. OwnRow'
  BY <1>1, <1>2 DEF IInv, LogInv, OwnRow, Worked, Exists
<1>6. Repaired'
  BY <1>1, <1>2 DEF IInv, LogInv, Repaired, Repairs, AllStored, In, Stored, Guided, log
<1>7. InStep'
  BY <1>1, <1>2 DEF IInv, LogInv, InStep, OwnRow, log
<1> QED
  BY <1>3, <1>4, <1>5, <1>6, <1>7 DEF LogInv

LEMMA RerunKeepsLog ==
    ASSUME IInv, NEW j \in Jobs, Rerun(j), UNCHANGED log
    PROVE  LogInv'
<1>1. /\ job[j].phase \in {"lost", "crashed"} /\ job' = [job EXCEPT ![j].phase = "assigned"]
      /\ reruns' = reruns + 1 /\ reruns \in Nat /\ UNCHANGED <<row, deletes>>
  BY StartAssumption DEF Rerun, IInv, StartInv, StartTypeOK
<1>2. /\ job'[j].phase = "assigned" /\ job'[j].contract = job[j].contract
      /\ \A k \in Jobs \ {j} : job'[k] = job[k]
  BY <1>1 DEF IInv, StartInv, StartTypeOK
<1>3. LogTypeOK' /\ Bounded'
  <2>1. LogTypeOK'
    BY DEF IInv, LogInv, LogTypeOK, log
  <2>2. ASSUME NEW k \in Jobs PROVE processes[k] \in Nat
    BY StartAssumption DEF IInv, LogInv, LogTypeOK
  <2> QED
    BY <1>1, <1>2, <2>1, <2>2 DEF IInv, LogInv, Bounded, log
<1>4. EndedWell' /\ InStep'
  BY <1>1 DEF EndedWell, InStep
<1>5. OwnRow'
  BY <1>1, <1>2 DEF IInv, LogInv, OwnRow, Worked, Exists
<1>6. Repaired' /\ CompletedHasHistory'
  BY <1>1, <1>2 DEF IInv, LogInv, Repaired, Repairs, AllStored, In, Stored, Guided, log,
                    CompletedHasHistory
<1> QED
  BY <1>3, <1>4, <1>5, <1>6 DEF LogInv

LEMMA ElsewhereKeepsLog ==
    ASSUME IInv, Elsewhere, UNCHANGED log
    PROVE  LogInv'
<1>1. ASSUME NEW r \in Requests, Start(r) \/ Fail(r), ~Insert(r), job' = job
      PROVE  LogInv'
  <2>1. row' = row \/ \E d : row' = [row EXCEPT !.dispatch = d]
    BY <1>1 DEF Start, Begin, Read, Lock, List, EnsureRoom, ListAgain, Look, Create, Commit, Fail
  <2>2. row'.status = row.status /\ row'.job = row.job
    BY <2>1 DEF IInv, StartInv, StartTypeOK
  <2>3. UNCHANGED <<deletes, reruns>>
    BY <1>1 DEF Start, Begin, Read, Lock, List, EnsureRoom, ListAgain, Look, Create, Commit, Fail,
                bounds
  <2> QED
    BY <1>1, <2>2, <2>3, LogUntouched
<1>2. ASSUME NEW r \in Requests, Start(r) \/ Fail(r), job' # job
      PROVE  step[r] = "create" /\ Made(r) /\ UNCHANGED <<row, deletes, reruns>>
  BY <1>2 DEF Start, Begin, Read, Insert, Lock, List, EnsureRoom, ListAgain, Look, Create, Commit,
              Fail, bounds
<1>3. CASE Expire
  BY <1>3, LogUntouched DEF Expire, bounds
<1> QED
  BY <1>1, <1>2, <1>3, InsertKeepsLog, MadeKeepsLog, RerunKeepsLog DEF Elsewhere

-----------------------------------------------------------------------------
(***************************************************************************)
(* The workers.                                                            *)
(***************************************************************************)
\* A worker is the one agent; without a DELETE the row is its own.
LEMMA RunningAlone ==
    ASSUME IInv, NEW j \in Jobs, job[j].phase = "running"
    PROVE  /\ \A k \in Jobs \ {j} : ~Live(k)
           /\ deletes = 0 => row.job = j /\ Exists /\ row.status # "completed"
BY DEF IInv, StartInv, OneAgent, Live, LogInv, OwnRow, Worked

\* A step of worker j that says nothing new.
WorkerStep(j, st) ==
    /\ job[j].phase = "running" /\ stage' = [stage EXCEPT ![j] = st]
    /\ UNCHANGED <<spoken, history, count, processes, deletes, reruns>>
    /\ turns \subseteq turns'
    /\ \E todo \in SUBSET pending[j] : pending' = [pending EXCEPT ![j] = todo]
    /\ job' = job \/ \E phase \in {"left", "crashed"} : job' = [job EXCEPT ![j].phase = phase]

\* The row is left alone or gets a status that the worker stands for.
RowEnds(j) ==
    /\ \/ row' = row
       \/ \E status \in Finished :
             /\ row' = Settled(status)
             /\ status = "completed" =>
                   /\ job'[j].phase = "left"
                   /\ deletes = 0 /\ ~Guided(j) => AllStored(j)
    /\ row'.status \in Finished /\ reruns = 0 /\ job'[j].phase = "running" =>
          row'.status = "failed" /\ broken'[j] /\ stage'[j] # "talking"

LEMMA WorkerStepKeeps ==
    ASSUME IInv, NEW j \in Jobs, NEW st \in Stages, WorkerStep(j, st), RowEnds(j),
           turns' \subseteq Turns,
           reruns = 0 /\ deletes = 0 => \A t \in turns' : t.item = t.seq,
           broken' \in {broken, [broken EXCEPT ![j] = TRUE]},
           done' \in [Jobs -> 0..MaxItems], \A k \in Jobs \ {j} : done'[k] = done[k],
           done'[j] <= Cardinality(history[j]),
           Repairs(j)'
    PROVE  LogInv'
<1>1. /\ \A k \in Jobs \ {j} : job'[k] = job[k] /\ stage'[k] = stage[k] /\ pending'[k] = pending[k]
                              /\ ~Live(k)
      /\ job'[j].contract = job[j].contract /\ job'[j].phase \in {"running", "left", "crashed"}
      /\ pending'[j] \subseteq pending[j]
  BY RunningAlone DEF IInv, StartInv, StartTypeOK, LogInv, LogTypeOK, WorkerStep
<1>2. UNCHANGED <<spoken, history, count, processes, deletes, reruns>> /\ turns \subseteq turns'
      /\ job[j].phase = "running"
  BY DEF WorkerStep
<1>3. LogTypeOK'
  <2>1. stage' \in [Jobs -> Stages] /\ pending' \in [Jobs -> SUBSET Turns]
    BY DEF IInv, LogInv, LogTypeOK, WorkerStep
  <2>2. broken' \in [Jobs -> BOOLEAN]
    BY DEF IInv, LogInv, LogTypeOK
  <2> QED
    BY <1>2, <2>1, <2>2 DEF IInv, LogInv, LogTypeOK
<1>4. Bounded'
  BY <1>1, <1>2 DEF IInv, LogInv, Bounded
<1>5. /\ row'.job = row.job /\ (Exists <=> Exists')
      /\ row'.status = row.status \/ row'.status \in Finished
  BY DEF RowEnds, Settled, Exists, IInv, StartInv, StartTypeOK, Finished
<1>6. EndedWell'
  <2>1. \A k \in Jobs \ {j} : job'[k].phase \notin {"assigned", "running"}
    BY <1>1 DEF Live
  <2> QED
    BY <1>1, <1>2, <2>1 DEF RowEnds, EndedWell
<1>7. OwnRow'
  <2>1. ASSUME deletes = 0, row'.status = "completed"
        PROVE  \A k \in Jobs : row'.job = k => job'[k].phase = "left"
    <3>1. row.job = j /\ row.status # "completed" /\ Exists
      BY <1>2, <2>1, RunningAlone
    <3>2. job'[j].phase = "left"
      BY <2>1, <3>1 DEF RowEnds, Settled, IInv, StartInv, StartTypeOK
    <3> QED
      BY <1>5, <3>1, <3>2
  <2>2. ASSUME deletes = 0
        PROVE  /\ \A k \in Jobs : job'[k].phase # "none" => Exists'
               /\ \A k \in Jobs : job'[k].phase \in {"running", "crashed", "left"} => row'.job = k
               /\ \A k \in Jobs : row'.job = k => job'[k].phase # "none"
    BY <1>1, <1>2, <1>5, <2>2 DEF IInv, LogInv, OwnRow, Worked
  <2> QED
    BY <1>2, <2>1, <2>2 DEF OwnRow, Worked
<1>8. Repaired'
  <2>1. ASSUME NEW k \in Jobs, k # j PROVE Repairs(k)'
    <3>1. ~In(k, "talking")' /\ ~In(k, "flushing")' /\ ~In(k, "reconciling")' /\ ~In(k, "finishing")'
      BY <1>1, <2>1 DEF In, Live
    <3> QED
      BY <3>1 DEF Repairs
  <2> QED
    BY <2>1 DEF Repaired
<1>9. InStep'
  <2>1. ASSUME reruns = 0, deletes = 0
        PROVE  \A k \in Jobs : \A t \in pending'[k] : t.item = t.seq
    BY <1>1, <2>1 DEF IInv, LogInv, InStep
  <2>2. ASSUME reruns = 0, deletes = 0, NEW k \in Jobs, row'.job = k
        PROVE  job'[k].phase # "assigned" /\ history'[k] = 1 .. spoken' /\ count'[k] = spoken'
    BY <1>1, <1>2, <1>5, <2>2 DEF IInv, LogInv, InStep
  <2>3. reruns = 0 /\ deletes = 0 /\ row'.job = NoJob => spoken' = 0
    BY <1>2, <1>5 DEF IInv, LogInv, InStep
  <2> QED
    BY <1>2, <2>1, <2>2, <2>3 DEF InStep
<1>10. CompletedHasHistory'
  <2> SUFFICES ASSUME row'.status = "completed", deletes = 0,
                      NEW k \in Jobs, row'.job = k, ~Guided(k)', NEW i \in history'[k]
               PROVE  Stored(i)'
    BY <1>2 DEF CompletedHasHistory
  <2>1. k = j /\ row.status # "completed" /\ Exists
    BY <1>2, <1>5, RunningAlone
  <2>2. AllStored(j)
    BY <1>1, <2>1 DEF RowEnds, Settled, Guided, IInv, StartInv, StartTypeOK
  <2> QED
    BY <1>2, <2>1, <2>2 DEF AllStored, Stored
<1> QED
  BY <1>3, <1>4, <1>6, <1>7, <1>8, <1>9, <1>10 DEF LogInv

LEMMA RowStays ==
    ASSUME IInv, NEW j \in Jobs, job[j].phase = "running", row' = row,
           broken' \in {broken, [broken EXCEPT ![j] = TRUE]},
           stage'[j] = stage[j] \/ stage'[j] # "talking"
    PROVE  RowEnds(j)
BY DEF RowEnds, IInv, LogInv, EndedWell, LogTypeOK

\* Nothing is stored but what was, and nothing is reconciled.
LEMMA NothingWritten ==
    ASSUME IInv, NEW j \in Jobs, NEW st \in Stages, WorkerStep(j, st), RowEnds(j),
           UNCHANGED <<turns, done>>,
           broken' \in {broken, [broken EXCEPT ![j] = TRUE]},
           Repairs(j)'
    PROVE  LogInv'
BY WorkerStepKeeps DEF IInv, LogInv, LogTypeOK, Bounded, InStep

LEMMA BreakKeeps ==
    ASSUME IInv, NEW j \in Jobs, Break(j) \/ HangUp(j)
    PROVE  IInv'
<1>1. PICK st \in {"talking", "flushing"} :
        /\ job[j].phase = "running" /\ stage[j] = "talking" /\ stage' = [stage EXCEPT ![j] = st]
        /\ st = "talking" => stage' = stage
  BY DEF Break, HangUp, In, Enter, IInv, LogInv, LogTypeOK
<1>2. UNCHANGED <<row, holder, step, asked, found, room, dispatches, job, faults, deletes, reruns,
                  turns, spoken, history, pending, count, done, processes>>
  BY DEF Break, HangUp, startVars, request, livekit, bounds
<1>3. broken' \in {broken, [broken EXCEPT ![j] = TRUE]} /\ st \in Stages /\ stage'[j] = st
  BY <1>1 DEF Break, HangUp, Stages, IInv, LogInv, LogTypeOK
<1>4. StartInv'
  BY <1>2, WorkersKeepStart DEF IInv, StartInv, StartTypeOK
<1>5. WorkerStep(j, st)
  <2>1. pending' = [pending EXCEPT ![j] = pending[j]]
    BY <1>2 DEF IInv, LogInv, LogTypeOK
  <2> QED
    BY <1>1, <1>2, <2>1 DEF WorkerStep
<1>6. RowEnds(j)
  BY <1>1, <1>2, <1>3, RowStays
<1>7. Repairs(j)'
  BY <1>1, <1>2, <1>3 DEF IInv, LogInv, Repaired, Repairs, In
<1> QED
  BY <1>2, <1>3, <1>4, <1>5, <1>6, <1>7, NothingWritten DEF IInv

LEMMA FailEarlyKeeps ==
    ASSUME IInv, NEW j \in Jobs, FailEarly(j)
    PROVE  IInv'
<1>1. PICK st \in {"draining", "flushing"} : stage' = [stage EXCEPT ![j] = st]
  BY DEF FailEarly, Enter
<1>2. /\ job[j].phase = "running" /\ stage[j] = "talking" /\ holder = Nobody
      /\ broken' = [broken EXCEPT ![j] = TRUE]
      /\ UNCHANGED <<holder, step, asked, found, room, dispatches, job, deletes, reruns,
                     turns, spoken, history, pending, count, done, processes>>
      /\ row' = row \/ row' = Settled("failed")
      /\ faults' = faults \/ (faults < MaxFaults /\ faults' = faults + 1)
  BY DEF FailEarly, In, Fault, Api, request, livekit
<1>3. st \in Stages /\ stage'[j] = st /\ "failed" \in Finished /\ broken'[j] = TRUE
  BY <1>1, <1>2 DEF Stages, IInv, LogInv, LogTypeOK, Finished
<1>4. StartInv'
  <2>1. faults' \in 0 .. MaxFaults
    BY <1>2, StartAssumption DEF IInv, StartInv, StartTypeOK
  <2> QED
    BY <1>2, <1>3, <2>1, WorkersKeepStart DEF IInv
<1>5. WorkerStep(j, st)
  <2>1. pending' = [pending EXCEPT ![j] = pending[j]]
    BY <1>2 DEF IInv, LogInv, LogTypeOK
  <2> QED
    BY <1>1, <1>2, <2>1 DEF WorkerStep
<1>6. RowEnds(j)
  <2>1. CASE row' = row
    BY <1>2, <1>3, <2>1, RowStays
  <2>2. CASE row' = Settled("failed")
    <3>1. row'.status \in Finished => row'.status = "failed"
      BY <2>2 DEF Settled, Exists, IInv, StartInv, StartTypeOK, Finished
    <3> QED
      BY <1>1, <1>3, <2>2, <3>1 DEF RowEnds
  <2> QED
    BY <1>2, <2>1, <2>2
<1>7. Repairs(j)'
  BY <1>1, <1>2, <1>3 DEF IInv, LogInv, Repaired, Repairs, In
<1> QED
  BY <1>2, <1>3, <1>4, <1>5, <1>6, <1>7, NothingWritten DEF IInv

LEMMA FlushedKeeps ==
    ASSUME IInv, NEW j \in Jobs, Flushed(j)
    PROVE  IInv'
<1>1. UNCHANGED <<row, holder, step, asked, found, room, dispatches, faults, deletes, reruns,
                  turns, spoken, history, pending, count, broken, done, processes>>
  BY DEF Flushed, request, livekit, bounds
<1>2. pending' = [pending EXCEPT ![j] = pending[j]]
  BY <1>1 DEF IInv, LogInv, LogTypeOK
<1>3. CASE /\ In(j, "flushing") /\ job' = job
           /\ Enter(j, IF Guided(j) THEN "finishing" ELSE "reconciling")
  <2> DEFINE st == IF Guided(j) THEN "finishing" ELSE "reconciling"
  <2>1. st \in Stages /\ stage'[j] = st /\ st # "talking" /\ job[j].phase = "running"
    BY <1>3 DEF Stages, Enter, In, IInv, LogInv, LogTypeOK
  <2>2. WorkerStep(j, st)
    BY <1>1, <1>2, <1>3, <2>1 DEF WorkerStep, Enter
  <2>3. RowEnds(j)
    BY <1>1, <2>1, RowStays
  <2>4. Repairs(j)'
    <3>1. done[j] = 0 /\ 1 .. 0 = {}
      BY <1>3 DEF IInv, LogInv, Repaired, Repairs
    <3>2. (In(j, "talking") \/ In(j, "flushing"))' => FALSE
      BY <2>1 DEF In
    <3>3. In(j, "finishing")' => Guided(j)'
      BY <1>3, <2>1 DEF In, Guided
    <3> QED
      BY <1>1, <3>1, <3>2, <3>3 DEF Repairs
  <2>5. StartInv'
    BY <1>1, <1>3, WorkersKeepStart DEF IInv, StartInv, StartTypeOK
  <2> HIDE DEF st
  <2> QED
    BY <1>1, <2>1, <2>2, <2>3, <2>4, <2>5, NothingWritten DEF IInv
<1>4. CASE In(j, "draining") /\ Leave(j)
  <2>1. /\ "idle" \in Stages /\ stage'[j] = "idle" /\ job[j].phase = "running"
        /\ job'[j].phase = "left" /\ job' = [job EXCEPT ![j].phase = "left"]
    BY <1>4 DEF Stages, Enter, Leave, In, IInv, LogInv, LogTypeOK, StartInv, StartTypeOK
  <2>2. WorkerStep(j, "idle")
    BY <1>1, <1>2, <1>4, <2>1 DEF WorkerStep, Enter, Leave
  <2>3. RowEnds(j)
    BY <1>1, <2>1, RowStays
  <2>4. Repairs(j)'
    BY <2>1 DEF Repairs, In
  <2>5. StartInv'
    BY <1>1, <2>1, WorkersKeepStart DEF IInv, StartInv, StartTypeOK
  <2> QED
    BY <1>1, <2>1, <2>2, <2>3, <2>4, <2>5, NothingWritten DEF IInv
<1> QED
  BY <1>3, <1>4 DEF Flushed

LEMMA FinishKeeps ==
    ASSUME IInv, NEW j \in Jobs, Finish(j)
    PROVE  IInv'
<1>1. /\ job[j].phase = "running" /\ stage[j] = "finishing" /\ holder = Nobody
      /\ UNCHANGED <<holder, step, asked, found, room, dispatches, deletes, reruns,
                     turns, spoken, history, pending, count, broken, done, processes>>
      /\ Leave(j)
      /\ faults' = faults \/ (faults < MaxFaults /\ faults' = faults + 1)
  BY DEF Finish, In, Fault, Api, request, livekit
<1>2. /\ "idle" \in Stages /\ stage'[j] = "idle" /\ job'[j].phase = "left"
      /\ job' = [job EXCEPT ![j].phase = "left"] /\ stage' = [stage EXCEPT ![j] = "idle"]
  BY <1>1 DEF Stages, Enter, Leave, IInv, LogInv, LogTypeOK, StartInv, StartTypeOK
<1>3. row' = row \/ \E status \in Finished : row' = Settled(status)
  BY DEF Finish, Finished
<1>4. StartInv'
  <2>1. faults' \in 0 .. MaxFaults
    BY <1>1, StartAssumption DEF IInv, StartInv, StartTypeOK
  <2> QED
    BY <1>1, <1>2, <1>3, <2>1, WorkersKeepStart DEF IInv
<1>5. WorkerStep(j, "idle")
  <2>1. pending' = [pending EXCEPT ![j] = pending[j]]
    BY <1>1 DEF IInv, LogInv, LogTypeOK
  <2> QED
    BY <1>1, <1>2, <2>1 DEF WorkerStep
<1>6. RowEnds(j)
  <2>1. deletes = 0 /\ ~Guided(j) => AllStored(j)
    BY <1>1 DEF IInv, LogInv, Repaired, Repairs, In
  <2> QED
    BY <1>2, <1>3, <2>1 DEF RowEnds
<1>7. Repairs(j)'
  BY <1>2 DEF Repairs, In
<1> QED
  BY <1>1, <1>2, <1>4, <1>5, <1>6, <1>7, NothingWritten DEF IInv

LEMMA DieKeeps ==
    ASSUME IInv, NEW j \in Jobs, DieWithTasks(j)
    PROVE  IInv'
<1>1. /\ job[j].phase \in {"assigned", "running"}
      /\ job' = [job EXCEPT ![j].phase = Fate(j)] /\ Fate(j) \in {"lost", "crashed"}
      /\ UNCHANGED <<row, holder, step, asked, found, room, dispatches, deletes, reruns,
                     turns, spoken, history, count, broken, done, processes>>
      /\ pending' = [pending EXCEPT ![j] = {}] /\ stage' = [stage EXCEPT ![j] = "idle"]
      /\ faults < MaxFaults /\ faults' = faults + 1
  BY DEF DieWithTasks, Die, Enter, Fate, request, livekit
<1>2. "idle" \in Stages /\ stage'[j] = "idle" /\ job'[j].phase = Fate(j)
  BY <1>1 DEF Stages, IInv, LogInv, LogTypeOK, StartInv, StartTypeOK
<1>3. StartInv'
  <2>1. faults' \in 0 .. MaxFaults
    BY <1>1, StartAssumption DEF IInv, StartInv, StartTypeOK
  <2> QED
    BY <1>1, <2>1, WorkersKeepStart DEF IInv
\* The claim of j was lost: nothing of the log is about it.
<1>4. CASE job[j].phase = "assigned"
  <2>1. /\ job'[j].phase = "lost" /\ job'[j].contract = job[j].contract
        /\ \A k \in Jobs \ {j} : job'[k] = job[k] /\ stage'[k] = stage[k] /\ pending'[k] = pending[k]
        /\ pending'[j] = {}
    BY <1>1, <1>2, <1>4 DEF Fate, IInv, StartInv, StartTypeOK, LogInv, LogTypeOK
  <2>2. LogTypeOK' /\ Bounded'
    BY <1>1, <1>2, <2>1 DEF IInv, LogInv, LogTypeOK, Bounded
  <2>3. EndedWell' /\ OwnRow'
    BY <1>1, <1>4, <2>1 DEF IInv, LogInv, EndedWell, OwnRow, Worked, Exists
  <2>4. Repaired'
    BY <1>1, <2>1 DEF IInv, LogInv, Repaired, Repairs, AllStored, In, Stored, Guided
  <2>5. InStep' /\ CompletedHasHistory'
    BY <1>1, <1>4, <2>1 DEF IInv, LogInv, InStep, CompletedHasHistory, Guided, Stored
  <2> QED
    BY <1>3, <2>2, <2>3, <2>4, <2>5 DEF IInv, LogInv
<1>5. CASE job[j].phase = "running"
  <2>1. job'[j].phase = "crashed"
    BY <1>2, <1>5 DEF Fate
  <2>2. WorkerStep(j, "idle")
    BY <1>1, <1>5 DEF WorkerStep, Fate
  <2>3. RowEnds(j)
    BY <1>1, <1>5, <2>1, RowStays
  <2>4. Repairs(j)'
    BY <1>2, <2>1 DEF Repairs, In
  <2> QED
    BY <1>1, <1>2, <1>3, <2>2, <2>3, <2>4, NothingWritten DEF IInv
<1> QED
  BY <1>1, <1>4, <1>5

\* What is stored stays stored.
LEMMA UpsertedKeeps ==
    ASSUME IInv, NEW t \in Turns
    PROVE  /\ turns \subseteq Upserted(t) /\ Upserted(t) \subseteq Turns
           /\ \E u \in Upserted(t) : u.item = t.item
           /\ \A u \in Upserted(t) : u \in turns \/ u = t
BY DEF Upserted, Stored, IInv, LogInv, LogTypeOK

\* The stage is as before, and what was stored is.
LEMMA StillRepairs ==
    ASSUME IInv, NEW j \in Jobs, turns \subseteq turns', UNCHANGED <<job, stage, history, done, deletes>>
    PROVE  Repairs(j)'
<1>1. \A item : Stored(item) => Stored(item)'
  BY DEF Stored
<1>2. Repairs(j)
  BY DEF IInv, LogInv, Repaired
<1> QED
  BY <1>1, <1>2 DEF Repairs, In, Guided, AllStored

LEMMA WriteKeeps ==
    ASSUME IInv, NEW j \in Jobs, NEW t \in pending[j], Write(j, t)
    PROVE  IInv'
<1>1. /\ job[j].phase = "running" /\ t \in Turns
      /\ UNCHANGED <<row, holder, step, asked, found, room, dispatches, job, deletes, reruns,
                     spoken, history, count, broken, stage, done, processes>>
      /\ pending' = [pending EXCEPT ![j] = pending[j] \ {t}]
      /\ faults' = faults \/ (faults < MaxFaults /\ faults' = faults + 1)
      /\ turns' = turns \/ turns' = Upserted(t)
  BY DEF Write, Fault, Api, request, livekit, IInv, LogInv, LogTypeOK
<1>2. StartInv'
  <2>1. faults' \in 0 .. MaxFaults
    BY <1>1, StartAssumption DEF IInv, StartInv, StartTypeOK
  <2> QED
    BY <1>1, <2>1, WorkersKeepStart DEF IInv
<1>3. /\ turns \subseteq turns' /\ turns' \subseteq Turns
      /\ \A u \in turns' : u \in turns \/ u = t
  BY <1>1, UpsertedKeeps DEF IInv, LogInv, LogTypeOK
<1>4. reruns = 0 /\ deletes = 0 => \A u \in turns' : u.item = u.seq
  BY <1>3 DEF IInv, LogInv, InStep
<1>5. WorkerStep(j, stage[j]) /\ stage[j] \in Stages
  <2>1. stage' = [stage EXCEPT ![j] = stage[j]] /\ stage[j] \in Stages
    BY <1>1 DEF IInv, LogInv, LogTypeOK
  <2>2. pending[j] \ {t} \in SUBSET pending[j]
    OBVIOUS
  <2> QED
    BY <1>1, <1>3, <2>1, <2>2 DEF WorkerStep
<1>6. RowEnds(j)
  BY <1>1, RowStays
<1>7. Repairs(j)'
  BY <1>1, <1>3, StillRepairs
<1>8. done' \in [Jobs -> 0..MaxItems] /\ done'[j] <= Cardinality(history[j]) /\ done' = done
  BY <1>1 DEF IInv, LogInv, LogTypeOK, Bounded
<1>9. LogInv'
  BY <1>1, <1>3, <1>4, <1>5, <1>6, <1>7, <1>8, WorkerStepKeeps
<1> QED
  BY <1>2, <1>9 DEF IInv

\* The history and its size.
LEMMA HistoryFacts ==
    ASSUME IInv, NEW j \in Jobs
    PROVE  /\ spoken \in Nat /\ MaxItems \in Nat /\ spoken <= MaxItems
           /\ history[j] \in SUBSET (1 .. spoken)
           /\ IsFiniteSet(history[j]) /\ Cardinality(history[j]) \in Nat
           /\ Cardinality(history[j]) <= spoken
           /\ done[j] \in Nat /\ done[j] <= Cardinality(history[j])
<1>1. /\ spoken \in Nat /\ MaxItems \in Nat /\ spoken <= MaxItems /\ history[j] \in SUBSET (1 .. spoken)
      /\ done[j] \in Nat /\ done[j] <= Cardinality(history[j])
  BY JobsAssumption DEF IInv, LogInv, LogTypeOK, Bounded
<1>2. IsFiniteSet(history[j]) /\ Cardinality(history[j]) \in Nat
  <2>1. 0 \in Int
    OBVIOUS
  <2> QED
    BY <1>1, <2>1, UpToFacts
<1>3. IsFiniteSet(1 .. spoken) /\ Cardinality(1 .. spoken) = spoken
  <2>1. 1 \in Int /\ spoken \in Int /\ (IF 1 > spoken THEN 0 ELSE spoken - 1 + 1) = spoken
    BY <1>1
  <2> QED
    BY <2>1, FS_Interval
<1>4. Cardinality(history[j]) <= spoken
  BY <1>1, <1>3, FS_Subset
<1> QED
  BY <1>1, <1>2, <1>4

LEMMA ReconcileKeeps ==
    ASSUME IInv, NEW j \in Jobs, Reconcile(j)
    PROVE  IInv'
<1> DEFINE n    == done[j] + 1
           t    == [item |-> Nth(history[j], n), seq |-> n]
<1>1. /\ job[j].phase = "running" /\ stage[j] = "reconciling" /\ holder = Nobody
      /\ UNCHANGED <<row, holder, step, asked, found, room, dispatches, deletes, reruns,
                     spoken, history, pending, count, broken, processes>>
  BY DEF Reconcile, In, Api, request, livekit
<1>2. pending' = [pending EXCEPT ![j] = pending[j]]
  BY <1>1 DEF IInv, LogInv, LogTypeOK
<1>3. done \in [Jobs -> 0..MaxItems] /\ done[j] <= Cardinality(history[j]) /\ turns \subseteq Turns
      /\ (reruns = 0 /\ deletes = 0 => \A u \in turns : u.item = u.seq)
  BY DEF IInv, LogInv, LogTypeOK, Bounded, InStep
<1>4. deletes = 0 => \A m \in 1 .. done[j] : Stored(Nth(history[j], m))
  BY <1>1 DEF IInv, LogInv, Repaired, Repairs, In
\* Everything was looked at.
<1>5. CASE /\ done[j] = Cardinality(history[j])
           /\ Enter(j, "finishing") /\ UNCHANGED <<turns, done, job, faults>>
  <2>1. "finishing" \in Stages /\ stage'[j] = "finishing"
    BY <1>5 DEF Stages, Enter, IInv, LogInv, LogTypeOK
  <2>2. WorkerStep(j, "finishing")
    BY <1>1, <1>2, <1>5 DEF WorkerStep, Enter
  <2>3. RowEnds(j)
    BY <1>1, <2>1, RowStays
  <2>4. Repairs(j)'
    <3>1. ASSUME deletes = 0, NEW i \in history[j] PROVE Stored(i)
      <4>1. PICK m \in 1 .. Cardinality(history[j]) : Nth(history[j], m) = i
        BY HistoryFacts, EveryIsNth
      <4> QED
        BY <1>4, <1>5, <3>1, <4>1
    <3> QED
      BY <1>1, <1>5, <2>1, <3>1 DEF Repairs, In, AllStored, Stored
  <2>5. StartInv'
    BY <1>1, <1>5, WorkersKeepStart DEF IInv, StartInv, StartTypeOK
  <2> QED
    BY <1>1, <1>5, <2>1, <2>2, <2>3, <2>4, <2>5, NothingWritten DEF IInv
\* The next item is stored, or was.
<1>6. CASE /\ done[j] # Cardinality(history[j]) /\ turns' = Upserted(t)
           /\ done' = [done EXCEPT ![j] = @ + 1] /\ UNCHANGED <<stage, job, faults>>
  <2>1. n \in 1 .. Cardinality(history[j]) /\ n \in 1 .. MaxItems /\ n \in 1 .. spoken
    BY <1>6, HistoryFacts
  <2>2. Nth(history[j], n) \in history[j]
    BY <2>1, HistoryFacts, NthIsThere
  <2>3. t \in Turns
    <3>1. Nth(history[j], n) \in 1 .. MaxItems
      BY <2>2, HistoryFacts
    <3> QED
      BY <2>1, <3>1 DEF Turns, Items
  <2>4. ASSUME reruns = 0, deletes = 0 PROVE t.item = t.seq
    <3>1. history[j] = 1 .. spoken
      BY <1>1, <2>4, RunningAlone DEF IInv, LogInv, InStep
    <3>2. Nth(1 .. spoken, n) = n
      BY <2>1, HistoryFacts, NthOfAll
    <3> QED
      BY <3>1, <3>2
  <2>5. done' \in [Jobs -> 0..MaxItems] /\ done'[j] = n
        /\ \A k \in Jobs \ {j} : done'[k] = done[k]
    BY <1>3, <1>6, <2>1
  <2>6. t.item = Nth(history[j], n)
    OBVIOUS
  <2> HIDE DEF t
  <2>7. /\ turns \subseteq turns' /\ turns' \subseteq Turns
        /\ \E u \in turns' : u.item = Nth(history[j], n)
        /\ \A u \in turns' : u \in turns \/ u = t
    BY <1>6, <2>3, <2>6, UpsertedKeeps
  <2>8. WorkerStep(j, stage[j]) /\ stage[j] \in Stages
    <3>1. stage' = [stage EXCEPT ![j] = stage[j]] /\ stage[j] \in Stages
      BY <1>6 DEF IInv, LogInv, LogTypeOK
    <3> QED
      BY <1>1, <1>2, <1>6, <2>7, <3>1 DEF WorkerStep
  <2>9. RowEnds(j)
    BY <1>1, <1>6, RowStays
  <2>10. Repairs(j)'
    <3>1. ASSUME deletes = 0, NEW m \in 1 .. n PROVE Stored(Nth(history[j], m))'
      <4>1. CASE m = n
        BY <1>1, <2>7, <4>1 DEF Stored
      <4>2. CASE m # n
        <5>1. m \in 1 .. done[j]
          BY <1>3, <4>2, HistoryFacts
        <5> QED
          BY <1>1, <1>4, <2>7, <3>1, <5>1 DEF Stored
      <4> QED
        BY <4>1, <4>2
    <3>2. stage'[j] = "reconciling" /\ done'[j] = n /\ history' = history /\ deletes' = deletes
      BY <1>1, <1>6, <2>5
    <3>3. ASSUME deletes' = 0, NEW m \in 1 .. done'[j] PROVE Stored(Nth(history[j], m))'
      BY <3>1, <3>2, <3>3
    <3> QED
      BY <3>2, <3>3 DEF Repairs, In
  <2>11. StartInv'
    BY <1>1, <1>6, WorkersKeepStart DEF IInv, StartInv, StartTypeOK
  <2>12. reruns = 0 /\ deletes = 0 => \A u \in turns' : u.item = u.seq
    BY <1>3, <2>4, <2>7
  <2>13. done'[j] <= Cardinality(history[j])
    BY <2>1, <2>5, HistoryFacts
  <2>14. LogInv'
    BY <1>1, <2>5, <2>7, <2>8, <2>9, <2>10, <2>12, <2>13, WorkerStepKeeps
  <2> QED
    BY <2>11, <2>14 DEF IInv
\* It is refused, or the call fails.
<1>7. CASE /\ Leave(j) /\ UNCHANGED <<turns, done>>
           /\ faults' = faults \/ (faults < MaxFaults /\ faults' = faults + 1)
  <2>1. /\ "idle" \in Stages /\ stage'[j] = "idle" /\ job'[j].phase = "left"
        /\ job' = [job EXCEPT ![j].phase = "left"]
    BY <1>7 DEF Stages, Enter, Leave, IInv, LogInv, LogTypeOK, StartInv, StartTypeOK
  <2>2. WorkerStep(j, "idle")
    BY <1>1, <1>2, <1>7, <2>1 DEF WorkerStep, Enter, Leave
  <2>3. RowEnds(j)
    BY <1>1, <2>1, RowStays
  <2>4. Repairs(j)'
    BY <2>1 DEF Repairs, In
  <2>5. StartInv'
    <3>1. faults' \in 0 .. MaxFaults
      BY <1>7, StartAssumption DEF IInv, StartInv, StartTypeOK
    <3> QED
      BY <1>1, <2>1, <3>1, WorkersKeepStart DEF IInv
  <2> QED
    BY <1>1, <1>7, <2>1, <2>2, <2>3, <2>4, <2>5, NothingWritten DEF IInv
<1> QED
  BY <1>5, <1>6, <1>7 DEF Reconcile, Fault

-----------------------------------------------------------------------------
(***************************************************************************)
(* A worker starts, the conversation is had, and the session is deleted.   *)
(***************************************************************************)
\* How a claim ends.
Claimed(j) ==
    \/ ~Exists /\ row'.status = "active" /\ row'.job = j /\ job'[j].phase = "running"
    \/ /\ row.status = "starting" /\ row.job = NoJob
       /\ row'.status = "active" /\ row'.job = j /\ job'[j].phase = "running"
    \/ Exists /\ row' = row /\ row.job = j /\ job'[j].phase = "running"
    \/ Exists /\ row' = row /\ job'[j].phase = "refused"

LEMMA ClaimEnds ==
    ASSUME IInv, NEW j \in Jobs, Claim(j)
    PROVE  /\ Claimed(j) /\ job[j].phase = "assigned" /\ UNCHANGED <<deletes, reruns>>
           /\ \A k \in Jobs \ {j} : ~Live(k) /\ job'[k] = job[k]
           /\ job'[j].contract = job[j].contract
<1>1. /\ job[j].phase = "assigned" /\ UNCHANGED <<deletes, reruns>>
      /\ \E phase : job' = [job EXCEPT ![j].phase = phase]
  BY DEF Claim, bounds
<1>2. \A k \in Jobs \ {j} : ~Live(k)
  BY <1>1 DEF IInv, StartInv, OneAgent, Live
<1>3. job'[j].contract = job[j].contract /\ \A k \in Jobs \ {j} : job'[k] = job[k]
  BY <1>1 DEF IInv, StartInv, StartTypeOK
<1>4. Claimed(j)
  <2> DEFINE fits == row.contract.subject = job[j].contract.subject
             runs == ~Exists \/ (fits /\ (row.status = "starting" \/ row.job = j))
  <2>1. job'[j].phase = IF runs THEN "running" ELSE "refused"
    BY DEF Claim, IInv, StartInv, StartTypeOK
  <2>2. /\ ~Exists => row'.status = "active" /\ row'.job = j
        /\ Exists /\ fits /\ row.status = "starting" => row'.status = "active" /\ row'.job = j
        /\ Exists /\ ~(fits /\ row.status = "starting") => row' = row
    BY DEF Claim, IInv, StartInv, StartTypeOK
  <2>3. row.status = "starting" => Exists /\ row.job = NoJob
    BY DEF IInv, StartInv, StartingIsFree, Exists
  <2> HIDE DEF fits
  <2> QED
    BY <2>1, <2>2, <2>3 DEF Claimed
<1> QED
  BY <1>1, <1>2, <1>3, <1>4

LEMMA StartJobKeeps ==
    ASSUME IInv, NEW j \in Jobs, StartJob(j)
    PROVE  IInv'
<1>1. StartInv'
  BY ClaimKeeps DEF StartJob, IInv
<1>2. /\ Claimed(j) /\ job[j].phase = "assigned" /\ UNCHANGED <<deletes, reruns>>
      /\ \A k \in Jobs \ {j} : ~Live(k) /\ job'[k] = job[k]
      /\ job'[j].contract = job[j].contract
  BY ClaimEnds DEF StartJob
<1>3. /\ history' = [history EXCEPT ![j] = {}] /\ pending' = [pending EXCEPT ![j] = {}]
      /\ count' = [count EXCEPT ![j] = 0] /\ broken' = [broken EXCEPT ![j] = FALSE]
      /\ done' = [done EXCEPT ![j] = 0] /\ UNCHANGED <<turns, spoken>>
      /\ processes' = [processes EXCEPT ![j] = processes[j] + 1]
  BY DEF StartJob
<1>4. job'[j].phase = "running" => stage'[j] = "talking"
  BY DEF StartJob, Enter, IInv, LogInv, LogTypeOK
<1>5. processes[j] \in Nat /\ processes[j] <= reruns /\ reruns \in 0 .. MaxReruns /\ MaxReruns \in Nat
  BY <1>2, StartAssumption DEF IInv, LogInv, LogTypeOK, Bounded, StartInv, StartTypeOK
<1>6. LogTypeOK'
  <2>1. stage' \in [Jobs -> Stages]
    BY DEF StartJob, Enter, Stages, IInv, LogInv, LogTypeOK
  <2>2. processes' \in [Jobs -> 0 .. (MaxReruns + 1)]
    <3>1. processes[j] + 1 \in 0 .. (MaxReruns + 1)
      BY <1>5
    <3> QED
      BY <1>3, <3>1 DEF IInv, LogInv, LogTypeOK
  <2>3. 0 \in 0 .. MaxItems /\ {} \in SUBSET Items /\ {} \in SUBSET Turns
    BY JobsAssumption
  <2> QED
    BY <1>3, <2>1, <2>2, <2>3 DEF IInv, LogInv, LogTypeOK
<1>7. /\ history'[j] = {} /\ pending'[j] = {} /\ count'[j] = 0 /\ done'[j] = 0
      /\ processes'[j] = processes[j] + 1
      /\ \A k \in Jobs \ {j} : /\ history'[k] = history[k] /\ pending'[k] = pending[k]
                               /\ count'[k] = count[k] /\ done'[k] = done[k]
                               /\ processes'[k] = processes[k]
  BY <1>3 DEF IInv, LogInv, LogTypeOK
<1>8. Bounded'
  <2>1. spoken \in Nat /\ Cardinality({}) = 0
    BY JobsAssumption, FS_EmptySet DEF IInv, LogInv, LogTypeOK
  <2>2. job'[j].phase \in {"running", "refused"}
    BY <1>2 DEF Claimed
  <2>3. ASSUME NEW k \in Jobs
        PROVE  /\ count'[k] <= spoken' /\ history'[k] \subseteq 1 .. spoken'
               /\ done'[k] <= Cardinality(history'[k])
    <3>1. CASE k = j
      <4>1. {} \subseteq 1 .. spoken /\ 0 <= spoken /\ 0 <= 0
        BY <2>1
      <4> QED
        BY <1>3, <1>7, <2>1, <3>1, <4>1
    <3>2. CASE k # j
      BY <1>3, <1>7, <3>2 DEF IInv, LogInv, Bounded
    <3> QED
      BY <3>1, <3>2
  <2>4. ASSUME NEW k \in Jobs
        PROVE  /\ processes'[k] <= reruns' + 1
               /\ job'[k].phase = "assigned" => processes'[k] <= reruns'
               /\ job'[k].phase = "none" => processes'[k] = 0
    <3>1. CASE k = j
      BY <1>2, <1>5, <1>7, <2>2, <3>1
    <3>2. CASE k # j
      BY <1>2, <1>7, <3>2 DEF IInv, LogInv, Bounded
    <3> QED
      BY <3>1, <3>2
  <2> QED
    BY <2>3, <2>4 DEF Bounded
\* A row that is finished has no second process to start.
<1>9. EndedWell'
  BY <1>2 DEF IInv, LogInv, EndedWell, Claimed, Finished
<1>10. OwnRow'
  <2> SUFFICES ASSUME deletes = 0 PROVE OwnRow'
    BY <1>2 DEF OwnRow
  <2>1. Exists /\ \A k \in Jobs : Worked(k) => row.job = k
    BY <1>2 DEF IInv, LogInv, OwnRow
  <2>2. \A k \in Jobs : row.job = k => job[k].phase # "none" /\ (row.status = "completed" => k # j)
    BY <1>2 DEF IInv, LogInv, OwnRow
  <2>3. \A k \in Jobs \ {j} : Worked(k)' <=> Worked(k)
    BY <1>2 DEF Worked
  <2>4. NoJob \notin Jobs
    BY StartAssumption
  <2>5. Exists'
    BY <1>2, <2>1 DEF Claimed, Exists
  <2>6. \A k \in Jobs : Worked(k)' => row'.job = k
    BY <1>2, <2>1, <2>3, <2>4 DEF Claimed, Worked
  <2>7. \A k \in Jobs : row'.job = k => job'[k].phase # "none"
    BY <1>2, <2>2 DEF Claimed
  <2>8. row'.status = "completed" => \A k \in Jobs : row'.job = k => job'[k].phase = "left"
    BY <1>2, <2>2 DEF Claimed, IInv, LogInv, OwnRow
  <2> QED
    BY <2>5, <2>6, <2>7, <2>8 DEF OwnRow
<1>11. Repaired'
  <2>1. ASSUME NEW k \in Jobs, k # j PROVE Repairs(k)'
    <3>1. ~In(k, "talking")' /\ ~In(k, "flushing")' /\ ~In(k, "reconciling")' /\ ~In(k, "finishing")'
      BY <1>2, <2>1 DEF In, Live
    <3> QED
      BY <3>1 DEF Repairs
  <2>2. Repairs(j)'
    BY <1>4, <1>7 DEF Repairs, In
  <2> QED
    BY <2>1, <2>2 DEF Repaired
<1>12. InStep'
  <2> SUFFICES ASSUME reruns = 0, deletes = 0 PROVE InStep'
    BY <1>2 DEF InStep
  <2>1. row.job # j
    BY <1>2 DEF IInv, LogInv, InStep
  <2>2. \A t \in turns' : t.item = t.seq
    BY <1>3 DEF IInv, LogInv, InStep
  <2>3. \A k \in Jobs : \A t \in pending'[k] : t.item = t.seq
    BY <1>7 DEF IInv, LogInv, InStep
  <2>4. Exists /\ NoJob # j
    BY <1>2, StartAssumption DEF IInv, LogInv, OwnRow
  <2>5. row'.job = NoJob => spoken' = 0
    BY <1>2, <1>3, <2>4 DEF Claimed, IInv, LogInv, InStep
  <2>6. ASSUME NEW k \in Jobs, row'.job = k
        PROVE  job'[k].phase # "assigned" /\ history'[k] = 1 .. spoken' /\ count'[k] = spoken'
    <3>1. CASE k = j
      <4>1. row.job = NoJob /\ job'[j].phase = "running"
        BY <1>2, <2>1, <2>4, <2>6, <3>1 DEF Claimed
      <4>2. spoken' = 0 /\ 1 .. 0 = {}
        BY <1>3, <4>1 DEF IInv, LogInv, InStep
      <4> QED
        BY <1>7, <3>1, <4>1, <4>2
    <3>2. CASE k # j
      <4>1. row' = row
        BY <1>2, <2>4, <2>6, <3>2 DEF Claimed
      <4> QED
        BY <1>2, <1>3, <1>7, <2>6, <3>2, <4>1 DEF IInv, LogInv, InStep
    <3> QED
      BY <3>1, <3>2
  <2> QED
    BY <2>2, <2>3, <2>5, <2>6 DEF InStep
<1>13. CompletedHasHistory'
  <2> SUFFICES ASSUME row'.status = "completed", deletes = 0,
                      NEW k \in Jobs, row'.job = k, ~Guided(k)', NEW i \in history'[k]
               PROVE  Stored(i)'
    BY <1>2 DEF CompletedHasHistory
  <2>1. row' = row /\ k # j
    BY <1>2 DEF Claimed, IInv, LogInv, OwnRow
  <2> QED
    BY <1>2, <1>3, <1>7, <2>1 DEF IInv, LogInv, CompletedHasHistory, Guided, Stored
<1> QED
  BY <1>1, <1>6, <1>8, <1>9, <1>10, <1>11, <1>12, <1>13 DEF IInv, LogInv

\* A turn is heard: the only job that speaks hears all there is.
LEMMA SayKeeps ==
    ASSUME IInv, NEW j \in Jobs, Say(j)
    PROVE  IInv'
<1> DEFINE next == spoken + 1
           t    == [item |-> next, seq |-> count[j] + 1]
<1>1. /\ job[j].phase = "running" /\ stage[j] = "talking" /\ spoken < MaxItems /\ spoken' = next
      /\ UNCHANGED <<row, holder, step, asked, found, room, dispatches, job, faults, deletes, reruns,
                     turns, broken, stage, done, processes>>
  BY DEF Say, In, startVars, request, livekit, bounds
<1>2. /\ history' = [history EXCEPT ![j] = history[j] \cup {next}]
      /\ count' = [count EXCEPT ![j] = count[j] + 1]
      /\ pending' = [pending EXCEPT ![j] = pending[j] \cup {t}]
  BY DEF Say
<1>3. /\ spoken \in Nat /\ MaxItems \in Nat /\ next \in Items /\ next \in 0 .. MaxItems
      /\ count[j] \in Nat /\ count[j] <= spoken /\ count[j] + 1 \in Items
      /\ count[j] + 1 \in 0 .. MaxItems
  BY <1>1, JobsAssumption DEF IInv, LogInv, LogTypeOK, Bounded, Items
<1>4. t \in Turns /\ t.item = next /\ t.seq = count[j] + 1
  BY <1>3 DEF Turns
<1>5. spoken < next /\ 1 .. spoken \subseteq 1 .. next /\ (1 .. spoken) \cup {next} = 1 .. next
  BY <1>3
<1> HIDE DEF t
<1>6. StartInv'
  BY <1>1, WorkersKeepStart DEF IInv, StartInv, StartTypeOK
<1>7. LogTypeOK'
  BY <1>1, <1>2, <1>3, <1>4 DEF IInv, LogInv, LogTypeOK
<1>8. /\ history'[j] = history[j] \cup {next} /\ count'[j] = count[j] + 1
      /\ pending'[j] = pending[j] \cup {t}
      /\ \A k \in Jobs \ {j} : /\ history'[k] = history[k] /\ pending'[k] = pending[k]
                               /\ count'[k] = count[k]
  BY <1>2 DEF IInv, LogInv, LogTypeOK
<1>9. done[j] = 0
  BY <1>1 DEF IInv, LogInv, Repaired, Repairs, In
<1>10. Bounded'
  <2>1. ASSUME NEW k \in Jobs PROVE history'[k] \subseteq 1 .. next
    <3>1. history[k] \subseteq 1 .. spoken
      BY DEF IInv, LogInv, Bounded
    <3> QED
      BY <1>5, <1>8, <3>1
  <2>2. ASSUME NEW k \in Jobs PROVE done'[k] <= Cardinality(history'[k])
    <3>1. CASE k = j
      <4>1. history'[j] \in SUBSET (1 .. next) /\ next \in Nat /\ 0 \in Int
        BY <1>3, <2>1
      <4>2. Cardinality(history'[j]) \in Nat
        BY <4>1, UpToFacts
      <4> QED
        BY <1>1, <1>9, <3>1, <4>2
    <3>2. CASE k # j
      BY <1>1, <1>8, <3>2 DEF IInv, LogInv, Bounded
    <3> QED
      BY <3>1, <3>2
  <2>3. ASSUME NEW k \in Jobs PROVE count'[k] <= next
    <3>1. count[k] \in Nat /\ count[k] <= spoken
      BY JobsAssumption DEF IInv, LogInv, LogTypeOK, Bounded
    <3> QED
      BY <1>3, <1>8, <3>1
  <2> QED
    BY <1>1, <2>1, <2>2, <2>3 DEF IInv, LogInv, Bounded
<1>11. EndedWell' /\ OwnRow'
  BY <1>1 DEF IInv, LogInv, EndedWell, OwnRow, Worked, Exists
<1>12. Repaired'
  <2>1. ASSUME NEW k \in Jobs, k # j PROVE Repairs(k)'
    BY <1>1, <1>8, <2>1 DEF IInv, LogInv, Repaired, Repairs, In, AllStored, Stored, Guided
  <2>2. Repairs(j)'
    BY <1>1, <1>9 DEF Repairs, In
  <2> QED
    BY <2>1, <2>2 DEF Repaired
<1>13. InStep'
  <2> SUFFICES ASSUME reruns = 0, deletes = 0 PROVE InStep'
    BY <1>1 DEF InStep
  <2>1. row.job = j /\ NoJob # j
    BY <1>1, RunningAlone, StartAssumption
  <2>2. history[j] = 1 .. spoken /\ count[j] = spoken
    BY <2>1 DEF IInv, LogInv, InStep
  <2>3. \A k \in Jobs : \A u \in pending'[k] : u.item = u.seq
    BY <1>4, <1>8, <2>2 DEF IInv, LogInv, InStep
  <2>4. history'[j] = 1 .. spoken' /\ count'[j] = spoken'
    BY <1>1, <1>5, <1>8, <2>2
  <2> QED
    BY <1>1, <2>1, <2>3, <2>4 DEF IInv, LogInv, InStep
<1>14. CompletedHasHistory'
  <2> SUFFICES ASSUME row.status = "completed", deletes = 0 PROVE FALSE
    BY <1>1 DEF CompletedHasHistory
  <2> QED
    BY <1>1, RunningAlone
<1> QED
  BY <1>6, <1>7, <1>10, <1>11, <1>12, <1>13, <1>14 DEF IInv, LogInv

LEMMA DeleteAllKeeps ==
    ASSUME IInv, DeleteAll
    PROVE  IInv'
<1>1. StartInv'
  BY DeleteKeeps DEF DeleteAll, IInv
<1>2. /\ row' = NoRow /\ deletes' = deletes + 1 /\ deletes \in Nat /\ turns' = {}
      /\ UNCHANGED <<job, reruns, spoken, history, pending, count, broken, stage, done, processes>>
  BY StartAssumption DEF DeleteAll, Delete, IInv, StartInv, StartTypeOK
<1>3. deletes' # 0 /\ row'.status = "none" /\ "none" \notin Finished
  BY <1>2 DEF NoRow, Finished
<1>4. LogTypeOK' /\ Bounded'
  BY <1>2 DEF IInv, LogInv, LogTypeOK, Bounded
<1>5. EndedWell' /\ OwnRow' /\ InStep' /\ CompletedHasHistory'
  BY <1>3 DEF EndedWell, OwnRow, InStep, CompletedHasHistory
<1>6. Repaired'
  BY <1>2, <1>3 DEF IInv, LogInv, Repaired, Repairs, In
<1> QED
  BY <1>1, <1>4, <1>5, <1>6 DEF IInv, LogInv

-----------------------------------------------------------------------------
(***************************************************************************)
(* Every state.                                                            *)
(***************************************************************************)
LEMMA InitKept ==
    ASSUME Init
    PROVE  IInv
<1>1. StartTypeOK
  <2>1. row \in Rows
    BY Choices DEF Init, StartInit, Rows
  <2>2. 0 \in 0 .. MaxFaults /\ 0 \in 0 .. MaxDeletes /\ 0 \in 0 .. MaxReruns
    BY StartAssumption
  <2> QED
    BY <2>1, <2>2, Choices DEF Init, StartInit, StartTypeOK, Rows, Phases
<1>2. row.status = "none" /\ row.job = NoJob
  BY DEF Init, StartInit, NoRow
<1>3. RowHeld /\ OneAgent /\ StartingIsFree
  BY <1>2, StartAssumption DEF Init, StartInit, RowHeld, OneAgent, Alone, Live, StartingIsFree, Calling
<1>4. LogTypeOK
  <2>1. 0 \in 0 .. MaxItems /\ 0 \in 0 .. (MaxReruns + 1)
    BY StartAssumption, JobsAssumption
  <2> QED
    BY <2>1 DEF Init, LogTypeOK, Stages
<1>5. Bounded
  <2>1. Cardinality({}) = 0
    BY FS_EmptySet
  <2> QED
    BY <2>1 DEF Init, StartInit, Bounded
<1>6. EndedWell /\ OwnRow /\ CompletedHasHistory
  BY <1>2, StartAssumption DEF Init, StartInit, EndedWell, OwnRow, Worked, Finished, CompletedHasHistory
<1>7. Repaired
  BY DEF Init, StartInit, Repaired, Repairs, In
<1>8. InStep
  BY <1>2, StartAssumption DEF Init, InStep
<1> QED
  BY <1>1, <1>3, <1>4, <1>5, <1>6, <1>7, <1>8 DEF IInv, StartInv, LogInv

LEMMA StutterKeeps ==
    ASSUME IInv, UNCHANGED vars
    PROVE  IInv'
<1>1. UNCHANGED <<row, holder, step, asked, found, room, dispatches, job, faults, deletes, reruns>>
      /\ UNCHANGED log
  BY DEF vars, startVars, request, livekit, bounds
<1>2. StartInv'
  BY <1>1 DEF IInv, StartInv, StartTypeOK, RowHeld, OneAgent, Alone, Live, StartingIsFree
<1>3. LogInv'
  BY <1>1, LogUntouched
<1> QED
  BY <1>2, <1>3 DEF IInv

LEMMA NextKeeps ==
    ASSUME IInv, Next
    PROVE  IInv'
<1>1. CASE Elsewhere /\ UNCHANGED log
  BY <1>1, StartKeeps, ElsewhereKeepsLog DEF IInv
<1>2. ASSUME NEW j \in Jobs, Worker(j) PROVE IInv'
  BY <1>2, StartJobKeeps, BreakKeeps, FlushedKeeps, ReconcileKeeps, FinishKeeps, WriteKeeps DEF Worker
<1>3. ASSUME NEW j \in Jobs, Say(j) \/ Break(j) \/ FailEarly(j) \/ DieWithTasks(j) PROVE IInv'
  BY <1>3, SayKeeps, BreakKeeps, FailEarlyKeeps, DieKeeps
<1> QED
  BY <1>1, <1>2, <1>3, DeleteAllKeeps DEF Next

\* The two halves of the invariant hold in every state of the program.
THEOREM ConversationInvariant == Spec => []IInv
<1>1. Init => IInv
  BY InitKept
<1>2. IInv /\ [Next]_vars => IInv'
  BY NextKeeps, StutterKeeps
<1> QED
  BY <1>1, <1>2, PTL DEF Spec

\* Type correctness of the row, its requests, LiveKit and the log.
THEOREM TypeCorrect == Spec => []TypeOK
<1>1. IInv => TypeOK
  BY DEF IInv, StartInv, LogInv, LogTypeOK, TypeOK
<1> QED
  BY <1>1, ConversationInvariant, PTL

\* No number of requests, replicas, lost answers and dead processes puts two
\* dispatches of one session in its room (ConversationOrchestrator.start).
THEOREM OneDispatchAlways == Spec => []OneDispatch
<1>1. ASSUME IInv PROVE OneDispatch
  <2>1. CASE dispatches = {}
    BY <2>1, FS_EmptySet DEF OneDispatch
  <2>2. CASE dispatches # {}
    <3>1. \A d, e \in dispatches : d = e
      BY <1>1 DEF IInv, StartInv, OneAgent, Alone
    <3>2. PICK d \in dispatches : dispatches = {d}
      BY <2>2, <3>1
    <3>3. Cardinality({d}) = 1
      BY FS_Singleton
    <3> QED
      BY <3>2, <3>3 DEF OneDispatch
  <2> QED
    BY <2>1, <2>2
<1> QED
  BY <1>1, ConversationInvariant, PTL

\* The turns of GET /turns are in the order they were spoken, and a completed
\* conversation has all of its history, for any number of turns and faults
\* (JobPersistence, reconcile_history).
THEOREM HistoryIsKept == Spec => []HistoryKept
<1>1. ASSUME IInv PROVE HistoryKept
  <2>1. TurnsInOrder
    BY <1>1 DEF IInv, LogInv, InStep, TurnsInOrder
  <2> QED
    BY <1>1, <2>1 DEF IInv, LogInv, HistoryKept
<1> QED
  BY <1>1, ConversationInvariant, PTL

\* A finished session is never started, claimed or finished another way.
THEOREM FinishedStays == Spec => FinishedIsFinal
<1>1. ASSUME IInv, Next PROVE [row.status \in Finished /\ reruns = 0 => row'.status \in {row.status, "none"}]_startVars
  <2> SUFFICES ASSUME row.status \in Finished, reruns = 0
               PROVE  row'.status \in {row.status, "none"}
    OBVIOUS
  <2>1. CASE Elsewhere
    <3>1. row' = row \/ \E d : row' = [row EXCEPT !.dispatch = d]
      BY <2>1 DEF Elsewhere, Start, Begin, Read, Insert, Lock, List, EnsureRoom, ListAgain, Look,
                  Create, Commit, Fail, Rerun, Expire, Exists, Finished
    <3> QED
      BY <1>1, <3>1 DEF IInv, StartInv, StartTypeOK
  <2>2. ASSUME NEW j \in Jobs, StartJob(j) PROVE row' = row
    <3>1. job[j].phase = "assigned"
      BY <1>1, <2>2, ClaimEnds DEF StartJob
    <3> QED
      BY <1>1, <3>1 DEF IInv, LogInv, EndedWell
  <2>3. ASSUME NEW j \in Jobs, Finish(j) \/ FailEarly(j) PROVE row'.status = row.status
    <3>1. /\ job[j].phase = "running"
          /\ row' = row \/ row' = Settled("failed")
             \/ (row' = Settled(IF broken[j] THEN "failed" ELSE "completed"))
      BY <2>3 DEF Finish, FailEarly, In
    <3>2. row.status = "failed" /\ broken[j]
      BY <1>1, <3>1 DEF IInv, LogInv, EndedWell
    <3> QED
      BY <1>1, <3>1, <3>2 DEF Settled, IInv, StartInv, StartTypeOK
  <2>4. ASSUME NEW j \in Jobs, \/ HangUp(j) \/ Flushed(j) \/ Reconcile(j) \/ Say(j) \/ Break(j)
                               \/ DieWithTasks(j) \/ \E t \in pending[j] : Write(j, t)
        PROVE  row' = row
    BY <2>4 DEF HangUp, Flushed, Reconcile, Say, Break, DieWithTasks, Die, Write, startVars
  <2>5. CASE DeleteAll
    BY <2>5 DEF DeleteAll, Delete, NoRow
  <2> QED
    BY <1>1, <2>1, <2>2, <2>3, <2>4, <2>5 DEF Next, Worker
<1>2. IInv /\ [Next]_vars
        => [row.status \in Finished /\ reruns = 0 => row'.status \in {row.status, "none"}]_startVars
  BY <1>1 DEF vars
<1> QED
  BY <1>2, ConversationInvariant, PTL DEF Spec, FinishedIsFinal
=============================================================================

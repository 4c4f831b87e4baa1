--------------------------- MODULE FluencyTurnsProofs ---------------------------
(***************************************************************************)
(* Proofs about FluencyTurns and the rate limiter in front of it, for any  *)
(* number of turns, other callers, tries and requests, any limit and any   *)
(* window.                                                                 *)
(*                                                                         *)
(* The limiter: the deque is always the end of the list of all admissions, *)
(* and what is missing from it is older than the window, so the admission  *)
(* `Limit' places back is missing from a deque that has room.              *)
(*                                                                         *)
(* The tracker: the utterance whose timings are held was not sent yet, and *)
(* an utterance that is still to come was not either.                      *)
(*                                                                         *)
(* The service: rows are never changed or removed, so what a thread found  *)
(* stays stored while it goes on.                                          *)
(*                                                                         *)
(* The score: a weighted average lies between the least and the greatest   *)
(* of the scores, and rounding keeps it there.                             *)
(***************************************************************************)
EXTENDS FluencyTurns, FiniteSetTheorems, WellFoundedInduction, TLAPS

-----------------------------------------------------------------------------
(* The limiter. *)

\* A set of naturals that is not empty has a least member, ...
LEMMA LeastMember ==
    ASSUME NEW S \in SUBSET Nat, S # {}
    PROVE  \E m \in S : \A n \in S : m <= n
<1>. DEFINE less == {ss \in Nat \X Nat : ss[1] < ss[2]}
<1>1. IsWellFoundedOn(less, Nat)
  BY NatLessThanWellFounded DEF OpToRel
<1>2. PICK m \in S : \A n \in S : ~(<<n, m>> \in less)
  <2>. HIDE DEF less
  <2>. QED  BY <1>1, WFMin
<1>3. \A n \in S : m <= n
  <2>. SUFFICES ASSUME NEW n \in S
                PROVE  m <= n
    OBVIOUS
  <2>1. m \in Nat /\ n \in Nat
    OBVIOUS
  <2>2. <<n, m>> \in less <=> n < m
    BY <2>1
  <2>. QED  BY <1>2, <2>1, <2>2
<1>. QED  BY <1>3

\* ... and Min is it.
LEMMA MinIsLeast ==
    ASSUME NEW S \in SUBSET Nat, S # {}
    PROVE  Min(S) \in S /\ \A n \in S : Min(S) <= n
BY LeastMember DEF Min

\* Recent is the deque without some events at its front, all of them older
\* than the window.
LEMMA RecentIsTheEnd ==
    ASSUME LimiterTypeOK
    PROVE  LET gone == Len(events) - Len(Recent)
           IN  /\ Recent \in Seq(0..MaxTime)
               /\ gone \in Nat
               /\ \A i \in 1..Len(Recent) : Recent[i] = events[gone + i]
               /\ \A i \in 1..gone : events[i] < now - Window
<1>. DEFINE kept == {i \in DOMAIN events : events[i] >= now - Window}
<1>1. /\ events \in Seq(0..MaxTime) /\ now \in 0..MaxTime /\ Window \in Nat /\ MaxTime \in Nat
      /\ Len(events) \in Nat /\ DOMAIN events = 1..Len(events)
      /\ \A i \in 1..Len(events) : events[i] \in 0..MaxTime
  BY LimiterAssumption DEF LimiterTypeOK
<1>2. CASE kept = {}
  <2>1. Recent = <<>>
    BY <1>2 DEF Recent
  <2>2. \A i \in 1..Len(events) : events[i] < now - Window
    BY <1>1, <1>2
  <2>. QED  BY <1>1, <2>1, <2>2
<1>3. CASE kept # {}
  <2>. DEFINE first == Min(kept)
  <2>1. kept \in SUBSET Nat
    BY <1>1
  <2>2. first \in kept /\ \A i \in kept : first <= i
    BY <1>3, <2>1, MinIsLeast
  <2>3. first \in 1..Len(events)
    BY <1>1, <2>2
  <2>4. Recent = SubSeq(events, first, Len(events))
    BY <1>3 DEF Recent
  <2>. HIDE DEF first
  <2>5. /\ Recent \in Seq(0..MaxTime) /\ Len(Recent) = Len(events) - first + 1
        /\ \A i \in 1..Len(Recent) : Recent[i] = events[first + i - 1]
    BY <1>1, <2>3, <2>4
  <2>6. \A i \in 1..(first - 1) : events[i] < now - Window
    <3>. SUFFICES ASSUME NEW i \in 1..(first - 1)
                  PROVE  events[i] < now - Window
      OBVIOUS
    <3>1. i \in 1..Len(events) /\ ~(first <= i)
      BY <1>1, <2>3
    <3>2. i \notin kept
      BY <2>2, <3>1
    <3>. QED  BY <1>1, <3>1, <3>2
  <2>7. Len(events) - Len(Recent) = first - 1
    BY <1>1, <2>3, <2>5
  <2>8. \A i \in 1..Len(Recent) : (first - 1) + i = first + i - 1
    BY <2>3, <2>5
  <2>. QED  BY <2>3, <2>5, <2>6, <2>7, <2>8
<1>. QED  BY <1>2, <1>3

\* The deque is the end of the list of admissions, and what it has forgotten is
\* older than the window.
EndsInEvents ==
    LET gone == Len(admitted) - Len(events)
    IN  /\ gone \in Nat
        /\ \A i \in 1..Len(events) : events[i] = admitted[gone + i]
        /\ \A i \in 1..gone : admitted[i] < now - Window

LimiterInv == LimiterTypeOK /\ EndsInEvents /\ WindowHolds

LEMMA LimiterStarts ==
    ASSUME LimiterInit
    PROVE  LimiterInv
BY LimiterAssumption DEF LimiterInit, LimiterInv, LimiterTypeOK, EndsInEvents, WindowHolds

\* Time passes: what was older than the window stays so.
LEMMA TimePasses ==
    ASSUME LimiterInv, Tick
    PROVE  LimiterInv'
<1>1. /\ now \in 0..MaxTime /\ now' = now + 1 /\ now' \in 0..MaxTime
      /\ events' = events /\ admitted' = admitted
      /\ admitted \in Seq(0..MaxTime)
      /\ Window \in Nat /\ MaxTime \in Nat
  BY LimiterAssumption DEF LimiterInv, LimiterTypeOK, Tick
<1>2. LimiterTypeOK'
  BY <1>1 DEF LimiterInv, LimiterTypeOK
<1>3. EndsInEvents'
  <2>. DEFINE gone == Len(admitted) - Len(events)
  <2>1. /\ gone \in Nat
        /\ \A i \in 1..Len(events) : events[i] = admitted[gone + i]
        /\ \A i \in 1..gone : admitted[i] < now - Window
    BY DEF LimiterInv, EndsInEvents
  <2>2. \A i \in 1..gone : admitted[i] < (now + 1) - Window
    <3>. SUFFICES ASSUME NEW i \in 1..gone
                  PROVE  admitted[i] < (now + 1) - Window
      OBVIOUS
    <3>1. i \in 1..Len(admitted)
      BY <2>1 DEF LimiterInv, LimiterTypeOK
    <3>2. admitted[i] \in 0..MaxTime
      BY <1>1, <3>1
    <3>3. admitted[i] < now - Window
      BY <2>1
    <3>4. \A a \in 0..MaxTime : a < now - Window => a < (now + 1) - Window
      BY <1>1
    <3>. QED  BY <3>2, <3>3, <3>4
  <2>. QED  BY <1>1, <2>1, <2>2 DEF EndsInEvents
<1>4. WindowHolds'
  BY <1>1 DEF LimiterInv, WindowHolds
<1>. QED  BY <1>2, <1>3, <1>4 DEF LimiterInv

\* What Recent leaves out and what the deque left out before are the same
\* beginning of the list of admissions.
LEMMA RecentEndsAdmitted ==
    ASSUME LimiterInv
    PROVE  LET gone == Len(admitted) - Len(Recent)
           IN  /\ Recent \in Seq(0..MaxTime) /\ Len(Recent) \in Nat
               /\ gone \in Nat
               /\ \A i \in 1..Len(Recent) : Recent[i] = admitted[gone + i]
               /\ \A i \in 1..gone : admitted[i] < now - Window
<1>. DEFINE before == Len(admitted) - Len(events)
            left   == Len(events) - Len(Recent)
<1>1. /\ before \in Nat
      /\ \A i \in 1..Len(events) : events[i] = admitted[before + i]
      /\ \A i \in 1..before : admitted[i] < now - Window
  BY DEF LimiterInv, EndsInEvents
<1>2. /\ Recent \in Seq(0..MaxTime)
      /\ left \in Nat
      /\ \A i \in 1..Len(Recent) : Recent[i] = events[left + i]
      /\ \A i \in 1..left : events[i] < now - Window
  BY RecentIsTheEnd DEF LimiterInv
<1>3. Len(Recent) \in Nat /\ Len(events) \in Nat /\ Len(admitted) \in Nat
  BY <1>2 DEF LimiterInv, LimiterTypeOK
<1>4. \A i \in 1..Len(Recent) : Recent[i] = admitted[(Len(admitted) - Len(Recent)) + i]
  <2>. SUFFICES ASSUME NEW i \in 1..Len(Recent)
                PROVE  Recent[i] = admitted[(Len(admitted) - Len(Recent)) + i]
    OBVIOUS
  <2>1. left + i \in 1..Len(events)
    BY <1>2, <1>3
  <2>2. before + (left + i) = (Len(admitted) - Len(Recent)) + i
    BY <1>3
  <2>. QED  BY <1>1, <1>2, <2>1, <2>2
<1>5. \A i \in 1..(Len(admitted) - Len(Recent)) : admitted[i] < now - Window
  <2>. SUFFICES ASSUME NEW i \in 1..(Len(admitted) - Len(Recent))
                PROVE  admitted[i] < now - Window
    OBVIOUS
  <2>1. CASE i \in 1..before
    BY <1>1, <2>1
  <2>2. CASE i \notin 1..before
    <3>1. i - before \in 1..left /\ i - before \in 1..Len(events) /\ before + (i - before) = i
      BY <1>1, <1>2, <1>3, <2>2
    <3>2. events[i - before] = admitted[i] /\ events[i - before] < now - Window
      BY <1>1, <1>2, <3>1
    <3>. QED  BY <3>2
  <2>. QED  BY <2>1, <2>2
<1>. QED  BY <1>1, <1>2, <1>3, <1>4, <1>5

\* A refusal only drops what is old.
LEMMA RefusalForgets ==
    ASSUME LimiterInv, Refuse
    PROVE  LimiterInv'
<1>1. events' = Recent /\ now' = now /\ admitted' = admitted
  BY DEF Refuse
<1>2. LimiterTypeOK'
  BY <1>1, RecentEndsAdmitted DEF LimiterInv, LimiterTypeOK
<1>3. EndsInEvents'
  <2>1. Recent \in Seq(0..MaxTime)
    BY RecentEndsAdmitted
  <2>. QED  BY <1>1, RecentEndsAdmitted DEF EndsInEvents
<1>4. WindowHolds'
  BY <1>1 DEF LimiterInv, WindowHolds
<1>. QED  BY <1>2, <1>3, <1>4 DEF LimiterInv

\* Whoever is let in finds fewer than `Limit' admissions in the deque; the one
\* `Limit' places back is among the forgotten ones.
LEMMA AdmissionFits ==
    ASSUME LimiterInv, Admit
    PROVE  LimiterInv'
<1>. DEFINE n    == Len(admitted)
            gone == Len(admitted) - Len(Recent)
<1>1. /\ events' = Append(Recent, now) /\ admitted' = Append(admitted, now) /\ now' = now
      /\ Len(Recent) < Limit
      /\ Limit \in Nat /\ Window \in Nat /\ MaxTime \in Nat /\ now \in 0..MaxTime
      /\ admitted \in Seq(0..MaxTime) /\ n \in Nat
  BY LimiterAssumption DEF Admit, LimiterInv, LimiterTypeOK
<1>2. /\ Recent \in Seq(0..MaxTime) /\ Len(Recent) \in Nat
      /\ gone \in Nat
      /\ \A i \in 1..Len(Recent) : Recent[i] = admitted[gone + i]
      /\ \A i \in 1..gone : admitted[i] < now - Window
  BY RecentEndsAdmitted
<1>3. /\ Len(admitted') = n + 1 /\ DOMAIN admitted' = 1..(n + 1)
      /\ admitted'[n + 1] = now
      /\ \A i \in 1..n : admitted'[i] = admitted[i]
  BY <1>1
<1>4. /\ Len(events') = Len(Recent) + 1
      /\ events'[Len(Recent) + 1] = now
      /\ \A i \in 1..Len(Recent) : events'[i] = Recent[i]
  BY <1>1, <1>2
<1>5. LimiterTypeOK'
  BY <1>1, <1>2 DEF LimiterTypeOK
<1>6. EndsInEvents'
  <2>1. Len(admitted') - Len(events') = gone
    BY <1>1, <1>2, <1>3, <1>4
  <2>2. ASSUME NEW i \in 1..(Len(Recent) + 1)
        PROVE  events'[i] = admitted'[gone + i]
    <3>1. CASE i = Len(Recent) + 1
      <4>1. gone + i = n + 1
        BY <1>1, <1>2, <3>1
      <4>. QED  BY <1>3, <1>4, <3>1, <4>1
    <3>2. CASE i \in 1..Len(Recent)
      <4>1. gone + i \in 1..n
        BY <1>1, <1>2, <3>2
      <4>. QED  BY <1>2, <1>3, <1>4, <3>2, <4>1
    <3>. QED  BY <1>2, <3>1, <3>2
  <2>3. ASSUME NEW i \in 1..gone
        PROVE  admitted'[i] < now - Window
    <3>1. i \in 1..n
      BY <1>1, <1>2
    <3>. QED  BY <1>2, <1>3, <3>1
  <2>. QED  BY <1>1, <1>2, <1>4, <2>1, <2>2, <2>3 DEF EndsInEvents
<1>7. WindowHolds'
  <2>. SUFFICES ASSUME NEW i \in 1..(n + 1), i + Limit \in 1..(n + 1)
                PROVE  admitted'[i + Limit] > admitted'[i] + Window
    BY <1>1, <1>3 DEF WindowHolds
  <2>1. CASE i + Limit \in 1..n
    <3>1. i \in 1..n /\ DOMAIN admitted = 1..n
      BY <1>1, <2>1
    <3>2. admitted[i + Limit] > admitted[i] + Window
      BY <2>1, <3>1 DEF LimiterInv, WindowHolds
    <3>. QED  BY <1>3, <2>1, <3>1, <3>2
  <2>2. CASE i + Limit = n + 1
    <3>1. i \in 1..gone /\ i \in 1..n
      BY <1>1, <1>2, <2>2
    <3>2. admitted[i] < now - Window /\ admitted[i] \in 0..MaxTime
      BY <1>1, <1>2, <3>1
    <3>3. admitted'[i + Limit] = now /\ admitted'[i] = admitted[i]
      BY <1>3, <2>2, <3>1
    <3>4. \A a \in 0..MaxTime : a < now - Window => now > a + Window
      BY <1>1
    <3>. QED  BY <3>2, <3>3, <3>4
  <2>3. \A m, k \in Nat : k \in 1..(m + 1) => k \in 1..m \/ k = m + 1
    OBVIOUS
  <2>4. i + Limit \in Nat /\ n \in Nat
    BY <1>1
  <2>. QED  BY <2>1, <2>2, <2>3, <2>4
<1>. QED  BY <1>5, <1>6, <1>7 DEF LimiterInv

-----------------------------------------------------------------------------
(* Sums and averages. *)

\* A sum is taken one member at a time: the one Total takes next, and what it
\* adds to the sum of the others.
Pick(s) == CHOOSE x \in s : TRUE
Adds(iter, values, s) == IF s = {} THEN 0 ELSE values[Pick(s)] + iter[s \ {Pick(s)}]

LEMMA Picked ==
    ASSUME NEW s, s # {}
    PROVE  Pick(s) \in s
BY DEF Pick

\* The sums of the subsets of a finite set exist and Total is the one of the
\* whole set: they exist for the subsets of n members, for every n.
LEMMA TotalUnfolds ==
    ASSUME NEW S, IsFiniteSet(S), NEW values \in [S -> Int]
    PROVE  \E iter : /\ iter = [s \in SUBSET S |-> Adds(iter, values, s)]
                   /\ Total(values) = iter[S]
<1>. DEFINE Upto(n) == \E iter \in [SUBSET S -> Int] :
                \A s \in SUBSET S : Cardinality(s) <= n => iter[s] = Adds(iter, values, s)
            bad == {n \in Nat : ~Upto(n)}
<1>1. \A s \in SUBSET S : IsFiniteSet(s) /\ Cardinality(s) \in Nat /\ Cardinality(s) <= Cardinality(S)
  BY FS_Subset, FS_CardinalityType
<1>2. Upto(0)
  <2>. DEFINE iter == [s \in SUBSET S |-> 0]
  <2>1. iter \in [SUBSET S -> Int]
    OBVIOUS
  <2>2. \A s \in SUBSET S : Cardinality(s) <= 0 => s = {}
    BY <1>1, FS_EmptySet
  <2>3. \A s \in SUBSET S : Cardinality(s) <= 0 => iter[s] = Adds(iter, values, s)
    BY <2>2 DEF Adds
  <2>. HIDE DEF iter
  <2>. QED  BY <2>1, <2>3
<1>3. ASSUME NEW n \in Nat, Upto(n) PROVE Upto(n + 1)
  <2>1. PICK iter \in [SUBSET S -> Int] :
                \A s \in SUBSET S : Cardinality(s) <= n => iter[s] = Adds(iter, values, s)
    BY <1>3
  <2>. DEFINE next == [s \in SUBSET S |-> IF Cardinality(s) <= n THEN iter[s] ELSE Adds(iter, values, s)]
  <2>2. next \in [SUBSET S -> Int]
    <3>1. \A s \in SUBSET S : s # {} => Pick(s) \in S
      BY Picked
    <3>2. \A s \in SUBSET S : Adds(iter, values, s) \in Int
      BY <3>1 DEF Adds
    <3>. QED  BY <3>2
  <2>3. ASSUME NEW s \in SUBSET S, Cardinality(s) <= n + 1
        PROVE next[s] = Adds(next, values, s)
    <3>1. CASE s = {}
      BY <1>1, <2>1, <3>1, FS_EmptySet DEF Adds
    <3>2. CASE s # {}
      <4>1. Pick(s) \in s /\ s \ {Pick(s)} \in SUBSET S
        BY <3>2, Picked
      <4>2. Cardinality(s \ {Pick(s)}) = Cardinality(s) - 1
        BY <1>1, <4>1, FS_RemoveElement
      <4>3. Cardinality(s \ {Pick(s)}) <= n
        BY <1>1, <2>3, <4>2
      <4>4. next[s \ {Pick(s)}] = iter[s \ {Pick(s)}]
        BY <4>1, <4>3
      <4>5. next[s] = Adds(iter, values, s)
        BY <2>1
      <4>. QED  BY <3>2, <4>4, <4>5 DEF Adds
    <3>. QED  BY <3>1, <3>2
  <2>. HIDE DEF next
  <2>. QED  BY <2>2, <2>3
<1>4. \A n \in Nat : Upto(n)
  <2>1. SUFFICES ASSUME bad # {} PROVE FALSE
    OBVIOUS
  <2>2. PICK m \in bad : \A n \in bad : m <= n
    BY <2>1, LeastMember
  <2>. HIDE DEF Upto
  <2>3. m # 0
    BY <1>2, <2>2
  <2>4. m - 1 \in Nat /\ Upto(m - 1) /\ (m - 1) + 1 = m
    BY <2>2, <2>3
  <2>5. Upto(m)
    BY <1>3, <2>4
  <2>. QED  BY <2>2, <2>5
<1>5. PICK iter \in [SUBSET S -> Int] :
                \A s \in SUBSET S : Cardinality(s) <= Cardinality(S) => iter[s] = Adds(iter, values, s)
  BY <1>1, <1>4
<1>6. iter = [s \in SUBSET S |-> Adds(iter, values, s)]
  BY <1>1, <1>5
<1>. DEFINE sums == CHOOSE g : g = [s \in SUBSET S |-> Adds(g, values, s)]
<1>7. sums = [s \in SUBSET S |-> Adds(sums, values, s)]
  BY <1>6
<1>8. DOMAIN values = S
  OBVIOUS
<1>9. Total(values) = sums[S]
  BY <1>8 DEF Total, MapThenSumSet, MapThenFoldSet, Adds, Pick
<1>. HIDE DEF sums
<1>. QED  BY <1>7, <1>9


\* sums over a finite set, by its smaller subsets
\* Induction over the subsets of a finite set, along the member Total takes.
LEMMA SmallerSets ==
    ASSUME NEW S, IsFiniteSet(S), NEW Good \in SUBSET SUBSET S, {} \in Good,
         ASSUME NEW s \in SUBSET S, s # {}, s \ {Pick(s)} \in Good
         PROVE  s \in Good
    PROVE  \A s \in SUBSET S : s \in Good
<1>. DEFINE bad == {Cardinality(s) : s \in (SUBSET S) \ Good}
<1>1. \A s \in SUBSET S : IsFiniteSet(s) /\ Cardinality(s) \in Nat
  BY FS_Subset, FS_CardinalityType
<1>. SUFFICES ASSUME bad # {} PROVE FALSE
  OBVIOUS
<1>2. PICK m \in bad : \A n \in bad : m <= n
  <2>1. bad \in SUBSET Nat
    BY <1>1
  <2>. HIDE DEF bad
  <2>. QED  BY <2>1, LeastMember
<1>3. PICK s \in (SUBSET S) \ Good : m = Cardinality(s)
  BY <1>2
<1>4. s # {}
  BY <1>3
<1>5. Pick(s) \in s
  BY <1>4, Picked
<1>6. Cardinality(s \ {Pick(s)}) = Cardinality(s) - 1 /\ s \ {Pick(s)} \in SUBSET S
  BY <1>1, <1>3, <1>5, FS_RemoveElement
<1>7. s \ {Pick(s)} \in Good
  <2>1. Cardinality(s) \in Nat
    BY <1>1, <1>3
  <2>2. ~(m <= Cardinality(s \ {Pick(s)}))
    BY <1>3, <1>6, <2>1
  <2>3. Cardinality(s \ {Pick(s)}) \notin bad
    BY <1>2, <2>2
  <2>. QED  BY <1>6, <2>3
<1>. QED  BY <1>3, <1>4, <1>7

\* What holds of the members, up to factors, holds of the sums.
LEMMA TotalsCompare ==
    ASSUME NEW S, IsFiniteSet(S), NEW f \in [S -> Int], NEW g \in [S -> Int], NEW a \in Int, NEW b \in Int,
         \A x \in S : a * f[x] <= b * g[x]
    PROVE  Total(f) \in Int /\ Total(g) \in Int /\ a * Total(f) <= b * Total(g)
<1>1. PICK F : F = [s \in SUBSET S |-> Adds(F, f, s)] /\ Total(f) = F[S]
  BY TotalUnfolds
<1>2. PICK G : G = [s \in SUBSET S |-> Adds(G, g, s)] /\ Total(g) = G[S]
  BY TotalUnfolds
<1>. DEFINE Good == {s \in SUBSET S : F[s] \in Int /\ G[s] \in Int /\ a * F[s] <= b * G[s]}
<1>3. {} \in Good
  <2>1. F[{}] = 0 /\ G[{}] = 0
    BY <1>1, <1>2 DEF Adds
  <2>. QED  BY <2>1
<1>4. ASSUME NEW s \in SUBSET S, s # {}, s \ {Pick(s)} \in Good
      PROVE  s \in Good
  <2>. DEFINE x == Pick(s)
             r == s \ {x}
  <2>1. x \in S
    BY <1>4, Picked
  <2>2. F[s] = f[x] + F[r] /\ G[s] = g[x] + G[r]
    BY <1>1, <1>2, <1>4 DEF Adds
  <2>3. F[r] \in Int /\ G[r] \in Int /\ a * F[r] <= b * G[r]
    BY <1>4
  <2>4. f[x] \in Int /\ g[x] \in Int /\ a * f[x] <= b * g[x]
    BY <2>1
  <2>. HIDE DEF x, r
  <2>5. \A p, q, u, v \in Int : a * p <= b * q /\ a * u <= b * v => a * (p + u) <= b * (q + v)
    OBVIOUS
  <2>6. a * (f[x] + F[r]) <= b * (g[x] + G[r])
    BY <2>3, <2>4, <2>5
  <2>. QED  BY <2>2, <2>3, <2>4, <2>6
<1>5. S \in Good
  <2>. HIDE DEF Good
  <2>1. Good \in SUBSET SUBSET S
    BY DEF Good
  <2>. QED  BY <1>3, <1>4, <2>1, SmallerSets
<1>. QED  BY <1>1, <1>2, <1>5

\* A sum of positive numbers is positive.
LEMMA TotalPositive ==
    ASSUME NEW S, IsFiniteSet(S), S # {}, NEW f \in [S -> Int], \A x \in S : f[x] > 0
    PROVE  Total(f) \in Int /\ Total(f) > 0
<1>1. PICK F : F = [s \in SUBSET S |-> Adds(F, f, s)] /\ Total(f) = F[S]
  BY TotalUnfolds
<1>. DEFINE Good == {s \in SUBSET S : F[s] \in Int /\ F[s] >= 0 /\ (s # {} => F[s] > 0)}
<1>2. {} \in Good
  <2>1. F[{}] = 0
    BY <1>1 DEF Adds
  <2>. QED  BY <2>1
<1>3. ASSUME NEW s \in SUBSET S, s # {}, s \ {Pick(s)} \in Good
      PROVE  s \in Good
  <2>. DEFINE x == Pick(s)
             r == s \ {x}
  <2>1. x \in S
    BY <1>3, Picked
  <2>2. F[s] = f[x] + F[r]
    BY <1>1, <1>3 DEF Adds
  <2>3. F[r] \in Int /\ F[r] >= 0
    BY <1>3
  <2>4. f[x] \in Int /\ f[x] > 0
    BY <2>1
  <2>. HIDE DEF x, r
  <2>. QED  BY <2>2, <2>3, <2>4
<1>4. S \in Good
  <2>. HIDE DEF Good
  <2>1. Good \in SUBSET SUBSET S
    BY DEF Good
  <2>. QED  BY <1>2, <1>3, <2>1, SmallerSets
<1>. QED  BY <1>1, <1>4

\* A quotient that lies between two integers is rounded to one between them.
LEMMA RoundedBetween ==
    ASSUME NEW a \in Int, NEW b \in Int, b > 0, NEW m \in Int, NEW n \in Int,
         m * b <= a, a <= n * b
    PROVE  Rounded(a, b) \in Int /\ m <= Rounded(a, b) /\ Rounded(a, b) <= n
<1>. DEFINE q == a \div b
            r == a % b
<1>1. q \in Int /\ r \in Int /\ 0 <= r /\ r < b /\ a = b * q + r
  OBVIOUS
<1>2. Rounded(a, b) \in {q, q + 1} /\ (Rounded(a, b) = q + 1 => r > 0)
  <2>1. r = 0 => ~(2 * r > b) /\ ~(2 * r = b)
    BY <1>1
  <2>2. ~(r = 0) => r > 0
    BY <1>1
  <2>. QED  BY <2>1, <2>2 DEF Rounded
<1>. HIDE DEF q, r
<1>3. m <= q
  <2>1. m * b < b * (q + 1)
    BY <1>1
  <2>2. \A k \in Int : k >= 1 => k * b >= b
    OBVIOUS
  <2>3. ~(m >= q + 1)
    <3>. SUFFICES ASSUME m >= q + 1 PROVE FALSE
      OBVIOUS
    <3>1. (m - q) * b >= b
      BY <1>1, <2>2
    <3>. QED  BY <1>1, <2>1, <3>1
  <2>. QED  BY <1>1, <2>3
<1>4. q <= n /\ (r > 0 => q + 1 <= n)
  <2>1. b * q + r <= n * b
    BY <1>1
  <2>2. \A k \in Int : k >= 1 => k * b >= b
    OBVIOUS
  <2>3. CASE q >= n + 1
    <3>1. (q - n) * b >= b
      BY <1>1, <2>2, <2>3
    <3>. QED  BY <1>1, <2>1, <3>1
  <2>4. CASE q = n
    <3>1. b * q = n * b
      BY <2>4
    <3>. QED  BY <1>1, <2>1, <2>4, <3>1
  <2>5. CASE q + 1 <= n
    BY <1>1, <2>5
  <2>. QED  BY <1>1, <2>3, <2>4, <2>5
<1>. QED  BY <1>1, <1>2, <1>3, <1>4

\* The sum of integers is one.
LEMMA TotalIsInteger ==
    ASSUME NEW S, IsFiniteSet(S), NEW f \in [S -> Int]
    PROVE  Total(f) \in Int
<1>1. PICK k \in Int : \A x \in S : k * f[x] <= k * f[x]
  OBVIOUS
<1>. QED  BY <1>1, TotalsCompare

-----------------------------------------------------------------------------
(* The inductive invariant. *)

\* A try has its six fields, whatever they hold.
IsTry(t) ==
    t = [n |-> t.n, mode |-> t.mode, says |-> t.says, at |-> t.at,
         found |-> t.found, answer |-> t.answer]

\* What a thread found is stored, and a score it answered is made of rows that
\* are stored, with what it found among them and of one mode.
Sound(t, stored) ==
    /\ IsTry(t)
    /\ t.at \in Steps /\ t.mode \in Modes /\ t.n \in 1..2
    /\ t.says.from \in DOMAIN Spoken \cup {0}
    /\ t.found \subseteq stored
    /\ t.at = "done" /\ t.answer.status = 200 =>
          /\ t.found \subseteq t.answer.of /\ t.answer.of \subseteq stored
          /\ \A o \in t.answer.of : o.mode = t.mode
          /\ t.answer.session = Session(t.mode, t.answer.of)

\* A row has a speech and, when it is scored, an index.
RowSound(o) ==
    /\ o.mode \in Modes /\ o.speech \in Int
    /\ o.index \in (IF o.status = "scored" THEN Indexes ELSE {NoIndex})

\* The table is finite, and a turn has one row in it.
TableSound(table) ==
    /\ IsFiniteSet(table)
    /\ \A o \in table : RowSound(o)
    /\ \A o, p \in table : o.turn = p.turn => o = p

ThreadsSound == \A t \in tries : Sound(t, rows)

\* The timings that are held, and those still to come, were sent by nobody.
TimingsFresh ==
    /\ words \in 0..heard
    /\ \A t \in tries : t.says.from \in Turns =>
                            t.says.from \in 1..heard /\ t.says.from # words

FluencyInv ==
    TypeOK /\ LimiterInv /\ TableSound(rows) /\ ThreadsSound /\ TimingsFresh /\ WordsCountOnce

\* A sound table has the type of a table.
LEMMA TableShape ==
    ASSUME NEW table, TableSound(table)
    PROVE  \A o \in table : o.mode \in Modes /\ o.index \in Indexes \cup {NoIndex}
BY DEF TableSound, RowSound

\* The initial states.
LEMMA FluencyStarts ==
    ASSUME Init
    PROVE  FluencyInv
<1>1. LimiterInv
  BY LimiterStarts DEF Init
<1>2. TableSound(rows)
  BY TurnsAssumption DEF Init, TableSound, RowSound
<1>3. TypeOK
  <2>1. /\ words = 0 /\ heard = 0 /\ added = 0 /\ tasks = <<>> /\ tries = {}
        /\ timeouts = 0 /\ submitted = {} /\ rows \in Earlier
    BY DEF Init
  <2>2. MaxTurns \in Nat /\ MaxTimeouts \in Nat
    BY TurnsAssumption
  <2>. QED  BY <1>1, <1>2, <2>1, <2>2, TableShape DEF TypeOK, LimiterInv, TableSound
<1>4. ThreadsSound /\ WordsCountOnce
  BY DEF Init, ThreadsSound, WordsCountOnce
<1>5. TimingsFresh
  BY DEF Init, TimingsFresh
<1>. QED  BY <1>1, <1>2, <1>3, <1>4, <1>5 DEF FluencyInv

-----------------------------------------------------------------------------
(* Observations and sessions. *)

\* Words with times have a speech of some length.
LEMMA SpeechIsInteger ==
    ASSUME NEW turn, turn.words \in Seq([start : Int, end : Int]), turn.window \in Int
    PROVE  Features(turn).speech \in Int
<1>. DEFINE said   == turn.words
            n      == Len(said)
            gap(i) == AtLeastZero(said[i + 1].start - said[i].end)
            long   == {i \in 1..(n - 1) : gap(i) > LongestGap}
            gaps   == [i \in long |-> gap(i)]
            time   == IF n = 0 THEN turn.window ELSE AtLeastZero(said[n].end - said[1].start)
<1>1. n \in Nat /\ \A i \in 1..n : said[i].start \in Int /\ said[i].end \in Int
  <2>1. \A W : \A s \in Seq(W) : Len(s) \in Nat /\ \A i \in 1..Len(s) : s[i] \in W
    OBVIOUS
  <2>2. n \in Nat /\ \A i \in 1..n : said[i] \in [start : Int, end : Int]
    BY <2>1, Zenon
  <2>3. \A w \in [start : Int, end : Int] : w.start \in Int /\ w.end \in Int
    OBVIOUS
  <2>. QED  BY <2>2, <2>3
<1>. HIDE DEF said, n
<1>2. \A k \in Int : AtLeastZero(k) \in Int
  BY DEF AtLeastZero
<1>3. \A i \in 1..(n - 1) : gap(i) \in Int
  <2>. SUFFICES ASSUME NEW i \in 1..(n - 1)
                PROVE  gap(i) \in Int
    OBVIOUS
  <2>1. i \in 1..n /\ i + 1 \in 1..n
    BY <1>1
  <2>2. said[i + 1].start \in Int /\ said[i].end \in Int
    BY <1>1, <2>1
  <2>3. said[i + 1].start - said[i].end \in Int
    BY <2>2
  <2>. QED  BY <1>2, <2>3
<1>4. IsFiniteSet(long)
  <2>1. IsFiniteSet(1..(n - 1))
    BY <1>1, FS_Interval
  <2>2. long \in SUBSET (1..(n - 1))
    OBVIOUS
  <2>. HIDE DEF long
  <2>. QED  BY <2>1, <2>2, FS_Subset
<1>5. gaps \in [long -> Int]
  BY <1>3
<1>6. Total(gaps) \in Int
  <2>. HIDE DEF gaps, long
  <2>. QED  BY <1>4, <1>5, TotalIsInteger
<1>7. time \in Int
  <2>1. n # 0 => said[n].end \in Int /\ said[1].start \in Int
    BY <1>1
  <2>2. n # 0 => said[n].end - said[1].start \in Int
    BY <2>1
  <2>. QED  BY <1>2, <2>2
<1>8. Features(turn).speech = (IF n = 0 THEN time ELSE AtLeastZero(time - Total(gaps)))
  BY DEF Features, said, n
<1>. HIDE DEF time, gaps
<1>. QED  BY <1>2, <1>6, <1>7, <1>8

\* What is stored for a turn is a sound row with the turn's key.
LEMMA ObservationSound ==
    ASSUME NEW mode \in Modes, NEW says, says.from \in DOMAIN Spoken \cup {0}
    PROVE  LET own == Observation(mode, Sent(says))
           IN  own.turn = says.id /\ RowSound(own)
<1>. DEFINE sent == Sent(says)
            own  == Observation(mode, sent)
<1>1. /\ sent.id = says.id /\ sent.unusable = FALSE /\ sent.window = 30
      /\ sent.words \in Seq([start : Int, end : Int]) /\ sent.index \in Indexes
  <2>1. CASE says.from = 0
    BY <2>1 DEF Sent, Indexes
  <2>2. CASE says.from # 0
    BY <2>2, TurnsAssumption DEF Sent
  <2>. QED  BY <2>1, <2>2
<1>. HIDE DEF sent
<1>2. Features(sent).speech \in Int
  BY <1>1, SpeechIsInteger
<1>3. /\ own.turn = sent.id /\ own.mode = mode /\ own.speech = Features(sent).speech
      /\ own.status = Status(mode, sent)
      /\ own.index = (IF Eligible(mode, sent) THEN sent.index ELSE NoIndex)
  BY DEF Observation
<1>4. Status(mode, sent) = "scored" <=> Eligible(mode, sent)
  BY <1>1 DEF Status
<1>. HIDE DEF own
<1>5. own.turn = says.id /\ RowSound(own)
  BY <1>1, <1>2, <1>3, <1>4 DEF RowSound
<1>. QED  BY <1>5 DEF own, sent

-----------------------------------------------------------------------------
(* The tracker and the callers. *)

\* Speech: the new utterance is one nobody has sent.
LEMMA HearKept ==
    ASSUME FluencyInv, Hear
    PROVE  FluencyInv'
<1>. USE DEF FluencyInv
<1>1. /\ heard' = heard + 1 /\ heard \in 0..MaxTurns /\ heard < MaxTurns /\ MaxTurns \in Nat
      /\ added \in 0..heard /\ words \in 0..heard
      /\ words' \in {words, heard + 1}
      /\ now' = now /\ events' = events /\ admitted' = admitted
      /\ added' = added /\ tasks' = tasks /\ rows' = rows /\ submitted' = submitted
      /\ timeouts' = timeouts /\ tries' = tries
  BY TurnsAssumption DEF Hear, limiterVars, serverVars, TypeOK, TimingsFresh
<1>2. LimiterInv'
  BY <1>1 DEF LimiterInv, LimiterTypeOK, EndsInEvents, WindowHolds
<1>3. TypeOK'
  BY <1>1, <1>2 DEF TypeOK, LimiterInv
<1>4. ThreadsSound' /\ WordsCountOnce' /\ TableSound(rows)'
  BY <1>1 DEF ThreadsSound, WordsCountOnce, TableSound
<1>5. TimingsFresh'
  <2>1. \A t \in tries : t.says.from \in Turns =>
                            t.says.from \in 1..heard /\ t.says.from # words
    BY DEF TimingsFresh
  <2>2. words' \in 0..(heard + 1)
    BY <1>1
  <2>3. \A n \in 1..heard : n \in 1..(heard + 1) /\ n # heard + 1
    BY <1>1
  <2>. QED  BY <1>1, <2>1, <2>2, <2>3 DEF TimingsFresh
<1>. QED  BY <1>2, <1>3, <1>4, <1>5

LEMMA ItemAddedKept ==
    ASSUME FluencyInv, ItemAdded
    PROVE  FluencyInv'
<1>. USE DEF FluencyInv
<1>1. /\ added' = added + 1 /\ added < heard /\ added \in 0..heard
      /\ heard \in 0..MaxTurns /\ MaxTurns \in Nat
      /\ tasks' = Append(tasks, added + 1) /\ tasks \in Seq(Turns)
      /\ now' = now /\ events' = events /\ admitted' = admitted
      /\ words' = words /\ heard' = heard /\ rows' = rows /\ submitted' = submitted
      /\ timeouts' = timeouts /\ tries' = tries
  BY TurnsAssumption DEF ItemAdded, limiterVars, serverVars, TypeOK
<1>2. LimiterInv'
  BY <1>1 DEF LimiterInv, LimiterTypeOK, EndsInEvents, WindowHolds
<1>3. TypeOK'
  <2>1. added' \in 0..heard /\ added + 1 \in Turns
    BY <1>1 DEF Turns
  <2>2. tasks' \in Seq(Turns)
    BY <1>1, <2>1
  <2>. QED  BY <1>1, <1>2, <2>1, <2>2 DEF TypeOK, LimiterInv
<1>4. ThreadsSound' /\ WordsCountOnce' /\ TimingsFresh' /\ TableSound(rows)'
  BY <1>1 DEF ThreadsSound, WordsCountOnce, TimingsFresh, TableSound
<1>. QED  BY <1>2, <1>3, <1>4

\* A new try starts with nothing found and nothing answered.
LEMMA NewTry ==
    ASSUME NEW n \in 1..2, NEW mode \in Modes, NEW says,
           says.from \in DOMAIN Spoken \cup {0}
    PROVE  LET new == Try(n, mode, says)
           IN  /\ Sound(new, rows)
               /\ new.says = says /\ new.n = n /\ new.mode = mode /\ new.at = "arrive"
BY DEF Try, Sound, IsTry, Steps

\* One more try keeps what holds of all of them, if its timings are fresh or
\* those of a try of the same turn.
LEMMA TryJoins ==
    ASSUME FluencyInv,
           NEW new, Sound(new, rows),
           tries' = tries \cup {new},
           \/ new.says.from \notin Turns
           \/ new.says.from \in 1..heard /\ new.says.from = words /\ words' = 0
           \/ \E t \in tries : t.says = new.says,
           words' \in {words, 0}, heard' = heard, added' = added, tasks' \in Seq(Turns),
           rows' = rows, submitted' \subseteq Others, timeouts' \in 0..MaxTimeouts,
           now' = now, events' = events, admitted' = admitted
    PROVE  FluencyInv'
<1>. USE DEF FluencyInv
<1>1. LimiterInv'
  BY DEF LimiterInv, LimiterTypeOK, EndsInEvents, WindowHolds
<1>2. /\ words \in 0..heard /\ heard \in 0..MaxTurns /\ MaxTurns \in Nat
  BY TurnsAssumption DEF TypeOK, TimingsFresh
<1>3. TypeOK'
  <2>1. \A t \in tries' : t.at \in Steps /\ t.mode \in Modes /\ t.n \in 1..2
    BY DEF TypeOK, Sound
  <2>2. words' \in 0..MaxTurns /\ heard' \in 0..MaxTurns /\ added' \in 0..heard'
    BY <1>2 DEF TypeOK
  <2>. QED  BY <1>1, <2>1, <2>2 DEF TypeOK, LimiterInv
<1>4. ThreadsSound'
  BY DEF ThreadsSound
<1>5. TimingsFresh'
  <2>1. words' \in 0..heard'
    BY <1>2
  <2>2. ASSUME NEW t \in tries', t.says.from \in Turns
        PROVE  t.says.from \in 1..heard' /\ t.says.from # words'
    <3>1. \A n \in Turns : n # 0
      BY DEF Turns
    <3>2. CASE t \in tries
      BY <2>2, <3>1, <3>2 DEF TimingsFresh
    <3>3. CASE t = new
      BY <2>2, <3>1, <3>3 DEF TimingsFresh
    <3>. QED  BY <3>2, <3>3
  <2>. QED  BY <2>1, <2>2 DEF TimingsFresh
<1>6. WordsCountOnce'
  <2>1. ASSUME NEW t \in tries, t.says.from = new.says.from, t.says.from \in Turns
        PROVE  t.says.id = new.says.id
    BY <2>1 DEF TimingsFresh, WordsCountOnce
  <2>. QED  BY <2>1 DEF WordsCountOnce
<1>. QED  BY <1>1, <1>3, <1>4, <1>5, <1>6

LEMMA SubmitTurnKept ==
    ASSUME FluencyInv, SubmitTurn
    PROVE  FluencyInv'
<1>. DEFINE says == [id |-> Head(tasks), from |-> words]
            new  == Try(1, "free", says)
<1>1. /\ tries' = tries \cup {new} /\ tasks' = Tail(tasks) /\ words' = 0 /\ tasks # <<>>
      /\ UNCHANGED <<limiterVars, heard, added, serverVars>>
  BY DEF SubmitTurn
<1>2. tasks \in Seq(Turns) /\ words \in 0..heard /\ heard \in 0..MaxTurns /\ MaxTurns \in Nat
  BY TurnsAssumption DEF FluencyInv, TypeOK, TimingsFresh
<1>3. words \in Turns \cup {0} /\ (words \in Turns => words \in 1..heard)
  BY <1>2 DEF Turns
<1>4. says.from \in DOMAIN Spoken \cup {0} /\ says.from = words
  BY <1>3, TurnsAssumption
<1>5. Sound(new, rows) /\ new.says = says
  <2>. HIDE DEF says
  <2>. QED  BY <1>4, NewTry DEF Modes
<1>6. new.says.from = words
  BY <1>5
<1>7. tasks' \in Seq(Turns)
  BY <1>1, <1>2
<1>8. submitted \subseteq Others /\ timeouts \in 0..MaxTimeouts
  BY DEF FluencyInv, TypeOK
<1>. HIDE DEF new
<1>. QED  BY <1>1, <1>3, <1>5, <1>6, <1>7, <1>8, TryJoins DEF limiterVars, serverVars

LEMMA SubmitOtherKept ==
    ASSUME FluencyInv, SubmitOther
    PROVE  FluencyInv'
<1>1. PICK o \in Others : /\ tries' = tries \cup {Try(1, o.mode, o.says)}
                          /\ submitted' = submitted \cup {o}
  BY DEF SubmitOther
<1>. DEFINE new == Try(1, o.mode, o.says)
<1>2. o.mode \in Modes /\ o.says.from \in DOMAIN Spoken /\ o.says.from \notin 0..MaxTurns
  BY TurnsAssumption
<1>3. Sound(new, rows) /\ new.says = o.says
  BY <1>2, NewTry
<1>4. new.says.from \notin Turns
  BY <1>2, <1>3, TurnsAssumption DEF Turns
<1>5. UNCHANGED <<limiterVars, trackerVars, rows, timeouts>>
  BY DEF SubmitOther
<1>6. /\ tasks \in Seq(Turns) /\ timeouts \in 0..MaxTimeouts /\ submitted' \subseteq Others
  BY <1>1 DEF FluencyInv, TypeOK
<1>. HIDE DEF new
<1>7. tries' = tries \cup {new}
  BY <1>1 DEF new
<1>. QED  BY <1>3, <1>4, <1>5, <1>6, <1>7, TryJoins DEF limiterVars, trackerVars

LEMMA RetryKept ==
    ASSUME FluencyInv, Retry
    PROVE  FluencyInv'
<1>1. PICK t \in tries :
          /\ t.n = 1
          /\ \/ timeouts < MaxTimeouts /\ timeouts' = timeouts + 1
             \/ UNCHANGED timeouts
          /\ tries' = tries \cup {Try(2, t.mode, t.says)}
  BY DEF Retry
<1>. DEFINE new == Try(2, t.mode, t.says)
<1>2. t.mode \in Modes /\ t.says.from \in DOMAIN Spoken \cup {0}
  BY DEF FluencyInv, ThreadsSound, Sound
<1>3. Sound(new, rows) /\ new.says = t.says
  BY <1>2, NewTry
<1>4. UNCHANGED <<limiterVars, trackerVars, rows, submitted>>
  BY DEF Retry
<1>5. timeouts' \in 0..MaxTimeouts
  BY <1>1, TurnsAssumption DEF FluencyInv, TypeOK
<1>6. tasks \in Seq(Turns) /\ submitted \subseteq Others
  BY DEF FluencyInv, TypeOK
<1>7. \E s \in tries : s.says = new.says
  BY <1>3
<1>. HIDE DEF new
<1>8. tries' = tries \cup {new}
  BY <1>1 DEF new
<1>. QED  BY <1>3, <1>4, <1>5, <1>6, <1>7, <1>8, TryJoins DEF limiterVars, trackerVars

-----------------------------------------------------------------------------
(* The threads of the service. *)

\* A try goes on: the one in its place says the same, and rows only grow.
LEMMA TryMovesOn ==
    ASSUME FluencyInv, LimiterInv',
           NEW t \in tries, NEW u,
           tries' = (tries \ {t}) \cup {u},
           u.says = t.says, Sound(u, rows'),
           rows \subseteq rows',
           TableSound(rows'),
           UNCHANGED <<trackerVars, timeouts, submitted>>
    PROVE  FluencyInv'
<1>. USE DEF FluencyInv
<1>1. /\ words' = words /\ heard' = heard /\ added' = added /\ tasks' = tasks
      /\ timeouts' = timeouts /\ submitted' = submitted
  BY DEF trackerVars
<1>2. ThreadsSound'
  <2>1. \A s \in tries : Sound(s, rows')
    BY DEF ThreadsSound, Sound
  <2>. QED  BY <2>1 DEF ThreadsSound
<1>3. TypeOK'
  <2>1. \A s \in tries' : s.at \in Steps /\ s.mode \in Modes /\ s.n \in 1..2
    BY DEF TypeOK, Sound
  <2>. QED  BY <1>1, <2>1, TableShape DEF TypeOK, LimiterInv, TableSound
<1>4. TimingsFresh'
  BY <1>1 DEF TimingsFresh
<1>5. WordsCountOnce'
  BY <1>1 DEF WordsCountOnce
<1>. QED  BY <1>2, <1>3, <1>4, <1>5

\* A try that changes its point, is refused, found a row or is given a score
\* stays sound.
LEMMA TryAt ==
    ASSUME NEW t, NEW stored, Sound(t, stored), NEW at \in Steps \ {"done"}
    PROVE  LET u == [t EXCEPT !.at = at]
           IN  u.says = t.says /\ Sound(u, stored)
<1>. DEFINE u == [t EXCEPT !.at = at]
<1>1. u = [n |-> t.n, mode |-> t.mode, says |-> t.says, at |-> at,
           found |-> t.found, answer |-> t.answer]
  BY DEF Sound, IsTry
<1>. HIDE DEF u
<1>2. /\ u.n = t.n /\ u.mode = t.mode /\ u.says = t.says /\ u.at = at
      /\ u.found = t.found /\ u.answer = t.answer
  BY <1>1
<1>3. IsTry(u)
  BY <1>1, <1>2 DEF IsTry
<1>4. u.says = t.says /\ Sound(u, stored)
  BY <1>2, <1>3 DEF Sound, Steps
<1>. QED  BY <1>4 DEF u

LEMMA TryRefused ==
    ASSUME NEW t, NEW stored, Sound(t, stored), NEW answer, answer.status # 200
    PROVE  LET u == [t EXCEPT !.at = "done", !.answer = answer]
           IN  u.says = t.says /\ Sound(u, stored)
<1>. DEFINE u == [t EXCEPT !.at = "done", !.answer = answer]
            v == [t EXCEPT !.at = "done"]
<1>1. /\ v = [n |-> t.n, mode |-> t.mode, says |-> t.says, at |-> "done",
              found |-> t.found, answer |-> t.answer]
      /\ u = [v EXCEPT !.answer = answer]
  BY DEF Sound, IsTry
<1>. HIDE DEF u, v
<1>2. u = [n |-> t.n, mode |-> t.mode, says |-> t.says, at |-> "done",
           found |-> t.found, answer |-> answer]
  BY <1>1
<1>3. /\ u.n = t.n /\ u.mode = t.mode /\ u.says = t.says /\ u.at = "done"
      /\ u.found = t.found /\ u.answer = answer
  BY <1>2
<1>4. IsTry(u)
  BY <1>2, <1>3 DEF IsTry
<1>5. u.says = t.says /\ Sound(u, stored)
  BY <1>3, <1>4 DEF Sound, Steps
<1>. QED  BY <1>5 DEF u

LEMMA TryFinds ==
    ASSUME NEW t, NEW stored, Sound(t, stored), NEW at \in Steps \ {"done"},
           NEW found \in SUBSET stored
    PROVE  LET u == [t EXCEPT !.at = at, !.found = found]
           IN  u.says = t.says /\ Sound(u, stored)
<1>. DEFINE u == [t EXCEPT !.at = at, !.found = found]
            v == [t EXCEPT !.at = at]
<1>1. /\ v = [n |-> t.n, mode |-> t.mode, says |-> t.says, at |-> at,
              found |-> t.found, answer |-> t.answer]
      /\ u = [v EXCEPT !.found = found]
  BY DEF Sound, IsTry
<1>. HIDE DEF u, v
<1>2. u = [n |-> t.n, mode |-> t.mode, says |-> t.says, at |-> at,
           found |-> found, answer |-> t.answer]
  BY <1>1
<1>3. /\ u.n = t.n /\ u.mode = t.mode /\ u.says = t.says /\ u.at = at
      /\ u.found = found /\ u.answer = t.answer
  BY <1>2
<1>4. IsTry(u)
  BY <1>2, <1>3 DEF IsTry
<1>5. u.says = t.says /\ Sound(u, stored)
  BY <1>3, <1>4 DEF Sound, Steps
<1>. QED  BY <1>5 DEF u

ScoreOf(answer, mode, table) ==
    answer.status = 200 /\ answer.of = table /\ answer.session = Session(mode, table)

LEMMA TryScored ==
    ASSUME NEW t, NEW stored, Sound(t, stored), \A o \in stored : o.mode = t.mode,
           NEW answer, ScoreOf(answer, t.mode, stored)
    PROVE  LET u == [t EXCEPT !.at = "done", !.answer = answer]
           IN  u.says = t.says /\ Sound(u, stored)
<1>. DEFINE u == [t EXCEPT !.at = "done", !.answer = answer]
            v == [t EXCEPT !.at = "done"]
<1>1. /\ v = [n |-> t.n, mode |-> t.mode, says |-> t.says, at |-> "done",
              found |-> t.found, answer |-> t.answer]
      /\ u = [v EXCEPT !.answer = answer]
  BY DEF Sound, IsTry
<1>. HIDE DEF u, v
<1>2. u = [n |-> t.n, mode |-> t.mode, says |-> t.says, at |-> "done",
           found |-> t.found, answer |-> answer]
  BY <1>1
<1>3. /\ u.n = t.n /\ u.mode = t.mode /\ u.says = t.says /\ u.at = "done"
      /\ u.found = t.found /\ u.answer = answer
  BY <1>2
<1>4. IsTry(u)
  BY <1>2, <1>3 DEF IsTry
<1>5. u.says = t.says /\ Sound(u, stored)
  BY <1>3, <1>4 DEF Sound, Steps, ScoreOf
<1>. QED  BY <1>5 DEF u

LEMMA ServeKept ==
    ASSUME FluencyInv, NEW t \in tries, Serve(t)
    PROVE  FluencyInv'
<1>1. /\ UNCHANGED <<trackerVars, timeouts, submitted>>
      /\ Sound(t, rows)
      /\ TableSound(rows)
      /\ LimiterInv
  BY DEF Serve, FluencyInv, ThreadsSound
<1>2. UNCHANGED limiterVars => LimiterInv'
  BY <1>1 DEF limiterVars, LimiterInv, LimiterTypeOK, EndsInEvents, WindowHolds
<1>3. ASSUME NEW u, tries' = (tries \ {t}) \cup {u}, u.says = t.says, Sound(u, rows),
             UNCHANGED rows, LimiterInv'
      PROVE  FluencyInv'
  BY <1>1, <1>3, TryMovesOn
<1>4. CASE Arrive(t)
  <2>1. CASE Admit /\ Move(t, "look")
    <3>1. LimiterInv'
      BY <1>1, <2>1, AdmissionFits
    <3>. DEFINE u == [t EXCEPT !.at = "look"]
    <3>2. tries' = (tries \ {t}) \cup {u} /\ UNCHANGED rows
      BY <1>4, <2>1 DEF Arrive, Move
    <3>3. u.says = t.says /\ Sound(u, rows)
      BY <1>1, TryAt DEF Steps
    <3>. HIDE DEF u
    <3>. QED  BY <1>3, <3>1, <3>2, <3>3
  <2>2. CASE Refuse /\ Answer(t, 429)
    <3>1. LimiterInv'
      BY <1>1, <2>2, RefusalForgets
    <3>. DEFINE answer == [status |-> 429]
                u      == [t EXCEPT !.at = "done", !.answer = answer]
    <3>2. tries' = (tries \ {t}) \cup {u} /\ UNCHANGED rows
      BY <1>4, <2>2 DEF Arrive, Answer
    <3>3. answer.status # 200
      OBVIOUS
    <3>. HIDE DEF answer
    <3>4. u.says = t.says /\ Sound(u, rows)
      BY <1>1, <3>3, TryRefused
    <3>. HIDE DEF u
    <3>. QED  BY <1>3, <3>1, <3>2, <3>3, <3>4
  <2>. QED  BY <1>4, <2>1, <2>2 DEF Arrive
<1>5. CASE Look(t)
  <2>. DEFINE found == RowsOf(t.says.id)
              u     == [t EXCEPT !.at = "check", !.found = found]
  <2>1. found \in SUBSET rows
    BY DEF RowsOf
  <2>2. tries' = (tries \ {t}) \cup {u} /\ LimiterInv' /\ UNCHANGED rows
    BY <1>2, <1>5 DEF Look
  <2>. HIDE DEF found
  <2>3. u.says = t.says /\ Sound(u, rows)
    BY <1>1, <2>1, TryFinds DEF Steps
  <2>. HIDE DEF u
  <2>. QED  BY <1>3, <2>2, <2>3
<1>6. CASE Check(t)
  <2>1. CASE OtherMode(t.mode)
    <3>. DEFINE answer == [status |-> 409]
                u      == [t EXCEPT !.at = "done", !.answer = answer]
    <3>1. tries' = (tries \ {t}) \cup {u} /\ LimiterInv' /\ UNCHANGED rows
      BY <1>2, <1>6, <2>1 DEF Check, Answer
    <3>2. answer.status # 200
      OBVIOUS
    <3>. HIDE DEF answer
    <3>3. u.says = t.says /\ Sound(u, rows)
      BY <1>1, <3>2, TryRefused
    <3>. HIDE DEF u
    <3>. QED  BY <1>3, <3>1, <3>2, <3>3
  <2>2. CASE ~OtherMode(t.mode) /\ t.found = {}
    <3>. DEFINE u == [t EXCEPT !.at = "save"]
    <3>1. tries' = (tries \ {t}) \cup {u} /\ LimiterInv' /\ UNCHANGED rows
      BY <1>2, <1>6, <2>2 DEF Check, Move
    <3>2. u.says = t.says /\ Sound(u, rows)
      BY <1>1, TryAt DEF Steps
    <3>. HIDE DEF u
    <3>. QED  BY <1>3, <3>1, <3>2
  <2>3. CASE ~OtherMode(t.mode) /\ t.found # {}
    <3>. DEFINE u == [t EXCEPT !.at = "list"]
    <3>1. tries' = (tries \ {t}) \cup {u} /\ LimiterInv' /\ UNCHANGED rows
      BY <1>2, <1>6, <2>3 DEF Check, Move
    <3>2. u.says = t.says /\ Sound(u, rows)
      BY <1>1, TryAt DEF Steps
    <3>. HIDE DEF u
    <3>. QED  BY <1>3, <3>1, <3>2
  <2>. QED  BY <2>1, <2>2, <2>3
<1>7. CASE SaveLook(t)
  <2>. DEFINE found == RowsOf(t.says.id)
              next  == IF found = {} THEN "insert" ELSE "list"
              u     == [t EXCEPT !.at = next, !.found = found]
  <2>1. found \in SUBSET rows
    BY DEF RowsOf
  <2>2. tries' = (tries \ {t}) \cup {u} /\ LimiterInv' /\ UNCHANGED rows
    BY <1>2, <1>7 DEF SaveLook
  <2>. HIDE DEF found
  <2>3. next \in Steps \ {"done"}
    BY DEF Steps
  <2>. HIDE DEF next
  <2>4. u.says = t.says /\ Sound(u, rows)
    BY <1>1, <2>1, <2>3, TryFinds
  <2>. HIDE DEF u
  <2>. QED  BY <1>3, <2>2, <2>4
<1>8. CASE Insert(t)
  <2>. DEFINE own  == Observation(t.mode, Sent(t.says))
              held == RowsOf(t.says.id)
              find == IF held = {} THEN {own} ELSE held
              u    == [t EXCEPT !.at = "list", !.found = find]
  <2>1. /\ rows' = IF held = {} THEN rows \cup {own} ELSE rows
        /\ tries' = (tries \ {t}) \cup {u}
        /\ LimiterInv'
    BY <1>2, <1>8 DEF Insert
  <2>2. own.turn = t.says.id /\ RowSound(own)
    BY <1>1, ObservationSound DEF Sound
  <2>3. held = {o \in rows : o.turn = t.says.id}
    BY DEF RowsOf
  <2>. HIDE DEF own, held
  <2>4. find \in SUBSET rows' /\ rows \subseteq rows'
    BY <2>1, <2>3
  <2>5. TableSound(rows')
    BY <1>1, <2>1, <2>2, <2>3, FS_AddElement DEF TableSound
  <2>6. Sound(t, rows')
    BY <1>1, <2>4 DEF Sound
  <2>. HIDE DEF find
  <2>7. u.says = t.says /\ Sound(u, rows')
    BY <2>4, <2>6, TryFinds DEF Steps
  <2>. HIDE DEF u
  <2>. QED  BY <1>1, <2>1, <2>4, <2>5, <2>7, TryMovesOn
<1>9. CASE List(t)
  <2>1. CASE OtherMode(t.mode)
    <3>. DEFINE answer == [status |-> 500]
                u      == [t EXCEPT !.at = "done", !.answer = answer]
    <3>1. tries' = (tries \ {t}) \cup {u} /\ LimiterInv' /\ UNCHANGED rows
      BY <1>2, <1>9, <2>1 DEF List, Answer
    <3>2. answer.status # 200
      OBVIOUS
    <3>. HIDE DEF answer
    <3>3. u.says = t.says /\ Sound(u, rows)
      BY <1>1, <3>2, TryRefused
    <3>. HIDE DEF u
    <3>. QED  BY <1>3, <3>1, <3>2, <3>3
  <2>2. CASE ~OtherMode(t.mode)
    <3>1. \A o \in rows : o.mode = t.mode
      BY <2>2 DEF OtherMode
    <3>. DEFINE answer == [status |-> 200, of |-> rows, session |-> Session(t.mode, rows)]
                u      == [t EXCEPT !.at = "done", !.answer = answer]
    <3>2. tries' = (tries \ {t}) \cup {u} /\ LimiterInv' /\ UNCHANGED rows
      BY <1>2, <1>9, <2>2 DEF List
    <3>3. ScoreOf(answer, t.mode, rows)
      BY DEF ScoreOf
    <3>. HIDE DEF answer
    <3>4. u.says = t.says /\ Sound(u, rows)
      BY <1>1, <3>1, <3>3, TryScored
    <3>. HIDE DEF u
    <3>. QED  BY <1>3, <3>2, <3>4
  <2>. QED  BY <2>1, <2>2
<1>. QED  BY <1>4, <1>5, <1>6, <1>7, <1>8, <1>9 DEF Serve

\* Every step keeps the invariant.
LEMMA FluencyNext ==
    ASSUME FluencyInv, [Next]_vars
    PROVE  FluencyInv'
<1>1. CASE Tick /\ UNCHANGED <<trackerVars, serverVars, tries>>
  <2>1. LimiterInv'
    BY <1>1, TimePasses DEF FluencyInv
  <2>. QED  BY <1>1, <2>1 DEF FluencyInv, LimiterInv, TypeOK, ThreadsSound, TimingsFresh,
                              WordsCountOnce, trackerVars, serverVars
<1>2. CASE UNCHANGED vars
  BY <1>2 DEF FluencyInv, LimiterInv, LimiterTypeOK, EndsInEvents, WindowHolds, TypeOK,
              ThreadsSound, TimingsFresh, WordsCountOnce, vars, limiterVars, trackerVars,
              serverVars
<1>. QED  BY <1>1, <1>2, HearKept, ItemAddedKept, SubmitTurnKept, SubmitOtherKept, RetryKept,
             ServeKept DEF Next

\* FluencyInv holds in every state.
THEOREM FluencyInvariant == Spec => []FluencyInv
BY FluencyStarts, FluencyNext, PTL DEF Spec

-----------------------------------------------------------------------------
(* The theorems. *)

\* The tracker, the limiter, the threads and the table keep their shape, and a
\* turn has one row in fluency_observations.
THEOREM FluencyTypeCorrect == Spec => []TypeOK
BY FluencyInvariant, PTL DEF FluencyInv

\* SlidingWindowRateLimiter.allow: no window of any length, wherever it begins,
\* sees more than `Limit' requests let in.
THEOREM WindowNeverExceeded == Spec => []WindowHolds
<1>1. FluencyInv => WindowHolds
  BY DEF FluencyInv, LimiterInv
<1>. QED  BY <1>1, FluencyInvariant, PTL

\* ConversationFluencyTracker: the timings of an utterance are sent for one turn
\* only, however tasks, speech and retries interleave.
THEOREM TimingsCountOnce == Spec => []WordsCountOnce
BY FluencyInvariant, PTL DEF FluencyInv

-----------------------------------------------------------------------------
(* The score of a session. *)

\* assessment_dimension_score gives at least 3 from the anchor of the level on, ...
LEMMA ThreeFromTheAnchor ==
    ASSUME NEW d \in Int
    PROVE  Cardinality({bound \in {-24, -12, 0, 12} : d >= bound}) >= 3 <=> d >= 0
<1>. DEFINE met == {bound \in {-24, -12, 0, 12} : d >= bound}
<1>1. /\ IsFiniteSet({-24, -12}) /\ Cardinality({-24, -12}) = 2
      /\ IsFiniteSet({-24, -12, 0}) /\ Cardinality({-24, -12, 0}) = 3
      /\ IsFiniteSet({-24, -12, 0, 12})
  <2>1. IsFiniteSet({-24}) /\ Cardinality({-24}) = 1
    BY FS_Singleton
  <2>2. /\ IsFiniteSet({-24} \cup {-12})
        /\ Cardinality({-24} \cup {-12}) = 2
    <3>1. -12 \notin {-24}
      OBVIOUS
    <3>. QED  BY <2>1, <3>1, FS_AddElement
  <2>3. /\ IsFiniteSet(({-24} \cup {-12}) \cup {0})
        /\ Cardinality(({-24} \cup {-12}) \cup {0}) = 3
    <3>1. 0 \notin {-24} \cup {-12}
      OBVIOUS
    <3>. QED  BY <2>2, <3>1, FS_AddElement
  <2>4. IsFiniteSet((({-24} \cup {-12}) \cup {0}) \cup {12})
    BY <2>3, FS_AddElement
  <2>5. /\ {-24} \cup {-12} = {-24, -12}
        /\ ({-24} \cup {-12}) \cup {0} = {-24, -12, 0}
        /\ (({-24} \cup {-12}) \cup {0}) \cup {12} = {-24, -12, 0, 12}
    OBVIOUS
  <2>. QED  BY <2>2, <2>3, <2>4, <2>5
<1>2. met \in SUBSET {-24, -12, 0, 12}
  OBVIOUS
<1>3. IsFiniteSet(met) /\ Cardinality(met) \in Nat
  BY <1>1, <1>2, FS_Subset, FS_CardinalityType
<1>4. CASE d >= 0
  <2>1. {-24, -12, 0} \in SUBSET met
    BY <1>4
  <2>2. 3 <= Cardinality(met)
    <3>. HIDE DEF met
    <3>. QED  BY <1>1, <1>3, <2>1, FS_Subset
  <2>. QED  BY <1>3, <1>4, <2>2
<1>5. CASE ~(d >= 0)
  <2>1. met \in SUBSET {-24, -12}
    BY <1>5
  <2>2. Cardinality(met) <= 2
    <3>. HIDE DEF met
    <3>. QED  BY <1>1, <2>1, FS_Subset
  <2>. QED  BY <1>3, <1>5, <2>2
<1>. QED  BY <1>4, <1>5

\* The numbers up to n are n.
LEMMA CountUpTo ==
    ASSUME NEW n \in Nat
    PROVE  IsFiniteSet(1..n) /\ Cardinality(1..n) = n
<1>1. 1 \in Int /\ n \in Int
  OBVIOUS
<1>2. IsFiniteSet(1..n) /\ Cardinality(1..n) = (IF 1 > n THEN 0 ELSE n - 1 + 1)
  BY <1>1, FS_Interval
<1>. QED  BY <1>2

\* ... and cefr_estimate_from_index names a level from its anchor on.
LEMMA LevelFromItsAnchor ==
    ASSUME NEW index \in Int, NEW level \in 0..3
    PROVE  Estimate(index) >= level <=> index >= Anchor[level + 1]
<1>. DEFINE met == {n \in 1..4 : index >= Anchor[n]}
<1>1. Anchor[1] = 30 /\ Anchor[2] = 45 /\ Anchor[3] = 60 /\ Anchor[4] = 75
  BY DEF Anchor
<1>2. IsFiniteSet(1..4) /\ met \in SUBSET (1..4)
  BY CountUpTo
<1>3. IsFiniteSet(met) /\ Cardinality(met) \in Nat
  <2>. HIDE DEF met
  <2>. QED  BY <1>2, FS_Subset, FS_CardinalityType
<1>4. \A n \in 0..4 : Cardinality(1..n) = n /\ IsFiniteSet(1..n)
  BY CountUpTo
<1>5. CASE index >= Anchor[level + 1]
  <2>1. 1..(level + 1) \in SUBSET met
    BY <1>1, <1>5
  <2>2. level + 1 \in 0..4
    OBVIOUS
  <2>3. Cardinality(1..(level + 1)) <= Cardinality(met)
    <3>. HIDE DEF met
    <3>. QED  BY <1>3, <2>1, FS_Subset
  <2>4. level + 1 <= Cardinality(met)
    BY <1>4, <2>2, <2>3
  <2>. QED  BY <1>3, <1>5, <2>4 DEF Estimate
<1>6. CASE ~(index >= Anchor[level + 1])
  <2>1. met \in SUBSET (1..level)
    BY <1>1, <1>6
  <2>2. IsFiniteSet(1..level) /\ Cardinality(1..level) = level
    <3>1. level \in Nat
      OBVIOUS
    <3>. QED  BY <3>1, CountUpTo
  <2>3. Cardinality(met) <= level
    <3>. HIDE DEF met
    <3>. QED  BY <2>1, <2>2, FS_Subset
  <2>. QED  BY <1>3, <1>6, <2>3 DEF Estimate
<1>. QED  BY <1>5, <1>6

\* The level of an index is the highest one at which the assessment's rubric
\* gives it a 3 (cefr_estimate_from_index and assessment_dimension_score, which
\* count thresholds of their own).
THEOREM LevelsAgree ==
    ASSUME NEW index \in Int, NEW level \in 0..3
    PROVE  Estimate(index) >= level <=> DimensionScore(index, level) >= 3
<1>1. Anchor[level + 1] \in Int
  BY DEF Anchor
<1>2. index - Anchor[level + 1] >= 0 <=> index >= Anchor[level + 1]
  BY <1>1
<1>3. DimensionScore(index, level) >= 3 <=> index - Anchor[level + 1] >= 0
  BY <1>1, ThreeFromTheAnchor DEF DimensionScore
<1>. QED  BY <1>2, <1>3, LevelFromItsAnchor

\* The average of some scored rows lies between the lowest and the highest of
\* their indexes, whatever their speech weighs.
LEMMA AverageBetween ==
    ASSUME NEW counted, IsFiniteSet(counted), counted # {},
           \A o \in counted : o.index \in Indexes /\ o.speech \in Int
    PROVE  /\ Average(counted) \in Int
           /\ \E o \in counted : o.index <= Average(counted)
           /\ \E o \in counted : o.index >= Average(counted)
<1>. DEFINE weight == [o \in counted |-> Capped(o.speech)]
            worth  == [o \in counted |-> o.index * Capped(o.speech)]
<1>1. \A o \in counted : /\ Capped(o.speech) \in Int /\ Capped(o.speech) > 0
                         /\ o.index \in Int /\ o.index \in Nat /\ o.index <= 100
  BY DEF Capped, Indexes
<1>2. weight \in [counted -> Int] /\ worth \in [counted -> Int]
  BY <1>1
<1>3. Total(weight) \in Int /\ Total(weight) > 0
  <2>1. \A o \in counted : weight[o] > 0
    BY <1>1
  <2>. HIDE DEF weight
  <2>. QED  BY <1>2, <2>1, TotalPositive
<1>4. PICK low \in counted : \A o \in counted : low.index <= o.index
  <2>. DEFINE S == {o.index : o \in counted}
  <2>1. S \in SUBSET Nat /\ S # {}
    BY <1>1
  <2>2. PICK m \in S : \A n \in S : m <= n
    <3>. HIDE DEF S
    <3>. QED  BY <2>1, LeastMember
  <2>. QED  BY <2>2
<1>5. PICK high \in counted : \A o \in counted : o.index <= high.index
  <2>. DEFINE S == {100 - o.index : o \in counted}
  <2>1. S \in SUBSET Nat /\ S # {}
    BY <1>1
  <2>2. PICK m \in S : \A n \in S : m <= n
    <3>. HIDE DEF S
    <3>. QED  BY <2>1, LeastMember
  <2>3. PICK high \in counted : m = 100 - high.index
    BY <2>2
  <2>4. \A o \in counted : 100 - high.index <= 100 - o.index
    BY <2>2, <2>3
  <2>. QED  BY <1>1, <2>4
<1>6. \A m, n, w \in Int : m <= n /\ w > 0 => m * w <= n * w
  OBVIOUS
<1>7. Total(worth) \in Int /\ low.index * Total(weight) <= Total(worth)
  <2>1. \A o \in counted : low.index * weight[o] <= 1 * worth[o]
    BY <1>1, <1>4, <1>6
  <2>2. low.index \in Int /\ 1 \in Int
    BY <1>1
  <2>. HIDE DEF weight, worth
  <2>3. Total(worth) \in Int /\ low.index * Total(weight) <= 1 * Total(worth)
    BY <1>2, <2>1, <2>2, TotalsCompare
  <2>. QED  BY <2>3
<1>8. Total(worth) <= high.index * Total(weight)
  <2>1. \A o \in counted : 1 * worth[o] <= high.index * weight[o]
    BY <1>1, <1>5, <1>6
  <2>2. high.index \in Int /\ 1 \in Int
    BY <1>1
  <2>. HIDE DEF weight, worth
  <2>3. 1 * Total(worth) <= high.index * Total(weight)
    BY <1>2, <2>1, <2>2, TotalsCompare
  <2>. QED  BY <1>7, <2>3
<1>9. Average(counted) = Rounded(Total(worth), Total(weight))
  BY DEF Average
<1>. HIDE DEF weight, worth
<1>10. /\ Average(counted) \in Int
       /\ low.index <= Average(counted) /\ Average(counted) <= high.index
  <2>. DEFINE a == Total(worth)
              b == Total(weight)
              m == low.index
              n == high.index
  <2>1. /\ a \in Int /\ b \in Int /\ b > 0 /\ m \in Int /\ n \in Int
        /\ m * b <= a /\ a <= n * b
    BY <1>1, <1>3, <1>7, <1>8
  <2>2. Average(counted) = Rounded(a, b)
    BY <1>9
  <2>. HIDE DEF a, b, m, n
  <2>3. Rounded(a, b) \in Int /\ m <= Rounded(a, b) /\ Rounded(a, b) <= n
    BY <2>1, RoundedBetween
  <2>. QED  BY <2>2, <2>3 DEF m, n
<1>. QED  BY <1>1, <1>10

\* A session that is scored has rows that count.
LEMMA ScoredHasRows ==
    ASSUME NEW mode \in Modes, NEW table, IsFiniteSet(table),
           Session(mode, table).status = "scored"
    PROVE  Counted(table) # {} /\ Session(mode, table).index = Average(Counted(table))
<1>. DEFINE turns  == Cardinality(Counted(table))
            speech == Speech(table)
<1>1. /\ EnoughEvidence(mode, turns, speech)
      /\ Session(mode, table).index = Average(Counted(table))
  BY DEF Session
<1>2. turns >= 2 \/ turns >= 3
  BY <1>1 DEF EnoughEvidence, Modes
<1>3. Counted(table) # {}
  BY <1>2, FS_EmptySet
<1>. QED  BY <1>1, <1>3

\* submit_fluency_turn and aggregate_session: whoever is told a score is told
\* what is stored, of one mode, between the weakest and the strongest turn that
\* counts, at the level the assessment's rubric would give it; for any number
\* of turns, callers and tries.
THEOREM AnswersAreReliable == Spec => []AnswersHold
<1>1. FluencyInv => ScoreIsFair
  <2>. SUFFICES ASSUME FluencyInv, NEW t \in Answered, t.answer.session.status = "scored"
                PROVE  LET session == t.answer.session
                           counted == Counted(t.answer.of)
                       IN  /\ \E o \in counted : o.index <= session.index
                           /\ \E o \in counted : o.index >= session.index
                           /\ \A level \in 0..3 : Estimate(session.index) >= level
                                        <=> DimensionScore(session.index, level) >= 3
    BY DEF ScoreIsFair
  <2>1. /\ t.mode \in Modes /\ t.answer.of \subseteq rows
        /\ t.answer.session = Session(t.mode, t.answer.of)
    BY DEF FluencyInv, ThreadsSound, Sound, Answered
  <2>2. IsFiniteSet(t.answer.of) /\ \A o \in t.answer.of : RowSound(o)
    BY <2>1, FS_Subset DEF FluencyInv, TableSound
  <2>3. /\ Counted(t.answer.of) # {}
        /\ t.answer.session.index = Average(Counted(t.answer.of))
    BY <2>1, <2>2, ScoredHasRows
  <2>4. Counted(t.answer.of) \in SUBSET t.answer.of
    BY DEF Counted
  <2>5. /\ IsFiniteSet(Counted(t.answer.of))
        /\ \A o \in Counted(t.answer.of) : o.index \in Indexes /\ o.speech \in Int
    BY <2>2, <2>4, FS_Subset DEF Counted, RowSound
  <2>6. /\ t.answer.session.index \in Int
        /\ \E o \in Counted(t.answer.of) : o.index <= t.answer.session.index
        /\ \E o \in Counted(t.answer.of) : o.index >= t.answer.session.index
    BY <2>3, <2>5, AverageBetween
  <2>. QED  BY <2>6, LevelsAgree
<1>2. FluencyInv => AnsweredIsStored
  BY DEF FluencyInv, ThreadsSound, Sound, AnsweredIsStored, Answered
<1>3. FluencyInv => OneModePerScore
  BY DEF FluencyInv, ThreadsSound, Sound, OneModePerScore, Answered
<1>4. FluencyInv => AnswersHold
  BY <1>1, <1>2, <1>3 DEF AnswersHold
<1>. QED  BY <1>4, FluencyInvariant, PTL
=============================================================================

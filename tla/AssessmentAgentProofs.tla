------------------------- MODULE AssessmentAgentProofs -------------------------
(***************************************************************************)
(* Proofs about AssessmentAgent for any number of prompts, turns, faults,  *)
(* refusals and interrupts.                                                *)
(***************************************************************************)
EXTENDS AssessmentAgent, TLAPS

-----------------------------------------------------------------------------
(***************************************************************************)
(* The invariant.                                                          *)
(***************************************************************************)
\* A reply that is in its quiet window, whether LiveKit still waits for it or
\* cancels it late.
Window(w) == w \in waiters \/ (w = reply /\ reply.at = "window")

\* What was submitted, is about to be, or was put aside to be.
AsSent(a) == [key |-> a.key, prompt |-> a.prompt, said |-> a.said]

Sent(p) ==
    \/ \E c \in calls : p = c.payload
    \/ p = deferred /\ p # NoPayload
    \/ p = reply.payload /\ reply.at \in Kinds
    \/ \E a \in log : p = AsSent(a)

\* An answer whose prompt is over for the service, so that nothing of it counts
\* any more for the learner.
Passed(p) == p.prompt < prompt \/ cancelled \/ refusals > 0

\* ... or it was judged, and not usable.
Spent(p) == Passed(p) \/ \E a \in log : ~a.usable /\ p.said \subseteq a.said

\* An answer is of one prompt, and consists of turns that were heard as answers
\* to it.
Named(p) ==
    /\ p.key \in 1..Len(heard)
    /\ p.prompt \in 1..NumPrompts /\ p.prompt <= prompt
    /\ \A t \in p.said : t \in 1..Len(heard) /\ heard[t] = p.prompt

AllNamed == \A p \in Payloads : Sent(p) => Named(p)

\* A quiet window of the current generation is of the prompt being answered.
Opened(w) ==
    /\ w.at = "window" /\ w.payload.said = {} /\ Named(w.payload)
    /\ w.generation <= pending.generation
    /\ w.generation = pending.generation => pending.prompt = w.payload.prompt

AllOpened == \A w \in Replies : Window(w) => Opened(w)

\* A key stands for one answer.
Keyed ==
    /\ \A p, q \in Payloads : Sent(p) /\ Sent(q) /\ p.key = q.key => p = q
    /\ \A w \in Replies, p \in Payloads : Window(w) /\ Sent(p) => p.key # w.payload.key
    /\ \A v, w \in Replies : Window(v) /\ Window(w) /\ v.payload.key = w.payload.key => v = w

\* What was said and not yet submitted is an answer to the current prompt, and
\* the service is never behind.
Collected ==
    /\ pending.prompt \in {0, current}
    /\ pending.prompt = 0 => pending.said = {}
    /\ \A t \in pending.said : t \in 1..Len(heard) /\ heard[t] = pending.prompt
    /\ current <= prompt
    /\ \A t \in 1..Len(heard) : heard[t] <= prompt

\* The service took one usable answer to a prompt, and went on.
Logged ==
    /\ \A a \in log : a.prompt <= prompt /\ a.next <= prompt
    /\ \A a \in log : a.usable => a.prompt < prompt
    /\ \A a, b \in log : a.usable /\ b.usable /\ a.prompt = b.prompt => a = b

\* What the outcome of a call says about its answer.
Meant(c) ==
    /\ c.kind # "submit" => Passed(c.payload)
    /\ c.says = "next" => c.next \in 1..prompt /\ Spent(c.payload)
    /\ c.says \in {"result", "gone", "stale", "refused", "noprompt"} => Passed(c.payload)
    /\ c.says = "rejected" => c.kind = "submit"
    /\ c.awaited => reply.at = c.kind /\ reply.payload = c.payload

Called == \A c \in calls : Meant(c)

\* Where the parts of the answer are while a reply is being generated.
Kept ==
    /\ reply.at = "idle" => reply = Idle
    /\ reply.at \in {"idle", "window"} => reply.payload.said = {}
    /\ reply.at = "window" => deferred = NoPayload
    /\ reply.at \in Kinds => pending.said \subseteq reply.payload.said /\ deferred \in {NoPayload, reply.payload}
    /\ reply.at \in Kinds \ {"submit"} => Passed(reply.payload)
    /\ reply.at = "submit" => reply.payload.said \subseteq pending.said \cup deferred.said
    /\ deferred # NoPayload => pending.prompt = 0

Shaped == AllNamed /\ AllOpened /\ Keyed

IInv ==
    /\ TypeOK /\ Shaped /\ Collected /\ Logged /\ Called /\ Kept
    /\ HeardIsKept /\ ListensWhenIdle

-----------------------------------------------------------------------------
(***************************************************************************)
(* Facts that every step keeps.                                            *)
(***************************************************************************)
LEMMA Sizes ==
    /\ NumPrompts \in Nat /\ NumPrompts >= 1 /\ Over = NumPrompts + 1 /\ Over \in Nat
    /\ MaxTurns \in Nat /\ MaxFaults \in Nat /\ MaxRefusals \in Nat /\ MaxInterrupts \in Nat
    /\ Threshold \in Nat /\ Threshold >= 1
BY ClientAssumption, AgentAssumption DEF Over

\* What is heard is never changed, only added to.
Longer ==
    /\ Len(heard) \in Nat /\ Len(heard') \in Nat /\ Len(heard) <= Len(heard')
    /\ \A t \in 1..Len(heard) : heard'[t] = heard[t]

LEMMA HeardStays ==
    ASSUME TypeOK, heard' = heard
    PROVE  Longer
BY DEF TypeOK, Longer

LEMMA HeardMore ==
    ASSUME TypeOK, NEW q \in 0..NumPrompts, heard' = Append(heard, q), Turn <= MaxTurns
    PROVE  /\ Longer /\ Turn = Len(heard) + 1 /\ Len(heard') = Turn /\ heard'[Turn] = q
           /\ Turn \in Turns /\ Turn \in 1..Len(heard')
           /\ heard' \in Seq(0..NumPrompts) /\ Len(heard') <= MaxTurns
<1>1. heard \in Seq(0..NumPrompts) /\ Len(heard) \in Nat
  BY DEF TypeOK
<1>2. Len(heard') = Len(heard) + 1 /\ heard' \in Seq(0..NumPrompts)
  BY <1>1
<1>3. \A t \in 1..Len(heard) : heard'[t] = heard[t]
  BY <1>1
<1>4. heard'[Len(heard) + 1] = q
  BY <1>1
<1>5. Turn = Len(heard) + 1 /\ Turn \in Turns /\ Turn \in 1..Len(heard')
  BY <1>1, <1>2, Sizes DEF Turn, Turns
<1> QED
  BY <1>1, <1>2, <1>3, <1>4, <1>5 DEF Longer

\* The service goes forward.
Forward ==
    /\ prompt' \in 1..Over /\ prompt <= prompt'
    /\ log \subseteq log'
    /\ cancelled' \in BOOLEAN /\ (cancelled => cancelled')
    /\ refusals' \in 0..MaxRefusals /\ refusals <= refusals'

LEMMA PassedStays ==
    ASSUME TypeOK, Forward, NEW p \in Payloads
    PROVE  /\ Passed(p) => Passed(p)'
           /\ Spent(p) => Spent(p)'
<1>1. p.prompt \in Nat /\ prompt \in Nat /\ prompt' \in Nat /\ refusals \in Nat /\ refusals' \in Nat
  BY Sizes DEF TypeOK, ClientTypeOK, Forward, Payloads
<1>2. Passed(p) => Passed(p)'
  BY <1>1 DEF Passed, Forward
<1>3. \A a \in log : a \in log'
  BY DEF Forward
<1> QED
  BY <1>2, <1>3 DEF Spent

LEMMA NamedStays ==
    ASSUME TypeOK, Longer, prompt' \in 1..Over, prompt <= prompt', NEW p \in Payloads, Named(p)
    PROVE  Named(p)'
<1>1. p.prompt \in Nat /\ prompt \in Nat /\ prompt' \in Nat
  BY Sizes DEF TypeOK, ClientTypeOK, Payloads
<1>2. 1..Len(heard) \subseteq 1..Len(heard')
  BY DEF Longer
<1> QED
  BY <1>1, <1>2 DEF Named, Longer

LEMMA StillMeant ==
    ASSUME TypeOK, Forward, NEW c \in Requests, Meant(c),
           reply' = reply
    PROVE  Meant(c)'
<1>1. c.payload \in Payloads /\ prompt \in Nat /\ prompt' \in Nat /\ prompt <= prompt'
  <2>1. c.payload \in Payloads
    BY DEF Requests
  <2> QED
    BY <2>1, Sizes DEF TypeOK, ClientTypeOK, Forward
<1>2. 1..prompt \subseteq 1..prompt'
  BY <1>1
<1>3. /\ Passed(c.payload) => Passed(c.payload)'
      /\ Spent(c.payload) => Spent(c.payload)'
  BY <1>1, PassedStays
<1> QED
  BY <1>2, <1>3 DEF Meant

-----------------------------------------------------------------------------
(***************************************************************************)
(* The service and the threads of the calls.                               *)
(***************************************************************************)
\* At most one answer is taken, of a call, and to the current prompt.
Took(c) ==
    \/ log' = log
    \/ \E e \in [key : Turns, prompt : 1..NumPrompts, said : SUBSET Turns,
                 usable : BOOLEAN, next : 1..Over] :
          /\ log' = log \cup {e} /\ AsSent(e) = c.payload
          /\ e.prompt = prompt /\ e.next = prompt'
          /\ e.usable => prompt < prompt'

LEMMA SentIsNamed ==
    ASSUME IInv, NEW c \in calls
    PROVE  /\ c \in Requests /\ c.payload \in Payloads /\ Named(c.payload) /\ Sent(c.payload)
           /\ c.payload.key \in Turns /\ c.payload.said \in SUBSET Turns
<1>1. c \in Requests /\ c.payload \in Payloads
  BY DEF IInv, TypeOK, ClientTypeOK, Requests
<1>2. Sent(c.payload)
  BY DEF Sent
<1>3. Named(c.payload)
  BY <1>1, <1>2 DEF IInv, Shaped, AllNamed
<1>4. Len(heard) \in Nat /\ Len(heard) <= MaxTurns
  BY DEF IInv, TypeOK
<1>5. c.payload.key \in Turns
  BY <1>3, <1>4, Sizes DEF Named, Turns
<1> QED
  BY <1>1, <1>2, <1>3, <1>5 DEF Payloads

LEMMA LoggedIsSent ==
    ASSUME IInv, NEW e \in log
    PROVE  AsSent(e) \in Payloads /\ Sent(AsSent(e)) /\ Named(AsSent(e))
<1>1. AsSent(e) \in Payloads
  BY Sizes DEF IInv, TypeOK, ClientTypeOK, AsSent, Payloads, Turns
<1>2. Sent(AsSent(e))
  BY DEF Sent
<1> QED
  BY <1>1, <1>2 DEF IInv, Shaped, AllNamed

LEMMA JudgedAnswer ==
    ASSUME IInv, NEW c \in calls, NEW usable \in BOOLEAN, c.payload.prompt = prompt, prompt # Over,
           NEW a, a = Judged(c.payload, usable), log' = a.log, prompt' = a.prompt,
           UNCHANGED <<cancelled, refusals>>
    PROVE  /\ Forward /\ Took(c)
           /\ a.says = "next" /\ a.next \in 1..prompt' /\ Spent(c.payload)'
<1> DEFINE p     == c.payload
           again == ~usable /\ ~\E b \in log : b.prompt = p.prompt /\ ~b.usable
           next  == IF again THEN prompt ELSE IF usable THEN prompt + 1 ELSE Over
           e     == [key |-> p.key, prompt |-> p.prompt, said |-> p.said, usable |-> usable, next |-> next]
<1>1. prompt \in 1..NumPrompts /\ prompt \in Nat
  BY Sizes DEF IInv, TypeOK, ClientTypeOK
<1>2. next \in 1..Over /\ prompt <= next /\ (usable => prompt < next) /\ next \in 1..next
  BY <1>1, Sizes
<1>3. a = [says |-> "next", next |-> next, prompt |-> next, log |-> log \cup {e}]
  BY DEF Judged
<1> HIDE DEF next
<1>4. e \in [key : Turns, prompt : 1..NumPrompts, said : SUBSET Turns, usable : BOOLEAN, next : 1..Over]
  BY <1>1, <1>2, SentIsNamed
<1>5. AsSent(e) = p
  BY SentIsNamed DEF AsSent, Payloads
<1>6. log' = log \cup {e} /\ prompt' = next /\ a.says = "next" /\ a.next = next
  BY <1>3
<1>7. e.prompt = prompt /\ e.next = next /\ e.usable = usable /\ e.said = p.said
  OBVIOUS
<1> HIDE DEF e
<1>8. Took(c)
  BY <1>2, <1>4, <1>5, <1>6, <1>7 DEF Took
<1>9. Forward
  BY <1>2, <1>6, Sizes DEF Forward, IInv, TypeOK, ClientTypeOK
<1>10. Spent(p)'
  <2>1. CASE usable
    BY <1>2, <1>6, <2>1 DEF Spent, Passed
  <2>2. CASE ~usable
    BY <1>6, <1>7, <2>2 DEF Spent
  <2> QED
    BY <2>1, <2>2
<1> QED
  BY <1>2, <1>6, <1>8, <1>9, <1>10

\* What an answer of the service does, and what it tells the call.
LEMMA ServiceAnswers ==
    ASSUME IInv, NEW c \in calls, NEW a \in Served(c) \cup {Says("nothing")},
           log' = a.log, prompt' = a.prompt, UNCHANGED <<cancelled, refusals>>
    PROVE  /\ Forward /\ Took(c)
           /\ a.says = "next" => a.next \in 1..prompt' /\ Spent(c.payload)'
           /\ a.says \in {"result", "gone", "stale", "noprompt"} => Passed(c.payload)'
           /\ a.says = "rejected" => c.kind = "submit"
           /\ a.says \in Outcomes \cup {"nothing"} /\ a.says # "refused" /\ a.next \in 0..Over
<1> DEFINE p == c.payload
<1>1. c \in Requests /\ p \in Payloads /\ Named(p) /\ Sent(p)
  BY SentIsNamed
<1>2. prompt \in 1..Over /\ prompt \in 1..prompt /\ prompt \in 0..Over /\ prompt \in Nat
  BY Sizes DEF IInv, TypeOK, ClientTypeOK
<1>3. ASSUME NEW what, a = Says(what)
      PROVE  /\ a.says = what /\ a.next = prompt /\ log' = log /\ prompt' = prompt
             /\ Forward /\ Took(c)
  <2>1. a.says = what /\ a.next = prompt /\ log' = log /\ prompt' = prompt
    BY <1>3 DEF Says
  <2> QED
    BY <1>2, <2>1 DEF Forward, Took, IInv, TypeOK, ClientTypeOK
<1>4. Forward => (Passed(p) => Passed(p)') /\ (Spent(p) => Spent(p)')
  BY <1>1, PassedStays DEF IInv
<1>5. Meant(c)
  BY DEF IInv, Called
\* Everything but an answer was made for an answer that is over.
<1>6. ASSUME c.kind # "submit" \/ a = Says("nothing")
      PROVE  \E what \in {"result", "stale", "noprompt", "next", "nothing"} :
                a = Says(what) /\ (what = "nothing" \/ Passed(p))
  BY <1>5, <1>6 DEF Served, ResultAnswers, StateAnswers, Meant, Requests, Kinds, IInv, TypeOK, ClientTypeOK
<1>7. CASE c.kind # "submit" \/ a = Says("nothing")
  <2>1. PICK what \in {"result", "stale", "noprompt", "next", "nothing"} :
           a = Says(what) /\ (what = "nothing" \/ Passed(p))
    BY <1>6, <1>7
  <2>2. /\ a.says = what /\ a.next = prompt /\ prompt' = prompt /\ Forward /\ Took(c)
    BY <1>3, <2>1
  <2>3. what = "nothing" \/ (Passed(p)' /\ Spent(p)')
    BY <1>4, <2>1, <2>2 DEF Spent
  <2> QED
    BY <1>2, <2>2, <2>3 DEF Outcomes
<1>8. CASE c.kind = "submit" /\ a \in SubmitAnswers(p, c.mended)
  <2>1. CASE a = Says("rejected")
    BY <1>2, <1>3, <1>8, <2>1 DEF Outcomes
  <2>2. CASE a \in Replay(p)
    <3>1. PICK e \in log : e.key = p.key /\ a = [Says("next") EXCEPT !.next = e.next]
      BY <2>2 DEF Replay
    <3>2. /\ a.says = "next" /\ a.next = e.next /\ log' = log /\ prompt' = prompt
      BY <3>1 DEF Says
    <3>3. Forward /\ Took(c)
      BY <1>2, <3>2 DEF Forward, Took, IInv, TypeOK, ClientTypeOK
    <3>4. AsSent(e) = p
      <4>1. AsSent(e) \in Payloads /\ Sent(AsSent(e)) /\ AsSent(e).key = p.key
        BY <3>1, LoggedIsSent DEF AsSent
      <4> QED
        BY <1>1, <4>1 DEF IInv, Shaped, Keyed
    <3>5. e.prompt = p.prompt /\ e.said = p.said
      BY <3>4 DEF AsSent
    <3>6. Spent(p)
      BY <3>5 DEF IInv, Logged, Spent, Passed
    <3>7. e.next \in 1..prompt /\ e.next \in 0..Over
      BY <1>2, Sizes DEF IInv, Logged, TypeOK, ClientTypeOK
    <3> QED
      BY <1>4, <3>2, <3>3, <3>6, <3>7 DEF Outcomes
  <2>3. CASE prompt = Over /\ a = Says("gone")
    <3>1. Passed(p)
      BY <1>1, <2>3, Sizes DEF Named, Passed
    <3> QED
      BY <1>2, <1>3, <1>4, <2>3, <3>1 DEF Outcomes
  <2>4. CASE (cancelled \/ p.prompt # prompt) /\ a = Says("stale")
    <3>1. Passed(p)
      BY <1>1, <1>2, <2>4, Sizes DEF Named, Passed
    <3> QED
      BY <1>2, <1>3, <1>4, <2>4, <3>1 DEF Outcomes
  <2>5. CASE /\ prompt # Over /\ p.prompt = prompt
             /\ \E usable \in BOOLEAN : a = Judged(p, usable)
    <3>1. PICK usable \in BOOLEAN : a = Judged(p, usable)
      BY <2>5
    <3>2. /\ Forward /\ Took(c) /\ a.says = "next" /\ a.next \in 1..prompt' /\ Spent(p)'
      BY <2>5, <3>1, JudgedAnswer
    <3>3. a.next \in 0..Over
      <4>1. prompt' \in 1..Over /\ a.next \in 1..prompt'
        BY <3>2 DEF Forward
      <4> QED
        BY <4>1, Sizes
    <3> QED
      BY <3>2, <3>3 DEF Outcomes
  <2>6. \/ a = Says("rejected")
        \/ a \in Replay(p)
        \/ prompt = Over /\ a = Says("gone")
        \/ (cancelled \/ p.prompt # prompt) /\ a = Says("stale")
        \/ prompt # Over /\ p.prompt = prompt /\ \E usable \in BOOLEAN : a = Judged(p, usable)
    BY <1>8 DEF SubmitAnswers
  <2> QED
    BY <2>1, <2>2, <2>3, <2>4, <2>5, <2>6
<1> QED
  BY <1>7, <1>8 DEF Served

LEMMA ServedSays ==
    ASSUME IInv, NEW c \in calls, NEW a \in Served(c)
    PROVE  a.says \in Outcomes
<1>1. c.kind \in Kinds
  BY DEF IInv, TypeOK, ClientTypeOK, Requests
<1>2. CASE c.kind # "submit"
  BY <1>1, <1>2 DEF Served, ResultAnswers, StateAnswers, Says, Kinds, Outcomes
<1>3. CASE c.kind = "submit"
  <2>1. a \in SubmitAnswers(c.payload, c.mended)
    BY <1>3 DEF Served
  <2>2. \A usable \in BOOLEAN : Judged(c.payload, usable).says = "next"
    BY DEF Judged
  <2>3. \A b \in Replay(c.payload) : b.says = "next"
    BY DEF Replay, Says
  <2>4. \A what : Says(what).says = what
    BY DEF Says
  <2>5. a \in Replay(c.payload) \/ (\E what \in Outcomes : a = Says(what))
        \/ \E usable \in BOOLEAN : a = Judged(c.payload, usable)
    BY <2>1 DEF SubmitAnswers, Outcomes
  <2> QED
    BY <2>2, <2>3, <2>4, <2>5 DEF Outcomes
<1> QED
  BY <1>2, <1>3

\* The calls and the service move, the agent does not.
LEMMA ServiceMoves ==
    ASSUME IInv, UNCHANGED agentVars, Forward, NEW c \in calls, Took(c),
           calls' \subseteq Requests,
           \A d \in calls' : Meant(d)' /\ \E b \in calls : d.payload = b.payload,
           breaker' \in [failures : 0..Threshold, is : {"closed", "open", "due"}],
           faults' \in 0..MaxFaults
    PROVE  IInv'
<1>1. UNCHANGED <<current, completed, deferred, input, pending, reply, waiters, heard, interrupts>>
  BY DEF agentVars
<1>2. Longer /\ prompt \in Nat /\ prompt' \in 1..Over /\ prompt' \in Nat /\ prompt <= prompt'
  BY <1>1, HeardStays, Sizes DEF IInv, Forward, TypeOK, ClientTypeOK
<1>3. c.payload \in Payloads /\ Sent(c.payload)
  BY SentIsNamed
<1>4. TypeOK'
  <2>1. log' \subseteq [key : Turns, prompt : 1..NumPrompts, said : SUBSET Turns,
                        usable : BOOLEAN, next : 1..Over]
    BY DEF Took, IInv, TypeOK, ClientTypeOK
  <2> QED
    BY <1>1, <2>1 DEF IInv, TypeOK, ClientTypeOK, Forward
<1>5. ASSUME NEW p \in Payloads, Sent(p)' PROVE Sent(p)
  <2>1. CASE \E d \in calls' : p = d.payload
    BY <2>1 DEF Sent
  <2>2. CASE \E a \in log' : p = AsSent(a)
    <3>1. PICK a \in log' : p = AsSent(a)
      BY <2>2
    <3>2. a \in log \/ p = c.payload
      BY <3>1 DEF Took
    <3> QED
      BY <1>3, <3>1, <3>2 DEF Sent
  <2> QED
    BY <1>1, <1>5, <2>1, <2>2 DEF Sent
<1>6. ASSUME NEW w PROVE Window(w)' <=> Window(w)
  BY <1>1 DEF Window
<1>7. Shaped'
  <2>1. AllNamed'
    BY <1>2, <1>5, NamedStays DEF IInv, Shaped, AllNamed
  <2>2. ASSUME NEW w \in Replies, Window(w) PROVE Opened(w)'
    <3>1. Opened(w) /\ w.payload \in Payloads
      BY <2>2 DEF IInv, Shaped, AllOpened, Replies
    <3>2. Named(w.payload)'
      BY <1>2, <3>1, NamedStays DEF Opened, IInv
    <3> QED
      BY <1>1, <3>1, <3>2 DEF Opened
  <2>3. AllOpened'
    BY <1>6, <2>2 DEF AllOpened
  <2>4. Keyed'
    BY <1>5, <1>6 DEF IInv, Shaped, Keyed
  <2> QED
    BY <2>1, <2>3, <2>4 DEF Shaped
<1>8. Collected'
  <2>1. current \in Nat /\ \A t \in 1..Len(heard) : heard[t] \in Nat
    BY Sizes DEF IInv, TypeOK
  <2> QED
    BY <1>1, <1>2, <2>1 DEF IInv, Collected
<1>9. Logged'
  <2>1. CASE log' = log
    <3>1. \A a \in log : a.prompt \in Nat /\ a.next \in Nat
      BY Sizes DEF IInv, TypeOK, ClientTypeOK
    <3> QED
      BY <1>2, <2>1, <3>1 DEF IInv, Logged
  <2>2. ASSUME NEW e \in [key : Turns, prompt : 1..NumPrompts, said : SUBSET Turns,
                          usable : BOOLEAN, next : 1..Over],
               log' = log \cup {e}, e.prompt = prompt, e.next = prompt',
               e.usable => prompt < prompt'
        PROVE  Logged'
    <3>1. \A a \in log : /\ a.prompt \in Nat /\ a.next \in Nat /\ a.prompt <= prompt /\ a.next <= prompt
                         /\ a.usable => a.prompt < prompt
      BY Sizes DEF IInv, TypeOK, ClientTypeOK, Logged
    <3>2. \A a \in log' : a.prompt <= prompt' /\ a.next <= prompt' /\ (a.usable => a.prompt < prompt')
      BY <1>2, <2>2, <3>1
    <3>3. \A a \in log : a.usable => a.prompt # e.prompt
      BY <1>2, <2>2, <3>1
    <3>4. \A a, b \in log' : a.usable /\ b.usable /\ a.prompt = b.prompt => a = b
      BY <2>2, <3>3 DEF IInv, Logged
    <3> QED
      BY <3>2, <3>4 DEF Logged
  <2> QED
    BY <2>1, <2>2 DEF Took
<1>10. Called'
  BY DEF Called
<1>11. Kept'
  <2>1. PICK p \in Payloads : p = reply.payload
    BY DEF IInv, TypeOK, Replies
  <2>2. Passed(p) => Passed(p)'
    BY PassedStays DEF IInv
  <2>3. Passed(reply.payload) => Passed(reply.payload)'
    BY <1>1, <2>1, <2>2 DEF Passed
  <2> QED
    BY <1>1, <2>3 DEF IInv, Kept
<1>12. HeardIsKept'
  <2> SUFFICES ASSUME refusals' = 0, ~cancelled', NEW t \in DOMAIN heard', heard'[t] = prompt'
               PROVE  t \in Held' \/ \E a \in log' : t \in a.said /\ ~a.usable
    BY DEF HeardIsKept
  <2>1. refusals = 0 /\ ~cancelled
    BY Sizes DEF Forward, IInv, TypeOK, ClientTypeOK
  <2>2. t \in DOMAIN heard /\ heard[t] = prompt
    <3>1. t \in 1..Len(heard) /\ heard[t] \in Nat
      BY <1>1, Sizes DEF IInv, TypeOK
    <3>2. heard[t] <= prompt /\ heard[t] = prompt'
      BY <1>1, <3>1 DEF IInv, Collected
    <3> QED
      BY <1>1, <1>2, <3>1, <3>2
  <2>3. t \in Held \/ \E a \in log : t \in a.said /\ ~a.usable
    BY <2>1, <2>2 DEF IInv, HeardIsKept
  <2> QED
    BY <1>1, <2>3 DEF Held, Forward
<1>13. ListensWhenIdle'
  BY <1>1 DEF IInv, ListensWhenIdle
<1> QED
  BY <1>4, <1>7, <1>8, <1>9, <1>10, <1>11, <1>12, <1>13 DEF IInv

\* A thread ends or tries again; what became of its call is what it means.
LEMMA ThreadMoves ==
    ASSUME IInv, UNCHANGED agentVars, Forward, NEW c \in calls, Took(c), NEW d \in Requests,
           calls' \subseteq (calls \ {c}) \cup {d},
           d.kind = c.kind, d.payload = c.payload, d.awaited = c.awaited,
           d.says = "next" => d.next \in 1..prompt' /\ Spent(c.payload)',
           d.says \in {"result", "gone", "stale", "refused", "noprompt"} => Passed(c.payload)',
           d.says = "rejected" => c.kind = "submit",
           breaker' \in [failures : 0..Threshold, is : {"closed", "open", "due"}],
           faults' \in 0..MaxFaults
    PROVE  IInv'
<1>1. reply' = reply /\ \A b \in calls : b \in Requests /\ Meant(b)
  BY DEF agentVars, IInv, TypeOK, ClientTypeOK, Called
<1>2. c.payload \in Payloads
  BY SentIsNamed
<1>3. Meant(d)'
  <2>1. Passed(c.payload) => Passed(c.payload)'
    BY <1>2, PassedStays DEF IInv
  <2> QED
    BY <1>1, <2>1 DEF Meant
<1>4. \A b \in calls' : b \in Requests /\ Meant(b)' /\ \E e \in calls : b.payload = e.payload
  <2>1. \A b \in calls : Meant(b)'
    BY <1>1, StillMeant DEF IInv
  <2> QED
    BY <1>1, <1>3, <2>1
<1> QED
  BY <1>4, ServiceMoves

LEMMA AttemptKeeps ==
    ASSUME IInv, NEW c \in calls, Attempt(c), UNCHANGED agentVars
    PROVE  IInv'
<1>1. c \in Requests /\ c.payload \in Payloads /\ prompt \in 0..Over /\ prompt \in 1..Over
  BY SentIsNamed, Sizes DEF IInv, TypeOK, ClientTypeOK
<1>2. breaker \in [failures : 0..Threshold, is : {"closed", "open", "due"}] /\ faults \in 0..MaxFaults
      /\ refusals \in 0..MaxRefusals
  BY DEF IInv, TypeOK, ClientTypeOK
<1>3. /\ Admitted(c) \in [failures : 0..Threshold, is : {"closed", "open", "due"}]
      /\ Reached => breaker' \in [failures : 0..Threshold, is : {"closed", "open", "due"}]
      /\ Unheard => breaker' \in [failures : 0..Threshold, is : {"closed", "open", "due"}]
  <2>1. 0 \in 0..Threshold /\ Threshold \in 0..Threshold
    BY Sizes
  <2>2. breaker.failures < Threshold => breaker.failures + 1 \in 0..Threshold
    BY <1>2, Sizes
  <2> QED
    BY <1>2, <2>1, <2>2 DEF Admitted, Reached, Unheard
<1>4. Fault => faults' \in 0..MaxFaults
  BY <1>2, Sizes DEF Fault
<1>5. UNCHANGED service /\ refusals' \in 0..MaxRefusals /\ refusals <= refusals' => Forward /\ Took(c)
  BY <1>1, Sizes DEF service, Forward, Took, IInv, TypeOK, ClientTypeOK
<1>6. refusals <= refusals
  BY <1>2, Sizes
\* How its set of calls changes.
<1>7. ASSUME NEW says \in Outcomes, NEW next \in 0..Over, Ends(c, says, next)
      PROVE  \E d \in Requests : /\ calls' \subseteq (calls \ {c}) \cup {d}
                                 /\ d.kind = c.kind /\ d.payload = c.payload /\ d.awaited = c.awaited
                                 /\ d.says = says /\ d.next = next
  <2> DEFINE d == [c EXCEPT !.says = says, !.next = next]
  <2>1. d \in Requests /\ d.kind = c.kind /\ d.payload = c.payload /\ d.awaited = c.awaited
        /\ d.says = says /\ d.next = next
    BY <1>1 DEF Requests
  <2>2. calls' \subseteq (calls \ {c}) \cup {d}
    BY <1>7 DEF Ends
  <2> QED
    BY <2>1, <2>2
<1>8. ASSUME NEW http \in BOOLEAN, TriesAgain(c, http), c.says = ""
      PROVE  \E d \in Requests : /\ calls' \subseteq (calls \ {c}) \cup {d}
                                 /\ d.kind = c.kind /\ d.payload = c.payload /\ d.awaited = c.awaited
                                 /\ d.says = ""
  <2> DEFINE m == [c EXCEPT !.tries = 1]
             d == [c EXCEPT !.tries = 1, !.http = http]
  <2>1. d \in Requests /\ d.kind = c.kind /\ d.payload = c.payload /\ d.awaited = c.awaited
        /\ d.says = ""
    <3>1. m \in Requests /\ m.kind = c.kind /\ m.payload = c.payload /\ m.awaited = c.awaited
          /\ m.says = ""
      <4>1. 1 \in 0..1
        OBVIOUS
      <4>2. m \in Requests
        BY <1>1, <4>1, Zenon DEF Requests
      <4> QED
        BY <1>1, <1>8, <4>2 DEF Requests
    <3>2. d = [m EXCEPT !.http = http]
      BY <1>1 DEF Requests
    <3> HIDE DEF m, d
    <3> QED
      BY <3>1, <3>2 DEF Requests
  <2>2. calls' \subseteq (calls \ {c}) \cup {d}
    BY <1>8 DEF TriesAgain
  <2> QED
    BY <2>1, <2>2
<1>9. CASE ShortCircuit(c)
  <2>1. Ends(c, "down", prompt) /\ UNCHANGED <<breaker, service, faults, refusals>>
    BY <1>9 DEF ShortCircuit
  <2>2. PICK d \in Requests : /\ calls' \subseteq (calls \ {c}) \cup {d}
                              /\ d.kind = c.kind /\ d.payload = c.payload /\ d.awaited = c.awaited
                              /\ d.says = "down"
    BY <1>1, <1>7, <2>1 DEF Outcomes
  <2>3. Forward /\ Took(c)
    BY <1>2, <1>5, <1>6, <2>1
  <2> QED
    BY <1>2, <2>1, <2>2, <2>3, ThreadMoves
<1>10. CASE Answered(c)
  <2>1. PICK a \in Served(c) : log' = a.log /\ prompt' = a.prompt /\ Ends(c, a.says, a.next)
    BY <1>10 DEF Answered
  <2>2. UNCHANGED <<cancelled, faults, refusals>> /\ Reached
    BY <1>10 DEF Answered
  <2>3. /\ Forward /\ Took(c)
        /\ a.says = "next" => a.next \in 1..prompt' /\ Spent(c.payload)'
        /\ a.says \in {"result", "gone", "stale", "noprompt"} => Passed(c.payload)'
        /\ a.says = "rejected" => c.kind = "submit"
        /\ a.says \in Outcomes \cup {"nothing"} /\ a.says # "refused" /\ a.next \in 0..Over
    BY <2>1, <2>2, ServiceAnswers
  <2>4. a.says \in Outcomes
    BY <2>1, ServedSays
  <2>5. PICK d \in Requests : /\ calls' \subseteq (calls \ {c}) \cup {d}
                              /\ d.kind = c.kind /\ d.payload = c.payload /\ d.awaited = c.awaited
                              /\ d.says = a.says /\ d.next = a.next
    BY <1>7, <2>1, <2>3, <2>4
  <2> QED
    BY <1>2, <1>3, <2>2, <2>3, <2>5, ThreadMoves
<1>11. CASE Refused(c)
  <2>1. /\ Ends(c, "refused", prompt) /\ Reached /\ UNCHANGED <<service, faults>>
        /\ refusals < MaxRefusals /\ refusals' = refusals + 1
    BY <1>11 DEF Refused
  <2>2. refusals' \in 0..MaxRefusals /\ refusals <= refusals' /\ refusals' > 0
    BY <1>2, <2>1, Sizes
  <2>3. Forward /\ Took(c)
    BY <1>5, <2>1, <2>2
  <2>4. Passed(c.payload)'
    BY <2>2 DEF Passed
  <2>5. PICK d \in Requests : /\ calls' \subseteq (calls \ {c}) \cup {d}
                              /\ d.kind = c.kind /\ d.payload = c.payload /\ d.awaited = c.awaited
                              /\ d.says = "refused"
    BY <1>1, <1>7, <2>1 DEF Outcomes
  <2> QED
    BY <1>2, <1>3, <2>1, <2>3, <2>4, <2>5, ThreadMoves
<1>12. CASE Busy(c)
  <2>1. /\ Reached /\ UNCHANGED <<service, refusals>> /\ Fault /\ c.says = ""
        /\ Ends(c, "busy", prompt) \/ TriesAgain(c, TRUE)
    BY <1>12 DEF Busy, Ready
  <2>2. PICK d \in Requests : /\ calls' \subseteq (calls \ {c}) \cup {d}
                              /\ d.kind = c.kind /\ d.payload = c.payload /\ d.awaited = c.awaited
                              /\ d.says \in {"", "busy"}
    <3>1. "busy" \in Outcomes /\ TRUE \in BOOLEAN
      BY DEF Outcomes
    <3> QED
      BY <1>1, <1>7, <1>8, <2>1, <3>1
  <2>3. Forward /\ Took(c)
    BY <1>2, <1>5, <1>6, <2>1
  <2> QED
    BY <1>3, <1>4, <2>1, <2>2, <2>3, ThreadMoves
<1>13. CASE Lost(c) \/ Broken(c)
  <2>1. /\ Unknown(c) /\ UNCHANGED <<cancelled, refusals>> /\ Fault /\ c.says = ""
        /\ \E says \in {"busy", "down", "broken"} : Ends(c, says, prompt) \/ TriesAgain(c, FALSE)
        /\ breaker' = breaker \/ breaker' = Admitted(c) \/ Unheard
    BY <1>13 DEF Lost, Broken, Ready
  <2>2. PICK d \in Requests : /\ calls' \subseteq (calls \ {c}) \cup {d}
                              /\ d.kind = c.kind /\ d.payload = c.payload /\ d.awaited = c.awaited
                              /\ d.says \in {"", "busy", "down", "broken"}
    <3>1. {"busy", "down", "broken"} \subseteq Outcomes /\ FALSE \in BOOLEAN
      BY DEF Outcomes
    <3>2. PICK says \in {"busy", "down", "broken"} : Ends(c, says, prompt) \/ TriesAgain(c, FALSE)
      BY <2>1
    <3>3. CASE Ends(c, says, prompt)
      <4>1. PICK d \in Requests : /\ calls' \subseteq (calls \ {c}) \cup {d}
                                  /\ d.kind = c.kind /\ d.payload = c.payload /\ d.awaited = c.awaited
                                  /\ d.says = says
        BY <1>1, <1>7, <3>1, <3>3
      <4> QED
        BY <4>1
    <3>4. CASE TriesAgain(c, FALSE)
      BY <1>8, <2>1, <3>4
    <3> QED
      BY <3>2, <3>3, <3>4
  <2>3. PICK a \in Served(c) \cup {Says("nothing")} : log' = a.log /\ prompt' = a.prompt
    BY <2>1 DEF Unknown
  <2>4. Forward /\ Took(c)
    BY <2>1, <2>3, ServiceAnswers
  <2> QED
    BY <1>2, <1>3, <1>4, <2>1, <2>2, <2>4, ThreadMoves
<1> QED
  BY <1>9, <1>10, <1>11, <1>12, <1>13 DEF Attempt

-----------------------------------------------------------------------------
(***************************************************************************)
(* Replies: what they submit and put aside.                                *)
(***************************************************************************)
\* The response is as it was, or of a later generation.
Aged == pending' = pending
        \/ (pending.generation \in Nat /\ pending'.generation \in Nat
              /\ pending'.generation > pending.generation)

LEMMA StillOpened ==
    ASSUME IInv, Longer, UNCHANGED prompt, Aged, NEW w \in Replies, Window(w)
    PROVE  Opened(w)'
<1>1. Opened(w) /\ w.payload \in Payloads /\ w.generation \in Nat /\ pending.generation \in Nat
  BY DEF IInv, Shaped, AllOpened, Replies, TypeOK
<1>2. prompt' \in 1..Over /\ prompt <= prompt'
  BY Sizes DEF IInv, TypeOK, ClientTypeOK
<1>3. Named(w.payload)'
  <2>1. Named(w.payload) /\ TypeOK
    BY <1>1 DEF Opened, IInv
  <2> QED
    BY <1>1, <1>2, <2>1, NamedStays
<1> QED
  BY <1>1, <1>3 DEF Opened, Aged

LEMMA ShapeStays ==
    ASSUME IInv, Longer, UNCHANGED prompt, Aged,
           \A p \in Payloads : Sent(p)' => Sent(p),
           \A w \in Replies : Window(w)' => Window(w)
    PROVE  Shaped'
<1>1. prompt' \in 1..Over /\ prompt <= prompt'
  BY Sizes DEF IInv, TypeOK, ClientTypeOK
<1>2. AllNamed'
  BY <1>1, NamedStays DEF IInv, Shaped, AllNamed
<1>3. AllOpened'
  BY StillOpened DEF AllOpened
<1>4. Keyed'
  BY DEF IInv, Shaped, Keyed
<1> QED
  BY <1>2, <1>3, <1>4 DEF Shaped

\* An answer n is submitted under a key that no other answer has.
LEMMA ShapeOfAnswer ==
    ASSUME IInv, Longer, UNCHANGED prompt, Aged, NEW n \in Payloads, Named(n)',
           \A p \in Payloads : Sent(p)' => Sent(p) \/ p = n,
           \A p \in Payloads : Sent(p) => p.key # n.key,
           \A w \in Replies : Window(w)' => Window(w) /\ w.payload.key # n.key
    PROVE  Shaped'
<1>1. prompt' \in 1..Over /\ prompt <= prompt'
  BY Sizes DEF IInv, TypeOK, ClientTypeOK
<1>2. AllNamed'
  BY <1>1, NamedStays DEF IInv, Shaped, AllNamed
<1>3. AllOpened'
  BY StillOpened DEF AllOpened
<1>4. Keyed'
  <2>1. \A p, q \in Payloads : Sent(p)' /\ Sent(q)' /\ p.key = q.key => p = q
    BY DEF IInv, Shaped, Keyed
  <2>2. \A w \in Replies, p \in Payloads : Window(w)' /\ Sent(p)' => p.key # w.payload.key
    BY DEF IInv, Shaped, Keyed
  <2>3. \A v, w \in Replies : Window(v)' /\ Window(w)' /\ v.payload.key = w.payload.key => v = w
    BY DEF IInv, Shaped, Keyed
  <2> QED
    BY <2>1, <2>2, <2>3 DEF Keyed
<1> QED
  BY <1>2, <1>3, <1>4 DEF Shaped

\* A quiet window v begins.
LEMMA ShapeOfWindow ==
    ASSUME IInv, Longer, UNCHANGED prompt, Aged, NEW v \in Replies, Opened(v)',
           \A p \in Payloads : Sent(p)' => Sent(p),
           \A p \in Payloads : Sent(p) => p.key # v.payload.key,
           \A w \in Replies : Window(w)' => w = v \/ Window(w),
           \A w \in Replies : Window(w) => w.payload.key # v.payload.key
    PROVE  Shaped'
<1>1. prompt' \in 1..Over /\ prompt <= prompt'
  BY Sizes DEF IInv, TypeOK, ClientTypeOK
<1>2. AllNamed'
  BY <1>1, NamedStays DEF IInv, Shaped, AllNamed
<1>3. AllOpened'
  BY StillOpened DEF AllOpened
<1>4. Keyed'
  <2>1. \A p, q \in Payloads : Sent(p)' /\ Sent(q)' /\ p.key = q.key => p = q
    BY DEF IInv, Shaped, Keyed
  <2>2. \A w \in Replies, p \in Payloads : Window(w)' /\ Sent(p)' => p.key # w.payload.key
    BY DEF IInv, Shaped, Keyed
  <2>3. \A x, w \in Replies : Window(x)' /\ Window(w)' /\ x.payload.key = w.payload.key => x = w
    BY DEF IInv, Shaped, Keyed
  <2> QED
    BY <2>1, <2>2, <2>3 DEF Keyed
<1> QED
  BY <1>2, <1>3, <1>4 DEF Shaped

\* What is forgotten is over, or was judged and not usable.
LEMMA NothingForgotten ==
    ASSUME IInv, UNCHANGED <<prompt, log, cancelled, refusals, heard>>,
           NEW p \in Payloads, Named(p), Spent(p) \/ p.said \subseteq Held',
           Held \subseteq Held' \cup p.said
    PROVE  HeardIsKept'
<1> SUFFICES ASSUME refusals = 0, ~cancelled, NEW t \in DOMAIN heard, heard[t] = prompt,
                    t \notin Held'
             PROVE  \E a \in log : t \in a.said /\ ~a.usable
  BY DEF HeardIsKept
<1>1. t \in Held \/ \E a \in log : t \in a.said /\ ~a.usable
  BY DEF IInv, HeardIsKept
<1>2. CASE t \in p.said
  <2>1. Spent(p) /\ p.prompt = prompt
    BY <1>2 DEF Named
  <2>2. ~Passed(p)
    BY <2>1, Sizes DEF Passed, IInv, TypeOK, ClientTypeOK
  <2> QED
    BY <1>2, <2>1, <2>2 DEF Spent
<1> QED
  BY <1>1, <1>2

\* The agent waits for another call.
LEMMA CallsKeep ==
    ASSUME IInv, UNCHANGED <<breaker, service, faults, refusals, interrupts, current, completed>>,
           NEW kind \in Kinds, NEW via \in Vias, NEW payload \in Payloads, NEW mended \in BOOLEAN,
           Calls(kind, via, payload, mended),
           heard' \in Seq(0..NumPrompts), Len(heard') <= MaxTurns,
           waiters' \subseteq Replies, input' \in BOOLEAN,
           pending' \in [prompt : 0..NumPrompts, said : SUBSET Turns, generation : Nat],
           deferred' \in {NoPayload, payload}, NoPayload \in Payloads,
           pending'.said \subseteq payload.said,
           kind = "submit" => payload.said \subseteq pending'.said \cup deferred'.said,
           kind # "submit" => Passed(payload),
           deferred' # NoPayload => pending'.prompt = 0,
           Shaped', Collected', HeardIsKept'
    PROVE  IInv'
<1> DEFINE r == [at |-> kind, via |-> via, payload |-> payload, generation |-> 0]
           n == Request(kind, payload, mended)
<1>1. reply' = r /\ calls' = Untended \cup {n}
  BY DEF Calls
<1>2. r \in Replies /\ r.at = kind /\ r.payload = payload
  BY DEF Replies, Ats
<1>3. n \in Requests /\ n.kind = kind /\ n.payload = payload /\ n.says = "" /\ n.awaited
  BY Sizes DEF Request, Requests
<1>4. UNCHANGED <<prompt, log, cancelled, refusals>>
  BY DEF service
<1> HIDE DEF r, n
<1>5. TypeOK'
  BY <1>1, <1>2, <1>3 DEF IInv, TypeOK, ClientTypeOK, Untended, service
<1>6. Logged'
  BY <1>4 DEF IInv, Logged
<1>7. Called'
  <2>1. ASSUME NEW c \in Untended PROVE Meant(c)'
    <3>1. Meant(c) /\ ~c.awaited
      BY <2>1 DEF Untended, IInv, Called
    <3> QED
      BY <1>4, <3>1 DEF Meant, Passed, Spent
  <2>2. Meant(n)'
    BY <1>1, <1>2, <1>3, <1>4 DEF Meant, Passed
  <2> QED
    BY <1>1, <2>1, <2>2 DEF Called
<1>8. Kept'
  <2>1. kind # "idle" /\ kind # "window"
    BY DEF Kinds
  <2> QED
    BY <1>1, <1>2, <1>4, <2>1 DEF Kept, Passed
<1>9. ListensWhenIdle'
  BY <1>1, <1>2 DEF ListensWhenIdle, Kinds
<1> QED
  BY <1>5, <1>6, <1>7, <1>8, <1>9 DEF IInv

\* No reply is generated any more.
LEMMA SilenceKeeps ==
    ASSUME IInv, UNCHANGED <<breaker, service, faults, refusals, heard>>,
           reply' = Idle,
           \A c \in calls' : c \in Requests /\ ~c.awaited
                             /\ (c \in calls \/ \E d \in calls : c = [d EXCEPT !.awaited = FALSE]),
           interrupts' \in 0..MaxInterrupts, current' \in 1..NumPrompts, completed' \in BOOLEAN,
           waiters' \subseteq Replies, input' \in BOOLEAN, input' \/ completed',
           pending' \in [prompt : 0..NumPrompts, said : SUBSET Turns, generation : Nat],
           deferred' \in Payloads, deferred' # NoPayload => pending'.prompt = 0,
           Shaped', Collected', HeardIsKept'
    PROVE  IInv'
<1>1. UNCHANGED <<prompt, log, cancelled, refusals>>
  BY DEF service
<1>2. Idle \in Replies /\ Idle.at = "idle" /\ Idle.payload.said = {}
  BY Sizes DEF Idle, Replies, NoPayload, Payloads, Ats, Vias
<1>3. TypeOK'
  <2>1. calls' \subseteq Requests
    OBVIOUS
  <2> QED
    BY <1>2, <2>1 DEF IInv, TypeOK, ClientTypeOK, service
<1>4. Logged'
  BY <1>1 DEF IInv, Logged
<1>5. Called'
  <2>1. ASSUME NEW c \in calls' PROVE Meant(c)'
    <3>1. CASE c \in calls
      <4>1. Meant(c) /\ ~c.awaited
        BY <2>1, <3>1 DEF IInv, Called
      <4> QED
        BY <1>1, <4>1 DEF Meant, Passed, Spent
    <3>2. ASSUME NEW d \in calls, c = [d EXCEPT !.awaited = FALSE] PROVE Meant(c)'
      <4>1. Meant(d) /\ d \in Requests
        BY DEF IInv, Called, TypeOK, ClientTypeOK
      <4>2. c.kind = d.kind /\ c.payload = d.payload /\ c.says = d.says /\ c.next = d.next /\ ~c.awaited
        BY <3>2, <4>1 DEF Requests
      <4> QED
        BY <1>1, <4>1, <4>2 DEF Meant, Passed, Spent
    <3> QED
      BY <2>1, <3>1, <3>2
  <2> QED
    BY <2>1 DEF Called
<1>6. Kept'
  BY <1>2 DEF Kept, Kinds
<1>7. ListensWhenIdle'
  BY DEF ListensWhenIdle
<1> QED
  BY <1>3, <1>4, <1>5, <1>6, <1>7 DEF IInv

-----------------------------------------------------------------------------
(***************************************************************************)
(* A reply gets its outcome, or is cancelled.                              *)
(***************************************************************************)
\* Nothing is submitted that was not, and no window opens.
LEMMA SentBefore ==
    ASSUME \A c \in calls' : \E d \in calls : c.payload = d.payload, log' = log,
           deferred' \in {deferred, NoPayload} \/ (deferred' = reply.payload /\ reply.at \in Kinds),
           reply'.at \in Kinds => reply.at \in Kinds /\ reply'.payload = reply.payload,
           \A w \in waiters' : Window(w), reply'.at # "window"
    PROVE  /\ \A p \in Payloads : Sent(p)' => Sent(p)
           /\ \A w \in Replies : Window(w)' => Window(w)
BY DEF Sent, Window

LEMMA Waits ==
    ASSUME IInv, NEW c \in calls, c.awaited
    PROVE  /\ c \in Requests /\ Meant(c) /\ c.payload = reply.payload /\ c.kind = reply.at
           /\ reply.at \in Kinds /\ reply.at # "idle" /\ reply.at # "window"
           /\ reply.payload \in Payloads /\ Named(reply.payload)
           /\ reply.via \in Vias /\ reply \in Replies
<1>1. c \in Requests /\ Meant(c) /\ c.payload = reply.payload /\ c.kind = reply.at
  BY DEF IInv, TypeOK, ClientTypeOK, Called, Meant
<1>2. c.kind \in Kinds
  BY <1>1 DEF Requests
<1> QED
  BY <1>1, <1>2, SentIsNamed DEF Kinds, IInv, TypeOK, Replies

\* Where the answer is.
LEMMA WhatIsHeld ==
    ASSUME IInv, reply.at \in Kinds
    PROVE  Held = reply.payload.said \cup pending.said
           /\ pending.said \subseteq reply.payload.said
           /\ deferred \in {NoPayload, reply.payload} /\ NoPayload.said = {}
<1>1. NoPayload.said = {}
  BY DEF NoPayload
<1>2. pending.said \subseteq reply.payload.said /\ deferred \in {NoPayload, reply.payload}
  BY DEF IInv, Kept
<1> QED
  BY <1>1, <1>2 DEF Held

LEMMA NoPayloadType == NoPayload \in Payloads /\ NoPayload.said = {} /\ Idle.payload = NoPayload
BY Sizes DEF NoPayload, Payloads, Idle

LEMMA ClearedFacts ==
    ASSUME TypeOK
    PROVE  /\ Cleared \in [prompt : 0..NumPrompts, said : SUBSET Turns, generation : Nat]
           /\ Cleared.prompt = 0 /\ Cleared.said = {}
           /\ pending' = Cleared => Aged
<1>1. pending.generation \in Nat
  BY DEF TypeOK
<1>2. Cleared = [prompt |-> 0, said |-> {}, generation |-> pending.generation + 1]
  BY DEF Cleared, Nothing
<1> QED
  BY <1>1, <1>2, Sizes DEF Aged

LEMMA AsksKeeps ==
    ASSUME IInv, NEW c \in calls, c.awaited, c.says = "next", c.next # Over, Asks(c.next),
           UNCHANGED <<breaker, service, faults, refusals, waiters, heard, interrupts>>
    PROVE  IInv'
<1>1. UNCHANGED <<prompt, log, cancelled, refusals>> /\ Longer
  BY HeardStays DEF service, IInv
<1>2. c.next \in 1..prompt /\ Spent(reply.payload)
  BY Waits DEF Meant
<1>3. c.next \in 1..NumPrompts /\ c.next \in Nat /\ c.next <= prompt
  BY <1>2, Sizes DEF IInv, TypeOK, ClientTypeOK
<1>4. /\ current' = c.next /\ pending' = Cleared /\ deferred' = NoPayload /\ reply' = Idle
      /\ input' = TRUE /\ calls' = Untended /\ completed' = completed
  BY DEF Asks
<1>5. Shaped'
  <2>1. reply'.at = "idle" /\ \A w \in waiters' : Window(w)
    BY <1>4 DEF Idle, Window
  <2>2. \A d \in calls' : d \in calls
    BY <1>4 DEF Untended
  <2> QED
    BY <1>1, <1>4, <2>1, <2>2, SentBefore, ClearedFacts, ShapeStays DEF Kinds, IInv
<1>6. Collected'
  BY <1>1, <1>3, <1>4, ClearedFacts DEF IInv, Collected
<1>7. HeardIsKept'
  BY <1>1, <1>2, <1>4, Waits, WhatIsHeld, NothingForgotten
<1>8. \A d \in calls' : d \in Requests /\ ~d.awaited /\ d \in calls
  BY <1>4 DEF Untended, IInv, TypeOK, ClientTypeOK
<1> QED
  BY <1>3, <1>4, <1>5, <1>6, <1>7, <1>8, ClearedFacts, NoPayloadType, SilenceKeeps DEF IInv, TypeOK

\* One more call for the same answer.
LEMMA CallsAgain ==
    ASSUME IInv, NEW c \in calls, c.awaited, NEW kind \in Kinds, NEW via \in Vias, NEW mended \in BOOLEAN,
           Calls(kind, via, reply.payload, mended),
           kind = "submit" => reply.at = "submit" /\ deferred' = deferred,
           kind # "submit" => Passed(reply.payload),
           deferred' \in {deferred, NoPayload},
           UNCHANGED <<current, completed, input, pending>>,
           UNCHANGED <<breaker, service, faults, refusals, waiters, heard, interrupts>>
    PROVE  IInv'
<1> DEFINE r == [at |-> kind, via |-> via, payload |-> reply.payload, generation |-> 0]
           n == Request(kind, reply.payload, mended)
<1>1. UNCHANGED <<prompt, log, cancelled, refusals>> /\ Longer /\ Aged
  BY HeardStays DEF service, IInv, Aged
<1>2. reply' = r /\ r.at = kind /\ r.payload = reply.payload /\ kind # "window"
      /\ calls' = Untended \cup {n} /\ n.payload = reply.payload
  BY DEF Calls, Request, Kinds
<1> HIDE DEF r, n
<1>3. Shaped'
  <2>1. \A w \in waiters' : Window(w)
    BY DEF Window
  <2>2. \A d \in calls' : \E e \in calls : d.payload = e.payload
    BY <1>2, Waits DEF Untended
  <2> QED
    BY <1>1, <1>2, <2>1, <2>2, Waits, SentBefore, ShapeStays
<1>4. Collected'
  BY <1>1 DEF IInv, Collected
<1>5. HeardIsKept'
  <2>1. Held' = reply.payload.said \cup pending.said \cup deferred'.said
    BY <1>2 DEF Held
  <2> QED
    BY <1>1, <2>1, Waits, WhatIsHeld, NothingForgotten
<1>6. /\ deferred' \in {NoPayload, reply.payload}
      /\ pending'.said \subseteq reply.payload.said
      /\ kind = "submit" => reply.payload.said \subseteq pending'.said \cup deferred'.said
      /\ deferred' # NoPayload => pending'.prompt = 0
  BY Waits, WhatIsHeld DEF IInv, Kept
<1>7. /\ heard' \in Seq(0..NumPrompts) /\ Len(heard') <= MaxTurns
      /\ waiters' \subseteq Replies /\ input' \in BOOLEAN
      /\ pending' \in [prompt : 0..NumPrompts, said : SUBSET Turns, generation : Nat]
  BY DEF IInv, TypeOK
<1> QED
  BY <1>3, <1>4, <1>5, <1>6, <1>7, Waits, NoPayloadType, CallsKeep

LEMMA DefersKeeps ==
    ASSUME IInv, NEW c \in calls, c.awaited, Defers,
           UNCHANGED <<breaker, service, faults, refusals, waiters, heard, interrupts>>
    PROVE  IInv'
<1>1. UNCHANGED <<prompt, log, cancelled, refusals>> /\ Longer
  BY HeardStays DEF service, IInv
<1>2. /\ deferred' = reply.payload /\ pending' = Cleared /\ reply' = Idle /\ input' = TRUE
      /\ calls' = Untended /\ UNCHANGED <<current, completed>>
  BY DEF Defers
<1>3. Shaped'
  <2>1. reply'.at = "idle" /\ \A w \in waiters' : Window(w)
    BY <1>2 DEF Idle, Window
  <2>2. \A d \in calls' : d \in calls
    BY <1>2 DEF Untended
  <2> QED
    BY <1>1, <1>2, <2>1, <2>2, Waits, SentBefore, ClearedFacts, ShapeStays DEF Kinds, IInv
<1>4. Collected'
  BY <1>1, <1>2, ClearedFacts DEF IInv, Collected
<1>5. HeardIsKept'
  <2>1. reply.payload.said \subseteq Held'
    BY <1>2 DEF Held
  <2> QED
    BY <1>1, <2>1, Waits, WhatIsHeld, NothingForgotten
<1>6. \A d \in calls' : d \in Requests /\ ~d.awaited /\ d \in calls
  BY <1>2 DEF Untended, IInv, TypeOK, ClientTypeOK
<1> QED
  BY <1>2, <1>3, <1>4, <1>5, <1>6, Waits, ClearedFacts, SilenceKeeps DEF IInv, TypeOK

\* The reply is over, and what it would have sent is not needed any more or is
\* kept by the agent.
LEMMA EndsSilently ==
    ASSUME IInv, reply' = Idle, input' \in BOOLEAN, completed' \in BOOLEAN, input' \/ completed',
           reply.at # "idle", reply.at \in Kinds => Passed(reply.payload) \/ reply.at = "submit",
           \A c \in calls' : c \in Requests /\ ~c.awaited
                             /\ (c \in calls \/ \E d \in calls : c = [d EXCEPT !.awaited = FALSE]),
           \A w \in waiters' : Window(w) /\ w \in Replies,
           interrupts' \in 0..MaxInterrupts,
           UNCHANGED <<current, pending, deferred>>,
           UNCHANGED <<breaker, service, faults, refusals, heard>>
    PROVE  IInv'
<1>1. UNCHANGED <<prompt, log, cancelled, refusals>> /\ Longer /\ Aged
  BY HeardStays DEF service, IInv, Aged
<1>2. Shaped'
  <2>1. reply'.at = "idle" /\ reply'.at \notin Kinds
    BY DEF Idle, Kinds
  <2>2. ASSUME NEW c \in calls' PROVE \E d \in calls : c.payload = d.payload
    <3>1. ASSUME NEW d \in calls, c = [d EXCEPT !.awaited = FALSE] PROVE c.payload = d.payload
      BY <3>1 DEF IInv, TypeOK, ClientTypeOK, Requests
    <3> QED
      BY <2>2, <3>1
  <2> QED
    BY <1>1, <2>1, <2>2, SentBefore, ShapeStays DEF IInv
<1>3. Collected'
  BY <1>1 DEF IInv, Collected
<1>4. HeardIsKept'
  <2>1. Held' = pending.said \cup deferred.said
    BY NoPayloadType DEF Held
  <2>2. CASE reply.at \in Kinds
    <3>1. reply.payload \in Payloads /\ Sent(reply.payload)
      BY <2>2 DEF Sent, IInv, TypeOK, Replies
    <3>2. Named(reply.payload)
      BY <3>1 DEF IInv, Shaped, AllNamed
    <3>3. Spent(reply.payload) \/ reply.payload.said \subseteq Held'
      BY <2>1, <2>2 DEF Spent, IInv, Kept
    <3>4. Held \subseteq Held' \cup reply.payload.said
      BY <2>1 DEF Held
    <3> QED
      BY <1>1, <3>1, <3>2, <3>3, <3>4, NothingForgotten
  <2>3. CASE reply.at \notin Kinds
    <3>1. reply.at = "window"
      BY <2>3 DEF IInv, TypeOK, Replies, Ats
    <3>2. reply.payload.said = {}
      BY <3>1 DEF IInv, Kept
    <3>3. Held' = Held
      BY <2>1, <3>2 DEF Held
    <3> QED
      BY <1>1, <3>3 DEF HeardIsKept, IInv
  <2> QED
    BY <2>2, <2>3
<1>5. deferred' # NoPayload => pending'.prompt = 0
  BY DEF IInv, Kept
<1>6. waiters' \subseteq Replies
  OBVIOUS
<1> QED
  BY <1>2, <1>3, <1>4, <1>5, <1>6, SilenceKeeps DEF IInv, TypeOK

LEMMA ResumeKeeps ==
    ASSUME IInv, Resume
    PROVE  IInv'
<1>1. PICK c \in calls \ Untended :
          \/ c.says = "next" /\ Proceeds(c.next)
          \/ c.says = "result" /\ Announces
          \/ c.says = "rejected" /\ CallsAlso("submit", reply.via, TRUE)
          \/ c.says \notin {"", "next", "result", "rejected"} /\ Handles(c.says)
  BY DEF Resume
<1>2. UNCHANGED <<breaker, service, faults, refusals, waiters, heard, interrupts>>
  BY DEF Resume
<1>3. c \in calls /\ c.awaited
  BY DEF Untended
<1>4. /\ c \in Requests /\ Meant(c) /\ c.payload = reply.payload /\ c.kind = reply.at
      /\ reply.at \in Kinds /\ reply.at # "idle" /\ reply.payload \in Payloads /\ Named(reply.payload)
      /\ reply.via \in Vias
  BY <1>3, Waits
<1>5. \A w \in waiters' : Window(w) /\ w \in Replies
  BY <1>2 DEF Window, IInv, TypeOK
<1>6. \A d \in Untended : d \in Requests /\ ~d.awaited /\ d \in calls
  BY DEF Untended, IInv, TypeOK, ClientTypeOK
<1>7. completed \in BOOLEAN /\ interrupts' \in 0..MaxInterrupts
  BY <1>2 DEF IInv, TypeOK
<1>8. reply.at \in Kinds => Passed(reply.payload) \/ reply.at = "submit"
  BY DEF IInv, Kept
<1>9. CASE c.says = "next" /\ c.next # Over /\ Asks(c.next)
  BY <1>2, <1>3, <1>9, AsksKeeps
<1>10. CASE /\ c.says = "next" /\ c.next = Over /\ Calls("result", reply.via, reply.payload, FALSE)
            /\ deferred' = NoPayload /\ UNCHANGED <<current, completed, input, pending>>
  <2>1. Over \in 1..prompt
    BY <1>4, <1>10 DEF Meant
  <2>2. Passed(reply.payload)
    BY <1>4, <2>1, Sizes DEF Named, Passed, IInv, TypeOK, ClientTypeOK
  <2>3. "result" \in Kinds /\ "result" # "submit" /\ FALSE \in BOOLEAN
    BY DEF Kinds
  <2> QED
    BY <1>2, <1>3, <1>4, <1>10, <2>2, <2>3, CallsAgain
<1>11. CASE c.says = "result" /\ Announces
  BY <1>2, <1>4, <1>5, <1>6, <1>7, <1>8, <1>11, EndsSilently DEF Announces
<1>12. CASE c.says = "rejected" /\ CallsAlso("submit", reply.via, TRUE)
  <2>1. reply.at = "submit" /\ "submit" \in Kinds /\ TRUE \in BOOLEAN
    BY <1>4, <1>12 DEF Meant, Kinds
  <2> QED
    BY <1>2, <1>3, <1>4, <1>12, <2>1, CallsAgain DEF CallsAlso
<1>13. ASSUME NEW kind \in {"result", "state"}, NEW via \in {"gone", "stale", "refused"},
              CallsAlso(kind, via, FALSE), c.says \in {"gone", "stale", "refused"}
       PROVE  IInv'
  <2>1. Passed(reply.payload) /\ kind \in Kinds /\ kind # "submit" /\ via \in Vias /\ FALSE \in BOOLEAN
    BY <1>4, <1>13 DEF Meant, Kinds, Vias
  <2> QED
    BY <1>2, <1>3, <1>13, <2>1, CallsAgain DEF CallsAlso
<1>14. CASE Defers
  BY <1>2, <1>3, <1>14, DefersKeeps
<1>15. CASE Falls(Untended)
  BY <1>2, <1>4, <1>5, <1>6, <1>7, <1>8, <1>15, EndsSilently DEF Falls
<1>16. CASE Handles(c.says)
  BY <1>13, <1>14, <1>15, <1>16 DEF Handles
<1> QED
  BY <1>1, <1>9, <1>10, <1>11, <1>12, <1>16 DEF Proceeds

LEMMA InterruptKeeps ==
    ASSUME IInv, Interrupt
    PROVE  IInv'
<1> DEFINE late == {[c EXCEPT !.awaited = FALSE] :
                       c \in {d \in calls \ Untended : d.kind = "submit" /\ d.says = ""}}
<1>1. /\ reply.at # "idle" /\ Falls(Untended \cup late)
      /\ interrupts < MaxInterrupts /\ interrupts' = interrupts + 1
      /\ waiters' = waiters \/ (reply.at = "window" /\ waiters' = waiters \cup {reply})
      /\ UNCHANGED <<heard, breaker, service, faults, refusals>>
  BY DEF Interrupt
<1>2. /\ reply' = Idle /\ input' = TRUE /\ calls' = Untended \cup late
      /\ UNCHANGED <<current, completed, pending, deferred>>
  BY <1>1 DEF Falls
<1>3. interrupts' \in 0..MaxInterrupts /\ completed' \in BOOLEAN /\ reply \in Replies
  <2>1. /\ interrupts \in 0..MaxInterrupts /\ interrupts < MaxInterrupts
        /\ interrupts' = interrupts + 1
    BY <1>1 DEF IInv, TypeOK
  <2>2. interrupts' \in 0..MaxInterrupts
    BY <2>1, Sizes
  <2> QED
    BY <1>2, <2>2 DEF IInv, TypeOK
<1>4. \A w \in waiters' : Window(w) /\ w \in Replies
  BY <1>1, <1>3 DEF Window, IInv, TypeOK
<1>5. \A c \in calls' : c \in Requests /\ ~c.awaited
                        /\ (c \in calls \/ \E d \in calls : c = [d EXCEPT !.awaited = FALSE])
  <2>1. \A d \in calls : d \in Requests
    BY DEF IInv, TypeOK, ClientTypeOK
  <2>2. ASSUME NEW d \in calls
        PROVE  [d EXCEPT !.awaited = FALSE] \in Requests /\ ~[d EXCEPT !.awaited = FALSE].awaited
    BY <2>1 DEF Requests
  <2> QED
    BY <1>2, <2>1, <2>2 DEF Untended
<1>6. reply.at \in Kinds => Passed(reply.payload) \/ reply.at = "submit"
  BY DEF IInv, Kept
<1> QED
  BY <1>1, <1>2, <1>3, <1>4, <1>5, <1>6, EndsSilently

-----------------------------------------------------------------------------
(***************************************************************************)
(* The learner speaks, or is quiet.                                        *)
(***************************************************************************)
LEMMA SubmitsIt ==
    ASSUME NEW via, NEW payload, NEW mended, Calls("submit", via, payload, mended)
    PROVE  /\ reply'.payload = payload /\ reply'.at = "submit"
           /\ \A c \in calls' : c \in calls \/ c.payload = payload
<1> DEFINE n == Request("submit", payload, mended)
<1>1. n.payload = payload
  BY DEF Request
<1> HIDE DEF n
<1>2. calls' = Untended \cup {n}
  BY DEF Calls, n
<1> QED
  BY <1>1, <1>2 DEF Calls, Untended

LEMMA ContinueKeeps ==
    ASSUME IInv, Continue
    PROVE  IInv'
<1>1. /\ reply.at = "idle" /\ deferred # NoPayload /\ Calls("submit", "retry", deferred, FALSE)
      /\ input' = FALSE
      /\ UNCHANGED <<current, completed, deferred, pending, waiters, heard, interrupts,
                     breaker, service, faults, refusals>>
  BY DEF Continue, Listening
<1>2. UNCHANGED <<prompt, log, cancelled, refusals>> /\ Longer /\ Aged
  BY <1>1, HeardStays DEF service, IInv, Aged
<1>3. deferred \in Payloads /\ Sent(deferred) /\ Named(deferred)
  <2>1. deferred \in Payloads /\ Sent(deferred)
    BY <1>1 DEF IInv, TypeOK, Sent
  <2> QED
    BY <2>1 DEF IInv, Shaped, AllNamed
<1>4. pending.said = {} /\ pending.prompt = 0 /\ reply.payload.said = {}
  BY <1>1 DEF IInv, Kept, Collected
<1>5. reply'.payload = deferred /\ reply'.at = "submit" /\ \A c \in calls' : c \in calls \/ c.payload = deferred
  BY <1>1, SubmitsIt
<1>6. Shaped'
  <2>1. \A p \in Payloads : Sent(p)' => Sent(p)
    BY <1>1, <1>2, <1>3, <1>5 DEF Sent
  <2>2. \A w \in Replies : Window(w)' => Window(w)
    BY <1>1, <1>5 DEF Window
  <2> QED
    BY <1>2, <2>1, <2>2, ShapeStays
<1>7. Collected'
  BY <1>1, <1>2 DEF IInv, Collected
<1>8. HeardIsKept'
  <2>1. Held \subseteq Held' /\ deferred.said \subseteq Held'
    BY <1>1, <1>4, <1>5 DEF Held
  <2> QED
    BY <1>1, <1>2, <1>3, <2>1, NothingForgotten
<1>9. /\ heard' \in Seq(0..NumPrompts) /\ Len(heard') <= MaxTurns /\ waiters' \subseteq Replies
      /\ pending' \in [prompt : 0..NumPrompts, said : SUBSET Turns, generation : Nat]
  BY <1>1 DEF IInv, TypeOK
<1>10. "submit" \in Kinds /\ "retry" \in Vias /\ FALSE \in BOOLEAN
  BY DEF Kinds, Vias
<1> QED
  BY <1>1, <1>3, <1>4, <1>6, <1>7, <1>8, <1>9, <1>10, NoPayloadType, CallsKeep

\* The reply, its calls and what is kept are left alone.
LEMMA AgentStays ==
    ASSUME IInv, UNCHANGED <<calls, breaker, service, faults, refusals, reply, deferred,
                             current, completed, input, interrupts>>,
           \A w \in waiters' : w \in waiters,
           heard' \in Seq(0..NumPrompts), Len(heard') <= MaxTurns, Longer, Aged,
           pending' \in [prompt : 0..NumPrompts, said : SUBSET Turns, generation : Nat],
           pending'.prompt = pending.prompt, pending'.said = pending.said,
           Collected', HeardIsKept'
    PROVE  IInv'
<1>1. UNCHANGED <<prompt, log, cancelled, refusals>>
  BY DEF service
<1>2. TypeOK'
  BY DEF IInv, TypeOK, ClientTypeOK, service
<1>3. Shaped'
  <2>1. /\ \A p \in Payloads : Sent(p)' => Sent(p)
        /\ \A w \in Replies : Window(w)' => Window(w)
    BY <1>1 DEF Sent, Window
  <2> QED
    BY <1>1, <2>1, ShapeStays
<1>4. Logged' /\ Called' /\ Kept' /\ ListensWhenIdle'
  BY <1>1 DEF IInv, Logged, Called, Meant, Passed, Spent, Kept, ListensWhenIdle
<1> QED
  BY <1>2, <1>3, <1>4 DEF IInv

LEMMA ControlKeeps ==
    ASSUME IInv, Control
    PROVE  IInv'
<1>1. /\ Turn <= MaxTurns /\ pending' = Postponed /\ heard' = Append(heard, 0)
      /\ UNCHANGED <<calls, breaker, service, faults, refusals, reply, deferred,
                     current, completed, input, waiters, interrupts>>
  BY DEF Control, Spoken, clientVars
<1>2. UNCHANGED <<prompt, log, cancelled, refusals>> /\ 0 \in 0..NumPrompts
  BY <1>1, Sizes DEF service
<1>3. /\ Longer /\ Turn = Len(heard) + 1 /\ Len(heard') = Turn /\ heard'[Turn] = 0
      /\ heard' \in Seq(0..NumPrompts) /\ Len(heard') <= MaxTurns /\ Len(heard) \in Nat
  BY <1>1, <1>2, HeardMore DEF IInv, TypeOK
<1>4. /\ pending' \in [prompt : 0..NumPrompts, said : SUBSET Turns, generation : Nat] /\ Aged
      /\ pending'.prompt = pending.prompt /\ pending'.said = pending.said
  BY <1>1 DEF Postponed, Aged, IInv, TypeOK
<1>5. \A t \in 1..Len(heard') : t = Turn \/ (t \in 1..Len(heard) /\ heard'[t] = heard[t])
  BY <1>3 DEF Longer
<1>6. prompt \in 1..Over /\ prompt # 0 /\ 0 <= prompt
  BY Sizes DEF IInv, TypeOK, ClientTypeOK
<1>7. Collected'
  <2>1. \A t \in 1..Len(heard) : t \in 1..Len(heard') /\ heard'[t] = heard[t]
    BY <1>3 DEF Longer
  <2>2. \A t \in pending'.said : t \in 1..Len(heard') /\ heard'[t] = pending'.prompt
    BY <1>4, <2>1 DEF IInv, Collected
  <2>3. \A t \in 1..Len(heard') : heard'[t] <= prompt
    BY <1>3, <1>5, <1>6 DEF IInv, Collected
  <2> QED
    BY <1>1, <1>2, <1>4, <2>2, <2>3 DEF IInv, Collected
<1>8. HeardIsKept'
  <2> SUFFICES ASSUME refusals = 0, ~cancelled, NEW t \in DOMAIN heard', heard'[t] = prompt
               PROVE  t \in Held' \/ \E a \in log : t \in a.said /\ ~a.usable
    BY <1>2 DEF HeardIsKept
  <2>1. t \in 1..Len(heard') /\ t # Turn
    BY <1>3, <1>6
  <2>2. t \in DOMAIN heard /\ heard[t] = prompt
    <3>1. t \in 1..Len(heard) /\ heard'[t] = heard[t]
      BY <1>5, <2>1
    <3> QED
      BY <3>1 DEF IInv, TypeOK
  <2>3. Held' = Held
    BY <1>1, <1>4 DEF Held
  <2> QED
    BY <2>2, <2>3 DEF IInv, HeardIsKept
<1> QED
  BY <1>1, <1>3, <1>4, <1>7, <1>8, AgentStays

LEMMA WakeKeeps ==
    ASSUME IInv, NEW w \in waiters \cup {reply}, Wake(w)
    PROVE  IInv'
<1>1. /\ Window(w) /\ Claims(w) /\ waiters' = waiters \ {w}
      /\ w.generation = pending.generation => reply.at = "idle" \/ w = reply
      /\ UNCHANGED <<current, completed, deferred, pending, heard, interrupts,
                     breaker, service, faults, refusals>>
  BY DEF Wake, Window
<1>2. w \in Replies /\ w.payload \in Payloads /\ waiters \subseteq Replies
  BY DEF IInv, TypeOK, Replies
<1>3. Opened(w)
  BY <1>1, <1>2 DEF IInv, Shaped, AllOpened
<1>4. UNCHANGED <<prompt, log, cancelled, refusals>> /\ Longer /\ Aged
  BY <1>1, HeardStays DEF service, IInv, Aged
<1>5. Collected'
  BY <1>1, <1>4 DEF IInv, Collected
<1>6. /\ heard' \in Seq(0..NumPrompts) /\ Len(heard') <= MaxTurns /\ waiters' \subseteq Replies
      /\ pending' \in [prompt : 0..NumPrompts, said : SUBSET Turns, generation : Nat]
      /\ pending.said \in SUBSET Turns /\ interrupts \in 0..MaxInterrupts /\ completed \in BOOLEAN
      /\ input \in BOOLEAN
  BY <1>1, <1>2 DEF IInv, TypeOK
\* What was said since is submitted.
<1>7. CASE w.generation = pending.generation
  <2>1. PICK n \in Payloads : n = [w.payload EXCEPT !.said = pending.said]
    BY <1>2, <1>6 DEF Payloads
  <2>2. /\ Calls("submit", "fresh", n, FALSE) /\ input' = FALSE
        /\ n.key = w.payload.key /\ n.prompt = w.payload.prompt /\ n.said = pending.said
    <3>1. Calls("submit", "fresh", n, FALSE) /\ input' = FALSE
      BY <1>1, <1>7, <2>1 DEF Claims
    <3> QED
      BY <1>2, <2>1, <3>1 DEF Payloads
  <2>3. pending.prompt = w.payload.prompt /\ pending.prompt # 0 /\ Named(w.payload)
    BY <1>3, <1>7 DEF Opened, Named
  <2>4. deferred = NoPayload /\ reply.payload.said = {} /\ reply.at \in {"idle", "window"}
    BY <1>1, <1>3, <1>7, <2>3 DEF IInv, Kept, Opened
  <2>5. Named(n)'
    BY <1>1, <1>4, <2>2, <2>3 DEF Named, IInv, Collected
  <2>6. reply'.at = "submit" /\ reply'.payload = n /\ \A c \in calls' : c \in calls \/ c.payload = n
    BY <2>2, SubmitsIt
  <2>7. Shaped'
    <3>1. \A p \in Payloads : Sent(p)' => Sent(p) \/ p = n
      BY <1>1, <1>4, <2>6 DEF Sent
    <3>2. \A p \in Payloads : Sent(p) => p.key # n.key
      BY <1>1, <1>2, <2>2 DEF IInv, Shaped, Keyed
    <3>3. \A v \in Replies : Window(v)' => Window(v) /\ v.payload.key # n.key
      <4>1. ASSUME NEW v \in Replies, Window(v)' PROVE Window(v) /\ v # w
        BY <1>1, <2>6, <4>1 DEF Window
      <4> QED
        BY <1>1, <1>2, <2>2, <4>1 DEF IInv, Shaped, Keyed
    <3> QED
      BY <1>4, <2>2, <2>5, <3>1, <3>2, <3>3, ShapeOfAnswer
  <2>8. HeardIsKept'
    <3>1. Held = pending.said /\ Held' = pending.said
      BY <1>1, <2>2, <2>4, <2>6, NoPayloadType DEF Held
    <3> QED
      BY <1>1, <1>4, <3>1 DEF HeardIsKept, IInv
  <2>9. "submit" \in Kinds /\ "fresh" \in Vias /\ FALSE \in BOOLEAN
    BY DEF Kinds, Vias
  <2> QED
    BY <1>1, <1>5, <1>6, <2>1, <2>2, <2>4, <2>7, <2>8, <2>9, NoPayloadType, CallsKeep
\* More was said, or it is submitted already.
<1>8. CASE w.generation # pending.generation /\ w = reply
  <2>1. reply' = Idle /\ UNCHANGED <<calls, input>>
    BY <1>1, <1>8 DEF Claims
  <2>2. reply.at = "window" /\ reply.at \notin Kinds /\ reply.at # "idle"
    BY <1>3, <1>8 DEF Opened, Kinds
  <2>3. \A c \in calls' : c \in Requests /\ ~c.awaited /\ c \in calls
    <3>1. ASSUME NEW c \in calls, c.awaited PROVE FALSE
      BY <2>2, <3>1, Waits
    <3> QED
      BY <2>1, <3>1 DEF IInv, TypeOK, ClientTypeOK
  <2>4. input' \/ completed'
    BY <1>1, <2>1, <2>2 DEF IInv, ListensWhenIdle
  <2>5. \A v \in waiters' : Window(v) /\ v \in Replies
    BY <1>1, <1>2 DEF Window
  <2> QED
    BY <1>1, <1>6, <2>1, <2>2, <2>3, <2>4, <2>5, EndsSilently
<1>9. CASE w.generation # pending.generation /\ w # reply
  <2>1. UNCHANGED <<reply, calls, input>>
    BY <1>1, <1>9 DEF Claims
  <2>2. HeardIsKept'
    BY <1>1, <1>4, <2>1 DEF IInv, HeardIsKept, Held
  <2> QED
    BY <1>1, <1>4, <1>5, <1>6, <2>1, <2>2, AgentStays
<1> QED
  BY <1>7, <1>8, <1>9

\* What is added to the response, and what was heard.
LEMMA AnswerHeard ==
    ASSUME IInv, NEW u \in Utterances \ {"control"}, Answer(u)
    PROVE  LET said == IF u = "done" THEN {} ELSE {Turn}
           IN  /\ pending' = [prompt |-> current, said |-> pending.said \cup said,
                              generation |-> pending.generation + 1]
               /\ Added(said) = pending'
               /\ pending' \in [prompt : 0..NumPrompts, said : SUBSET Turns, generation : Nat]
               /\ Aged
<1> DEFINE said == IF u = "done" THEN {} ELSE {Turn}
<1>1. pending' = Added(said)
  BY DEF Answer
<1>2. pending.prompt \in {0, current} /\ pending.generation \in Nat /\ pending.said \in SUBSET Turns
      /\ current \in 1..NumPrompts
  BY DEF IInv, Collected, TypeOK
<1>3. said \in SUBSET Turns
  <2>1. Turn \in Nat /\ Turn >= 1 /\ Turn <= MaxTurns
    BY DEF Answer, Spoken, Turn, IInv, TypeOK
  <2> QED
    BY <2>1, Sizes DEF Turns
<1> HIDE DEF said
<1>4. Added(said) = [prompt |-> current, said |-> pending.said \cup said,
                     generation |-> pending.generation + 1]
  BY <1>2 DEF Added
<1>5. current \in 0..NumPrompts
  BY <1>2, Sizes
<1> QED
  BY <1>1, <1>2, <1>3, <1>4, <1>5 DEF Aged, said

LEMMA AnswerKeeps ==
    ASSUME IInv, NEW u \in Utterances \ {"control"}, Answer(u)
    PROVE  IInv'
<1> DEFINE said == IF u = "done" THEN {} ELSE {Turn}
           q    == IF u = "done" THEN 0 ELSE current
<1>1. /\ reply.at = "idle" /\ input /\ ~completed /\ deferred = NoPayload /\ Turn <= MaxTurns
      /\ heard' = Append(heard, q)
      /\ UNCHANGED <<current, completed, deferred, waiters, interrupts,
                     breaker, service, faults, refusals>>
  BY DEF Answer, Spoken, Listening
<1>2. UNCHANGED <<prompt, log, cancelled, refusals>>
  BY <1>1 DEF service
<1>3. /\ current \in 1..NumPrompts /\ current \in Nat /\ current >= 1 /\ current <= prompt
      /\ prompt \in Nat /\ prompt >= 1 /\ q \in 0..NumPrompts /\ 0 <= prompt
  BY Sizes DEF IInv, TypeOK, ClientTypeOK, Collected
<1>4. /\ Longer /\ Turn = Len(heard) + 1 /\ Len(heard') = Turn /\ heard'[Turn] = q
      /\ Turn \in Turns /\ Turn \in 1..Len(heard')
      /\ heard' \in Seq(0..NumPrompts) /\ Len(heard') <= MaxTurns /\ Len(heard) \in Nat
      /\ DOMAIN heard' = 1..Len(heard') /\ DOMAIN heard = 1..Len(heard)
  <2>1. heard' = Append(heard, q) /\ q \in 0..NumPrompts /\ TypeOK /\ Turn <= MaxTurns
    BY <1>1, <1>3 DEF IInv
  <2>2. Len(heard) \in Nat /\ heard \in Seq(0..NumPrompts)
    BY <2>1 DEF TypeOK
  <2> HIDE DEF q
  <2>3. /\ Longer /\ Turn = Len(heard) + 1 /\ Len(heard') = Turn /\ heard'[Turn] = q
        /\ Turn \in Turns /\ Turn \in 1..Len(heard')
        /\ heard' \in Seq(0..NumPrompts) /\ Len(heard') <= MaxTurns
    BY <2>1, HeardMore
  <2> QED
    BY <2>2, <2>3
<1>5. \A t \in 1..Len(heard') : t = Turn \/ (t \in 1..Len(heard) /\ heard'[t] = heard[t])
  BY <1>4 DEF Longer
<1>6. \A t \in 1..Len(heard) : t \in 1..Len(heard') /\ heard'[t] = heard[t] /\ t # Turn
  BY <1>4 DEF Longer
<1>7. /\ pending' = [prompt |-> current, said |-> pending.said \cup said,
                     generation |-> pending.generation + 1]
      /\ Added(said) = pending'
      /\ pending' \in [prompt : 0..NumPrompts, said : SUBSET Turns, generation : Nat]
      /\ Aged
  BY AnswerHeard
<1>8. /\ pending'.prompt = current /\ pending'.said = pending.said \cup said
      /\ pending'.generation = pending.generation + 1
  BY <1>7
<1>9. \A t \in said : t = Turn /\ q = current
  OBVIOUS
<1>10. q = current \/ q = 0
  OBVIOUS
<1>11. q = current => said \subseteq {Turn} /\ Turn \in said
  BY <1>3
<1> HIDE DEF said, q
<1>12. \A t \in pending'.said : t \in 1..Len(heard') /\ heard'[t] = current
  <2>1. ASSUME NEW t \in pending.said PROVE t \in 1..Len(heard) /\ heard[t] = current
    <3>1. pending.prompt = current
      BY <2>1 DEF IInv, Collected
    <3> QED
      BY <2>1, <3>1 DEF IInv, Collected
  <2>2. ASSUME NEW t \in said PROVE t \in 1..Len(heard') /\ heard'[t] = current
    BY <1>4, <1>9, <2>2
  <2> QED
    BY <1>6, <1>8, <2>1, <2>2
<1>13. Collected'
  <2>1. \A t \in 1..Len(heard') : heard'[t] <= prompt
    BY <1>3, <1>4, <1>5, <1>10 DEF IInv, Collected
  <2> QED
    BY <1>1, <1>2, <1>3, <1>8, <1>12, <2>1 DEF Collected
<1>14. HeardIsKept'
  <2> SUFFICES ASSUME refusals = 0, ~cancelled, NEW t \in DOMAIN heard', heard'[t] = prompt
               PROVE  t \in Held' \/ \E a \in log : t \in a.said /\ ~a.usable
    BY <1>2 DEF HeardIsKept
  <2>1. CASE t = Turn
    <3>1. q = current
      BY <1>3, <1>4, <1>10, <2>1
    <3> QED
      BY <1>8, <1>11, <2>1, <3>1 DEF Held
  <2>2. CASE t # Turn
    <3>1. t \in DOMAIN heard /\ heard[t] = prompt
      BY <1>4, <1>5, <2>2
    <3>2. t \in Held \/ \E a \in log : t \in a.said /\ ~a.usable
      BY <3>1 DEF IInv, HeardIsKept
    <3>3. Held = pending.said
      BY <1>1, NoPayloadType DEF Held, IInv, Kept
    <3>4. pending.said \subseteq Held'
      BY <1>8 DEF Held
    <3> QED
      BY <3>2, <3>3, <3>4
  <2> QED
    BY <2>1, <2>2
\* No answer and no window has the number of this turn.
<1>15. /\ \A p \in Payloads : Sent(p) => p.key # Turn
       /\ \A w \in Replies : Window(w) => w.payload.key # Turn
  <2>1. \A p \in Payloads : Named(p) => p.key # Turn
    BY <1>4 DEF Named
  <2>2. \A w \in Replies : w.payload \in Payloads
    BY DEF Replies
  <2> QED
    BY <2>1, <2>2 DEF IInv, Shaped, AllNamed, AllOpened, Opened
<1>16. Turn \in 0..MaxTurns /\ current \in 0..NumPrompts /\ pending'.said \in SUBSET Turns
  <2>1. Turn \in 0..MaxTurns
    BY <1>4, Sizes DEF Turns
  <2> QED
    BY <1>3, <1>7, <2>1, Sizes
<1>17. /\ waiters \subseteq Replies /\ \A c \in calls : ~c.awaited
       /\ waiters' \subseteq Replies /\ input \in BOOLEAN
  <2>1. \A c \in calls : ~c.awaited
    BY <1>1, Waits
  <2> QED
    BY <1>1, <2>1 DEF IInv, TypeOK
\* The last part, or the words that end an answer: it is submitted.
<1>18. CASE u # "fragment"
  <2>1. PICK n \in Payloads : n = [key |-> Turn, prompt |-> current, said |-> pending'.said]
    BY <1>16 DEF Payloads
  <2>2. /\ Calls("submit", "fresh", n, FALSE) /\ input' = FALSE
        /\ n.key = Turn /\ n.prompt = current /\ n.said = pending'.said
    <3>1. Calls("submit", "fresh", [key |-> Turn, prompt |-> current, said |-> Added(said).said], FALSE)
          /\ input' = FALSE
      BY <1>18 DEF Answer, said
    <3> QED
      BY <1>7, <2>1, <3>1
  <2>3. Named(n)'
    BY <1>2, <1>3, <1>4, <1>12, <2>2 DEF Named
  <2>4. reply'.at = "submit" /\ reply'.payload = n /\ \A c \in calls' : c \in calls \/ c.payload = n
    BY <2>2, SubmitsIt
  <2>5. Shaped'
    <3>1. \A p \in Payloads : Sent(p)' => Sent(p) \/ p = n
      BY <1>1, <1>2, <2>4 DEF Sent
    <3>2. \A p \in Payloads : Sent(p) => p.key # n.key
      BY <1>15, <2>2
    <3>3. \A w \in Replies : Window(w)' => Window(w) /\ w.payload.key # n.key
      BY <1>1, <1>15, <2>2, <2>4 DEF Window
    <3> QED
      BY <1>2, <1>4, <1>7, <2>3, <3>1, <3>2, <3>3, ShapeOfAnswer
  <2>6. "submit" \in Kinds /\ "fresh" \in Vias /\ FALSE \in BOOLEAN
    BY DEF Kinds, Vias
  <2> QED
    BY <1>1, <1>4, <1>7, <1>13, <1>14, <1>17, <2>2, <2>5, <2>6, NoPayloadType, CallsKeep
\* A part of an answer: its quiet window begins.
<1>19. CASE u = "fragment"
  <2>1. PICK v \in Replies : v = [at |-> "window", via |-> "fresh", generation |-> pending'.generation,
                                  payload |-> [key |-> Turn, prompt |-> current, said |-> {}]]
    <3>1. [key |-> Turn, prompt |-> current, said |-> {}] \in Payloads
      BY <1>16 DEF Payloads
    <3>2. pending'.generation \in Nat /\ "window" \in Ats /\ "fresh" \in Vias
      BY <1>7 DEF Ats, Vias
    <3> QED
      BY <3>1, <3>2 DEF Replies
  <2>2. /\ v.at = "window" /\ v.generation = pending'.generation
        /\ v.payload.key = Turn /\ v.payload.prompt = current /\ v.payload.said = {}
    BY <2>1
  <2>3. reply' = v /\ UNCHANGED <<input, calls>>
    BY <1>7, <1>19, <2>1 DEF Answer, said
  <2>4. Opened(v)'
    <3>1. Named(v.payload)'
      BY <1>2, <1>3, <1>4, <2>2 DEF Named
    <3>2. pending'.generation \in Nat
      BY <1>7
    <3> QED
      BY <1>8, <2>2, <3>1, <3>2 DEF Opened
  <2>5. Shaped'
    <3>1. \A p \in Payloads : Sent(p)' => Sent(p)
      BY <1>1, <1>2, <2>2, <2>3 DEF Sent, Kinds
    <3>2. \A w \in Replies : Window(w)' => w = v \/ Window(w)
      BY <1>1, <2>3 DEF Window
    <3> QED
      BY <1>2, <1>4, <1>7, <1>15, <2>2, <2>4, <3>1, <3>2, ShapeOfWindow
  <2>6. TypeOK'
    BY <1>1, <1>4, <1>7, <2>3 DEF IInv, TypeOK, ClientTypeOK, service
  <2>7. Logged' /\ ListensWhenIdle'
    BY <1>1, <1>2, <2>3 DEF IInv, Logged, ListensWhenIdle
  <2>8. Called'
    BY <1>2, <1>17, <2>3 DEF IInv, Called, Meant, Passed, Spent
  <2>9. Kept'
    BY <1>1, <2>2, <2>3 DEF Kept, Kinds
  <2> QED
    BY <1>13, <1>14, <2>5, <2>6, <2>7, <2>8, <2>9 DEF IInv
<1> QED
  BY <1>18, <1>19

-----------------------------------------------------------------------------
(***************************************************************************)
(* Every state.                                                            *)
(***************************************************************************)
LEMMA InitKept ==
    ASSUME Init
    PROVE  IInv
<1>1. /\ calls = {} /\ breaker = [failures |-> 0, is |-> "closed"] /\ prompt = 1 /\ log = {}
      /\ cancelled = FALSE /\ faults = 0 /\ refusals = 0 /\ current = 1 /\ completed = FALSE
      /\ deferred = NoPayload /\ input = TRUE /\ pending = Nothing /\ reply = Idle
      /\ waiters = {} /\ heard = <<>> /\ interrupts = 0
  BY DEF Init, ClientInit
<1>2. /\ Idle \in Replies /\ Idle.at = "idle" /\ Idle.payload.said = {}
      /\ Nothing \in [prompt : 0..NumPrompts, said : SUBSET Turns, generation : Nat]
      /\ Nothing.prompt = 0 /\ Nothing.said = {}
  BY NoPayloadType, Sizes DEF Idle, Nothing, Replies, Ats, Vias
<1>3. Len(heard) = 0 /\ heard \in Seq(0..NumPrompts) /\ DOMAIN heard = {} /\ 1..Len(heard) = {}
  BY <1>1
<1>4. TypeOK
  <2>1. /\ 0 \in 0..Threshold /\ 1 \in 1..Over /\ 0 \in 0..MaxFaults /\ 0 \in 0..MaxRefusals
        /\ 1 \in 1..NumPrompts /\ 0 \in 0..MaxInterrupts /\ 0 <= MaxTurns
    BY Sizes
  <2> QED
    BY <1>1, <1>2, <1>3, <2>1, NoPayloadType DEF TypeOK, ClientTypeOK
<1>5. Shaped
  <2>1. \A p \in Payloads : ~Sent(p)
    BY <1>1, <1>2 DEF Sent, Kinds
  <2>2. \A w \in Replies : ~Window(w)
    BY <1>1, <1>2 DEF Window
  <2> QED
    BY <2>1, <2>2 DEF Shaped, AllNamed, AllOpened, Keyed
<1>6. Collected /\ Logged /\ Called
  BY <1>1, <1>2, <1>3 DEF Collected, Logged, Called
<1>7. Kept /\ ListensWhenIdle
  BY <1>1, <1>2 DEF Kept, Kinds, ListensWhenIdle
<1>8. HeardIsKept
  BY <1>3 DEF HeardIsKept
<1> QED
  BY <1>4, <1>5, <1>6, <1>7, <1>8 DEF IInv

\* Time passes for the circuit, or the application cancels the assessment.
LEMMA ElsewhereKeeps ==
    ASSUME IInv, (Rest \/ Cancel) /\ UNCHANGED agentVars
    PROVE  IInv'
<1>1. /\ UNCHANGED <<calls, prompt, log, faults, refusals>> /\ cancelled' \in BOOLEAN
      /\ cancelled => cancelled'
      /\ breaker' = breaker \/ breaker' = [breaker EXCEPT !.is = "due"]
  BY DEF Rest, Cancel, service, IInv, TypeOK, ClientTypeOK
<1>2. Forward
  BY <1>1, Sizes DEF Forward, IInv, TypeOK, ClientTypeOK
<1>3. UNCHANGED <<current, completed, deferred, input, pending, reply, waiters, heard, interrupts>>
  BY DEF agentVars
<1>4. TypeOK'
  BY <1>1, <1>3 DEF IInv, TypeOK, ClientTypeOK
<1>5. Shaped'
  <2>1. /\ Longer /\ Aged
        /\ \A p \in Payloads : Sent(p)' => Sent(p)
        /\ \A w \in Replies : Window(w)' => Window(w)
    BY <1>1, <1>3, HeardStays DEF Aged, Sent, Window, IInv
  <2> QED
    BY <1>1, <2>1, ShapeStays
<1>6. Collected' /\ Logged' /\ HeardIsKept' /\ ListensWhenIdle'
  BY <1>1, <1>3 DEF IInv, Collected, Logged, HeardIsKept, Held, ListensWhenIdle
<1>7. Called'
  BY <1>1, <1>2, <1>3, StillMeant DEF Called, IInv, TypeOK, ClientTypeOK
<1>8. Kept'
  BY <1>1, <1>3 DEF IInv, Kept, Passed
<1> QED
  BY <1>4, <1>5, <1>6, <1>7, <1>8 DEF IInv

LEMMA StutterKeeps ==
    ASSUME IInv, UNCHANGED vars
    PROVE  IInv'
<1>1. /\ UNCHANGED <<calls, breaker, service, faults, refusals, reply, deferred,
                     current, completed, input, interrupts, waiters, heard, pending>>
      /\ UNCHANGED <<prompt, log, cancelled>>
  BY DEF vars, clientVars, agentVars, service
<1>2. Longer /\ Aged
  BY <1>1, HeardStays DEF Aged, IInv
<1>3. Collected' /\ HeardIsKept'
  BY <1>1 DEF IInv, Collected, HeardIsKept, Held
<1>4. /\ heard' \in Seq(0..NumPrompts) /\ Len(heard') <= MaxTurns
      /\ pending' \in [prompt : 0..NumPrompts, said : SUBSET Turns, generation : Nat]
  BY <1>1 DEF IInv, TypeOK
<1> QED
  BY <1>1, <1>2, <1>3, <1>4, AgentStays

LEMMA NextKeeps ==
    ASSUME IInv, Next
    PROVE  IInv'
<1>1. ASSUME NEW c \in calls, Thread(c) PROVE IInv'
  BY <1>1, AttemptKeeps DEF Thread
<1>2. CASE Waking
  BY <1>2, WakeKeeps DEF Waking
<1> QED
  BY <1>1, <1>2, ElsewhereKeeps, ResumeKeeps, ControlKeeps, ContinueKeeps, InterruptKeeps, AnswerKeeps
     DEF Next

\* The invariant holds in every state of the voice assessor.
THEOREM AgentInvariant == Spec => []IInv
<1>1. Init => IInv
  BY InitKept
<1>2. IInv /\ [Next]_vars => IInv'
  BY NextKeeps, StutterKeeps
<1> QED
  BY <1>1, <1>2, PTL DEF Spec

\* Type correctness of the agent, its client and the service behind them.
THEOREM AgentTypeCorrect == Spec => []TypeOK
<1>1. IInv => TypeOK
  BY DEF IInv
<1> QED
  BY <1>1, AgentInvariant, PTL

\* Every turn counts for one prompt at most, and none of the open prompt is
\* lost (LevelAssessmentAgent, PendingResponse).
THEOREM SpokenAlwaysCounts == Spec => []SpokenCounts
<1>1. ASSUME IInv PROVE SpokenCounts
  <2>1. ASSUME NEW a \in log, NEW b \in log, a.usable, b.usable, a # b, NEW t \in a.said \cap b.said
        PROVE  FALSE
    <3>1. a.prompt # b.prompt
      BY <1>1, <2>1 DEF IInv, Logged
    <3>2. Named(AsSent(a)) /\ Named(AsSent(b))
      BY <1>1, LoggedIsSent
    <3> QED
      BY <2>1, <3>1, <3>2 DEF Named, AsSent
  <2> QED
    BY <1>1, <2>1 DEF IInv, SpokenCounts, SpokenOnce
<1> QED
  BY <1>1, AgentInvariant, PTL

\* The microphone is off only while the agent works, or at the end.
THEOREM MicrophoneComesBack == Spec => []ListensWhenIdle
<1>1. IInv => ListensWhenIdle
  BY DEF IInv
<1> QED
  BY <1>1, AgentInvariant, PTL
=============================================================================

---------------------------- MODULE AssessmentClient ----------------------------
(***************************************************************************)
(* The HTTP client of the voice assessor and the service behind it.  Every *)
(* request runs in a thread of its own and goes on when nobody waits for   *)
(* its answer any more: it asks the circuit breaker, is tried at most      *)
(* twice, and each try may be lost before or after the service handled it. *)
(* The service is an assessment of NumPrompts prompts, reduced to what an  *)
(* answer tells the client (AssessmentService has it in detail).           *)
(***************************************************************************)
EXTENDS FiniteSets, Naturals

CONSTANTS
    NumPrompts,     \* prompts of the assessment
    MaxTurns,       \* bound on what the learner says; turns are numbered
    Odd,            \* turns whose transcript the service's schema refuses
    MaxFaults,      \* bound on lost answers and HTTP 5xx
    MaxRefusals,    \* bound on other refusals, HTTP 429 for example
    Threshold,      \* failure_threshold of the circuit breaker, 3 in the code
    MayCancel       \* may the application cancel the assessment?

ASSUME ClientAssumption ==
    /\ {NumPrompts, Threshold} \subseteq Nat \ {0}
    /\ {MaxTurns, MaxFaults, MaxRefusals} \subseteq Nat
    /\ MayCancel \in BOOLEAN
    /\ Odd \subseteq 1..MaxTurns

VARIABLES
    calls,          \* requests in their threads
    breaker,        \* CircuitBreaker: failures, and is it closed, open or due
    prompt, log, cancelled,     \* the service: its prompt and the answers it took
    faults, refusals

service    == <<prompt, log, cancelled>>
clientVars == <<calls, breaker, service, faults, refusals>>

Over      == NumPrompts + 1
Turns     == 1..MaxTurns
Payloads  == [key : 0..MaxTurns, prompt : 0..NumPrompts, said : SUBSET Turns]
NoPayload == [key |-> 0, prompt |-> 0, said |-> {}]

\* A request: its kind, its text made empty after a 422 (mended), the tries so
\* far, was the last one answered by a 5xx (http), does a reply still wait for
\* it, and its outcome once there is one.
Kinds    == {"submit", "result", "state"}
Outcomes == {"next", "result", "noprompt", "rejected", "gone", "stale", "refused",
             "busy", "down", "broken"}
Requests == [kind : Kinds, payload : Payloads, mended : BOOLEAN,
             tries : 0..1, http : BOOLEAN, awaited : BOOLEAN,
             says : {""} \cup Outcomes, next : 0..Over]

Request(kind, payload, mended) ==
    [kind |-> kind, payload |-> payload, mended |-> mended,
     tries |-> 0, http |-> FALSE, awaited |-> TRUE, says |-> "", next |-> 0]

ClientInit ==
    /\ calls = {}
    /\ breaker = [failures |-> 0, is |-> "closed"]
    /\ prompt = 1
    /\ log = {}
    /\ cancelled = FALSE
    /\ faults = 0 /\ refusals = 0

-----------------------------------------------------------------------------
(* CircuitBreaker                                                           *)

Reached  == breaker' = [failures |-> 0, is |-> "closed"]
Unheard  == LET n == IF breaker.failures < Threshold THEN breaker.failures + 1 ELSE Threshold
            IN  breaker' = [failures |-> n, is |-> IF n = Threshold THEN "open" ELSE breaker.is]

\* reset_seconds have passed; the next request closes the circuit.
Rest ==
    /\ breaker.is = "open"
    /\ breaker' = [breaker EXCEPT !.is = "due"]
    /\ UNCHANGED <<calls, service, faults, refusals>>

-----------------------------------------------------------------------------
(* The service's answers, with what they change: [says, next, log, prompt]  *)

Says(what) == [says |-> what, next |-> prompt, log |-> log, prompt |-> prompt]

\* An answer moves the assessment on; an unusable one keeps the prompt once.
Judged(p, usable) ==
    LET again == ~usable /\ ~\E a \in log : a.prompt = p.prompt /\ ~a.usable
        next  == IF again THEN prompt ELSE IF usable THEN prompt + 1 ELSE Over
    IN  [says |-> "next", next |-> next, prompt |-> next,
         log |-> log \cup {[key |-> p.key, prompt |-> p.prompt, said |-> p.said,
                            usable |-> usable, next |-> next]}]

Replay(p) == {[Says("next") EXCEPT !.next = a.next] : a \in {b \in log : b.key = p.key}}

\* Mutant: an answer to any prompt counts for the current one.
SubmitAnswersAnyPrompt(p, mended) ==
    IF p.key \in Odd /\ ~mended THEN {Says("rejected")}
    ELSE IF Replay(p) # {} THEN Replay(p)
    ELSE IF prompt = Over /\ ~cancelled THEN {Says("gone")}
    ELSE IF cancelled THEN {Says("stale")}
    ELSE {Judged(p, usable) : usable \in IF mended THEN {FALSE} ELSE BOOLEAN}

SubmitAnswers(p, mended) ==
    IF p.key \in Odd /\ ~mended THEN {Says("rejected")}
    ELSE IF Replay(p) # {} THEN Replay(p)
    ELSE IF prompt = Over /\ ~cancelled THEN {Says("gone")}
    ELSE IF cancelled \/ p.prompt # prompt THEN {Says("stale")}
    ELSE {Judged(p, usable) : usable \in IF mended THEN {FALSE} ELSE BOOLEAN}

ResultAnswers == {Says(IF prompt = Over \/ cancelled THEN "result" ELSE "stale")}
StateAnswers  == {Says(IF cancelled THEN "noprompt" ELSE "next")}

Served(c) ==
    CASE c.kind = "submit" -> SubmitAnswers(c.payload, c.mended)
      [] c.kind = "result" -> ResultAnswers
      [] c.kind = "state"  -> StateAnswers

\* The application cancels the assessment.
Cancel ==
    /\ MayCancel
    /\ ~cancelled /\ prompt # Over
    /\ cancelled' = TRUE
    /\ UNCHANGED <<calls, breaker, prompt, log, faults, refusals>>

-----------------------------------------------------------------------------
(* AssessmentClient._request: what a thread does next                       *)

\* Mutant: an open circuit never closes again.
ReadyIfClosed(c) == c.says = "" /\ ~(c.tries = 0 /\ breaker.is # "closed")
Ready(c)  == c.says = "" /\ ~(c.tries = 0 /\ breaker.is = "open")
Fault     == faults < MaxFaults /\ faults' = faults + 1

\* The thread ends; its outcome matters if a reply still waits for it.
Ends(c, says, next) ==
    calls' = (calls \ {c}) \cup
             IF c.awaited THEN {[c EXCEPT !.says = says, !.next = next]} ELSE {}

\* The first try is followed by a second one.
TriesAgain(c, http) == calls' = (calls \ {c}) \cup {[c EXCEPT !.tries = 1, !.http = http]}

\* before_request, which closes a circuit that is due.
Admitted(c) == IF c.tries = 0 /\ breaker.is = "due" THEN [failures |-> 0, is |-> "closed"]
               ELSE breaker

ShortCircuit(c) ==
    /\ c.says = "" /\ ~Ready(c)
    /\ Ends(c, "down", prompt)
    /\ UNCHANGED <<breaker, service, faults, refusals>>

\* The service's answer arrives: whatever it says, it was reached.
Answered(c) ==
    /\ Ready(c)
    /\ \E a \in Served(c) :
          log' = a.log /\ prompt' = a.prompt /\ Ends(c, a.says, a.next)
    /\ Reached
    /\ UNCHANGED <<cancelled, faults, refusals>>

\* A refusal that is not about the assessment (HTTP 429 and the like).
Refused(c) ==
    /\ Ready(c)
    /\ refusals < MaxRefusals /\ refusals' = refusals + 1
    /\ Ends(c, "refused", prompt)
    /\ Reached
    /\ UNCHANGED <<service, faults>>

\* HTTP 5xx.  With Retry-After, or when the service says that trying again is
\* of no use, there is no second try.
Busy(c) ==
    /\ Ready(c) /\ Fault
    /\ Ends(c, "busy", prompt) \/ (c.tries = 0 /\ TriesAgain(c, TRUE))
    /\ Reached
    /\ UNCHANGED <<service, refusals>>

\* What becomes of a request whose answer does not arrive.
Unknown(c) == \E a \in Served(c) \cup {Says("nothing")} : log' = a.log /\ prompt' = a.prompt

\* Timeouts.  Only a request that was never answered counts for the breaker.
Lost(c) ==
    /\ Ready(c) /\ Fault
    /\ Unknown(c)
    /\ \/ c.tries = 0 /\ TriesAgain(c, FALSE) /\ breaker' = Admitted(c)
       \/ c.tries = 1 /\ c.http /\ Ends(c, "busy", prompt) /\ UNCHANGED breaker
       \/ c.tries = 1 /\ ~c.http /\ Ends(c, "down", prompt) /\ Unheard
    /\ UNCHANGED <<cancelled, refusals>>

\* The connection breaks: urllib raises what _request does not catch.
Broken(c) ==
    /\ Ready(c) /\ Fault
    /\ Unknown(c)
    /\ Ends(c, "broken", prompt)
    /\ breaker' = Admitted(c)
    /\ UNCHANGED <<cancelled, refusals>>

Attempt(c) ==
    ShortCircuit(c) \/ Answered(c) \/ Refused(c) \/ Busy(c) \/ Lost(c) \/ Broken(c)

ClientTypeOK ==
    /\ calls \subseteq Requests
    /\ breaker \in [failures : 0..Threshold, is : {"closed", "open", "due"}]
    /\ prompt \in 1..Over
    /\ log \subseteq [key : Turns, prompt : 1..NumPrompts, said : SUBSET Turns,
                      usable : BOOLEAN, next : 1..Over]
    /\ cancelled \in BOOLEAN
    /\ faults \in 0..MaxFaults /\ refusals \in 0..MaxRefusals
=============================================================================

----------------------------- MODULE RubricEvaluator -----------------------------
(***************************************************************************)
(* services/oral_assessment/rubric_evaluator.py: one call of evaluate.     *)
(* The Gemini client asks again after an error that may pass, waiting as   *)
(* long as the provider asks for, and twice over when the answer does not  *)
(* parse.  The OpenAI client leaves the repetitions and their waits to the *)
(* SDK, and asks twice over as well.  The provider is outside the model:   *)
(* it answers, after at most the configured timeout, what it likes.        *)
(***************************************************************************)
EXTENDS Integers, FiniteSets

CONSTANTS
    Providers,      \* the evaluators build_evaluator may have made
    MaxRetries,     \* EVALUATOR_MAX_RETRIES
    MaxWait,        \* EVALUATOR_MAX_RETRY_WAIT_SECONDS
    Timeout,        \* EVALUATOR_TIMEOUT_SECONDS
    SdkWait,        \* the longest Retry-After the OpenAI SDK obeys
    Hints           \* the delays a provider may ask for, NoHint among them

ASSUME RubricEvaluatorAssumption ==
    /\ Providers \subseteq {"gemini", "openai", "heuristic", "unavailable"}
    /\ MaxRetries \in Nat /\ MaxWait \in Nat /\ Timeout \in Nat \ {0}
    /\ SdkWait \in Nat /\ SdkWait >= 8
    /\ Hints \subseteq Nat \cup {-1}

VARIABLES
    provider,   \* which evaluator the service was started with
    call        \* the call of evaluate that is in progress

evaluatorVars == <<provider, call>>

NoHint    == -1
Statuses  == {0, 403, 429, 503}     \* 0: an error without an HTTP status
Retryable == {408, 429, 500, 502, 503, 504}

Idle  == [phase |-> "idle", validation |-> 1, attempt |-> 0, waited |-> 0, elapsed |-> 0]
Calls == [phase : {"idle", "asking", "answered", "unavailable"}, validation : 1..2,
          attempt : 0..MaxRetries, waited : Nat, elapsed : Nat]

EvaluatorInit ==
    /\ provider \in Providers
    /\ call = Idle

Asking(p) == provider = p /\ call.phase = "asking"

\* evaluate, called by submit_response.
Ask ==
    /\ call.phase = "idle"
    /\ call' = [Idle EXCEPT !.phase = "asking"]

\* EvaluationUnavailable reaches submit_response.
GiveUp(elapsed) == call' = [Idle EXCEPT !.phase = "unavailable", !.elapsed = elapsed]

\* Mutant: the form is asked for until it is right.
AskFormAgain(elapsed) ==
    call' = [call EXCEPT !.validation = @ + 1, !.attempt = 0, !.waited = 0, !.elapsed = elapsed]

\* The next round of evaluate's own loop, with attempts and waits of its own.
AskForm(elapsed) ==
    IF call.validation = 1
    THEN call' = [call EXCEPT !.validation = 2, !.attempt = 0, !.waited = 0, !.elapsed = elapsed]
    ELSE GiveUp(elapsed)

-----------------------------------------------------------------------------
\* _generate: an error the SDK reports as such.  A daily quota without a hint
\* is over for today.  Without a hint the waits are the powers of two up to 8.
Delay(hint) ==
    IF hint # NoHint THEN hint
    ELSE IF call.attempt >= 3 THEN 8 ELSE <<1, 2, 4>>[call.attempt + 1]

\* Mutant: the waits of the provider are not counted.
CanRetryAnyWait(status, daily, hint) ==
    /\ status \in Retryable
    /\ call.attempt < MaxRetries
    /\ ~(status = 429 /\ daily /\ hint = NoHint)
    /\ Delay(hint) <= MaxWait

CanRetry(status, daily, hint) ==
    /\ status \in Retryable
    /\ call.attempt < MaxRetries
    /\ ~(status = 429 /\ daily /\ hint = NoHint)
    /\ call.waited + Delay(hint) <= MaxWait

ProviderError(status, daily, hint, took) ==
    /\ Asking("gemini")
    /\ IF CanRetry(status, daily, hint)
       THEN call' = [call EXCEPT !.attempt = @ + 1,
                                 !.waited = @ + Delay(hint),
                                 !.elapsed = @ + took + Delay(hint)]
       ELSE GiveUp(call.elapsed + took)
    /\ UNCHANGED provider

\* An answer that is not the object asked for, or any other exception, which
\* includes the SDK's own timeout: the form is asked for once more.
Malformed(took) ==
    /\ Asking("gemini")
    /\ AskForm(call.elapsed + took)
    /\ UNCHANGED provider

\* The SDK of OpenAI, made with EVALUATOR_MAX_RETRIES, tries again after a
\* timeout, a lost connection or a busy server.  It waits as long as the
\* provider asks for, up to SdkWait, and otherwise no longer than the powers
\* of two up to 8.
\* Mutant: it waits for as long as it is told to.
SdkDelayObeyed(hint) == IF hint > 0 THEN hint ELSE Delay(NoHint)

SdkDelay(hint) == IF hint \in 1..SdkWait THEN hint ELSE Delay(NoHint)

SdkRetries(hint, took) ==
    /\ Asking("openai")
    /\ call.attempt < MaxRetries
    /\ call' = [call EXCEPT !.attempt = @ + 1,
                            !.waited = @ + SdkDelay(hint),
                            !.elapsed = @ + took + SdkDelay(hint)]
    /\ UNCHANGED provider

\* What the SDK reports with a status is final; anything else, its timeout
\* and an answer that does not parse among it, is asked for once more.
OpenAIError(status, took) ==
    /\ Asking("openai")
    /\ IF status # 0 THEN GiveUp(call.elapsed + took) ELSE AskForm(call.elapsed + took)
    /\ UNCHANGED provider

NotConfigured ==
    /\ Asking("unavailable")
    /\ GiveUp(call.elapsed)
    /\ UNCHANGED provider

\* A well-formed answer for the right level.
Replied ==
    /\ call.phase = "asking" /\ provider # "unavailable"
    /\ call' = [Idle EXCEPT !.phase = "answered"]
    /\ UNCHANGED provider

EvaluatorFails ==
    \/ \E took \in {1, Timeout} :
          \/ Malformed(took)
          \/ \E hint \in Hints : SdkRetries(hint, took)
          \/ \E status \in Statuses : OpenAIError(status, took)
          \/ \E status \in Statuses, daily \in BOOLEAN, hint \in Hints :
                ProviderError(status, daily, hint, took)
    \/ NotConfigured

EvaluatorTypeOK ==
    /\ provider \in Providers
    /\ call \in Calls

\* What one round of evaluate may cost: every attempt its timeout, and the
\* waits, which the Gemini client bounds together and the OpenAI SDK one by one.
Waits(p) == IF p = "openai" THEN MaxRetries * SdkWait ELSE MaxWait
Round(p) == (MaxRetries + 1) * Timeout + Waits(p)

\* An answer is scored, or given back to the learner as not scored, within
\* the budget of two rounds (the attempt in progress may take its whole
\* timeout): the provider's delays, added up over the attempts of the client
\* or of its SDK, never keep the request (and the assessment's lock) any longer.
AnsweredWithinBudget ==
    call.elapsed + (IF Asking("gemini") \/ Asking("openai") THEN Timeout ELSE 0)
        <= 2 * Round(provider)

-----------------------------------------------------------------------------
(***************************************************************************)
(* HeuristicDemoEvaluator: every mark follows from the number of words.    *)
(* base is 0 without a transcript, else 1 to 4 by the word targets.        *)
(***************************************************************************)
AtLeast(n, m) == IF n < m THEN m ELSE n

HeuristicOutput(base, asked, halting, relevant, unusable) ==
    [scores |-> [task          |-> IF ~relevant /\ base > 1 THEN 1 ELSE base,
                 interaction   |-> IF asked THEN AtLeast(base - 1, 0) ELSE base,
                 fluency       |-> IF halting THEN AtLeast(base - 1, 1) ELSE base,
                 coherence     |-> base,
                 lexical       |-> base,
                 intelligibility |-> base],
     invalid  |-> unusable,
     blocked  |-> FALSE,
     relevant |-> relevant,
     achieved |-> base >= 2 /\ relevant]

HeuristicOutputs ==
    {HeuristicOutput(base, asked, halting, relevant, unusable) :
        base \in 0..4, asked \in BOOLEAN, halting \in BOOLEAN, relevant \in BOOLEAN,
        unusable \in BOOLEAN}
=============================================================================

----------------------------- MODULE ModelCall -----------------------------
(***************************************************************************)
(* One call of a model (council/executor.py, safe_call): the check of what *)
(* the backend needs, the requests with their retries, and what is made of *)
(* the outcome.                                                            *)
(*                                                                         *)
(* "openrouter" stands for openai_compatible too, which shares its client, *)
(* and "native" for anthropic and google, whose clients differ from it in  *)
(* refusing an answer with no text.                                        *)
(***************************************************************************)
EXTENDS Registry

CONSTANT Retries     \* of call_model

ASSUME RetriesAssumption == Retries \in Nat

VARIABLES
    mind,      \* the model called, as far as a call depends on it
    pc,        \* where the call is
    attempt,   \* retries so far
    requests,  \* requests sent to the provider, or processes launched
    last,      \* how the last request ended, "none" before
    result     \* what safe_call returned or let through

vars == <<mind, pc, attempt, requests, last, result>>

Backends == {"openrouter", "native", "opencode"}

\* reachable: endpoint is a URL a request can be made for or, for opencode, a
\* provider/model, with the CLI on PATH.
Minds == [backend : Backends, auth : Auth, reachable : BOOLEAN]

\* How an HTTP request can end: a payload with text, with none, of another
\* shape or with usage that are not counts; a status in TRANSIENT_HTTP_CODES or
\* another error; a timeout; any other OSError; a body that is no JSON, or cut.
HttpOutcomes == {"text", "empty", "misshapen", "badUsage", "transientStatus",
                 "errorStatus", "timeout", "oserror", "notJson"}

\* How `opencode run` can end.
CliOutcomes == {"text", "empty", "exitNonzero", "undecodable", "timeout", "oserror"}

Outcomes == IF mind.backend = "opencode" THEN CliOutcomes ELSE HttpOutcomes

\* A defect to be caught: an error status is transient whatever its code.
IsTransientAnyStatus(outcome) ==
    outcome \in {"transientStatus", "errorStatus", "timeout", "oserror"}

IsTransient(outcome) == outcome \in {"transientStatus", "timeout", "oserror"}

\* What no client turns into an ExecutorError.
Unclassified == {"badUsage", "notJson", "undecodable"}

\* The OpenAI-compatible client takes an answer with no text for an answer.
Usable(outcome) ==
    \/ outcome = "text"
    \/ outcome = "empty" /\ mind.backend = "openrouter"

\* What a client checks before the first request, and says when it is missing:
\* call_opencode the CLI and the model id, the others a variable named
\* api_key_env, which a keyless entry names none of.
Refused == IF mind.backend = "opencode" THEN ~mind.reachable ELSE mind.auth # "set"

\* urllib makes no request of what is no URL, and nothing catches its ValueError.
Misaddressed == mind.backend # "opencode" /\ ~mind.reachable

\* Defects to be caught: one retry too few, and no count of them.
MayRetryOnceLess == attempt + 1 < Retries
MayRetryForever == TRUE

MayRetry == attempt < Retries

Init == /\ mind \in Minds
        /\ pc = "prepare"
        /\ attempt = 0
        /\ requests = 0
        /\ last = "none"
        /\ result = "none"

Return(value) == pc' = "returned" /\ result' = value

Prepare ==
    /\ pc = "prepare"
    /\ \/ Refused /\ Return("failed")
       \/ ~Refused /\ Misaddressed /\ Return("raised")
       \/ ~Refused /\ ~Misaddressed /\ pc' = "request" /\ UNCHANGED result
    /\ UNCHANGED <<mind, attempt, requests, last>>

Request ==
    /\ pc = "request"
    /\ requests' = requests + 1
    /\ last' \in Outcomes
    /\ pc' = "classify"
    /\ UNCHANGED <<mind, attempt, result>>

\* RETRY_DELAY_SECONDS later the same request is sent again.
Retry ==
    /\ pc = "classify"
    /\ IsTransient(last)
    /\ MayRetry
    /\ attempt' = attempt + 1
    /\ pc' = "request"
    /\ UNCHANGED <<mind, requests, last, result>>

\* The result, a failed result for an ExecutorError, or another exception.
Concluded(outcome) ==
    IF Usable(outcome) THEN "answered"
    ELSE IF outcome \in Unclassified THEN "raised" ELSE "failed"

Conclude ==
    /\ pc = "classify"
    /\ ~(IsTransient(last) /\ MayRetry)
    /\ Return(Concluded(last))
    /\ UNCHANGED <<mind, attempt, requests, last>>

Returned == pc = "returned" /\ UNCHANGED vars

Next == Prepare \/ Request \/ Retry \/ Conclude \/ Returned

Spec == Init /\ [][Next]_vars

-----------------------------------------------------------------------------
(* Properties.                                                             *)

\* Types of the call's state; `attempt` is what it is said to be, the number
\* of requests after the first.
TypeOK ==
    /\ mind \in Minds
    /\ pc \in {"prepare", "request", "classify", "returned"}
    /\ attempt \in 0 .. Retries
    /\ requests = (IF pc \in {"classify", "returned"} /\ last # "none"
                   THEN attempt + 1 ELSE attempt)
    /\ last \in {"none"} \cup HttpOutcomes \cup CliOutcomes
    /\ result \in {"none", "answered", "failed", "raised"}

Passing == {"transientStatus", "timeout", "oserror"}

\* "Transient failures retry once; anything definitive fails fast": an answer,
\* or a refusal, is never asked for again and so never paid for twice.
NeverAsksAgainForNothing ==
    [][requests' > requests => last \in {"none"} \cup Passing]_vars

\* And a transient failure is given up on only when every retry is spent,
\* whichever of the transient failures the earlier ones were.
GivesUpOnlyWhenSpent ==
    result = "failed" /\ last \in Passing => requests = Retries + 1

-----------------------------------------------------------------------------
(* A statement of the documentation the code does not keep.                *)

\* safe_call "returns a failed result instead of raising -- the compare harness
\* must record per-model failures, not abort".
SafeCallNeverRaises == result # "raised"
=============================================================================

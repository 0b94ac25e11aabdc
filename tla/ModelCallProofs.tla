-------------------------- MODULE ModelCallProofs --------------------------
(***************************************************************************)
(* What one call of a model may do, for any number of retries: how many    *)
(* requests it makes, when it asks again, when it gives up, and that it    *)
(* comes to an end.                                                        *)
(***************************************************************************)
EXTENDS ModelCall, TLAPS

-----------------------------------------------------------------------------
(* The inductive invariant.                                                *)

\* What the call has come to by `pc`.  A request is the first one, or follows
\* a transient failure; a call that has returned has no retry left for one, or
\* made no request at all.
Unasked == attempt = 0 /\ last = "none"

Course ==
    /\ pc \in {"prepare", "request", "classify"} => result = "none"
    /\ pc = "prepare" => Unasked
    /\ pc = "request" => Unasked \/ last \in Passing
    /\ pc = "classify" => last # "none"
    /\ pc = "returned" =>
         \/ Unasked /\ result \in {"failed", "raised"}
         \/ /\ last # "none"
            /\ last \in Passing => attempt = Retries
            /\ result = Concluded(last)

IInv == TypeOK /\ Course

LEMMA OutcomesAreKnown == Outcomes \subseteq HttpOutcomes \cup CliOutcomes
  BY DEF Outcomes

LEMMA NoneIsNoOutcome == "none" \notin Outcomes
  BY DEF Outcomes, HttpOutcomes, CliOutcomes

LEMMA TransientIsPassing == \A outcome : IsTransient(outcome) <=> outcome \in Passing
  BY DEF IsTransient, Passing

LEMMA InitIInv == Init => IInv
<1> SUFFICES ASSUME Init PROVE IInv
  OBVIOUS
<1>1. TypeOK
  BY RetriesAssumption DEF Init, TypeOK
<1>2. Course
  BY DEF Init, Course, Unasked
<1> QED
  BY <1>1, <1>2 DEF IInv

LEMMA PrepareKeeps == ASSUME IInv, Prepare PROVE IInv'
<1>1. /\ pc = "prepare" /\ Unasked /\ requests = 0
      /\ UNCHANGED <<mind, attempt, requests, last>>
  BY DEF IInv, TypeOK, Course, Prepare, Unasked
<1>2. \/ pc' = "request" /\ result' = "none"
      \/ pc' = "returned" /\ result' \in {"failed", "raised"}
  BY <1>1 DEF Prepare, Return, IInv, Course
<1>3. TypeOK'
  BY <1>1, <1>2 DEF IInv, TypeOK, Unasked, Minds
<1>4. Course'
  BY <1>1, <1>2 DEF Course, Unasked
<1> QED
  BY <1>3, <1>4 DEF IInv

LEMMA RequestKeeps == ASSUME IInv, Request PROVE IInv'
<1>1. /\ pc = "request" /\ pc' = "classify" /\ requests' = requests + 1
      /\ last' \in Outcomes /\ UNCHANGED <<mind, attempt, result>>
  BY DEF Request
<1>2. requests = attempt /\ result = "none"
  BY <1>1 DEF IInv, TypeOK, Course
<1>3. last' # "none" /\ last' \in HttpOutcomes \cup CliOutcomes
  BY <1>1, OutcomesAreKnown, NoneIsNoOutcome
<1>4. TypeOK'
  BY <1>1, <1>2, <1>3 DEF IInv, TypeOK, Minds
<1>5. Course'
  BY <1>1, <1>2, <1>3 DEF Course
<1> QED
  BY <1>4, <1>5 DEF IInv

LEMMA RetryKeeps == ASSUME IInv, Retry PROVE IInv'
<1>1. /\ pc = "classify" /\ pc' = "request" /\ attempt' = attempt + 1
      /\ attempt < Retries /\ UNCHANGED <<mind, requests, last, result>>
  BY DEF Retry, MayRetry
<1>2. last \in Passing
  BY TransientIsPassing DEF Retry
<1>3. last # "none" /\ requests = attempt + 1 /\ result = "none"
  BY <1>1 DEF IInv, TypeOK, Course
<1>4. TypeOK'
  BY <1>1, <1>3, RetriesAssumption DEF IInv, TypeOK, Minds
<1>5. Course'
  BY <1>1, <1>2, <1>3 DEF Course
<1> QED
  BY <1>4, <1>5 DEF IInv

LEMMA ConcludeKeeps == ASSUME IInv, Conclude PROVE IInv'
<1>1. /\ pc = "classify" /\ pc' = "returned"
      /\ UNCHANGED <<mind, attempt, requests, last>>
      /\ result' = Concluded(last) /\ result' \in {"answered", "failed", "raised"}
  BY DEF Conclude, Return, Concluded
<1>2. last # "none"
  BY <1>1 DEF IInv, Course
<1>3. last \in Passing => attempt = Retries
  BY TransientIsPassing, RetriesAssumption DEF Conclude, MayRetry, IInv, TypeOK
<1>4. TypeOK'
  BY <1>1, <1>2 DEF IInv, TypeOK, Minds
<1>5. Course'
  BY <1>1, <1>2, <1>3 DEF Course, Concluded, Usable
<1> QED
  BY <1>4, <1>5 DEF IInv

LEMMA NextIInv == IInv /\ [Next]_vars => IInv'
<1> SUFFICES ASSUME IInv, [Next]_vars PROVE IInv'
  OBVIOUS
<1>1. CASE Returned \/ UNCHANGED vars
  BY <1>1 DEF Returned, vars, IInv, TypeOK, Minds, Course, Unasked, Concluded, Usable
<1> QED
  BY <1>1, PrepareKeeps, RequestKeeps, RetryKeeps, ConcludeKeeps DEF Next

\* The invariant holds in every reachable state of a call.
THEOREM Inductive == Spec => []IInv
  BY InitIInv, NextIInv, PTL DEF Spec

-----------------------------------------------------------------------------
(* What follows from it.                                                   *)

\* A call's state has its types, and `attempt` counts the requests after the
\* first (call_model), however many retries it is allowed.
THEOREM TypeCorrect == Spec => []TypeOK
<1>1. IInv => TypeOK
  BY DEF IInv
<1> QED
  BY <1>1, Inductive, PTL

\* A transient failure is passed on only when all the retries are spent.
THEOREM NoEarlySurrender == Spec => []GivesUpOnlyWhenSpent
<1>1. IInv => GivesUpOnlyWhenSpent
  <2> SUFFICES ASSUME IInv, result = "failed", last \in Passing
               PROVE  requests = Retries + 1
    BY DEF GivesUpOnlyWhenSpent
  <2>1. last # "none"
    BY DEF Passing
  <2>2. pc = "returned"
    BY DEF IInv, TypeOK, Course
  <2>3. attempt = Retries /\ requests = attempt + 1
    BY <2>1, <2>2 DEF IInv, TypeOK, Course, Unasked
  <2> QED
    BY <2>3
<1> QED
  BY <1>1, Inductive, PTL

\* An answer or a definitive failure is never asked for again: a request is the
\* first of the call or follows a transient failure.
THEOREM NothingPaidForTwice == Spec => NeverAsksAgainForNothing
<1>1. IInv /\ [Next]_vars =>
        [requests' > requests => last \in {"none"} \cup Passing]_vars
  <2> SUFFICES ASSUME IInv, Next, requests' > requests
               PROVE  last \in {"none"} \cup Passing
    OBVIOUS
  <2>1. requests \in Nat
    BY RetriesAssumption DEF IInv, TypeOK
  <2>2. Request
    BY <2>1 DEF Next, Prepare, Retry, Conclude, Returned, vars
  <2> QED
    BY <2>2 DEF Request, IInv, Course, Unasked
<1> QED
  BY <1>1, Inductive, PTL DEF Spec, NeverAsksAgainForNothing

-----------------------------------------------------------------------------
(* A call comes to an end.                                                 *)

\* The steps a call can still take: two for each retry that is left.
StepsOf(place) == CASE place = "prepare"  -> 3
                    [] place = "request"  -> 2
                    [] place = "classify" -> 1
                    [] place = "returned" -> 0

Remaining == 2 * (Retries - attempt) + StepsOf(pc)

\* call_model counts its retries down: whatever the provider does, every step of
\* a call brings it nearer to its end, of which it starts 2 * Retries + 3 steps
\* away.  That is what a fan-out relies on when it waits for its calls.
THEOREM EveryCallIsBounded ==
    Spec => /\ [](Remaining \in 0 .. 2 * Retries + 3)
            /\ [][Remaining' < Remaining]_vars
<1>1. IInv => Remaining \in 0 .. 2 * Retries + 3
  BY RetriesAssumption DEF IInv, TypeOK, Remaining, StepsOf
<1>2. IInv /\ [Next]_vars => [Remaining' < Remaining]_vars
  <2> SUFFICES ASSUME IInv, Next, vars' # vars
               PROVE  Remaining' < Remaining
    OBVIOUS
  <2>1. attempt \in Int /\ Retries \in Int
    BY RetriesAssumption DEF IInv, TypeOK
  <2>2. CASE Prepare
    BY <2>1, <2>2 DEF Prepare, Return, Remaining, StepsOf
  <2>3. CASE Request
    BY <2>1, <2>3 DEF Request, Remaining, StepsOf
  <2>4. CASE Retry
    BY <2>1, <2>4 DEF Retry, Remaining, StepsOf
  <2>5. CASE Conclude
    BY <2>1, <2>5 DEF Conclude, Return, Remaining, StepsOf
  <2> QED
    BY <2>2, <2>3, <2>4, <2>5 DEF Next, Returned
<1> QED
  BY <1>1, <1>2, Inductive, PTL DEF Spec
=============================================================================

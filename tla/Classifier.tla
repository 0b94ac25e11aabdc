----------------------------- MODULE Classifier -----------------------------
(***************************************************************************)
(* The task classifier (council/classifier.py): complexity scoring, model  *)
(* selection and the decision the run loop takes after every attempt.      *)
(*                                                                         *)
(* A task carries only the signals these functions read.  Selections are   *)
(* sets: the models max() may return.  The empty set is the                *)
(* NoEligibleModelError of the code.                                       *)
(***************************************************************************)
EXTENDS Registry

TaskType == [files    : Nat,      \* files_touched
             lines    : Nat,      \* lines_changed
             cross    : BOOLEAN,  \* cross_file_dependencies
             retry    : BOOLEAN,  \* is_retry
             security : BOOLEAN]  \* a security keyword in the description

AtMost(n, cap) == IF n < cap THEN n ELSE cap

Signal(present, weight) == IF present THEN weight ELSE 0

ComplexityScore(task) ==
      AtMost(task.files, 10) * 2
    + AtMost(task.lines \div 20, 10)
    + Signal(task.cross, 15)
    + Signal(task.retry, 20)
    + Signal(task.security, 25)

ClassifyComplexity(task) ==
    LET score == ComplexityScore(task) IN
    IF score < 20 THEN "simple" ELSE IF score < 50 THEN "moderate" ELSE "complex"

RequiredCapabilities(task) ==
    {"code_generation"}
        \cup (IF task.cross THEN {"cross_file_architecture"} ELSE {})
        \cup (IF task.security THEN {"security_audit"} ELSE {})

\* max(candidates, key=_score_key): no candidate has a better (quality, -cost)
\* key, and none listed before it has the same one.
\* A defect to be caught: the cheapest model first, whatever its score.
BeatsByCost(a, b) == \/ a.cost < b.cost
                     \/ a.cost = b.cost /\ a.quality > b.quality

Beats(a, b) == \/ a.quality > b.quality
               \/ a.quality = b.quality /\ a.cost < b.cost

OutrankedBy(reg, m, n) == \/ Beats(reg[n], reg[m])
                          \/ n < m /\ ~Beats(reg[m], reg[n])

Best(reg, candidates) ==
    {m \in candidates : \A n \in candidates : ~OutrankedBy(reg, m, n)}

SelectModel(reg, caps, tier) ==
    Best(reg, Available(reg, EligibleFor(reg, caps, tier)))

\* A defect to be caught: no model is returned where none is eligible.
SelectInitialModelOrNone(reg, task) ==
    LET found == SelectModel(reg, RequiredCapabilities(task), AnyTier)
    IN  IF found = {} THEN {NoModel} ELSE found

SelectInitialModel(reg, task) ==
    LET caps == RequiredCapabilities(task)
        free == SelectModel(reg, caps, "free")
    IN  IF ClassifyComplexity(task) = "complex" THEN SelectModel(reg, caps, "paid")
        ELSE IF free # {} THEN free
        ELSE SelectModel(reg, caps, AnyTier)

Tried(attempts) == {attempts[i].model : i \in DOMAIN attempts}

IsFree(reg, m) == reg[m].tier = "free"

\* Defects to be caught: the failed model is offered again, or none is.
RetryPoolForgetful(reg, task, attempts) ==
    Available(reg, EligibleFor(reg, RequiredCapabilities(task), "free"))
RetryPoolEmpty(reg, task, attempts) == {}

\* The free models a task may fall back on after its first free failure.
RetryPool(reg, task, attempts) ==
    Available(reg, EligibleFor(reg, RequiredCapabilities(task), "free"))
        \ Tried(attempts)

Last(seq) == seq[Len(seq)]

\* Defects to be caught: hybrid models are not tallied as paid attempts, or
\* two failures of any kind are.
StrongTriedPaidOnly(reg, attempts) ==
    \E m \in Tried(attempts) : reg[m].tier = "paid"
StrongTriedByCount(reg, attempts) == Len(attempts) >= 2

\* paid_attempts is not empty: everything but the free tier is tallied there.
StrongTried(reg, attempts) == \E m \in Tried(attempts) : ~IsFree(reg, m)

OneFreeFailure(attempts) == Len(attempts) = 1

Verdict(state) == {[state |-> state, model |-> NoModel]}
TryNext(state, models) == {[state |-> state, model |-> m] : m \in models}

\* Where a task goes after a failure on the merits.  Once no paid attempt is
\* on record, every attempt was free.
AfterFailure(task, reg, attempts) ==
    LET pool == RetryPool(reg, task, attempts) IN
    IF StrongTried(reg, attempts) THEN Verdict("HUMAN_REVIEW")
    ELSE IF OneFreeFailure(attempts) /\ pool # {}
      THEN TryNext("RUNNING", Best(reg, pool))
    ELSE TryNext("ESCALATED", SelectModel(reg, RequiredCapabilities(task), "paid"))

\* decide_next after at least one attempt: the steps it may return, none when
\* it raises NoEligibleModelError.
DecideNext(task, reg, attempts) ==
    IF Last(attempts).verifyError THEN Verdict("VERIFY_ERROR")
    ELSE IF Last(attempts).passed THEN Verdict("DONE")
    ELSE AfterFailure(task, reg, attempts)
=============================================================================

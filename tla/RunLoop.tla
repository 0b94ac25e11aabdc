------------------------------ MODULE RunLoop ------------------------------
(***************************************************************************)
(* `council run` (council/cli.py, _cmd_run): pick a model, check the tree  *)
(* as it is, then try models one at a time, each diff verified in a copy   *)
(* of the project, until the classifier reaches a terminal state.          *)
(*                                                                         *)
(* The process is sequential; what varies is what every call it makes may  *)
(* come back with.  Content is abstracted to provenance: a patch is the    *)
(* number of the attempt that produced it, and Original is the tree the    *)
(* run started from.                                                       *)
(***************************************************************************)
EXTENDS Classifier

CONSTANTS Registries,       \* the registries a run may be started with
          Tasks,            \* the ingested tasks
          Projects,         \* how the project directory is laid out
          Agents,           \* the models whose backend is opencode
          MaxLoopAttempts   \* MAX_LOOP_ATTEMPTS

ProjectType == [nested   : BOOLEAN,  \* a subdirectory of a git work tree
                outside  : BOOLEAN]  \* working_dir leads out of a copy: absolute or ".."

ASSUME RegistriesAssumption == Registries \subseteq RegistryType
ASSUME TasksAssumption == Tasks \subseteq TaskType
ASSUME ProjectsAssumption == Projects \subseteq ProjectType
ASSUME AgentsAssumption == Agents \subseteq Nat
ASSUME MaxLoopAttemptsAssumption == MaxLoopAttempts \in Nat /\ MaxLoopAttempts >= 4

VARIABLES
    registry, task, project, apply,  \* what the run was started with
    pc,        \* "select", "asis", "attempt", "decide" or "exited"
    current,   \* current_model
    attempts,  \* what decide_next is shown
    diffs,     \* (model, patch) of every attempt that produced a diff
    asIs,      \* the report on the unmodified tree
    report,    \* vreport of the last attempt, NoReport if it has none
    verified,  \* what passed the verifier: a patch, on the project as it was
    touched,   \* the attempts whose agent wrote in the project, 0 for the verifier
    final,     \* the patch in runs/<id>/final.diff, NoPatch if unwritten
    tree,      \* the patch --apply left in the working tree
    reviews,   \* the record in reviews/<id>/, if any
    outcome,   \* how the run ended
    exit       \* the exit code

inputs == <<registry, task, project, apply>>
progress == <<current, attempts, diffs, asIs, report, verified>>
results == <<final, tree, reviews>>
vars == <<inputs, pc, progress, touched, results, outcome, exit>>

NoPatch == 0
Original == 0
Partial == -1   \* git apply was killed while it wrote
NoReport == "none"
Running == "running"

Reports == {"pass", "fail", "error"}
Passes(rep) == rep = "pass"
IsVerifyError(rep) == rep = "error"

\* A defect to be caught: the attempt forgets that the verifier could not run.
AttemptOnMerit(m, rep) == [model |-> m, passed |-> Passes(rep), verifyError |-> FALSE]

Attempt(m, rep) == [model |-> m, passed |-> Passes(rep), verifyError |-> IsVerifyError(rep)]
ReachedVerifier(rep) == rep # NoReport

Init == /\ registry \in Registries
        /\ task \in Tasks
        /\ project \in Projects
        /\ apply \in BOOLEAN
        /\ pc = "select"
        /\ current = NoModel
        /\ attempts = <<>>
        /\ diffs = <<>>
        /\ asIs = NoReport
        /\ report = NoReport
        /\ verified = {}
        /\ touched = {}
        /\ final = NoPatch
        /\ tree = Original
        /\ reviews = {}
        /\ outcome = Running
        /\ exit = 0

Exit(code, how) == pc' = "exited" /\ exit' = code /\ outcome' = how
GoOn(next) == pc' = next /\ UNCHANGED <<exit, outcome>>

-----------------------------------------------------------------------------
(* Before any model is called.                                             *)

SelectFirstModel ==
    /\ pc = "select"
    /\ current' \in SelectInitialModel(registry, task)
    /\ GoOn("asis")
    /\ UNCHANGED <<inputs, attempts, diffs, asIs, report, verified, touched, results>>

RefuseTask ==
    /\ pc = "select"
    /\ SelectInitialModel(registry, task) = {}
    /\ Exit(2, "NO_MODEL")
    /\ UNCHANGED <<inputs, progress, touched, results>>

\* Who may write in the project directory: the verifier's own commands, when
\* they run in it, and an agent, which is given it as its working directory.
Verifier == 0
MayTouch(writers) == \E w \in SUBSET writers : touched' = touched \cup w

AsIsVerify(rep) ==
    /\ pc = "asis"
    /\ asIs' = rep
    /\ MayTouch({Verifier})
    /\ IF Passes(rep) THEN Exit(0, "DONE") ELSE GoOn("attempt")
    /\ UNCHANGED <<inputs, current, attempts, diffs, report, verified, results>>

-----------------------------------------------------------------------------
(* One model attempt (_run_model_attempt and the bookkeeping after it).    *)

Patch == Len(attempts) + 1
Session == IF current \in Agents THEN {Patch} ELSE {}

Record(rep) ==
    /\ pc = "attempt"
    /\ attempts' = Append(attempts, Attempt(current, rep))
    /\ report' = rep
    /\ GoOn("decide")
    /\ UNCHANGED <<inputs, current, asIs, results>>

\* The call failed, or the model chatted instead of diffing.
AttemptWithoutDiff ==
    /\ Record(NoReport)
    /\ MayTouch(Session)
    /\ UNCHANGED <<diffs, verified>>

\* A defect to be caught: only the first diff is kept.
KeepFirstDiff == diffs' = IF diffs = <<>> THEN <<[model |-> current, patch |-> Patch]>> ELSE diffs

KeepDiff == diffs' = Append(diffs, [model |-> current, patch |-> Patch])

\* git apply rejected the diff in the copy.
AttemptRejected ==
    /\ Record(NoReport)
    /\ KeepDiff
    /\ MayTouch(Session)
    /\ UNCHANGED verified

\* The copy is made after the session, of what it left.  `tmpdir / working_dir`
\* is the copy unless it leads out of it, to a directory without the patch.
Judged(rep) ==
    IF Passes(rep) /\ ~project.outside THEN {[patch |-> Patch, on |-> touched']} ELSE {}

AttemptVerified(rep) ==
    /\ Record(rep)
    /\ KeepDiff
    /\ MayTouch(Session \cup IF project.outside THEN {Verifier} ELSE {})
    /\ verified' = verified \cup Judged(rep)

-----------------------------------------------------------------------------
(* What the loop does with the classifier's answer.                        *)

Steps == DecideNext(task, registry, attempts)

\* `--apply` in a subdirectory of a git work tree: git apply skips the files
\* of a git-format diff and still exits 0.
Applied == IF project.nested THEN {final', tree} ELSE {final'}

\* A defect to be caught: the first diff is delivered instead of the last.
FinalPatchFirst == Head(diffs).patch

FinalPatch == Last(diffs).patch

Finish ==
    /\ pc = "decide"
    /\ Steps = Verdict("DONE")
    /\ final' = FinalPatch
    /\ \/ apply /\ tree' \in Applied /\ Exit(0, "DONE")
       \/ apply /\ UNCHANGED tree /\ Exit(1, "DONE")
       \/ ~apply /\ UNCHANGED tree /\ Exit(0, "DONE")
    /\ UNCHANGED <<inputs, progress, touched, reviews>>

\* The report a review record shows: the last attempt's, else the as-is one.
Attached == IF report # NoReport THEN report ELSE asIs

\* summary.md, then the logs, then one attempt-N.diff after the other.  An
\* OSError is swallowed: it leaves no summary, or the first so many files, the
\* next one cut short or missing.
WriteReview(model, state, environmentError) ==
    \/ UNCHANGED reviews
    \/ \E n \in 0 .. Len(diffs) :
         reviews' = {[model            |-> model,
                      state            |-> state,
                      environmentError |-> environmentError,
                      steps            |-> Attached,
                      listed           |-> diffs,
                      kept             |-> SubSeq(diffs, 1, n)]}

HandOff(state, code, environmentError) ==
    /\ WriteReview(current, state, environmentError)
    /\ Exit(code, state)
    /\ UNCHANGED <<inputs, progress, touched, final, tree>>

VerifierUnable ==
    /\ pc = "decide"
    /\ Steps = Verdict("VERIFY_ERROR")
    /\ HandOff("VERIFY_ERROR", 3, TRUE)

GiveUp ==
    /\ pc = "decide"
    /\ Steps = Verdict("HUMAN_REVIEW")
    /\ HandOff("HUMAN_REVIEW", 4, FALSE)

NobodyToEscalateTo ==
    /\ pc = "decide"
    /\ Steps = {}
    /\ HandOff("HUMAN_REVIEW", 4, FALSE)

\* The loop's own bound is a safety net; a review record ends the run there.
Proceed ==
    /\ pc = "decide"
    /\ \E step \in Steps :
         /\ step.state \in {"RUNNING", "ESCALATED"}
         /\ current' = step.model
    /\ IF Len(attempts) < MaxLoopAttempts
         THEN GoOn("attempt") /\ UNCHANGED reviews
         ELSE Exit(4, "HUMAN_REVIEW") /\ WriteReview(current', "HUMAN_REVIEW", FALSE)
    /\ UNCHANGED <<inputs, attempts, diffs, asIs, report, verified, touched, final, tree>>

-----------------------------------------------------------------------------
(* Exceptions nothing catches: the verifier's output is not UTF-8, a       *)
(* payload is not JSON, git apply overruns its 30 s, final.diff cannot be  *)
(* written.  Python exits with 1 and no record is kept.                    *)

RaiseBeforeDecision ==
    /\ \/ pc = "asis" /\ MayTouch({Verifier})
       \/ pc = "attempt" /\ MayTouch(Session \cup IF project.outside THEN {Verifier} ELSE {})
    /\ Exit(1, "ABORTED")
    /\ UNCHANGED <<inputs, progress, results>>

RaiseWhileFinishing ==
    /\ pc = "decide"
    /\ Steps = Verdict("DONE")
    /\ \/ final' \in {NoPatch, FinalPatch} /\ UNCHANGED tree
       \/ apply /\ final' = FinalPatch /\ tree' \in {FinalPatch, Partial}
    /\ Exit(1, "ABORTED")
    /\ UNCHANGED <<inputs, progress, touched, reviews>>

Done == pc = "exited" /\ UNCHANGED vars

Next == \/ SelectFirstModel
        \/ RefuseTask
        \/ \E rep \in Reports : AsIsVerify(rep) \/ AttemptVerified(rep)
        \/ AttemptWithoutDiff
        \/ AttemptRejected
        \/ Finish
        \/ VerifierUnable
        \/ GiveUp
        \/ NobodyToEscalateTo
        \/ Proceed
        \/ RaiseBeforeDecision
        \/ RaiseWhileFinishing
        \/ Done

Spec == Init /\ [][Next]_vars

-----------------------------------------------------------------------------
(* Properties.                                                             *)

Complex == ClassifyComplexity(task) = "complex"
Qualified(tier) ==
    Available(registry, EligibleFor(registry, RequiredCapabilities(task), tier))
TriedBefore(i) == {attempts[k].model : k \in 1 .. i - 1}
Free(i) == IsFree(registry, attempts[i].model)
FreeFailures == {i \in DOMAIN attempts : Free(i)}

AttemptType == [model : Nat, passed : BOOLEAN, verifyError : BOOLEAN]
DiffType == [model : Nat, patch : Nat]
ReviewType == [model            : Nat,
               state            : {"HUMAN_REVIEW", "VERIFY_ERROR"},
               environmentError : BOOLEAN,
               steps            : Reports \cup {NoReport},
               listed           : Seq(DiffType),
               kept             : Seq(DiffType)]
Outcomes == {Running, "DONE", "VERIFY_ERROR", "HUMAN_REVIEW", "NO_MODEL", "ABORTED"}

\* Types of all the state of a run (the locals of _cmd_run and its files); from
\* the selection on there is a model to ask.
TypeOK ==
    /\ registry \in Registries /\ task \in Tasks /\ project \in Projects
    /\ apply \in BOOLEAN
    /\ pc \in {"select", "asis", "attempt", "decide", "exited"}
    /\ current \in {NoModel} \cup Models(registry)
    /\ pc \in {"asis", "attempt", "decide"} => current \in Models(registry)
    /\ attempts \in Seq(AttemptType)
    /\ diffs \in Seq(DiffType)
    /\ asIs \in Reports \cup {NoReport}
    /\ report \in Reports \cup {NoReport}
    /\ verified \subseteq [patch : Nat, on : SUBSET Nat]
    /\ touched \subseteq Nat
    /\ final \in Nat
    /\ tree \in Nat \cup {Partial}
    /\ \A record \in reviews : record \in ReviewType
    /\ outcome \in Outcomes
    /\ exit \in 0 .. 4

\* The classifier ends the loop after three attempts at most, so the bound of
\* six is never what stops it (the comment at cli.py:48-50).  That the run
\* follows the escalation machine implies it; it is proved, not run by itself.
AtMostThreeAttempts == Len(attempts) <= 3

\* No model gets a second attempt at the same task: decide_next offers only
\* untried free models, and every paid attempt is the last one.
NoModelTwice ==
    \A i, j \in DOMAIN attempts : i # j => attempts[i].model # attempts[j].model

\* "Never loop a paid model": once a model of a stronger tier has been asked,
\* paid or hybrid, nothing is asked after it.
StrongIsLast ==
    \A i \in DOMAIN attempts : ~Free(i) => i = Len(attempts)

\* Free first: a stronger tier is asked only for a complex task, after two free
\* failures, or once every qualified free model has failed.
FreeFirst ==
    \A i \in DOMAIN attempts :
        ~Free(i) => Complex \/ i = 3 \/ Qualified("free") \subseteq TriedBefore(i)

\* No model is asked that lacks a required capability, is distrusted for one or
\* has no key, on any of the paths that lead to it (first choice, fallback to
\* the open pool, free retry, escalation), and none that a qualified untried
\* model of its own tier has a higher quality score than.
BestQualifiedAsked ==
    \A i \in DOMAIN attempts :
        LET m == registry[attempts[i].model] IN
        /\ RequiredCapabilities(task) \subseteq m.caps \ m.distrust
        /\ m.auth # "missing"
        /\ \A n \in Qualified(m.tier) \ TriedBefore(i) : registry[n].quality <= m.quality

\* The part of it about patches: the one delivered and the one applied.
DeliveredAsVerified ==
    /\ final # NoPatch /\ ~project.outside => [patch |-> final, on |-> touched] \in verified
    /\ tree # Original => /\ apply
                          /\ tree \in {final, Partial}
                          /\ project.outside \/ \E v \in verified : v.patch = final
                          /\ exit \in {0, 1}

\* The part of it about everything else that writes in the project.
OnlyAgentsTouch ==
    \A i \in touched \ {Verifier} :
        (IF i \in DOMAIN attempts THEN attempts[i].model ELSE current) \in Agents

\* "Nothing gets auto-applied", and nothing unverified is delivered: final.diff
\* is a patch that passed the verifier in a copy of the project exactly as the
\* project now is (whatever agents and verifiers wrote in it before), not one of
\* the diffs that failed earlier.  The run itself changes the working tree only
\* under --apply, by that patch, and by none when it ends in a handoff; anything
\* else that changed there, a verifier's command or an opencode session wrote.
NothingAutoApplied == DeliveredAsVerified /\ OnlyAgentsTouch

\* The exit code says what the evidence says: 0 only after a passing verifier,
\* 3 exactly when the last attempt could not be judged, 4 only when attempts
\* were made and each one failed on its merits.
ExitMatchesEvidence ==
    pc = "exited" /\ outcome # "ABORTED" =>
        /\ exit = 0 => Passes(asIs) \/ Passes(report)
        /\ exit = 3 <=> IsVerifyError(report)
        /\ exit = 4 => /\ attempts # <<>>
                       /\ report \in {NoReport, "fail"}
                       /\ \A i \in DOMAIN attempts : ~attempts[i].passed

\* "Preserves every attempted diff alongside the summary": a review record is
\* left by a handoff alone, lists every diff made until then with the one just
\* judged in its place, and says environment_error exactly when the run exits
\* with 3.  The diffs on disk are the first of those listed, each under the number
\* it is listed with: what a swallowed OSError costs is the end of the list, which
\* the summary still names.
ReviewKeepsTheEvidence ==
    \A record \in reviews :
        /\ exit = IF record.environmentError THEN 3 ELSE 4
        /\ record.state = outcome
        /\ record.listed = diffs
        /\ \E n \in 0 .. Len(diffs) : record.kept = SubSeq(record.listed, 1, n)
        /\ ReachedVerifier(report) =>
             /\ record.listed # <<>>
             /\ Last(record.listed) = [model |-> Last(attempts).model,
                                       patch |-> Len(attempts)]

\* A task is handed to a human only once the chain is exhausted: a stronger
\* tier was asked, or no paid model qualifies and either two free models or
\* all of them have failed.
ChainExhausted ==
    outcome = "HUMAN_REVIEW" =>
        \/ \E i \in DOMAIN attempts : ~Free(i)
        \/ /\ Qualified("paid") = {}
           /\ Len(attempts) = 2 \/ Qualified("free") \subseteq Tried(attempts)

-----------------------------------------------------------------------------
(* The run implements the escalation state machine.                        *)

\* Attempts the classifier has charged: all but the one it has yet to judge
\* and the one that ended the run by passing or by a verifier error.
ChargedCount ==
    IF attempts = <<>> THEN 0
    ELSE IF pc = "decide" \/ Last(attempts).passed \/ Last(attempts).verifyError
      THEN Len(attempts) - 1
    ELSE Len(attempts)

Strength(i) == IF Free(i) THEN "free" ELSE "strong"

EscalationState ==
    IF outcome # Running THEN outcome
    ELSE IF pc \in {"select", "asis"} THEN "NEW"
    ELSE IF IsFree(registry, current) THEN "RUNNING" ELSE "ESCALATED"

Charged == [i \in 1 .. ChargedCount |-> Strength(i)]

Machine == INSTANCE Escalation WITH state <- EscalationState, charged <- Charged

\* The run follows the documented state machine, whatever the registry: free
\* failures are charged at most twice and stronger ones once, a verifier error
\* and a pass are charged to nobody, and terminal states are final.
FollowsEscalation == Machine!Spec

-----------------------------------------------------------------------------
(* What the program says and does not keep.                                *)

\* "council: applied to your working tree (--apply)": a run that was asked to
\* apply, delivered a patch and exits 0 has changed the tree.
AppliedMeansApplied ==
    apply /\ final # NoPatch /\ exit = 0 => tree = final
=============================================================================

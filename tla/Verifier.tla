------------------------------ MODULE Verifier ------------------------------
(***************************************************************************)
(* The verifier (council/verifier.py): runs the configured steps in order, *)
(* stops at the first required failure, and tells a failure on the merits  *)
(* from a step that could not be run.                                      *)
(*                                                                         *)
(* A command is what the verifier can see of it.  `resolves` is what       *)
(* shutil.which says of its first word; `direct` is a command that is one  *)
(* program, named by its first word.  "PYTHONPATH=src pytest", "cd sub &&  *)
(* pytest" and "./check.sh" in a working_dir of its own are not direct:    *)
(* the lookup is made for a word, or in a directory, the shell does not    *)
(* take the program from.                                                  *)
(***************************************************************************)
EXTENDS Integers, Sequences

CONSTANTS Configs,      \* the `verify` lists the verifier may be given
          ExitCodes     \* the exit codes a step may end with

Command == [resolves : BOOLEAN, direct : BOOLEAN]
VerifyStep == [run : Command, required : BOOLEAN]

\* load_config refuses an empty list.
ConfigType == Seq(VerifyStep) \ {<<>>}

ASSUME ConfigsAssumption == Configs \subseteq ConfigType
ASSUME ExitCodesAssumption == ExitCodes \subseteq Int

VARIABLES
    config,       \* config.verify
    shell,        \* what shell=True runs: "posix" or "cmd"
    pc,           \* "running", "done" or "raised"
    results,      \* the StepResults so far
    verifyError,  \* verify_error
    report,       \* the set of the VerifyReport returned, empty until then
    ended         \* how each step really ended: what the results are about

vars == <<config, shell, pc, results, verifyError, report, ended>>

\* How a step may end: with the exit code of a program that ran, negative for a
\* signal; with the shell's code for a program it did not find; killed after its
\* timeout; or with no process at all (an OSError).
Hows == {"ran", "notFound", "timedOut", "unlaunched"}
Outcome == [how : Hows, code : Int]
NoCode == 1

\* What a POSIX shell exits with when it cannot execute or find a program; cmd.exe
\* exits with 1, as a failing test does.
ShellCodes == {126, 127}
NotFoundCodes == IF shell = "posix" THEN ShellCodes ELSE {1}

Ending(how, codes) == {[how |-> how, code |-> code] : code \in codes}

\* Of a direct command the verifier's lookup finds what the shell finds.
Outcomes(command) ==
    Ending("timedOut", {NoCode}) \cup Ending("unlaunched", {NoCode})
        \cup (IF command.direct /\ ~command.resolves THEN {} ELSE Ending("ran", ExitCodes))
        \cup (IF command.direct /\ command.resolves THEN {} ELSE Ending("notFound", NotFoundCodes))

\* proc.returncode is there once the process has ended.
Exited(outcome) == outcome.how \in {"ran", "notFound"}
Passed(outcome) == Exited(outcome) /\ outcome.code = 0

\* A defect to be caught: the exit code alone is trusted, with no lookup.
CouldNotRunByCode(command, outcome) == ~Exited(outcome) \/ outcome.code \in ShellCodes

\* The three ways a step is found not to have run: result.error is set.
CouldNotRun(command, outcome) ==
    \/ ~Exited(outcome)
    \/ outcome.code \in ShellCodes
    \/ outcome.code # 0 /\ ~command.resolves

StepResult(step, outcome) ==
    [passed   |-> Passed(outcome),
     required |-> step.required,
     error    |-> CouldNotRun(step.run, outcome)]

\* Defects to be caught: the loop stops at any failure, or at none.
StopsAtAny(result) == ~result.passed
StopsAtNone(result) == FALSE

Stops(result) == ~result.passed /\ result.required

\* A defect to be caught: optional steps count towards the overall pass.
OverallPassOfAll(res) == \A i \in DOMAIN res : res[i].passed

OverallPass(res) == \A i \in DOMAIN res : res[i].required => res[i].passed

VerifyReport(res, error) == [overallPass |-> OverallPass(res), verifyError |-> error]

Init == /\ config \in Configs
        /\ shell \in {"posix", "cmd"}
        /\ pc = "running"
        /\ results = <<>>
        /\ verifyError = FALSE
        /\ report = {}
        /\ ended = <<>>

\* A defect to be caught: an optional step that cannot run is an environment
\* error too.
FlagsAny(result) == result.error

\* Only a required step that could not run makes the verdict an error.
Flags(result) == result.error /\ result.required

\* A defect to be caught: a path that falls off the end, returning None.
ReturnNothing(reports) == pc' = "done" /\ UNCHANGED report

Return(reports) == pc' = "done" /\ report' = reports

\* One round of the loop; the last one returns.
RunStep(outcome) ==
    LET step == config[Len(results) + 1]
        result == StepResult(step, outcome)
    IN  /\ pc = "running"
        /\ outcome \in Outcomes(step.run)
        /\ results' = Append(results, result)
        /\ ended' = Append(ended, outcome)
        /\ verifyError' = (verifyError \/ Flags(result))
        /\ IF Stops(result) \/ Len(results') = Len(config)
             THEN Return({VerifyReport(results', verifyError')})
             ELSE UNCHANGED <<pc, report>>
        /\ UNCHANGED <<config, shell>>

\* subprocess.run decodes the output: bytes that are not text raise, and
\* nothing in the verifier or its callers catches it.
RaiseDecoding ==
    /\ pc = "running"
    /\ pc' = "raised"
    /\ UNCHANGED <<config, shell, results, verifyError, report, ended>>

Ended == pc # "running" /\ UNCHANGED vars

Next == \/ \E how \in Hows, code \in ExitCodes \cup ShellCodes \cup {NoCode} :
             RunStep([how |-> how, code |-> code])
        \/ RaiseDecoding
        \/ Ended

Spec == Init /\ [][Next]_vars

-----------------------------------------------------------------------------
(* Properties.                                                             *)

ResultType == [passed : BOOLEAN, required : BOOLEAN, error : BOOLEAN]
ReportType == [overallPass : BOOLEAN, verifyError : BOOLEAN]

\* Types of the verifier's state; it has returned exactly one report when it is
\* done and none before, or when it raised.
TypeOK ==
    /\ config \in Configs
    /\ shell \in {"posix", "cmd"}
    /\ pc \in {"running", "done", "raised"}
    /\ results \in Seq(ResultType)
    /\ verifyError \in BOOLEAN
    /\ report \subseteq ReportType
    /\ pc = "done" <=> report # {}
    /\ \A r, q \in report : r = q
    /\ ended \in Seq(Outcome)

\* Which required steps of the configuration did not end well.
RequiredFailures == {i \in DOMAIN ended : config[i].required /\ ~Passed(ended[i])}

\* "Stopping at the first required failure": no step is run after one, and an
\* optional step that fails or cannot run stops nothing.
StopsAtFirstRequiredFailure ==
    /\ \A i \in RequiredFailures : i = Len(ended)
    /\ pc = "done" /\ RequiredFailures = {} => Len(ended) = Len(config)

\* The verdict is about the required steps alone: it is a pass exactly when
\* every one of them was run and exited 0, whatever the optional ones did.
PassMeansEveryRequiredStep ==
    \A r \in report :
        r.overallPass <=>
            \A i \in DOMAIN config :
                config[i].required => i \in DOMAIN ended /\ Passed(ended[i])

\* A verdict is one of three: callers read overall_pass and verify_error as
\* independent flags, so they are never both set; an error is one of the step
\* that ended the run, and a required one.
ErrorIsOfTheFailingStep ==
    \A r \in report :
        r.verifyError <=> \E i \in RequiredFailures : results[i].error

\* A step that could not run is never counted against the model: when a required
\* one overran its timeout, never started, or its program was not found, its
\* failure is reported as an environment error.  Of a command that is more than
\* one program this is so only where the shell has codes of its own for it.
NeverChargedUnrun ==
    \A r \in report :
        (\E i \in RequiredFailures :
            \/ ended[i].how \in {"timedOut", "unlaunched"}
            \/ ended[i].how = "notFound" /\ (config[i].run.direct \/ shell = "posix"))
          => r.verifyError /\ ~r.overallPass

-----------------------------------------------------------------------------
(* A statement of the documentation the code does not keep.                *)

\* "Distinguishes a real failing step (command ran, exited nonzero) from a
\* step that couldn't run at all": a command that ran and exited nonzero, with
\* no code of the shell's own, is a failing step and not an error.
RealFailureIsNotAnError ==
    \A r \in report :
        (\A i \in RequiredFailures : ended[i].how = "ran" /\ ended[i].code \notin ShellCodes)
          => ~r.verifyError
=============================================================================

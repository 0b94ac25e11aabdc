--------------------------- MODULE VerifierProofs ---------------------------
(***************************************************************************)
(* What the verifier promises, for every list of steps and every way they  *)
(* may end.                                                                *)
(***************************************************************************)
EXTENDS Verifier, TLAPS, SequenceTheorems

\* The results are those of the first steps of the list, in its order.
ResultsFollowConfig ==
    /\ Len(results) = Len(ended)
    /\ Len(results) <= Len(config)
    /\ \A i \in DOMAIN ended : results[i] = StepResult(config[i], ended[i])

\* Only the last step run can have stopped the loop, and only once it is over.
OnlyTheLastStops ==
    \A i \in DOMAIN ended : Stops(results[i]) => i = Len(ended) /\ pc = "done"

\* The flag is raised by a step that stops the loop.
ErrorOfAStop ==
    verifyError <=> \E i \in DOMAIN ended : Flags(results[i])

\* The loop ends with every step run or at a stop, and a round is left till then.
Complete ==
    /\ pc = "running" => Len(ended) < Len(config)
    /\ pc = "done" => \/ Len(ended) = Len(config)
                      \/ \E i \in DOMAIN ended : Stops(results[i])
    /\ \A r \in report : r = VerifyReport(results, verifyError)

IInv == TypeOK /\ ResultsFollowConfig /\ OnlyTheLastStops /\ ErrorOfAStop /\ Complete

LEMMA ConfigShape ==
    ASSUME config \in Configs
    PROVE  /\ config \in Seq(VerifyStep) /\ Len(config) \in Nat /\ Len(config) > 0
           /\ \A i \in 1 .. Len(config) :
                config[i] \in VerifyStep /\ config[i].required \in BOOLEAN
<1>1. config \in Seq(VerifyStep) /\ config # <<>>
  BY ConfigsAssumption DEF ConfigType
<1>2. Len(config) \in Nat /\ Len(config) > 0
  BY <1>1, EmptySeq
<1>3. \A i \in 1 .. Len(config) : config[i] \in VerifyStep
  BY <1>1
<1> QED
  BY <1>1, <1>2, <1>3 DEF VerifyStep

\* A result, field by field.
LEMMA ResultOf ==
    ASSUME NEW step, NEW outcome
    PROVE  /\ StepResult(step, outcome).required = step.required
           /\ StepResult(step, outcome).passed <=> Passed(outcome)
           /\ StepResult(step, outcome).error <=> CouldNotRun(step.run, outcome)
  BY DEF StepResult, CouldNotRun, Passed

LEMMA InitInvariant == Init => IInv
<1> SUFFICES ASSUME Init PROVE IInv
  OBVIOUS
<1>1. config \in Configs /\ results = <<>> /\ ended = <<>> /\ report = {}
      /\ pc = "running" /\ verifyError = FALSE /\ shell \in {"posix", "cmd"}
  BY DEF Init
<1>2. Len(config) > 0 /\ Len(config) \in Nat
  BY <1>1, ConfigShape
<1>3. DOMAIN ended = {} /\ Len(ended) = 0 /\ Len(results) = 0
  BY <1>1
<1>4. TypeOK
  <2>1. results \in Seq(ResultType) /\ ended \in Seq(Outcome)
    BY <1>1
  <2> QED
    BY <1>1, <2>1 DEF TypeOK
<1> QED
  BY <1>1, <1>2, <1>3, <1>4
  DEF IInv, ResultsFollowConfig, OnlyTheLastStops, ErrorOfAStop, Complete

\* What one round of the loop does, with the sequences taken apart.
LEMMA Round ==
    ASSUME IInv, NEW outcome \in Outcome, RunStep(outcome)
    PROVE  LET n == Len(ended) + 1 IN
           /\ n \in 1 .. Len(config) /\ Len(ended') = n /\ Len(results') = n
           /\ results' \in Seq(ResultType) /\ ended' \in Seq(Outcome)
           /\ results'[n] = StepResult(config[n], outcome) /\ ended'[n] = outcome
           /\ results'[n].error \in BOOLEAN /\ results'[n].passed \in BOOLEAN
           /\ results'[n].required \in BOOLEAN
           /\ \A i \in 1 .. n - 1 : results'[i] = results[i] /\ ended'[i] = ended[i]
<1> DEFINE n == Len(ended) + 1
           result == StepResult(config[n], outcome)
<1>1. /\ results \in Seq(ResultType) /\ ended \in Seq(Outcome) /\ Len(results) = Len(ended)
      /\ Len(ended) < Len(config) /\ config \in Configs
  BY DEF IInv, TypeOK, ResultsFollowConfig, Complete, RunStep
<1>2. n \in 1 .. Len(config) /\ config[n].required \in BOOLEAN
  BY <1>1, ConfigShape
<1>3. /\ result \in ResultType /\ result.error \in BOOLEAN /\ result.passed \in BOOLEAN
      /\ result.required \in BOOLEAN
  BY <1>2 DEF StepResult, ResultType, CouldNotRun, Passed
<1>4. results' = Append(results, result) /\ ended' = Append(ended, outcome)
  BY <1>1 DEF RunStep
<1> HIDE DEF result
<1> QED
  BY <1>1, <1>2, <1>3, <1>4 DEF result

LEMMA RoundInvariant ==
    ASSUME IInv, NEW outcome \in Outcome, RunStep(outcome)
    PROVE  IInv'
<1> DEFINE n == Len(ended) + 1
           result == StepResult(config[n], outcome)
           last == Stops(result) \/ n = Len(config)
<1>1. /\ n \in 1 .. Len(config) /\ Len(ended') = n /\ Len(results') = n
      /\ results' \in Seq(ResultType) /\ ended' \in Seq(Outcome)
      /\ results'[n] = result /\ ended'[n] = outcome
      /\ \A i \in 1 .. n - 1 : results'[i] = results[i] /\ ended'[i] = ended[i]
  BY Round
<1>2. /\ Len(ended) \in Nat /\ Len(results) = Len(ended) /\ DOMAIN ended = 1 .. n - 1
      /\ DOMAIN ended' = 1 .. n /\ pc = "running" /\ config' = config
      /\ verifyError' = (verifyError \/ Flags(result)) /\ verifyError \in BOOLEAN
      /\ shell' = shell
  BY <1>1 DEF IInv, TypeOK, ResultsFollowConfig, RunStep
<1>3. Flags(result) \in BOOLEAN /\ verifyError' \in BOOLEAN
  BY <1>2 DEF Flags, StepResult
<1>4. IF last THEN pc' = "done" /\ report' = {VerifyReport(results', verifyError')}
      ELSE pc' = pc /\ report' = report
  BY <1>1, <1>2 DEF RunStep, Return
<1>5. TypeOK'
  <2>1. VerifyReport(results', verifyError') \in ReportType
    BY <1>3 DEF VerifyReport, ReportType, OverallPass
  <2>2. config' \in Configs
    BY <1>2 DEF IInv, TypeOK
  <2> QED
    BY <1>1, <1>2, <1>3, <1>4, <2>1, <2>2 DEF IInv, TypeOK
<1>6. ResultsFollowConfig'
  <2>1. \A i \in 1 .. n : results'[i] = StepResult(config[i], ended'[i])
    BY <1>1, <1>2 DEF IInv, ResultsFollowConfig
  <2> QED
    BY <1>1, <1>2, <2>1 DEF ResultsFollowConfig
<1>7. OnlyTheLastStops'
  <2>1. \A i \in 1 .. n - 1 : ~Stops(results'[i])
    BY <1>1, <1>2 DEF IInv, OnlyTheLastStops
  <2>2. Stops(results'[n]) => pc' = "done"
    BY <1>1, <1>4
  <2> QED
    BY <1>1, <1>2, <2>1, <2>2 DEF OnlyTheLastStops
<1>8. ErrorOfAStop'
  <2>1. \A i \in 1 .. n - 1 : Flags(results'[i]) <=> Flags(results[i])
    BY <1>1
  <2>2. verifyError <=> \E i \in 1 .. n - 1 : Flags(results[i])
    BY <1>2 DEF IInv, ErrorOfAStop
  <2>3. verifyError' <=> verifyError \/ Flags(results'[n])
    BY <1>1, <1>2
  <2>4. \A i \in 1 .. n : i \in 1 .. n - 1 \/ i = n
    BY <1>2
  <2>5. n \in 1 .. n /\ \A i \in 1 .. n - 1 : i \in 1 .. n
    BY <1>2
  <2>6. verifyError' <=> \E i \in 1 .. n : Flags(results'[i])
    BY <2>1, <2>2, <2>3, <2>4, <2>5, Zenon
  <2> QED
    BY <1>2, <2>6 DEF ErrorOfAStop
<1>9. Complete'
  <2>1. pc' = "running" => n < Len(config)
    BY <1>1, <1>2, <1>4
  <2>2. pc' = "done" => n = Len(config) \/ Stops(results'[n])
    BY <1>1, <1>2, <1>4
  <2>3. report = {}
    BY <1>2 DEF IInv, TypeOK
  <2>4. \A r \in report' : r = VerifyReport(results', verifyError')
    BY <1>4, <2>3
  <2> QED
    BY <1>1, <1>2, <2>1, <2>2, <2>4 DEF Complete
<1> QED
  BY <1>5, <1>6, <1>7, <1>8, <1>9 DEF IInv

\* A round is taken with one of the ways a step may end.
LEMMA NextOutcome ==
    Next => (\E outcome \in Outcome : RunStep(outcome)) \/ RaiseDecoding \/ Ended
<1>1. ASSUME NEW how \in Hows, NEW code \in ExitCodes \cup ShellCodes \cup {NoCode}
      PROVE  [how |-> how, code |-> code] \in Outcome
  BY <1>1, ExitCodesAssumption DEF Outcome, ShellCodes, NoCode
<1> QED
  BY <1>1 DEF Next

LEMMA StepInvariant == IInv /\ [Next]_vars => IInv'
<1> SUFFICES ASSUME IInv, [Next]_vars PROVE IInv'
  OBVIOUS
<1>1. CASE \E outcome \in Outcome : RunStep(outcome)
  BY <1>1, RoundInvariant
<1>2. CASE RaiseDecoding \/ Ended \/ UNCHANGED vars
  <2>1. /\ UNCHANGED <<config, shell, results, verifyError, report, ended>>
        /\ pc' = pc \/ (pc = "running" /\ pc' = "raised")
    BY <1>2 DEF RaiseDecoding, Ended, vars
  <2>2. TypeOK'
    BY <2>1 DEF IInv, TypeOK
  <2>3. ResultsFollowConfig'
    BY <2>1 DEF IInv, ResultsFollowConfig
  <2>4. OnlyTheLastStops'
    BY <2>1 DEF IInv, OnlyTheLastStops
  <2>5. ErrorOfAStop'
    BY <2>1 DEF IInv, ErrorOfAStop
  <2>6. Complete'
    BY <2>1 DEF IInv, Complete
  <2> QED
    BY <2>2, <2>3, <2>4, <2>5, <2>6 DEF IInv
<1> QED
  BY <1>1, <1>2, NextOutcome

THEOREM Inductive == Spec => []IInv
  BY InitInvariant, StepInvariant, PTL DEF Spec

\* The verifier's state keeps its types, and a report is made exactly once.
THEOREM TypeCorrect == Spec => []TypeOK
<1>1. IInv => TypeOK
  BY DEF IInv
<1> QED
  BY <1>1, Inductive, PTL

\* What passing and stopping mean of the way the steps ended.
LEMMA Meaning ==
    ASSUME IInv
    PROVE  /\ DOMAIN results = DOMAIN ended /\ DOMAIN ended \subseteq DOMAIN config
           /\ DOMAIN ended = 1 .. Len(ended) /\ DOMAIN config = 1 .. Len(config)
           /\ Len(ended) \in Nat /\ Len(config) \in Nat
           /\ \A i \in DOMAIN ended :
                /\ results[i].required = config[i].required
                /\ results[i].passed <=> Passed(ended[i])
                /\ results[i].error <=> CouldNotRun(config[i].run, ended[i])
           /\ \A i \in DOMAIN ended : Stops(results[i]) <=> i \in RequiredFailures
<1>1. /\ results \in Seq(ResultType) /\ ended \in Seq(Outcome) /\ config \in Seq(VerifyStep)
      /\ Len(results) = Len(ended) /\ Len(ended) <= Len(config)
  BY ConfigShape DEF IInv, TypeOK, ResultsFollowConfig
<1>2. \A i \in DOMAIN ended : results[i] = StepResult(config[i], ended[i])
  BY DEF IInv, ResultsFollowConfig
<1>3. \A i \in DOMAIN ended :
        /\ results[i].required = config[i].required
        /\ results[i].passed <=> Passed(ended[i])
        /\ results[i].error <=> CouldNotRun(config[i].run, ended[i])
  BY <1>2, ResultOf
<1>4. \A i \in DOMAIN ended : config[i].required \in BOOLEAN
  BY <1>1, ConfigShape DEF IInv, TypeOK
<1> QED
  BY <1>1, <1>3, <1>4 DEF Stops, RequiredFailures

\* No step runs after a required failure; with none, every step runs.
THEOREM StopsThere == Spec => []StopsAtFirstRequiredFailure
<1>1. IInv => StopsAtFirstRequiredFailure
  <2> SUFFICES ASSUME IInv PROVE StopsAtFirstRequiredFailure
    OBVIOUS
  <2>1. \A i \in RequiredFailures : i \in DOMAIN ended
    BY DEF RequiredFailures
  <2> QED
    BY <2>1, Meaning DEF IInv, OnlyTheLastStops, Complete, StopsAtFirstRequiredFailure
<1> QED
  BY <1>1, Inductive, PTL

\* A pass says that every required step of the configuration ran and exited 0.
THEOREM PassIsAPass == Spec => []PassMeansEveryRequiredStep
<1>1. IInv => PassMeansEveryRequiredStep
  <2> SUFFICES ASSUME IInv, NEW r \in report
               PROVE  r.overallPass <=>
                        \A i \in DOMAIN config :
                            config[i].required => i \in DOMAIN ended /\ Passed(ended[i])
    BY DEF PassMeansEveryRequiredStep
  <2>1. pc = "done" /\ r.overallPass = OverallPass(results)
    BY DEF IInv, TypeOK, Complete, VerifyReport
  <2>2. \A i \in RequiredFailures : i \in DOMAIN ended /\ ~Passed(ended[i]) /\ config[i].required
    BY DEF RequiredFailures
  <2>3. r.overallPass <=> RequiredFailures = {}
    BY <2>1, Meaning DEF OverallPass, RequiredFailures
  <2>4. RequiredFailures = {} => DOMAIN ended = DOMAIN config
    BY <2>1, Meaning DEF IInv, Complete
  <2> QED
    BY <2>2, <2>3, <2>4, Meaning DEF RequiredFailures
<1> QED
  BY <1>1, Inductive, PTL

\* A verifier error is the last step's, and that step is a required one.
THEOREM ErrorIsThatSteps == Spec => []ErrorIsOfTheFailingStep
<1>1. IInv => ErrorIsOfTheFailingStep
  <2> SUFFICES ASSUME IInv, NEW r \in report
               PROVE  r.verifyError <=> \E i \in RequiredFailures : results[i].error
    BY DEF ErrorIsOfTheFailingStep
  <2>1. r.verifyError <=> \E i \in DOMAIN ended : Flags(results[i])
    BY DEF IInv, Complete, ErrorOfAStop, VerifyReport
  <2>2. \A i \in DOMAIN ended : results[i].error => ~results[i].passed
    BY Meaning DEF CouldNotRun, ShellCodes, Passed
  <2> QED
    BY <2>1, <2>2, Meaning DEF Flags, Stops, RequiredFailures
<1> QED
  BY <1>1, Inductive, PTL

\* A program that was not found leaves a code the verifier knows for that.
NotFoundCode ==
    \A i \in DOMAIN ended :
        ended[i].how = "notFound" => /\ ended[i].code \in NotFoundCodes
                                     /\ ~(config[i].run.direct /\ config[i].run.resolves)

LEMMA NextNotFound == IInv /\ NotFoundCode /\ [Next]_vars => NotFoundCode'
<1> SUFFICES ASSUME IInv, NotFoundCode, [Next]_vars PROVE NotFoundCode'
  OBVIOUS
<1>1. ASSUME NEW outcome \in Outcome, RunStep(outcome)
      PROVE  NotFoundCode'
  <2> DEFINE n == Len(ended) + 1
  <2>1. /\ Len(ended') = n /\ ended' \in Seq(Outcome) /\ ended'[n] = outcome
        /\ \A i \in 1 .. n - 1 : ended'[i] = ended[i]
        /\ Len(ended) \in Nat /\ DOMAIN ended = 1 .. n - 1
        /\ config' = config /\ shell' = shell
    BY <1>1, Round DEF IInv, TypeOK, RunStep
  <2>2. outcome \in Outcomes(config[n].run)
    BY <1>1 DEF RunStep, IInv, ResultsFollowConfig
  <2>3. outcome.how = "notFound" =>
          /\ outcome.code \in NotFoundCodes
          /\ ~(config[n].run.direct /\ config[n].run.resolves)
    BY <2>2 DEF Outcomes, Ending
  <2>4. DOMAIN ended' = 1 .. n /\ \A i \in 1 .. n : i \in 1 .. n - 1 \/ i = n
    BY <2>1
  <2> QED
    BY <2>1, <2>3, <2>4 DEF NotFoundCode, NotFoundCodes
<1>2. CASE RaiseDecoding \/ Ended \/ UNCHANGED vars
  BY <1>2 DEF RaiseDecoding, Ended, vars, NotFoundCode, NotFoundCodes
<1> QED
  BY <1>1, <1>2, NextOutcome DEF Next

\* A step that never ran is reported as an error of the environment: by the shell's
\* code where it has one, by the lookup of its program where it has none.
THEOREM UnrunIsNotCharged == Spec => []NeverChargedUnrun
<1>1. ASSUME IInv, NotFoundCode, ErrorIsOfTheFailingStep, PassMeansEveryRequiredStep
      PROVE  NeverChargedUnrun
  <2> SUFFICES ASSUME NEW r \in report, NEW i \in RequiredFailures,
                      \/ ended[i].how \in {"timedOut", "unlaunched"}
                      \/ ended[i].how = "notFound" /\ (config[i].run.direct \/ shell = "posix")
               PROVE  r.verifyError /\ ~r.overallPass
    BY DEF NeverChargedUnrun
  <2> USE <1>1
  <2>1. i \in DOMAIN ended /\ config[i].required /\ ~Passed(ended[i])
    BY DEF RequiredFailures
  <2>2. CouldNotRun(config[i].run, ended[i])
    <3>1. CASE ended[i].how \in {"timedOut", "unlaunched"}
      BY <3>1 DEF CouldNotRun, Exited
    <3>2. CASE ended[i].how = "notFound" /\ shell = "posix"
      BY <2>1, <3>2 DEF CouldNotRun, NotFoundCode, NotFoundCodes
    <3>3. CASE ended[i].how = "notFound" /\ config[i].run.direct
      <4>1. ~config[i].run.resolves
        BY <2>1, <3>3 DEF NotFoundCode
      <4>2. ended[i].code # 0
        BY <2>1, <3>3 DEF Passed, Exited
      <4> QED
        BY <4>1, <4>2 DEF CouldNotRun
    <3> QED
      BY <3>1, <3>2, <3>3
  <2>3. results[i].error /\ i \in DOMAIN config
    BY <2>1, <2>2, Meaning
  <2> QED
    BY <2>1, <2>3 DEF ErrorIsOfTheFailingStep, PassMeansEveryRequiredStep
<1>2. Init => NotFoundCode
  BY DEF Init, NotFoundCode
<1>3. Spec => []NotFoundCode
  BY <1>2, NextNotFound, Inductive, PTL DEF Spec
<1> QED
  BY <1>1, <1>3, Inductive, ErrorIsThatSteps, PassIsAPass, PTL

-----------------------------------------------------------------------------
(* A verification comes to an end.                                         *)

Remaining == IF pc = "running" THEN Len(config) - Len(results) ELSE 0

\* Every round of run_verifier's loop brings it nearer to its report: a step is run
\* once, and since each has its timeout, the verifier takes no longer than theirs
\* together.
THEOREM EveryVerificationIsBounded ==
    Spec => /\ [](Remaining \in 0 .. Len(config))
            /\ [][Remaining' < Remaining]_vars
<1>1. IInv => Remaining \in 0 .. Len(config) /\ (pc = "running" => Remaining > 0)
  <2> SUFFICES ASSUME IInv
               PROVE  Remaining \in 0 .. Len(config) /\ (pc = "running" => Remaining > 0)
    OBVIOUS
  <2>1. /\ Len(config) \in Nat /\ Len(results) \in Nat
        /\ pc = "running" => Len(results) < Len(config)
    BY ConfigShape DEF IInv, TypeOK, ResultsFollowConfig, Complete
  <2> QED
    BY <2>1 DEF Remaining
<1>2. IInv /\ IInv' /\ [Next]_vars => [Remaining' < Remaining]_vars
  <2> SUFFICES ASSUME IInv, IInv', Next, vars' # vars PROVE Remaining' < Remaining
    OBVIOUS
  <2>1. ASSUME NEW outcome \in Outcome, RunStep(outcome)
        PROVE  Remaining' < Remaining
    <3>1. /\ Len(results') = Len(results) + 1 /\ Len(results) \in Nat /\ Len(config) \in Nat
          /\ pc = "running" /\ config' = config
      BY <2>1, Round, ConfigShape DEF IInv, TypeOK, ResultsFollowConfig, RunStep
    <3>2. Remaining > 0
      BY <3>1, <1>1
    <3> QED
      BY <3>1, <3>2 DEF Remaining
  <2>2. CASE RaiseDecoding
    <3>1. pc = "running" /\ pc' = "raised"
      BY <2>2 DEF RaiseDecoding
    <3>2. Remaining > 0
      BY <3>1, <1>1
    <3> QED
      BY <3>1, <3>2 DEF Remaining
  <2> QED
    BY <2>1, <2>2, NextOutcome DEF Ended
<1> QED
  BY <1>1, <1>2, Inductive, PTL DEF Spec
=============================================================================

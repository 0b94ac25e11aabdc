------------------------------ MODULE Compare ------------------------------
(***************************************************************************)
(* A bake-off (council/compare.py and the end of cli.py, _cmd_compare):    *)
(* the fan-out, a row of the scoreboard for each place of the pool, each   *)
(* judged in a copy of the project of its own, the report on disk, and the *)
(* exit code.  run_compare takes diffs, run_create whole files.            *)
(*                                                                         *)
(* The verifier runs in the copy joined with the configured working_dir.   *)
(* An absolute path, or one with `..`, leads out of the copy: every row is *)
(* then judged in one and the same place, which holds no mind's work, and  *)
(* what the verifier writes there may be in the project itself.            *)
(***************************************************************************)
EXTENDS FanOut

VARIABLES
    mode,     \* "diff" (run_compare) or "create" (run_create)
    outside,  \* whether working_dir leads out of the copy
    soiled,   \* the rows whose verifier wrote in the project
    passed,   \* the calls whose own work the verifier passed, for the properties
    rows,     \* report.rows
    saved,    \* what of the report is whole on disk
    exit      \* the exit code, NoExit before

rowVars == <<soiled, passed, rows>>
endVars == <<saved, exit>>
reportVars == <<mode, outside, rowVars, endVars>>
vars == <<fanVars, reportVars>>

NoExit == -1

\* What a row takes from the VerifyReport.  The note is the output of the
\* failing step, if any, and as good as text; that of a step killed at its
\* timeout is bytes, and such a step is never held against the mind.
VerifyReports ==
    {[overallPass |-> TRUE, verifyError |-> FALSE, note |-> "text"]}
        \cup [overallPass : {FALSE}, verifyError : BOOLEAN, note : {"text"}]
        \cup [overallPass : {FALSE}, verifyError : {TRUE}, note : {"bytes"}]

Init == /\ FanInit
        /\ mode \in {"diff", "create"}
        /\ outside \in BOOLEAN
        /\ soiled = {}
        /\ passed = {}
        /\ rows = <<>>
        /\ saved = "nothing"
        /\ exit = NoExit

\* CompareRow.verdict.
Verdict(row) ==
    IF ~row.callOk THEN "CALL_FAIL"
    ELSE IF ~row.diffFound THEN "NO_DIFF"
    ELSE IF row.report.verifyError THEN "VERIFY_ERROR"
    ELSE IF row.report.overallPass THEN "PASS" ELSE "FAIL"

\* The call the next row is about, and what it came to.
Subject == calls[pool[Len(rows) + 1]]
Result == call[Subject]

\* The row of the next place; its copy is made of the project as the calls and
\* the verifiers before it left it.
Row(ok, found, report) ==
    [of |-> Subject, callOk |-> ok, diffFound |-> found, report |-> report,
     tree |-> tree, soiled |-> soiled]

\* verifier_pass and error of a row no verifier was run for; the output of
\* `git apply` is text.
NotVerified == [overallPass |-> FALSE, verifyError |-> FALSE, note |-> "text"]

Judging == phase = "judging" /\ Len(rows) < Len(pool)

AddRow(row) == /\ rows' = Append(rows, row)
               /\ UNCHANGED <<fanVars, mode, outside, endVars>>

AddUnverified(ok, found) == AddRow(Row(ok, found, NotVerified)) /\ UNCHANGED <<soiled, passed>>

CallFailed == Judging /\ Result = "failed" /\ AddUnverified(FALSE, FALSE)

NoDiff == Judging /\ Result = "prose" /\ AddUnverified(TRUE, FALSE)

NotApplied ==
    Judging /\ mode = "diff" /\ Result = "misfit" /\ AddUnverified(TRUE, TRUE)

\* A whole file always fits.
ToVerify == Result \in IF mode = "create" THEN {"patch", "misfit"} ELSE {"patch"}

\* What a verifier may leave in the project: nothing, while it keeps to the copy.
Soil == \/ UNCHANGED soiled
        \/ outside /\ soiled' = soiled \cup {Len(rows) + 1}

\* A pass is of the mind's work if that is what was judged.
Verified ==
    /\ Judging
    /\ ToVerify
    /\ Soil
    /\ \E report \in VerifyReports :
         /\ AddRow(Row(TRUE, TRUE, report))
         /\ passed' = IF report.overallPass /\ ~outside THEN passed \cup {Subject} ELSE passed

\* Nobody catches what is raised here: phase `aborted`.
Abort == /\ phase' = "aborted"
         /\ UNCHANGED <<pool, call, taken, calls, tree, mode, outside, passed, rows, endVars>>

\* Making the copy, git apply or the verifier raises; so does a write.
JudgeRaises ==
    /\ Judging
    /\ Result \in {"patch", "misfit"}
    /\ Soil
    /\ Abort

\* write_compare_report: first the answers, a file for each model, then the
\* scoreboard, which json.dumps refuses when it holds bytes.  The disk may
\* refuse a file, and the encoding an answer.
SaveResponses ==
    /\ phase = "judging"
    /\ Len(rows) = Len(pool)
    /\ saved = "nothing"
    /\ saved' = "responses"
    /\ UNCHANGED <<fanVars, mode, outside, rowVars, exit>>

Serializable == \A i \in DOMAIN rows : rows[i].report.note # "bytes"

SaveScoreboard ==
    /\ phase = "judging"
    /\ saved = "responses"
    /\ Serializable
    /\ saved' = "all"
    /\ UNCHANGED <<fanVars, mode, outside, rowVars, exit>>

SaveRaises ==
    /\ phase = "judging"
    /\ Len(rows) = Len(pool)
    /\ saved # "all"
    /\ UNCHANGED soiled
    /\ Abort

\* A defect to be caught: the exit code tells of failures, not of a pass.
WonUnlessFailed == \A i \in DOMAIN rows : Verdict(rows[i]) # "FAIL"

Won == \E i \in DOMAIN rows : Verdict(rows[i]) = "PASS"

Exit ==
    /\ phase = "judging"
    /\ saved = "all"
    /\ exit' = IF Won THEN 0 ELSE 1
    /\ phase' = "exited"
    /\ UNCHANGED <<pool, call, taken, calls, tree, mode, outside, rowVars, saved>>

Judge == CallFailed \/ NoDiff \/ NotApplied \/ Verified \/ JudgeRaises
Report == SaveResponses \/ SaveScoreboard \/ SaveRaises \/ Exit

MainThread ==
    \/ Collect /\ UNCHANGED reportVars
    \/ Judge
    \/ Report

WorkerThread(i) == Worker(i) /\ UNCHANGED reportVars

Next == MainThread \/ \E i \in Places : WorkerThread(i)

Spec == Init /\ [][Next]_vars

\* The main thread goes on, idle workers take up calls, and every call ends:
\* its requests have timeouts, its retries are counted, and the rate limiter
\* lets it through.  Whether an agent writes is its own affair.
FairSpec ==
    /\ Spec
    /\ WF_vars(MainThread)
    /\ \A i \in 1 .. LongestPool :
         WF_vars(i \in Places /\ (Start(i) \/ Finish(i)) /\ UNCHANGED reportVars)

-----------------------------------------------------------------------------
(* Properties.                                                             *)

\* Types of the bake-off's state.  A dictionary entry is of a call for its own
\* model, and rows are judged only when every result has been taken.
TypeOK ==
    /\ pool \in Pools
    /\ phase \in {"calling", "leaving", "judging", "exited", "aborted"}
    /\ call \in [Places -> Results \cup {"queued", "running", "raised", "cancelled"}]
    /\ taken \in 0 .. Len(pool)
    /\ \A m \in Models : calls[m] # NoCall => calls[m] \in 1 .. taken /\ pool[calls[m]] = m
    /\ tree \subseteq Places
    /\ mode \in {"diff", "create"}
    /\ outside \in BOOLEAN
    /\ soiled \subseteq DOMAIN rows \cup {Len(rows) + 1}
    /\ passed \subseteq Places
    /\ Len(rows) <= Len(pool)
    /\ saved \in {"nothing", "responses", "all"}
    /\ exit \in {NoExit, 0, 1}
    /\ phase \in {"judging", "exited"} => taken = Len(pool)

\* The last call made for a model: the one asked for last in the pool.
LastPlace(m) == CHOOSE i \in Places : pool[i] = m /\ \A j \in Places : pool[j] = m => j <= i

\* The scoreboard is of the pool, place by place and in its order though calls
\* end in any order: row i is about the last call for its model, is a CALL_FAIL
\* exactly when that call failed and a NO_DIFF exactly when it brought prose, so
\* that one mind's failure costs no other mind its row.
RowsOfThePool ==
    \A i \in DOMAIN rows :
        LET c == LastPlace(pool[i]) IN
        /\ rows[i].of = c
        /\ Verdict(rows[i]) = "CALL_FAIL" <=> call[c] = "failed"
        /\ Verdict(rows[i]) = "NO_DIFF" <=> call[c] = "prose"

\* Every mind is judged on the same project.  No call is still writing in it
\* when the copies are made; what two copies can differ by is what verifiers
\* sent out of an earlier row's copy wrote between them, and while working_dir
\* stays in the copy that is nothing.
JudgedOnOneTree ==
    \A i, j \in DOMAIN rows : i < j =>
        /\ rows[i].tree = rows[j].tree
        /\ rows[i].soiled \subseteq rows[j].soiled
        /\ rows[j].soiled \ rows[i].soiled \subseteq {k \in i .. j - 1 : outside /\ rows[k].diffFound}

\* An exit code is the word of a report that is on disk, and it is 0 for every
\* mind the verifier passed; a verifier that could not run is nobody's pass.
\* While working_dir stays in the copy, 0 says that a mind's own work, of the
\* last call for it, was passed.
ExitZeroIsAReportedPass ==
    exit # NoExit =>
        /\ saved = "all"
        /\ passed # {} => exit = 0
        /\ exit = 0 /\ ~outside =>
             \E i \in DOMAIN rows : /\ Verdict(rows[i]) = "PASS"
                                    /\ rows[i].of \in passed
                                    /\ rows[i].of = LastPlace(pool[i])

\* Whatever the calls come to, the bake-off ends: with its report, or with the
\* traceback of an exception.
EveryBakeOffEnds == <>(phase \in {"exited", "aborted"})

\* The fan-out is one round to whoever looks at its results: at most max_workers
\* calls are in flight and none outlives it, not even when an exception ends
\* it, and what was returned never changes while it is judged.
FanOutIsOneRound == OneRound!Spec
=============================================================================

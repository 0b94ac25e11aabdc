------------------------------- MODULE Council -------------------------------
(***************************************************************************)
(* Council mode (council/collab.py, and _cmd_collab of council/cli.py):    *)
(* every mind writes, reviews its peers, and revises its own code; then    *)
(* the human may direct further rounds.  A round is one step here, as      *)
(* module Round has it and FanOut implements it: all calls of a round have *)
(* ended, or one of them raised, before anything is made of their results. *)
(*                                                                         *)
(* A response is named by the round and the place of the pool it is from;  *)
(* its verdict is what the verifier said where it ran: in a copy with that *)
(* code in it, unless working_dir leads out of the copy, as in Compare.    *)
(* What a round made is a function of the places it called: lists and      *)
(* dictionaries are filled in the order of the pool, that of the places.   *)
(***************************************************************************)
EXTENDS Integers, Sequences, FiniteSets

CONSTANTS Models,     \* model ids
          Rank,       \* the order of quality_score, then of cost
          Requests,   \* the councils that may be asked for
          MaxRounds   \* MAX_INTERACTIVE_ROUNDS

ASSUME RankAssumption == Rank \in [Models -> Nat]

\* The pool is not empty; --max-reviewers is 0 for no cap.
Request == [pool : Seq(Models) \ {<<>>}, cap : Nat, interactive : BOOLEAN]
ASSUME RequestsAssumption == Requests \subseteq Request
ASSUME RoundsAssumption == MaxRounds \in Nat

VARIABLES
    pool,        \* the minds, by place
    cap,         \* max_reviewers
    interactive, \* --interactive
    phase,       \* where the council is
    round,       \* 0 writes, 1 revises, then the rounds of the human
    codes,       \* the code of each mind
    responses,   \* raw_responses[m]: the last answer of each mind
    reviews,     \* the reviews of each mind's code: the critic and the code
    prompts,     \* what the last revise round was asked
    rows,        \* report.rows
    saved,       \* the scoreboard on disk
    exit,        \* the exit code, NoExit before
    passed       \* history: every response the verifier passed

asked == <<pool, cap, interactive>>
report == <<codes, responses, rows, passed>>
vars == <<asked, phase, round, report, reviews, prompts, saved, exit>>

NoExit == -1
Places == DOMAIN pool

\* Code a verifier could not run on is code all the same.
Verdicts == {"CALL_FAIL", "NO_DIFF", "VERIFY_ERROR", "FAIL", "PASS"}
Answered == Verdicts \ {"CALL_FAIL"}
WithCode == {"VERIFY_ERROR", "FAIL", "PASS"}

Response == [round : Nat, place : Nat, verdict : Verdicts]
Absent == [round |-> 0, place |-> 0, verdict |-> "CALL_FAIL"]
IsScoreboard(made) == DOMAIN made \subseteq Places /\ made \in [DOMAIN made -> Response]

HasCode(m) == codes[m] # Absent
NoReviews == [m \in Models |-> {}]

Init == /\ \E request \in Requests :
             pool = request.pool /\ cap = request.cap /\ interactive = request.interactive
        /\ phase = "writing" /\ round = 0
        /\ codes = [m \in Models |-> Absent]
        /\ responses = [m \in Models |-> Absent]
        /\ reviews = NoReviews
        /\ prompts = {} /\ rows = <<>> /\ saved = <<>>
        /\ exit = NoExit /\ passed = {}

\* The last of `made` that is by m and has such a verdict, or what m had: a
\* dictionary written in the order of the pool.
By(m, made, verdicts) == {i \in DOMAIN made : pool[i] = m /\ made[i].verdict \in verdicts}

Latest(m, had, made, verdicts) ==
    LET by == By(m, made, verdicts) IN
    IF by = {} THEN had ELSE made[CHOOSE i \in by : \A j \in by : j <= i]

\* A defect to be caught: an answer without code replaces the code.
CodeOfAnyAnswer(m, made) == Latest(m, codes[m], made, Answered)

CodeOf(m, made) == Latest(m, codes[m], made, WithCode)

Keep(made) ==
    /\ codes' = [m \in Models |-> CodeOf(m, made)]
    /\ responses' = [m \in Models |-> Latest(m, responses[m], made, Answered)]
    /\ passed' = passed \cup {made[i] : i \in {j \in DOMAIN made : made[j].verdict = "PASS"}}

\* The responses of a fan-out over these places: any may fail, none need not.
Made(places, verdicts) ==
    [i \in places |-> [round |-> round, place |-> i, verdict |-> verdicts[i]]]

\* Phase 1.  Without any code the council is over.
Write ==
    /\ phase = "writing"
    /\ \E verdicts \in [Places -> Verdicts] :
         LET made == Made(Places, verdicts) IN
         /\ rows' = made
         /\ Keep(made)
         /\ phase' = IF \E i \in Places : verdicts[i] \in WithCode THEN "reviewing" ELSE "saving"
    /\ round' = 1
    /\ UNCHANGED <<asked, reviews, prompts, saved, exit>>

\* _reviewer_order: equally ranked peers stay in the order of the pool.
Peers(author) == {i \in Places : pool[i] # author}
Before(i, j) == \/ Rank[pool[i]] > Rank[pool[j]]
                \/ Rank[pool[i]] = Rank[pool[j]] /\ i < j

Critics(author) ==
    {i \in Peers(author) :
        cap = 0 \/ Cardinality({j \in Peers(author) : Before(j, i)}) < cap}

\* The keys of `jobs`: a pair is asked once, however often its minds are named.
Jobs == {<<pool[i], m>> : i \in Places, m \in Models}
Asked == {job \in Jobs : HasCode(job[2]) /\ \E i \in Critics(job[2]) : pool[i] = job[1]}

\* Phase 2.  A review that failed, or has no text, is left out.
Review ==
    /\ phase = "reviewing"
    /\ \E heard \in SUBSET Asked :
         reviews' = [m \in Models |-> {[critic |-> job[1], of |-> codes[m]] : job \in {h \in heard : h[2] = m}}]
    /\ phase' = "revising"
    /\ UNCHANGED <<asked, round, report, prompts, saved, exit>>

\* A defect to be caught: the human's rounds have the notes of the scoreboard.
NotesOfTheRows(m) == Latest(m, Absent, rows, Verdicts)

\* phase1_notes: of a mind named twice, the last row; no notes for the human's
\* rounds, and no reviews.
Notes(m) == IF round > 1 THEN Absent ELSE Latest(m, Absent, rows, Verdicts)

Prompt(m) == [to |-> m, code |-> codes[m], notes |-> Notes(m),
              reviews |-> IF round > 1 THEN {} ELSE reviews[m]]

Revisers == {i \in Places : HasCode(pool[i])}

\* A defect to be caught: the scoreboard is always replaced.
ScoredAlways(made) == made

Scored(made) == IF \E i \in DOMAIN made : made[i].verdict = "PASS" THEN made ELSE rows

\* Phase 3 and every round of the human's.  The scoreboard is replaced by that
\* of a round in which somebody passed; the codes always are.
Revise ==
    /\ phase = "revising"
    /\ prompts' = {Prompt(m) : m \in {n \in Models : HasCode(n)}}
    /\ \E verdicts \in [Revisers -> Verdicts] :
         LET made == Made(Revisers, verdicts) IN Keep(made) /\ rows' = Scored(made)
    /\ reviews' = NoReviews
    /\ phase' = "saving"
    /\ UNCHANGED <<asked, round, saved, exit>>

\* write_council_report; then the human is asked, a limited number of times.
Save ==
    /\ phase = "saving"
    /\ saved' = rows
    /\ phase' = IF interactive /\ round <= MaxRounds THEN "asking" ELSE "over"
    /\ UNCHANGED <<asked, round, report, reviews, prompts, exit>>

Direct ==
    /\ phase = "asking"
    /\ \/ phase' = "revising" /\ round' = round + 1
       \/ phase' = "over" /\ UNCHANGED round
    /\ UNCHANGED <<asked, report, reviews, prompts, saved, exit>>

Won == \E i \in DOMAIN rows : rows[i].verdict = "PASS"

Exit ==
    /\ phase = "over"
    /\ exit' = IF Won THEN 0 ELSE 1
    /\ phase' = "exited"
    /\ UNCHANGED <<asked, round, report, reviews, prompts, saved>>

\* A call, the copy or the verifier raises what nobody catches; so does writing
\* the report, be it for the disk's sake or for that of the bytes a step that
\* was killed left for a note.
Raise ==
    /\ \/ phase = "writing"
       \/ phase = "reviewing" /\ Asked # {}
       \/ phase = "revising" /\ \E m \in Models : HasCode(m)
       \/ phase = "saving"
    /\ phase' = "raised"
    /\ UNCHANGED <<asked, round, report, reviews, prompts, saved, exit>>

Ended == phase \in {"exited", "raised"} /\ UNCHANGED vars

Next == Write \/ Review \/ Revise \/ Save \/ Direct \/ Exit \/ Raise \/ Ended

Spec == Init /\ [][Next]_vars

-----------------------------------------------------------------------------
(* Properties.                                                             *)

\* Types of the council's state.  Codes are of responses with code, of the mind
\* they are kept for; and there is none to revise before all have written.
TypeOK ==
    /\ [pool |-> pool, cap |-> cap, interactive |-> interactive] \in Requests
    /\ phase \in {"writing", "reviewing", "revising", "saving", "asking", "over",
                  "exited", "raised"}
    /\ round \in 0 .. MaxRounds + 1
    /\ phase \in {"reviewing", "revising", "saving", "asking", "over"} => round > 0
    /\ \A m \in Models :
         /\ codes[m] \in Response /\ responses[m] \in Response
         /\ HasCode(m) => pool[codes[m].place] = m /\ codes[m].verdict \in WithCode
         /\ HasCode(m) => responses[m].round >= codes[m].round
    /\ IsScoreboard(rows) /\ IsScoreboard(saved)
    /\ passed \subseteq Response
    /\ exit \in {NoExit, 0, 1}

\* The scoreboard is of the last round in which anybody passed: a round in which
\* nobody does costs no earlier pass its row, though one in which only another
\* mind does may; and the exit code, the scoreboard on disk and what the verifier
\* really said never disagree.
ScoreboardTellsOfAPass ==
    /\ \A r \in passed : \E i \in DOMAIN rows : rows[i] \in passed /\ rows[i].round >= r.round
    /\ \A i \in DOMAIN rows : rows[i].verdict = "PASS" => rows[i] \in passed
    /\ \A i, j \in DOMAIN rows : rows[i].round = rows[j].round
    /\ exit # NoExit => saved = rows /\ (exit = 0 <=> passed # {})

NamedOnce(m) == \A i, j \in Places : pool[i] = m /\ pool[j] = m => i = j

\* A mind revises its own code, and what it is told is about that code: no
\* review is its own or of another version, and neither are the verifier's
\* notes, unless the pool names the mind more than once.
RevisesOnTheRecord ==
    \A p \in prompts :
        /\ pool[p.code.place] = p.to
        /\ \A r \in p.reviews : r.of = p.code /\ r.critic # p.to
        /\ p.notes # Absent /\ NamedOnce(p.to) => p.notes = p.code

-----------------------------------------------------------------------------
(* A statement of the documentation the code does not keep.                *)

=============================================================================

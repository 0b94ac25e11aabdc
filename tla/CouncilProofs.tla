--------------------------- MODULE CouncilProofs ---------------------------
(***************************************************************************)
(* What a council promises, for every pool, any cap on the reviewers, any  *)
(* number of the human's rounds and any outcome of any call: that its      *)
(* scoreboard tells of a pass, and that a mind revises on the record of    *)
(* its own code.                                                           *)
(***************************************************************************)
EXTENDS Council, FiniteSetTheorems, WellFoundedInduction, TLAPS

-----------------------------------------------------------------------------
(* The inductive invariant.                                                *)

\* Nothing has been made before the first round.
Fresh ==
    phase = "writing" =>
        /\ round = 0 /\ prompts = {} /\ rows = <<>> /\ passed = {} /\ exit = NoExit
        /\ codes = [m \in Models |-> Absent] /\ responses = [m \in Models |-> Absent]
        /\ reviews = NoReviews

\* A mind's code is a response of its own, not later than its last answer.
Kept ==
    /\ codes \in [Models -> Response] /\ responses \in [Models -> Response]
    /\ \A m \in Models :
         /\ HasCode(m) => /\ codes[m].place \in Places /\ pool[codes[m].place] = m
                          /\ codes[m].verdict \in WithCode
                          /\ codes[m].round <= responses[m].round
         /\ codes[m].round <= round /\ responses[m].round <= round

\* The rows are of one round, not earlier than any pass.
Told ==
    /\ \A r \in passed : r.verdict = "PASS" /\ r.round <= round
    /\ \A r \in passed : \E i \in DOMAIN rows : rows[i] \in passed /\ rows[i].round >= r.round
    /\ \A i \in DOMAIN rows : rows[i].verdict = "PASS" => rows[i] \in passed
    /\ \A i, j \in DOMAIN rows : rows[i].round = rows[j].round

\* Until the first revision, the rows are those the codes are from.
FirstNotes ==
    phase \in {"reviewing", "revising"} /\ round = 1 =>
        /\ DOMAIN rows = Places
        /\ \A m \in Models : codes[m] = Latest(m, Absent, rows, WithCode)

\* Reviews are of the code a mind has, and by others.
ReviewsOfTheCode ==
    \A m \in Models : \A r \in reviews[m] : r.of = codes[m] /\ r.critic # m

\* What is on disk once a round has been saved, and what the exit code says.
Published ==
    /\ phase \in {"asking", "over", "exited"} => saved = rows
    /\ phase = "asking" => round <= MaxRounds
    /\ exit # NoExit => phase = "exited" /\ (exit = 0 <=> passed # {})

IInv == /\ TypeOK /\ Fresh /\ Kept /\ Told /\ FirstNotes /\ ReviewsOfTheCode
        /\ Published /\ RevisesOnTheRecord

-----------------------------------------------------------------------------
(* Lemmas about pools, and about what is kept of a round.                  *)

LEMMA PoolTypes ==
    ASSUME TypeOK
    PROVE  /\ pool \in Seq(Models) /\ Len(pool) \in Nat /\ Places = 1 .. Len(pool)
           /\ IsFiniteSet(Places) /\ \A i \in Places : pool[i] \in Models
           /\ cap \in Nat /\ interactive \in BOOLEAN
<1>1. pool \in Seq(Models) /\ cap \in Nat /\ interactive \in BOOLEAN
  BY RequestsAssumption DEF TypeOK, Request
<1>2. Len(pool) \in Nat /\ Places = 1 .. Len(pool) /\ \A i \in Places : pool[i] \in Models
  BY <1>1 DEF Places
<1> QED
  BY <1>1, <1>2, FS_Interval

\* Of some of the places of a pool one is the last.
LEMMA LastPlaceExists ==
    ASSUME NEW n \in Nat, NEW S \in SUBSET (1 .. n), S # {}
    PROVE  \E i \in S : \A j \in S : j <= i
<1> DEFINE After(i) == {j \in S : j > i}
           Afters == {After(i) : i \in S}
           Smaller == StrictSubsetOrdering(1 .. n)
<1>1. IsWellFoundedOn(Smaller, SUBSET (1 .. n))
  <2>1. IsFiniteSet(1 .. n)
    BY FS_Interval
  <2> QED
    BY <2>1, FS_StrictSubsetOrderingWellFounded, FS_FiniteSubsetsOfFinite
<1>2. PICK X \in Afters : \A Y \in Afters : <<Y, X>> \notin Smaller
  <2>1. Afters \subseteq SUBSET (1 .. n) /\ Afters # {}
    OBVIOUS
  <2> HIDE DEF Afters, Smaller
  <2> QED
    BY <1>1, <2>1, WFMin
<1>3. PICK i \in S : X = After(i)
  OBVIOUS
<1>4. ASSUME NEW j \in S, j > i PROVE FALSE
  <2>1. i \in Nat /\ j \in Nat
    OBVIOUS
  <2>2. After(j) \in Afters /\ j \in After(i) /\ j \notin After(j)
    BY <1>4, <2>1
  <2>3. After(j) \subseteq After(i) /\ After(i) \subseteq 1 .. n
    <3>1. \A k \in S : k \in Nat /\ (k > j => k > i)
      BY <1>4, <2>1
    <3> QED
      BY <3>1
  <2>4. <<After(j), After(i)>> \in Smaller
    BY <2>2, <2>3 DEF StrictSubsetOrdering
  <2> QED
    BY <1>2, <1>3, <2>2, <2>4
<1>5. \A j \in S : j <= i
  BY <1>4
<1> QED
  BY <1>5

\* The latest response of a mind, if it made one of the kind at all.
LEMMA LatestMeans ==
    ASSUME TypeOK, NEW made, DOMAIN made \subseteq Places, NEW m, NEW had, NEW verdicts
    PROVE  \/ By(m, made, verdicts) = {} /\ Latest(m, had, made, verdicts) = had
           \/ \E i \in By(m, made, verdicts) :
                /\ Latest(m, had, made, verdicts) = made[i]
                /\ \A j \in By(m, made, verdicts) : j <= i
<1> DEFINE by == By(m, made, verdicts)
           last == CHOOSE i \in by : \A j \in by : j <= i
<1>1. CASE by = {}
  BY <1>1 DEF Latest
<1>2. CASE by # {}
  <2>1. by \in SUBSET (1 .. Len(pool)) /\ Len(pool) \in Nat
    BY PoolTypes DEF By
  <2>2. \E i \in by : \A j \in by : j <= i
    <3> HIDE DEF by
    <3> QED
      BY <1>2, <2>1, LastPlaceExists
  <2>3. last \in by /\ \A j \in by : j <= last
    BY <2>2
  <2>4. Latest(m, had, made, verdicts) = made[last]
    BY <1>2 DEF Latest
  <2> QED
    BY <2>3, <2>4
<1> QED
  BY <1>1, <1>2

\* What a fan-out over some places brings: one response for each, of this round.
OfThisRound(made) ==
    /\ IsScoreboard(made)
    /\ \A i \in DOMAIN made : made[i].round = round /\ made[i].place = i

LEMMA MadeOfThisRound ==
    ASSUME TypeOK, NEW places \in SUBSET Places, NEW verdicts \in [places -> Verdicts]
    PROVE  /\ OfThisRound(Made(places, verdicts)) /\ DOMAIN Made(places, verdicts) = places
           /\ \A i \in places : Made(places, verdicts)[i].verdict = verdicts[i]
<1>1. \A i \in places : i \in Nat
  BY PoolTypes
<1>2. round \in Nat
  BY RoundsAssumption DEF TypeOK
<1>3. Made(places, verdicts) \in [places -> Response]
  BY <1>1, <1>2 DEF Made, Response
<1> QED
  BY <1>3 DEF OfThisRound, IsScoreboard, Made

\* Keeping the responses of a round: what it makes of a mind's code ...
LEMMA CodeKept ==
    ASSUME IInv, NEW made, OfThisRound(made), NEW m \in Models
    PROVE  LET code == CodeOf(m, made)
               answer == Latest(m, responses[m], made, Answered) IN
           /\ code \in Response /\ answer \in Response
           /\ code.round <= round /\ answer.round <= round
           /\ code # Absent => /\ code.place \in Places /\ pool[code.place] = m
                               /\ code.verdict \in WithCode
                               /\ code.round <= answer.round
<1> DEFINE code == CodeOf(m, made)
           answer == Latest(m, responses[m], made, Answered)
<1>1. DOMAIN made \subseteq Places /\ TypeOK /\ round \in Nat
  BY RoundsAssumption DEF OfThisRound, IsScoreboard, IInv, TypeOK
<1>2. /\ codes[m] \in Response /\ responses[m] \in Response
      /\ codes[m].round <= round /\ responses[m].round <= round
      /\ codes[m] # Absent => /\ codes[m].place \in Places /\ pool[codes[m].place] = m
                              /\ codes[m].verdict \in WithCode
                              /\ codes[m].round <= responses[m].round
  BY DEF IInv, Kept, HasCode
<1>3. \A i \in DOMAIN made : made[i] \in Response /\ made[i].round = round /\ made[i].place = i
  BY DEF OfThisRound, IsScoreboard
<1>4. By(m, made, WithCode) \subseteq By(m, made, Answered)
  BY DEF By, WithCode, Answered, Verdicts
<1>5. \/ By(m, made, Answered) = {} /\ answer = responses[m]
      \/ answer \in Response /\ answer.round = round
  BY <1>1, <1>3, LatestMeans DEF By
<1>6. \/ By(m, made, WithCode) = {} /\ code = codes[m]
      \/ \E i \in By(m, made, WithCode) : code = made[i]
  BY <1>1, LatestMeans DEF CodeOf
<1>7. CASE By(m, made, WithCode) = {} /\ code = codes[m]
  <2>1. code.round <= answer.round \/ code = Absent
    BY <1>2, <1>5, <1>7
  <2> QED
    BY <1>1, <1>2, <1>5, <1>7, <2>1 DEF Response
<1>8. CASE \E i \in By(m, made, WithCode) : code = made[i]
  <2>1. PICK i \in By(m, made, WithCode) : code = made[i]
    BY <1>8
  <2>2. /\ i \in DOMAIN made /\ pool[i] = m /\ code.verdict \in WithCode
        /\ code \in Response /\ code.round = round /\ code.place = i
    BY <1>3, <2>1 DEF By
  <2>3. answer \in Response /\ answer.round = round
    BY <1>4, <1>5, <2>1
  <2> QED
    BY <1>1, <2>2, <2>3
<1> QED
  BY <1>6, <1>7, <1>8

\* ... and of all that is kept.
LEMMA KeepKeeps ==
    ASSUME IInv, NEW made, OfThisRound(made), Keep(made),
           UNCHANGED asked, round' \in Nat, round <= round'
    PROVE  /\ Kept'
           /\ passed' \subseteq Response
           /\ \A r \in passed' : r.verdict = "PASS" /\ r.round <= round'
<1>1. round \in Nat /\ UNCHANGED <<pool, Places>>
  BY RoundsAssumption DEF IInv, TypeOK, asked, Places
<1>2. Kept'
  <2>1. /\ codes' = [m \in Models |-> CodeOf(m, made)]
        /\ responses' = [m \in Models |-> Latest(m, responses[m], made, Answered)]
    BY DEF Keep
  <2>2. codes' \in [Models -> Response] /\ responses' \in [Models -> Response]
    BY <2>1, CodeKept
  <2>3. ASSUME NEW m \in Models
        PROVE  /\ codes'[m] # Absent =>
                    /\ codes'[m].place \in Places /\ pool[codes'[m].place] = m
                    /\ codes'[m].verdict \in WithCode
                    /\ codes'[m].round <= responses'[m].round
               /\ codes'[m].round <= round /\ responses'[m].round <= round
    BY <2>1, CodeKept
  <2>4. \A m \in Models : codes'[m].round \in Nat /\ responses'[m].round \in Nat
    BY <2>2 DEF Response
  <2> QED
    BY <1>1, <2>2, <2>3, <2>4 DEF Kept, HasCode
<1>3. \A r \in passed' :
        r \in passed \/ \E i \in DOMAIN made : r = made[i] /\ made[i].verdict = "PASS"
  BY DEF Keep
<1>4. \A i \in DOMAIN made : made[i] \in Response /\ made[i].round = round
  BY DEF OfThisRound, IsScoreboard
<1>5. passed \subseteq Response /\ \A r \in passed : r.verdict = "PASS" /\ r.round <= round
  BY DEF IInv, TypeOK, Told
<1>6. passed' \subseteq Response
  BY <1>3, <1>4, <1>5
<1>7. \A r \in passed' : r.verdict = "PASS" /\ r.round <= round
  BY <1>1, <1>3, <1>4, <1>5
<1>8. \A r \in passed' : r.round \in Nat
  BY <1>6 DEF Response
<1>9. \A r \in passed' : r.round <= round'
  BY <1>1, <1>7, <1>8
<1> QED
  BY <1>2, <1>6, <1>7, <1>9

-----------------------------------------------------------------------------
(* The invariant is inductive.                                             *)

LEMMA InitIInv == Init => IInv
<1> SUFFICES ASSUME Init PROVE IInv
  OBVIOUS
<1>1. PICK request \in Requests :
        pool = request.pool /\ cap = request.cap /\ interactive = request.interactive
  BY DEF Init
<1>2. [pool |-> pool, cap |-> cap, interactive |-> interactive] \in Requests
  BY <1>1, RequestsAssumption DEF Request
<1>3. Absent \in Response
  BY DEF Absent, Response, Verdicts
<1>4. TypeOK
  BY <1>2, <1>3, RoundsAssumption DEF Init, TypeOK, HasCode, IsScoreboard
<1>5. Fresh
  BY DEF Init, Fresh
<1>6. Kept
  BY <1>3 DEF Init, Kept, HasCode, Absent
<1>7. Told /\ FirstNotes /\ Published
  BY DEF Init, Told, FirstNotes, Published
<1>8. ReviewsOfTheCode /\ RevisesOnTheRecord
  BY DEF Init, ReviewsOfTheCode, RevisesOnTheRecord, NoReviews
<1> QED
  BY <1>4, <1>5, <1>6, <1>7, <1>8 DEF IInv

\* Types after a step that keeps to the request.
LEMMA TypesAgain ==
    ASSUME IInv, UNCHANGED asked, Kept', round' \in 0 .. MaxRounds + 1,
           phase' \in {"writing", "reviewing", "revising", "saving", "asking", "over",
                       "exited", "raised"},
           phase' \in {"reviewing", "revising", "saving", "asking", "over"} => round' > 0,
           IsScoreboard(rows)', IsScoreboard(saved)', passed' \subseteq Response,
           exit' \in {NoExit, 0, 1}
    PROVE  TypeOK'
<1>1. /\ \A m \in Models : codes'[m] \in Response /\ responses'[m] \in Response
      /\ \A m \in Models : HasCode(m)' =>
            /\ pool'[codes'[m].place] = m /\ codes'[m].verdict \in WithCode
            /\ codes'[m].round <= responses'[m].round
  BY DEF Kept
<1>2. \A m \in Models : codes'[m].round \in Nat /\ responses'[m].round \in Nat
  BY <1>1 DEF Response
<1>3. [pool |-> pool', cap |-> cap', interactive |-> interactive'] \in Requests
  BY DEF IInv, TypeOK, asked
<1> QED
  BY <1>1, <1>2, <1>3 DEF TypeOK

LEMMA WriteKeeps == ASSUME IInv, Write PROVE IInv'
<1>1. /\ phase = "writing" /\ round = 0 /\ round' = 1 /\ exit = NoExit
      /\ prompts = {} /\ passed = {} /\ codes = [m \in Models |-> Absent]
      /\ reviews = NoReviews
      /\ UNCHANGED <<asked, reviews, prompts, saved, exit>>
  BY DEF Write, IInv, Fresh
<1>2. PICK verdicts \in [Places -> Verdicts] :
        LET made == Made(Places, verdicts) IN
        /\ rows' = made /\ Keep(made)
        /\ phase' = IF \E i \in Places : verdicts[i] \in WithCode THEN "reviewing" ELSE "saving"
  BY DEF Write
<1> DEFINE made == Made(Places, verdicts)
<1>3. OfThisRound(made) /\ DOMAIN made = Places
  BY MadeOfThisRound DEF IInv
<1>4. rows' = made /\ Keep(made) /\ phase' \in {"reviewing", "saving"}
  BY <1>2
<1> HIDE DEF made
<1>5. UNCHANGED <<pool, cap, interactive, Places>>
  BY <1>1 DEF asked, Places
<1>6. /\ Kept' /\ passed' \subseteq Response
      /\ \A r \in passed' : r.verdict = "PASS" /\ r.round <= round'
  BY <1>1, <1>3, <1>4, KeepKeeps
<1>7. IsScoreboard(rows)' /\ IsScoreboard(saved)'
  BY <1>1, <1>3, <1>4, <1>5 DEF OfThisRound, IsScoreboard, IInv, TypeOK
<1>8. TypeOK'
  BY <1>1, <1>4, <1>6, <1>7, TypesAgain, RoundsAssumption DEF IInv, TypeOK
<1>9. Told'
  <2>1. passed' = {made[i] : i \in {j \in DOMAIN made : made[j].verdict = "PASS"}}
    BY <1>1, <1>4 DEF Keep
  <2>2. \A i \in DOMAIN made : made[i].round = 0
    BY <1>1, <1>3 DEF OfThisRound
  <2> QED
    BY <1>4, <1>6, <2>1, <2>2 DEF Told
<1>10. FirstNotes'
  <2>1. \A m \in Models : codes'[m] = Latest(m, Absent, made, WithCode)
    BY <1>1, <1>4 DEF Keep, CodeOf
  <2> QED
    BY <1>3, <1>4, <1>5, <2>1 DEF FirstNotes, Latest, By
<1>11. ReviewsOfTheCode' /\ RevisesOnTheRecord' /\ Published' /\ Fresh'
  BY <1>1, <1>4 DEF ReviewsOfTheCode, NoReviews, RevisesOnTheRecord, Published, Fresh
<1> QED
  BY <1>6, <1>8, <1>9, <1>10, <1>11 DEF IInv

\* What a step that only moves on leaves alone.
LEMMA SameRecord ==
    ASSUME IInv, UNCHANGED <<asked, report, prompts>>, round' \in Nat, round <= round'
    PROVE  /\ Kept' /\ Told' /\ RevisesOnTheRecord'
           /\ IsScoreboard(rows)' /\ passed' \subseteq Response
<1>1. round \in Nat
  BY RoundsAssumption DEF IInv, TypeOK
<1>2. UNCHANGED <<pool, Places, codes, responses, rows, passed>>
  BY DEF asked, report, Places
<1>3. /\ \A m \in Models : codes[m].round \in Nat /\ responses[m].round \in Nat
      /\ \A r \in passed : r.round \in Nat
  BY DEF IInv, TypeOK, Response
<1>4. Kept'
  BY <1>1, <1>2, <1>3 DEF IInv, Kept, HasCode
<1>5. Told'
  BY <1>1, <1>2, <1>3 DEF IInv, Told
<1>6. RevisesOnTheRecord'
  BY <1>2 DEF IInv, RevisesOnTheRecord, NamedOnce
<1>7. IsScoreboard(rows)' /\ passed' \subseteq Response
  BY <1>2 DEF IInv, TypeOK, IsScoreboard
<1> QED
  BY <1>4, <1>5, <1>6, <1>7

LEMMA ReviewKeeps == ASSUME IInv, Review PROVE IInv'
<1>1. /\ phase = "reviewing" /\ phase' = "revising" /\ exit = NoExit
      /\ UNCHANGED <<asked, round, report, prompts, saved, exit>>
  BY DEF Review, IInv, Published
<1>2. PICK heard \in SUBSET Asked :
        reviews' = [m \in Models |->
          {[critic |-> job[1], of |-> codes[m]] : job \in {h \in heard : h[2] = m}}]
  BY DEF Review
<1>3. /\ round \in Nat /\ round > 0
      /\ UNCHANGED <<pool, Places, codes, responses, rows, passed, saved>>
  BY <1>1, RoundsAssumption DEF IInv, TypeOK, asked, report, Places
<1>4. /\ Kept' /\ Told' /\ RevisesOnTheRecord'
      /\ IsScoreboard(rows)' /\ passed' \subseteq Response
  BY <1>1, <1>3, SameRecord
<1>5. TypeOK'
  <2>1. IsScoreboard(saved)'
    BY <1>3 DEF IInv, TypeOK, IsScoreboard
  <2> QED
    BY <1>1, <1>3, <1>4, <2>1, TypesAgain DEF IInv, TypeOK
<1>6. ReviewsOfTheCode'
  <2>1. ASSUME NEW m \in Models, NEW r \in reviews'[m]
        PROVE  r.of = codes'[m] /\ r.critic # m
    <3>1. PICK job \in Asked : job[2] = m /\ r = [critic |-> job[1], of |-> codes[m]]
      BY <1>2, <2>1
    <3>2. PICK i \in Critics(m) : pool[i] = job[1]
      BY <3>1 DEF Asked
    <3>3. pool[i] # m
      BY <3>2 DEF Critics, Peers
    <3> QED
      BY <1>3, <3>1, <3>2, <3>3
  <2> QED
    BY <2>1 DEF ReviewsOfTheCode
<1>7. FirstNotes'
  BY <1>1, <1>3 DEF IInv, FirstNotes, Latest, By
<1>8. Fresh' /\ Published'
  BY <1>1 DEF Fresh, Published
<1> QED
  BY <1>4, <1>5, <1>6, <1>7, <1>8 DEF IInv

\* What a mind is told in a revise round: its own code, what others said of that,
\* and the notes on it.
LEMMA PromptOnTheRecord ==
    ASSUME IInv, phase = "revising", NEW m \in Models, HasCode(m)
    PROVE  LET p == Prompt(m) IN
           /\ pool[p.code.place] = p.to
           /\ \A r \in p.reviews : r.of = p.code /\ r.critic # p.to
           /\ p.notes # Absent /\ NamedOnce(p.to) => p.notes = p.code
<1> DEFINE p == Prompt(m)
<1>1. p.to = m /\ p.code = codes[m] /\ p.notes = Notes(m)
      /\ p.reviews \subseteq reviews[m]
  BY DEF Prompt
<1>2. pool[codes[m].place] = m
  BY DEF IInv, Kept
<1>3. \A r \in p.reviews : r.of = codes[m] /\ r.critic # m
  BY <1>1 DEF IInv, ReviewsOfTheCode
<1>4. ASSUME Notes(m) # Absent, NamedOnce(m)
      PROVE  Notes(m) = codes[m]
  <2>1. round \in Nat /\ round > 0
    BY RoundsAssumption DEF IInv, TypeOK
  <2>2. round = 1 /\ Notes(m) = Latest(m, Absent, rows, Verdicts)
    BY <1>4, <2>1 DEF Notes
  <2>3. DOMAIN rows = Places /\ codes[m] = Latest(m, Absent, rows, WithCode)
    BY <2>2 DEF IInv, FirstNotes
  <2>4. TypeOK /\ DOMAIN rows \subseteq Places
    BY <2>3 DEF IInv
  <2>5. PICK i \in By(m, rows, Verdicts) : Notes(m) = rows[i]
    BY <1>4, <2>2, <2>4, LatestMeans
  <2>6. PICK j \in By(m, rows, WithCode) : codes[m] = rows[j]
    BY <2>3, <2>4, LatestMeans DEF HasCode
  <2>7. i = j
    BY <1>4, <2>4, <2>5, <2>6 DEF By, NamedOnce
  <2> QED
    BY <2>5, <2>6, <2>7
<1> HIDE DEF p
<1>5. /\ pool[p.code.place] = p.to
      /\ \A r \in p.reviews : r.of = p.code /\ r.critic # p.to
      /\ p.notes # Absent /\ NamedOnce(p.to) => p.notes = p.code
  BY <1>1, <1>2, <1>3, <1>4
<1> QED
  BY <1>5 DEF p

LEMMA ReviseKeeps == ASSUME IInv, Revise PROVE IInv'
<1>1. /\ phase = "revising" /\ phase' = "saving" /\ exit = NoExit
      /\ prompts' = {Prompt(m) : m \in {n \in Models : HasCode(n)}}
      /\ reviews' = NoReviews
      /\ UNCHANGED <<asked, round, saved, exit>>
  BY DEF Revise, IInv, Published
<1>2. PICK verdicts \in [Revisers -> Verdicts] :
        LET made == Made(Revisers, verdicts) IN Keep(made) /\ rows' = Scored(made)
  BY DEF Revise
<1> DEFINE made == Made(Revisers, verdicts)
<1>3. OfThisRound(made)
  <2>1. Revisers \in SUBSET Places
    BY DEF Revisers
  <2> QED
    BY <2>1, MadeOfThisRound DEF IInv
<1>4. Keep(made) /\ rows' = Scored(made)
  BY <1>2
<1> HIDE DEF made
<1>5. /\ round \in Nat /\ round > 0 /\ UNCHANGED <<pool, cap, interactive, Places>>
  BY <1>1, RoundsAssumption DEF IInv, TypeOK, asked, Places
<1>6. /\ Kept' /\ passed' \subseteq Response
      /\ \A r \in passed' : r.verdict = "PASS" /\ r.round <= round'
  BY <1>1, <1>3, <1>4, <1>5, KeepKeeps
<1>7. /\ \A i \in DOMAIN made : made[i].round = round
      /\ \A r \in passed : r.round <= round
      /\ passed' = passed \cup {made[i] : i \in {j \in DOMAIN made : made[j].verdict = "PASS"}}
  BY <1>3, <1>4 DEF OfThisRound, IInv, Told, Keep
<1>8. \A r \in passed' : r.round \in Nat /\ r.round <= round
  BY <1>1, <1>6 DEF Response
<1>9. ASSUME NEW i \in DOMAIN made, made[i].verdict = "PASS"
      PROVE  Told' /\ IsScoreboard(rows)'
  <2>1. rows' = made
    BY <1>4, <1>9 DEF Scored
  <2>2. rows'[i] \in passed' /\ rows'[i].round = round
    BY <1>7, <1>9, <2>1
  <2>3. \A r \in passed' : rows'[i] \in passed' /\ rows'[i].round >= r.round
    BY <1>5, <1>8, <2>2
  <2>4. Told'
    BY <1>6, <1>7, <1>9, <2>1, <2>3 DEF Told
  <2>5. IsScoreboard(rows)'
    BY <1>3, <1>5, <2>1 DEF OfThisRound, IsScoreboard
  <2> QED
    BY <2>4, <2>5
<1>10. Told' /\ IsScoreboard(rows)'
  <2>1. CASE ~\E i \in DOMAIN made : made[i].verdict = "PASS"
    <3>1. rows' = rows /\ passed' = passed
      BY <1>4, <1>7, <2>1 DEF Scored
    <3> QED
      BY <1>1, <1>5, <1>6, <3>1 DEF IInv, Told, TypeOK, IsScoreboard
  <2> QED
    BY <1>9, <2>1
<1>11. TypeOK'
  <2>1. IsScoreboard(saved)'
    BY <1>1, <1>5 DEF IInv, TypeOK, IsScoreboard
  <2> QED
    BY <1>1, <1>5, <1>6, <1>10, <2>1, TypesAgain DEF IInv, TypeOK
<1>12. RevisesOnTheRecord'
  <2>1. \A q \in prompts' : \E m \in Models : HasCode(m) /\ q = Prompt(m)
    BY <1>1
  <2>2. \A q \in prompts' :
          /\ pool[q.code.place] = q.to
          /\ \A r \in q.reviews : r.of = q.code /\ r.critic # q.to
          /\ q.notes # Absent /\ NamedOnce(q.to) => q.notes = q.code
    BY <1>1, <2>1, PromptOnTheRecord
  <2> QED
    BY <1>5, <2>2 DEF RevisesOnTheRecord, NamedOnce
<1>13. ReviewsOfTheCode' /\ FirstNotes' /\ Fresh' /\ Published'
  BY <1>1 DEF ReviewsOfTheCode, NoReviews, FirstNotes, Fresh, Published
<1> QED
  BY <1>6, <1>10, <1>11, <1>12, <1>13 DEF IInv

LEMMA SaveKeeps == ASSUME IInv, Save PROVE IInv'
<1>1. /\ phase = "saving" /\ phase' \in {"asking", "over"} /\ saved' = rows
      /\ phase' = "asking" => round <= MaxRounds
      /\ exit = NoExit /\ UNCHANGED <<asked, round, report, reviews, prompts, exit>>
  BY DEF Save, IInv, Published
<1>2. /\ round \in Nat /\ round > 0
      /\ UNCHANGED <<pool, Places, codes, responses, rows, passed>>
  BY <1>1, RoundsAssumption DEF IInv, TypeOK, asked, report, Places
<1>3. /\ Kept' /\ Told' /\ RevisesOnTheRecord'
      /\ IsScoreboard(rows)' /\ passed' \subseteq Response
  BY <1>1, <1>2, SameRecord
<1>4. TypeOK'
  <2>1. IsScoreboard(saved)'
    BY <1>1, <1>2 DEF IInv, TypeOK, IsScoreboard
  <2> QED
    BY <1>1, <1>2, <1>3, <2>1, TypesAgain DEF IInv, TypeOK
<1>5. ReviewsOfTheCode' /\ FirstNotes' /\ Fresh' /\ Published'
  BY <1>1, <1>2 DEF IInv, ReviewsOfTheCode, FirstNotes, Fresh, Published
<1> QED
  BY <1>3, <1>4, <1>5 DEF IInv

LEMMA DirectKeeps == ASSUME IInv, Direct PROVE IInv'
<1>1. /\ phase = "asking" /\ exit = NoExit /\ saved = rows /\ round <= MaxRounds
      /\ \/ phase' = "revising" /\ round' = round + 1
         \/ phase' = "over" /\ round' = round
      /\ UNCHANGED <<asked, report, reviews, prompts, saved, exit>>
  BY DEF Direct, IInv, Published
<1>2. /\ round \in Nat /\ round > 0 /\ round' \in Nat /\ round <= round'
      /\ round' \in 0 .. MaxRounds + 1
      /\ UNCHANGED <<pool, Places, codes, responses, rows, passed, saved>>
  BY <1>1, RoundsAssumption DEF IInv, TypeOK, asked, report, Places
<1>3. /\ Kept' /\ Told' /\ RevisesOnTheRecord'
      /\ IsScoreboard(rows)' /\ passed' \subseteq Response
  BY <1>1, <1>2, SameRecord
<1>4. TypeOK'
  <2>1. IsScoreboard(saved)'
    BY <1>2 DEF IInv, TypeOK, IsScoreboard
  <2>2. round' > 0 /\ phase' \in {"revising", "over"} /\ exit' \in {NoExit, 0, 1}
    BY <1>1, <1>2 DEF IInv, TypeOK
  <2> QED
    BY <1>1, <1>2, <1>3, <2>1, <2>2, TypesAgain
<1>5. ReviewsOfTheCode' /\ FirstNotes' /\ Fresh' /\ Published'
  BY <1>1, <1>2 DEF IInv, ReviewsOfTheCode, FirstNotes, Fresh, Published
<1> QED
  BY <1>3, <1>4, <1>5 DEF IInv

\* The last round with a pass in it has a row of it: the council was won exactly
\* if anybody ever passed.
LEMMA WonMeansPassed == ASSUME IInv PROVE Won <=> passed # {}
  BY DEF IInv, Told, Won

LEMMA ExitKeeps == ASSUME IInv, Exit PROVE IInv'
<1>1. /\ phase = "over" /\ phase' = "exited" /\ saved = rows
      /\ exit' = IF Won THEN 0 ELSE 1
      /\ UNCHANGED <<asked, round, report, reviews, prompts, saved>>
  BY DEF Exit, IInv, Published
<1>2. /\ round \in Nat /\ round <= round
      /\ UNCHANGED <<pool, Places, codes, responses, rows, passed, saved>>
  BY <1>1, RoundsAssumption DEF IInv, TypeOK, asked, report, Places
<1>3. /\ Kept' /\ Told' /\ RevisesOnTheRecord'
      /\ IsScoreboard(rows)' /\ passed' \subseteq Response
  BY <1>1, <1>2, SameRecord
<1>4. TypeOK'
  <2>1. IsScoreboard(saved)' /\ exit' \in {NoExit, 0, 1}
    BY <1>1, <1>2 DEF IInv, TypeOK, IsScoreboard
  <2> QED
    BY <1>1, <1>2, <1>3, <2>1, TypesAgain DEF IInv, TypeOK
<1>5. ReviewsOfTheCode' /\ FirstNotes' /\ Fresh'
  BY <1>1, <1>2 DEF IInv, ReviewsOfTheCode, FirstNotes, Fresh
<1>6. Published'
  BY <1>1, <1>2, WonMeansPassed DEF Published
<1> QED
  BY <1>3, <1>4, <1>5, <1>6 DEF IInv

LEMMA RaiseKeeps == ASSUME IInv, Raise PROVE IInv'
<1>1. /\ phase \in {"writing", "reviewing", "revising", "saving"} /\ phase' = "raised"
      /\ exit = NoExit
      /\ UNCHANGED <<asked, round, report, reviews, prompts, saved, exit>>
  BY DEF Raise, IInv, Published
<1>2. /\ round \in Nat /\ round <= round
      /\ UNCHANGED <<pool, Places, codes, responses, rows, passed, saved>>
  BY <1>1, RoundsAssumption DEF IInv, TypeOK, asked, report, Places
<1>3. /\ Kept' /\ Told' /\ RevisesOnTheRecord'
      /\ IsScoreboard(rows)' /\ passed' \subseteq Response
  BY <1>1, <1>2, SameRecord
<1>4. TypeOK'
  <2>1. IsScoreboard(saved)' /\ exit' \in {NoExit, 0, 1}
    BY <1>1, <1>2 DEF IInv, TypeOK, IsScoreboard
  <2> QED
    BY <1>1, <1>2, <1>3, <2>1, TypesAgain DEF IInv, TypeOK
<1>5. ReviewsOfTheCode' /\ FirstNotes' /\ Fresh' /\ Published'
  BY <1>1, <1>2 DEF IInv, ReviewsOfTheCode, FirstNotes, Fresh, Published
<1> QED
  BY <1>3, <1>4, <1>5 DEF IInv

LEMMA StutterKeeps == ASSUME IInv, UNCHANGED vars PROVE IInv'
<1>1. /\ UNCHANGED <<pool, cap, interactive, phase, round, codes, responses, rows, passed,
                     reviews, prompts, saved, exit>>
      /\ UNCHANGED Places
  BY DEF vars, asked, report, Places
<1>2. TypeOK'
  BY <1>1 DEF IInv, TypeOK, HasCode, IsScoreboard
<1>3. Fresh' /\ Kept' /\ Told' /\ Published'
  BY <1>1 DEF IInv, Fresh, Kept, HasCode, Told, Published
<1>4. FirstNotes' /\ ReviewsOfTheCode' /\ RevisesOnTheRecord'
  BY <1>1 DEF IInv, FirstNotes, Latest, By, ReviewsOfTheCode, RevisesOnTheRecord, NamedOnce
<1> QED
  BY <1>2, <1>3, <1>4 DEF IInv

LEMMA NextIInv == IInv /\ [Next]_vars => IInv'
  BY WriteKeeps, ReviewKeeps, ReviseKeeps, SaveKeeps, DirectKeeps, ExitKeeps,
     RaiseKeeps, StutterKeeps
  DEF Next, Ended

\* The invariant holds in every reachable state of a council.
THEOREM Inductive == Spec => []IInv
  BY InitIInv, NextIInv, PTL DEF Spec

-----------------------------------------------------------------------------
(* What follows from it.                                                   *)

\* What a council keeps has its types: codes are responses with code, each of
\* the mind it is kept for, and the human's rounds are counted.
THEOREM TypeCorrect == Spec => []TypeOK
<1>1. IInv => TypeOK
  BY DEF IInv
<1> QED
  BY <1>1, Inductive, PTL

\* A round in which nobody passes costs no earlier pass its row (run_council,
\* _cmd_collab), and the exit code is 0 exactly if some response ever passed.
THEOREM ScoreboardIsHonest == Spec => []ScoreboardTellsOfAPass
<1>1. IInv => ScoreboardTellsOfAPass
  BY DEF IInv, Told, Published, ScoreboardTellsOfAPass
<1> QED
  BY <1>1, Inductive, PTL

\* A mind revises its own code, on what others said of that very code and on the
\* verifier's notes about it (run_revise_round).
THEOREM OwnCodeIsRevised == Spec => []RevisesOnTheRecord
<1>1. IInv => RevisesOnTheRecord
  BY DEF IInv
<1> QED
  BY <1>1, Inductive, PTL

-----------------------------------------------------------------------------
(* Who reviews a mind's code (_reviewer_order and the cap).                *)

Ahead(author, i) == {j \in Peers(author) : Before(j, i)}

\* The ranking of peers is strict and total, ties being settled by the place.
LEMMA RankingIsTotal ==
    ASSUME TypeOK, NEW i \in Places, NEW j \in Places, NEW k \in Places
    PROVE  /\ ~Before(i, i)
           /\ i # j => Before(i, j) \/ Before(j, i)
           /\ Before(i, j) /\ Before(j, k) => Before(i, k)
<1>1. \A l \in Places : l \in Nat /\ Rank[pool[l]] \in Nat
  BY PoolTypes, RankAssumption
<1> QED
  BY <1>1 DEF Before

\* Fewer are ahead of a peer than of whoever it is ahead of.
LEMMA FewerAhead ==
    ASSUME TypeOK, NEW author, NEW i \in Peers(author), NEW j \in Peers(author), Before(i, j)
    PROVE  /\ IsFiniteSet(Ahead(author, j)) /\ Ahead(author, i) \subseteq Ahead(author, j)
           /\ i \in Ahead(author, j) /\ i \notin Ahead(author, i)
           /\ Cardinality(Ahead(author, i)) < Cardinality(Ahead(author, j))
<1>1. Peers(author) \subseteq Places /\ IsFiniteSet(Peers(author))
  BY PoolTypes, FS_Subset DEF Peers
<1>2. /\ Ahead(author, j) \subseteq Peers(author)
      /\ IsFiniteSet(Ahead(author, j)) /\ IsFiniteSet(Ahead(author, i))
  BY <1>1, FS_Subset DEF Ahead
<1>3. Ahead(author, i) \subseteq Ahead(author, j)
  BY <1>1, RankingIsTotal DEF Ahead
<1>4. i \in Ahead(author, j) /\ i \notin Ahead(author, i)
  BY <1>1, RankingIsTotal DEF Ahead
<1>5. /\ Cardinality(Ahead(author, i)) <= Cardinality(Ahead(author, j))
      /\ Cardinality(Ahead(author, i)) # Cardinality(Ahead(author, j))
  BY <1>2, <1>3, <1>4, FS_Subset
<1>6. Cardinality(Ahead(author, i)) \in Nat /\ Cardinality(Ahead(author, j)) \in Nat
  BY <1>2, FS_CardinalityType
<1> QED
  BY <1>2, <1>3, <1>4, <1>5, <1>6

LEMMA CriticsAre ==
    ASSUME TypeOK, NEW author
    PROVE  /\ Critics(author) \subseteq Peers(author) /\ Peers(author) \subseteq Places
           /\ IsFiniteSet(Peers(author)) /\ IsFiniteSet(Critics(author))
           /\ cap \in Nat
           /\ cap = 0 => Critics(author) = Peers(author)
           /\ cap # 0 => \A i \in Peers(author) :
                i \in Critics(author) <=> Cardinality(Ahead(author, i)) < cap
           /\ \A i \in Peers(author) :
                /\ IsFiniteSet(Ahead(author, i)) /\ Ahead(author, i) \subseteq Peers(author)
                /\ Cardinality(Ahead(author, i)) \in Nat
<1>1. Critics(author) \subseteq Peers(author) /\ Peers(author) \subseteq Places
  BY DEF Critics, Peers
<1>2. IsFiniteSet(Peers(author)) /\ IsFiniteSet(Critics(author)) /\ cap \in Nat
  BY <1>1, PoolTypes, FS_Subset
<1>3. \A i \in Peers(author) :
        IsFiniteSet(Ahead(author, i)) /\ Ahead(author, i) \subseteq Peers(author)
  BY <1>2, FS_Subset DEF Ahead
<1>4. \A i \in Peers(author) : Cardinality(Ahead(author, i)) \in Nat
  BY <1>3, FS_CardinalityType
<1> QED
  BY <1>1, <1>2, <1>3, <1>4 DEF Critics, Ahead

\* No more critics than the cap: no two have equally many ahead of them, and each
\* has fewer than the cap.
LEMMA AtMostTheCap ==
    ASSUME TypeOK, NEW author, cap # 0
    PROVE  Cardinality(Critics(author)) <= cap
<1> DEFINE f == [i \in Critics(author) |-> Cardinality(Ahead(author, i))]
<1>1. cap \in Nat /\ IsFiniteSet(0 .. cap - 1) /\ Cardinality(0 .. cap - 1) = cap
  <2>1. cap \in Nat /\ 0 \in Int /\ cap - 1 \in Int
    BY CriticsAre
  <2>2. ~(0 > cap - 1) /\ cap - 1 - 0 + 1 = cap
    BY <2>1
  <2> QED
    BY <2>1, <2>2, FS_Interval
<1>2. f \in [Critics(author) -> 0 .. cap - 1]
  BY CriticsAre
<1>3. ASSUME NEW i \in Critics(author), NEW j \in Critics(author), f[i] = f[j]
      PROVE  i = j
  <2>1. i \in Peers(author) /\ j \in Peers(author) /\ i \in Places /\ j \in Places
    BY CriticsAre
  <2>2. Cardinality(Ahead(author, i)) = Cardinality(Ahead(author, j))
    BY <1>3
  <2>3. ~Before(i, j) /\ ~Before(j, i)
    <3>1. Cardinality(Ahead(author, i)) \in Nat /\ Cardinality(Ahead(author, j)) \in Nat
      BY <2>1, CriticsAre
    <3> QED
      BY <2>1, <2>2, <3>1, FewerAhead
  <2> QED
    BY <2>1, <2>3, RankingIsTotal
<1>4. f \in Injection(Critics(author), 0 .. cap - 1)
  <2> HIDE DEF f
  <2> QED
    BY <1>2, <1>3 DEF Injection, IsInjective
<1> HIDE DEF f
<1> QED
  BY <1>1, <1>4, FS_Injection

\* Of the peers that are left out one is ahead of the others.
LEMMA FirstLeftOut ==
    ASSUME TypeOK, NEW author, Critics(author) # Peers(author)
    PROVE  \E i \in Peers(author) \ Critics(author) : Ahead(author, i) \subseteq Critics(author)
<1> DEFINE Out == Peers(author) \ Critics(author)
           Aheads == {Ahead(author, i) : i \in Out}
           Smaller == StrictSubsetOrdering(Peers(author))
<1>1. IsWellFoundedOn(Smaller, SUBSET Peers(author))
  <2>1. IsFiniteSet(Peers(author))
    BY CriticsAre
  <2> QED
    BY <2>1, FS_StrictSubsetOrderingWellFounded, FS_FiniteSubsetsOfFinite
<1>2. PICK X \in Aheads : \A Y \in Aheads : <<Y, X>> \notin Smaller
  <2>1. Aheads \subseteq SUBSET Peers(author) /\ Aheads # {}
    BY CriticsAre
  <2> HIDE DEF Aheads, Smaller
  <2> QED
    BY <1>1, <2>1, WFMin
<1>3. PICK i \in Out : X = Ahead(author, i)
  OBVIOUS
<1>4. ASSUME NEW j \in Ahead(author, i), j \in Out PROVE FALSE
  <2>1. j \in Peers(author) /\ i \in Peers(author) /\ Before(j, i)
    BY <1>3, <1>4 DEF Ahead
  <2>2. /\ Ahead(author, j) \subseteq Ahead(author, i)
        /\ j \in Ahead(author, i) /\ j \notin Ahead(author, j)
    BY <2>1, FewerAhead
  <2>3. Ahead(author, i) \subseteq Peers(author)
    BY DEF Ahead
  <2>4. <<Ahead(author, j), Ahead(author, i)>> \in Smaller
    BY <2>2, <2>3 DEF StrictSubsetOrdering
  <2>5. Ahead(author, j) \in Aheads
    BY <1>4
  <2> QED
    BY <1>2, <1>3, <2>4, <2>5
<1> QED
  BY <1>3, <1>4 DEF Ahead

\* --max-reviewers keeps the strongest critics of a mind: those it keeps rank
\* before all it leaves out, there are never more of them than the cap, and as
\* many as the cap if anybody is left out; without a cap every peer is asked.
BestCritics(author) ==
    LET critics == Critics(author)
        others == Peers(author) \ critics IN
    /\ cap = 0 => others = {}
    /\ cap # 0 => Cardinality(critics) <= cap
    /\ others # {} => Cardinality(critics) = cap
    /\ \A i \in critics, j \in others : Before(i, j)

THEOREM StrongestCriticsKept == Spec => [](\A author \in Models : BestCritics(author))
<1>1. ASSUME TypeOK, NEW author \in Models
      PROVE  BestCritics(author)
  <2> DEFINE critics == Critics(author)
             others == Peers(author) \ critics
  <2>1. cap = 0 => others = {}
    BY <1>1, CriticsAre
  <2>2. cap # 0 => Cardinality(critics) <= cap
    BY <1>1, AtMostTheCap
  <2>3. others # {} => Cardinality(critics) = cap
    <3> SUFFICES ASSUME others # {} PROVE Cardinality(critics) = cap
      OBVIOUS
    <3>1. cap # 0 /\ critics # Peers(author)
      BY <2>1
    <3>2. PICK i \in others : Ahead(author, i) \subseteq critics
      BY <1>1, <3>1, FirstLeftOut
    <3>3. /\ ~(Cardinality(Ahead(author, i)) < cap) /\ cap \in Nat
          /\ Cardinality(Ahead(author, i)) \in Nat /\ IsFiniteSet(critics)
      BY <1>1, <3>1, <3>2, CriticsAre
    <3>4. Cardinality(Ahead(author, i)) <= Cardinality(critics)
      BY <3>2, <3>3, FS_Subset
    <3>5. Cardinality(critics) \in Nat
      BY <3>3, FS_CardinalityType
    <3> HIDE DEF critics
    <3> QED
      BY <2>2, <3>1, <3>3, <3>4, <3>5
  <2>4. ASSUME NEW i \in critics, NEW j \in others
        PROVE  Before(i, j)
    <3>1. /\ i \in Peers(author) /\ j \in Peers(author) /\ i \in Places /\ j \in Places
          /\ i # j /\ cap # 0 /\ cap \in Nat
          /\ Cardinality(Ahead(author, i)) < cap /\ ~(Cardinality(Ahead(author, j)) < cap)
          /\ Cardinality(Ahead(author, i)) \in Nat /\ Cardinality(Ahead(author, j)) \in Nat
      BY <1>1, <2>1, CriticsAre
    <3>2. ~Before(j, i)
      BY <1>1, <3>1, FewerAhead
    <3> QED
      BY <1>1, <3>1, <3>2, RankingIsTotal
  <2> QED
    BY <2>1, <2>2, <2>3, <2>4 DEF BestCritics
<1>2. TypeOK => \A author \in Models : BestCritics(author)
  BY <1>1
<1> QED
  BY <1>2, TypeCorrect, PTL

-----------------------------------------------------------------------------
(* A council comes to an end.                                              *)

\* The steps a council can still take: three for each round of the human's.
StepsOf(place) == CASE place = "reviewing" -> 5
                    [] place = "revising"  -> 4
                    [] place \in {"writing", "saving"} -> 3
                    [] place = "asking"    -> 2
                    [] place = "over"      -> 1
                    [] place \in {"exited", "raised"} -> 0

Remaining == 3 * (MaxRounds + 1 - round) + StepsOf(phase)

\* MAX_INTERACTIVE_ROUNDS bounds a council: whatever the minds answer and the human
\* asks for, every step brings it nearer to its end, which is at most
\* 3 * MaxRounds + 6 steps away.
THEOREM EveryCouncilIsBounded ==
    Spec => /\ [](Remaining \in 0 .. 3 * MaxRounds + 6)
            /\ [][Remaining' < Remaining]_vars
<1>1. IInv => Remaining \in 0 .. 3 * MaxRounds + 6
  <2> SUFFICES ASSUME IInv PROVE Remaining \in 0 .. 3 * MaxRounds + 6
    OBVIOUS
  <2>1. /\ round \in 0 .. MaxRounds + 1 /\ MaxRounds \in Nat
        /\ phase \in {"reviewing", "revising"} => round > 0
    BY RoundsAssumption DEF IInv, TypeOK
  <2>2. /\ StepsOf(phase) \in 0 .. 5
        /\ StepsOf(phase) \in {4, 5} => phase \in {"reviewing", "revising"}
    BY DEF IInv, TypeOK, StepsOf
  <2> QED
    BY <2>1, <2>2 DEF Remaining
<1>2. IInv /\ [Next]_vars => [Remaining' < Remaining]_vars
  <2> SUFFICES ASSUME IInv, Next, vars' # vars
               PROVE  Remaining' < Remaining
    OBVIOUS
  <2>1. round \in Int /\ MaxRounds \in Int
    BY RoundsAssumption DEF IInv, TypeOK
  <2>2. CASE Write
    <3>1. phase = "writing" /\ phase' \in {"reviewing", "saving"} /\ round = 0 /\ round' = 1
      BY <2>2 DEF Write, IInv, Fresh
    <3> QED
      BY <2>1, <3>1 DEF Remaining, StepsOf
  <2>3. CASE Review
    BY <2>1, <2>3 DEF Review, Remaining, StepsOf
  <2>4. CASE Revise
    BY <2>1, <2>4 DEF Revise, Remaining, StepsOf
  <2>5. CASE Save
    <3>1. phase = "saving" /\ phase' \in {"asking", "over"} /\ round' = round
      BY <2>5 DEF Save
    <3> QED
      BY <2>1, <3>1 DEF Remaining, StepsOf
  <2>6. CASE Direct
    BY <2>1, <2>6 DEF Direct, Remaining, StepsOf
  <2>7. CASE Exit
    BY <2>1, <2>7 DEF Exit, Remaining, StepsOf
  <2>8. CASE Raise
    BY <2>1, <2>8 DEF Raise, Remaining, StepsOf
  <2> QED
    BY <2>2, <2>3, <2>4, <2>5, <2>6, <2>7, <2>8 DEF Next, Ended
<1> QED
  BY <1>1, <1>2, Inductive, PTL DEF Spec
=============================================================================

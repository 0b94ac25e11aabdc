--------------------------- MODULE CompareProofs ---------------------------
(***************************************************************************)
(* What a bake-off promises, for every pool, any number of workers and any *)
(* outcome of any call, and that its threads implement a round.            *)
(*                                                                         *)
(* Rows are made only once every result has been taken; from then on no    *)
(* call is queued or running, so that nothing is written in the project.   *)
(***************************************************************************)
EXTENDS Compare, FiniteSetTheorems, TLAPS

ReportType == [overallPass : BOOLEAN, verifyError : BOOLEAN, note : {"text", "bytes"}]

RowType == [of : Nat, callOk : BOOLEAN, diffFound : BOOLEAN, report : ReportType,
            tree : SUBSET Nat, soiled : SUBSET Nat]

Types == TypeOK /\ calls \in [Models -> Nat] /\ rows \in Seq(RowType)

\* What was taken was a result, and the dictionary has the last for its model.
LastKept == \A j \in 1 .. taken : call[j] \in Results /\ calls[pool[j]] >= j

Bounded == Cardinality(Are("running")) <= MaxWorkers

\* An exception cancels what is queued and waits for what runs; rows come after
\* every result.
Course ==
    /\ phase \in {"calling", "leaving"} => rows = <<>> /\ saved = "nothing"
    /\ phase = "leaving" => taken < Len(pool)
    /\ phase \in {"leaving", "aborted"} /\ taken < Len(pool) =>
         \A i \in Places : call[i] # "queued"
    /\ phase = "aborted" /\ taken < Len(pool) => \A i \in Places : call[i] # "running"
    /\ rows # <<>> => taken = Len(pool)
    /\ exit # NoExit => phase = "exited"

\* Each row says what became of the call it is about, and was judged on the
\* tree as it is.
RowsRight ==
    \A i \in 1 .. Len(rows) :
        /\ rows[i].of = calls[pool[i]]
        /\ rows[i].tree = tree
        /\ rows[i].callOk <=> call[calls[pool[i]]] # "failed"
        /\ rows[i].diffFound <=> call[calls[pool[i]]] \notin {"failed", "prose"}

\* Verifiers write in the project only from outside their copies, and a row's
\* copy has what those of the rows before it wrote.
SoilRight ==
    /\ soiled # {} => outside
    /\ phase # "aborted" => soiled \subseteq 1 .. Len(rows)
    /\ \A i \in 1 .. Len(rows) :
         /\ i \in soiled => rows[i].diffFound
         /\ rows[i].soiled = soiled \cap (1 .. (i - 1))

\* Every pass of a mind's own work is in a row, and while the verifier keeps to
\* its copies every row that passes is of such a pass.
PassedRight ==
    /\ \A c \in passed : \E i \in 1 .. Len(rows) :
         rows[i].of = c /\ Verdict(rows[i]) = "PASS"
    /\ ~outside => \A i \in 1 .. Len(rows) : Verdict(rows[i]) = "PASS" => rows[i].of \in passed

ExitRight == exit # NoExit => saved = "all" /\ (exit = 0 <=> Won)

RecordRight == RowsRight /\ SoilRight /\ PassedRight /\ ExitRight

IInv == Types /\ LastKept /\ Bounded /\ Course /\ RecordRight

-----------------------------------------------------------------------------
(* Lemmas about the parts of a state.                                      *)

LEMMA PoolTypes ==
    ASSUME pool \in Pools
    PROVE  /\ pool \in Seq(Models) /\ Len(pool) \in Nat
           /\ Places = 1 .. Len(pool) /\ IsFiniteSet(Places)
           /\ \A i \in Places : pool[i] \in Models
<1>1. pool \in Seq(Models)
  BY PoolsAssumption
<1>2. Len(pool) \in Nat /\ Places = 1 .. Len(pool) /\ \A i \in Places : pool[i] \in Models
  BY <1>1 DEF Places
<1> QED
  BY <1>1, <1>2, FS_Interval

LEMMA FewWorkers ==
    ASSUME pool \in Pools
    PROVE  Workers \in Nat /\ Workers <= MaxWorkers
<1>1. Len(pool) \in Nat
  BY PoolTypes
<1> QED
  BY <1>1, WorkersAssumption DEF Workers, AtLeast, AtMost

LEMMA RunningFinite ==
    ASSUME pool \in Pools
    PROVE  /\ IsFiniteSet(Are("running")) /\ Are("running") \subseteq Places
           /\ Cardinality(Are("running")) \in Nat
<1>1. Are("running") \subseteq Places /\ IsFiniteSet(Places)
  BY PoolTypes DEF Are
<1> QED
  BY <1>1, FS_Subset, FS_CardinalityType

\* Once the fan-out is over no call is queued or running.
LEMMA Idle ==
    ASSUME IInv, phase \notin {"calling", "leaving"}
    PROVE  \A i \in Places : call[i] \notin {"queued", "running"}
<1>1. Places = 1 .. Len(pool) /\ Len(pool) \in Nat
  BY PoolTypes DEF IInv, Types, TypeOK
<1>2. CASE taken = Len(pool)
  BY <1>1, <1>2 DEF IInv, LastKept, Results, Answers
<1>3. CASE taken # Len(pool)
  <2>1. phase = "aborted" /\ taken < Len(pool)
    BY <1>1, <1>3 DEF IInv, Types, TypeOK
  <2> QED
    BY <2>1 DEF IInv, Course
<1> QED
  BY <1>2, <1>3

\* What a round's result is: every call came to one.
LEMMA AllResults ==
    ASSUME IInv, taken = Len(pool)
    PROVE  call \in [Places -> Results]
<1>1. Places = 1 .. Len(pool) /\ Len(pool) \in Nat
  BY PoolTypes DEF IInv, Types, TypeOK
<1>2. \A i \in Places : call[i] \in Results
  BY <1>1 DEF IInv, LastKept
<1>3. call \in [Places -> Results \cup {"queued", "running", "raised", "cancelled"}]
  BY DEF IInv, Types, TypeOK
<1> QED
  BY <1>2, <1>3

LEMMA InitInvariant == Init => IInv
<1> SUFFICES ASSUME Init PROVE IInv
  OBVIOUS
<1>1. /\ pool \in Pools /\ phase = "calling" /\ call = [i \in Places |-> "queued"]
      /\ taken = 0 /\ calls = [m \in Models |-> NoCall] /\ tree = {}
      /\ mode \in {"diff", "create"} /\ outside \in BOOLEAN /\ soiled = {} /\ passed = {}
      /\ rows = <<>> /\ saved = "nothing" /\ exit = NoExit
  BY DEF Init, FanInit
<1>2. Len(pool) \in Nat
  BY <1>1, PoolTypes
<1>3. Types
  BY <1>1, <1>2 DEF Types, TypeOK, NoCall, NoExit
<1>4. Bounded
  <2>1. Are("running") = {}
    BY <1>1 DEF Are
  <2> QED
    BY <2>1, FS_EmptySet, WorkersAssumption DEF Bounded
<1>5. LastKept /\ Course /\ RecordRight
  BY <1>1 DEF LastKept, Course, RecordRight, RowsRight, SoilRight, PassedRight, ExitRight, NoExit
<1> QED
  BY <1>3, <1>4, <1>5 DEF IInv

-----------------------------------------------------------------------------
(* The workers.                                                            *)

\* A step that leaves the record alone, and the calls it is about.
LEMMA RecordKept ==
    ASSUME IInv, pool' = pool, UNCHANGED reportVars,
           phase = "aborted" => phase' = "aborted",
           phase \in {"calling", "leaving"} \/ UNCHANGED <<call, calls, tree>>
    PROVE  RecordRight'
<1>1. /\ outside' = outside /\ soiled' = soiled /\ passed' = passed /\ rows' = rows
      /\ saved' = saved /\ exit' = exit
  BY DEF reportVars, rowVars, endVars
<1>2. RowsRight'
  BY <1>1 DEF IInv, Course, RecordRight, RowsRight
<1>3. SoilRight' /\ PassedRight' /\ ExitRight'
  BY <1>1 DEF IInv, RecordRight, SoilRight, PassedRight, ExitRight, Won
<1> QED
  BY <1>2, <1>3 DEF RecordRight

\* A call that goes from queued to running, or from running to what it came to.
LEMMA CallStep ==
    ASSUME IInv, NEW i \in Places, phase \in {"calling", "leaving"},
           NEW to \in Results \cup {"running", "raised"},
           (call[i] = "queued" /\ phase = "calling") \/ call[i] = "running",
           call' = [call EXCEPT ![i] = to], Bounded',
           UNCHANGED <<pool, phase, taken, calls, tree, reportVars>>
    PROVE  IInv'
<1>1. /\ pool' = pool /\ phase' = phase /\ taken' = taken /\ calls' = calls /\ tree' = tree
      /\ mode' = mode /\ outside' = outside /\ soiled' = soiled /\ passed' = passed
      /\ rows' = rows /\ saved' = saved /\ exit' = exit /\ Places' = Places
  BY DEF Places, reportVars, rowVars, endVars
<1>2. /\ call' \in [Places -> Results \cup {"queued", "running", "raised", "cancelled"}]
      /\ call'[i] = to /\ \A j \in Places \ {i} : call'[j] = call[j]
  BY DEF IInv, Types, TypeOK
<1>3. Places = 1 .. Len(pool) /\ Len(pool) \in Nat /\ taken \in 0 .. Len(pool)
  BY PoolTypes DEF IInv, Types, TypeOK
<1>4. Types'
  BY <1>1, <1>2 DEF IInv, Types, TypeOK
<1>5. LastKept'
  <2>1. \A j \in 1 .. taken : j # i /\ j \in Places
    BY <1>3 DEF IInv, LastKept, Results, Answers
  <2> QED
    BY <1>1, <1>2, <2>1 DEF IInv, LastKept
<1>6. Course'
  BY <1>1, <1>2 DEF IInv, Course, Results, Answers
<1>7. RecordRight'
  BY <1>1, RecordKept
<1> QED
  BY <1>4, <1>5, <1>6, <1>7 DEF IInv

LEMMA StartStep ==
    ASSUME IInv, NEW i \in Places, Start(i), UNCHANGED reportVars
    PROVE  /\ IInv' /\ phase = "calling"
           /\ Are("running")' \in SUBSET Places /\ Cardinality(Are("running")') <= MaxWorkers
<1>1. /\ call[i] = "queued" /\ Cardinality(Are("running")) < Workers
      /\ call' = [call EXCEPT ![i] = "running"] /\ Places' = Places
  BY DEF Start, Places
<1>2. phase = "calling"
  BY <1>1, Idle DEF IInv, Course
<1>3. pool \in Pools /\ call \in [Places -> Results \cup {"queued", "running", "raised", "cancelled"}]
  BY DEF IInv, Types, TypeOK
<1>4. Are("running")' = Are("running") \cup {i} /\ i \notin Are("running")
  BY <1>1, <1>3 DEF Are
<1>5. Cardinality(Are("running")') = Cardinality(Are("running")) + 1
  BY <1>3, <1>4, RunningFinite, FS_AddElement
<1>6. Bounded'
  BY <1>1, <1>3, <1>5, RunningFinite, FewWorkers, WorkersAssumption DEF Bounded
<1>7. IInv'
  BY <1>1, <1>2, <1>6, CallStep DEF Start
<1>8. Are("running")' \in SUBSET Places
  BY <1>3, <1>4, RunningFinite
<1> QED
  BY <1>2, <1>6, <1>7, <1>8 DEF Bounded

LEMMA FinishStep ==
    ASSUME IInv, NEW i \in Places, Finish(i), UNCHANGED reportVars
    PROVE  /\ IInv' /\ phase \in {"calling", "leaving"}
           /\ Are("running")' \in SUBSET Places /\ Cardinality(Are("running")') <= MaxWorkers
<1>1. PICK to \in Results \cup {"raised"} : call' = [call EXCEPT ![i] = to]
  BY DEF Finish
<1>2. call[i] = "running" /\ Places' = Places
  BY DEF Finish, Places
<1>3. phase \in {"calling", "leaving"}
  BY <1>2, Idle
<1>4. pool \in Pools /\ call \in [Places -> Results \cup {"queued", "running", "raised", "cancelled"}]
  BY DEF IInv, Types, TypeOK
<1>5. Are("running")' \subseteq Are("running")
  BY <1>1, <1>2, <1>4 DEF Are, Results, Answers
<1>6. /\ Cardinality(Are("running")') <= Cardinality(Are("running"))
      /\ Cardinality(Are("running")') \in Nat
  BY <1>4, <1>5, RunningFinite, FS_Subset, FS_CardinalityType
<1>7. Bounded'
  BY <1>4, <1>6, RunningFinite, WorkersAssumption DEF IInv, Bounded
<1>8. IInv'
  BY <1>1, <1>2, <1>3, <1>7, CallStep DEF Finish
<1>9. Are("running")' \in SUBSET Places
  BY <1>4, <1>5, RunningFinite
<1> QED
  BY <1>3, <1>7, <1>8, <1>9 DEF Bounded

LEMMA WriteTreeStep ==
    ASSUME IInv, NEW i \in Places, WriteTree(i), UNCHANGED reportVars
    PROVE  IInv'
<1>1. /\ pool' = pool /\ phase' = phase /\ call' = call /\ taken' = taken /\ calls' = calls
      /\ mode' = mode /\ outside' = outside /\ soiled' = soiled /\ passed' = passed
      /\ rows' = rows /\ saved' = saved /\ exit' = exit /\ tree' = tree \cup {i}
      /\ Places' = Places /\ Are("running")' = Are("running")
  BY DEF WriteTree, Places, Are, reportVars, rowVars, endVars
<1>3. Types'
  BY <1>1 DEF IInv, Types, TypeOK
<1>4. LastKept' /\ Bounded'
  BY <1>1 DEF IInv, LastKept, Bounded
<1>5. Course'
  BY <1>1 DEF IInv, Course
<1>6. RecordRight'
  BY <1>1, Idle, RecordKept DEF WriteTree
<1> QED
  BY <1>3, <1>4, <1>5, <1>6 DEF IInv

-----------------------------------------------------------------------------
(* The main thread.                                                        *)

LEMMA TakeResultStep ==
    ASSUME IInv, TakeResult, UNCHANGED reportVars
    PROVE  IInv'
<1> DEFINE i == taken + 1
<1>1. /\ phase = "calling" /\ taken < Len(pool) /\ call[i] \in Results
      /\ calls' = [calls EXCEPT ![pool[i]] = i] /\ taken' = i
      /\ pool' = pool /\ phase' = phase /\ call' = call /\ tree' = tree
      /\ mode' = mode /\ outside' = outside /\ soiled' = soiled /\ passed' = passed
      /\ rows' = rows /\ saved' = saved /\ exit' = exit
      /\ Places' = Places /\ Are("running")' = Are("running")
  BY DEF TakeResult, Keep, Arrived, Places, Are, reportVars, rowVars, endVars
<1>2. /\ Places = 1 .. Len(pool) /\ Len(pool) \in Nat /\ taken \in 0 .. Len(pool)
      /\ \A j \in Places : pool[j] \in Models
  BY PoolTypes DEF IInv, Types, TypeOK
<1>3. i \in 1 .. Len(pool) /\ i \in Nat /\ pool[i] \in Models
  BY <1>1, <1>2
<1>4. /\ calls' \in [Models -> Nat] /\ calls'[pool[i]] = i
      /\ \A m \in Models \ {pool[i]} : calls'[m] = calls[m]
  BY <1>1, <1>3 DEF IInv, Types
<1>5. Types'
  <2>1. \A m \in Models : calls'[m] # NoCall => calls'[m] \in 1 .. i /\ pool[calls'[m]] = m
    BY <1>2, <1>3, <1>4 DEF IInv, Types, TypeOK
  <2>2. i \in 0 .. Len(pool)
    BY <1>3
  <2> QED
    BY <1>1, <1>4, <2>1, <2>2 DEF IInv, Types, TypeOK
<1>6. LastKept'
  <2> SUFFICES ASSUME NEW j \in 1 .. i PROVE call[j] \in Results /\ calls'[pool[j]] >= j
    BY <1>1 DEF LastKept
  <2>1. CASE pool[j] = pool[i]
    <3>1. call[j] \in Results
      BY <1>1, <1>2 DEF IInv, LastKept
    <3> QED
      BY <2>1, <3>1, <1>3, <1>4
  <2>2. CASE pool[j] # pool[i]
    <3>1. j \in 1 .. taken /\ pool[j] \in Models
      BY <2>2, <1>1, <1>2
    <3> QED
      BY <2>2, <3>1, <1>4 DEF IInv, LastKept
  <2> QED
    BY <2>1, <2>2
<1>7. Bounded'
  BY <1>1 DEF IInv, Bounded
<1>8. Course'
  BY <1>1 DEF IInv, Course
<1>9. RecordRight'
  BY <1>1, RecordKept
<1> QED
  BY <1>5, <1>6, <1>7, <1>8, <1>9 DEF IInv

LEMMA TakeExceptionStep ==
    ASSUME IInv, TakeException, UNCHANGED reportVars
    PROVE  IInv' /\ Are("running")' = Are("running")
<1>1. /\ phase = "calling" /\ taken < Len(pool) /\ phase' = "leaving"
      /\ call' = [j \in Places |-> IF call[j] = "queued" THEN "cancelled" ELSE call[j]]
      /\ pool' = pool /\ taken' = taken /\ calls' = calls /\ tree' = tree
      /\ mode' = mode /\ outside' = outside /\ soiled' = soiled /\ passed' = passed
      /\ rows' = rows /\ saved' = saved /\ exit' = exit /\ Places' = Places
  BY DEF TakeException, Places, reportVars, rowVars, endVars
<1>2. Places = 1 .. Len(pool) /\ Len(pool) \in Nat /\ taken \in 0 .. Len(pool)
  BY PoolTypes DEF IInv, Types, TypeOK
<1>3. call \in [Places -> Results \cup {"queued", "running", "raised", "cancelled"}]
  BY DEF IInv, Types, TypeOK
<1>4. Are("running")' = Are("running")
  BY <1>1 DEF Are
<1>5. Types'
  BY <1>1, <1>3 DEF IInv, Types, TypeOK
<1>6. LastKept'
  <2>1. \A j \in 1 .. taken : j \in Places /\ call'[j] = call[j]
    BY <1>1, <1>2 DEF IInv, LastKept, Results, Answers
  <2> QED
    BY <1>1, <2>1 DEF IInv, LastKept
<1>7. Bounded'
  BY <1>4 DEF IInv, Bounded
<1>8. Course'
  BY <1>1 DEF IInv, Course
<1>9. RecordRight'
  BY <1>1, RecordKept
<1> QED
  BY <1>4, <1>5, <1>6, <1>7, <1>8, <1>9 DEF IInv

LEMMA LeaveStep ==
    ASSUME IInv, Leave, UNCHANGED reportVars
    PROVE  IInv'
<1>1. /\ pool' = pool /\ call' = call /\ taken' = taken /\ calls' = calls /\ tree' = tree
      /\ mode' = mode /\ outside' = outside /\ soiled' = soiled /\ passed' = passed
      /\ rows' = rows /\ saved' = saved /\ exit' = exit
      /\ Places' = Places /\ Are("running")' = Are("running")
  BY DEF Leave, Places, Are, reportVars, rowVars, endVars
<1>2. \/ phase = "calling" /\ taken = Len(pool) /\ phase' = "judging"
      \/ phase = "leaving" /\ Are("running") = {} /\ phase' = "aborted"
  BY DEF Leave, AllTaken, Quiet
<1>3. taken \in 0 .. Len(pool) /\ Len(pool) \in Nat
  BY PoolTypes DEF IInv, Types, TypeOK
<1>4. Types'
  BY <1>1, <1>2 DEF IInv, Types, TypeOK
<1>5. LastKept' /\ Bounded'
  BY <1>1 DEF IInv, LastKept, Bounded
<1>6. Course'
  BY <1>1, <1>2, <1>3 DEF IInv, Course, Are
<1>7. RecordRight'
  BY <1>1, <1>2, RecordKept
<1> QED
  BY <1>4, <1>5, <1>6, <1>7 DEF IInv

\* The rows whose verifiers wrote in the project, with or without the next one.
LEMMA SoilGrows ==
    ASSUME NEW n \in Nat, NEW S \in SUBSET (1 .. n), NEW T, T = S \/ T = S \cup {n + 1}
    PROVE  /\ T \subseteq 1 .. (n + 1) /\ T \cap (1 .. n) = S
           /\ \A i \in 1 .. n : /\ i \in T <=> i \in S
                               /\ T \cap (1 .. (i - 1)) = S \cap (1 .. (i - 1))
<1>1. S \subseteq 1 .. n
  OBVIOUS
<1>2. /\ n + 1 \in 1 .. (n + 1) /\ n + 1 \notin 1 .. n
      /\ \A x \in 1 .. n : x \in 1 .. (n + 1)
  OBVIOUS
<1> DEFINE Old == 1 .. n
           New == 1 .. (n + 1)
           next == n + 1
<1> HIDE DEF Old, New, next
<1>3. S \subseteq Old /\ next \in New /\ next \notin Old /\ Old \subseteq New
  BY <1>1, <1>2 DEF Old, New, next
<1>4. T = S \/ T = S \cup {next}
  BY DEF next
<1>5. T \subseteq New /\ T \cap Old = S
  BY <1>3, <1>4
<1>6. T \subseteq 1 .. (n + 1) /\ T \cap (1 .. n) = S
  BY <1>5 DEF Old, New
<1>7. ASSUME NEW i \in 1 .. n
      PROVE  (i \in T <=> i \in S) /\ T \cap (1 .. (i - 1)) = S \cap (1 .. (i - 1))
  <2>1. i # n + 1 /\ n + 1 \notin 1 .. (i - 1)
    OBVIOUS
  <2> QED
    BY <2>1
<1> QED
  BY <1>6, <1>7

\* A row that says what became of its call, and what its verifier may do.
LEMMA RowStep ==
    ASSUME IInv, Judging, NEW ok \in BOOLEAN, NEW found \in BOOLEAN,
           NEW judged \in ReportType, AddRow(Row(ok, found, judged)),
           ok <=> Result # "failed", found <=> Result \notin {"failed", "prose"},
           judged.overallPass => ok /\ found /\ ~judged.verifyError,
           Soil, found \/ soiled' = soiled,
           passed' = IF judged.overallPass /\ ~outside THEN passed \cup {Subject} ELSE passed
    PROVE  IInv'
<1> DEFINE n == Len(rows)
           row == Row(ok, found, judged)
<1>1. /\ phase = "judging" /\ n < Len(pool) /\ rows' = Append(rows, row)
      /\ pool' = pool /\ phase' = phase /\ call' = call /\ taken' = taken
      /\ calls' = calls /\ tree' = tree /\ saved' = saved /\ exit' = exit
      /\ mode' = mode /\ outside' = outside
      /\ Places' = Places /\ Are("running")' = Are("running")
  BY DEF Judging, AddRow, fanVars, endVars, Places, Are
<1>2. /\ Places = 1 .. Len(pool) /\ Len(pool) \in Nat /\ rows \in Seq(RowType) /\ n \in Nat
      /\ \A j \in Places : pool[j] \in Models
  BY PoolTypes DEF IInv, Types, TypeOK
<1>3. /\ row.of = Subject /\ row.callOk = ok /\ row.diffFound = found
      /\ row.report = judged /\ row.tree = tree /\ row.soiled = soiled
      /\ Subject = calls[pool[n + 1]]
  BY DEF Row, Subject
<1>4. Subject \in Places
  <2>1. n + 1 \in Places /\ pool[n + 1] \in Models /\ taken = Len(pool)
    BY <1>1, <1>2 DEF IInv, Types, TypeOK
  <2>2. Subject \in Nat /\ Subject >= n + 1
    BY <1>2, <1>3, <2>1 DEF IInv, Types, LastKept
  <2> QED
    BY <1>2, <1>3, <2>1, <2>2 DEF IInv, Types, TypeOK, NoCall
<1>5. /\ soiled \subseteq 1 .. n
      /\ soiled' = soiled \/ (outside /\ found /\ soiled' = soiled \cup {n + 1})
  BY <1>1 DEF Soil, IInv, RecordRight, SoilRight
<1>6. row \in RowType
  <2>1. Subject \in Nat /\ tree \in SUBSET Nat /\ soiled \in SUBSET Nat
    BY <1>2, <1>4, <1>5 DEF IInv, Types, TypeOK
  <2> QED
    BY <2>1 DEF Row, RowType
<1> HIDE DEF row
<1>7. /\ rows' \in Seq(RowType) /\ Len(rows') = n + 1 /\ rows'[n + 1] = row
      /\ \A i \in 1 .. n : rows'[i] = rows[i]
      /\ DOMAIN rows' = 1 .. (n + 1)
  BY <1>1, <1>2, <1>6
<1>8. Types'
  <2>1. soiled' \subseteq DOMAIN rows' \cup {Len(rows') + 1}
    BY <1>2, <1>5, <1>7
  <2>2. passed' \subseteq Places
    BY <1>4 DEF IInv, Types, TypeOK
  <2> QED
    BY <1>1, <1>2, <1>7, <2>1, <2>2 DEF IInv, Types, TypeOK
<1>9. LastKept' /\ Bounded'
  BY <1>1 DEF IInv, LastKept, Bounded
<1>10. Course'
  BY <1>1 DEF IInv, Course, Types, TypeOK
<1>11. RowsRight'
  <2> SUFFICES ASSUME NEW i \in 1 .. (n + 1)
               PROVE  /\ rows'[i].of = calls[pool[i]]
                      /\ rows'[i].tree = tree
                      /\ rows'[i].callOk <=> call[calls[pool[i]]] # "failed"
                      /\ rows'[i].diffFound <=> call[calls[pool[i]]] \notin {"failed", "prose"}
    BY <1>1, <1>7 DEF RowsRight
  <2>1. CASE i = n + 1
    BY <2>1, <1>3, <1>7 DEF Result
  <2>2. CASE i # n + 1
    <3>1. i \in 1 .. n
      BY <2>2, <1>2
    <3> QED
      BY <3>1, <1>7 DEF IInv, RecordRight, RowsRight
  <2> QED
    BY <2>1, <2>2
<1>12. SoilRight'
  <2>0. /\ soiled' \subseteq 1 .. (n + 1) /\ soiled' \cap (1 .. n) = soiled
        /\ \A i \in 1 .. n : /\ i \in soiled' <=> i \in soiled
                            /\ soiled' \cap (1 .. (i - 1)) = soiled \cap (1 .. (i - 1))
    BY <1>2, <1>5, SoilGrows
  <2>1. soiled' # {} => outside
    BY <1>5 DEF IInv, RecordRight, SoilRight
  <2>2. ASSUME NEW i \in 1 .. (n + 1)
        PROVE  (i \in soiled' => rows'[i].diffFound) /\ rows'[i].soiled = soiled' \cap (1 .. (i - 1))
    <3>1. CASE i = n + 1
      <4>1. i \in soiled' => found
        <5>1. i \notin soiled
          BY <1>2, <1>5, <3>1
        <5> QED
          BY <1>5, <5>1
      <4>2. i - 1 = n
        BY <1>2, <3>1
      <4> QED
        BY <1>3, <1>7, <2>0, <3>1, <4>1, <4>2
    <3>2. CASE i # n + 1
      <4>1. i \in 1 .. n
        BY <1>2, <3>2
      <4> QED
        BY <1>7, <2>0, <4>1 DEF IInv, RecordRight, SoilRight
    <3> QED
      BY <3>1, <3>2
  <2> QED
    BY <1>1, <1>7, <2>0, <2>1, <2>2 DEF SoilRight
<1>13. PassedRight'
  <2>1. Verdict(row) = "PASS" <=> judged.overallPass
    BY <1>3 DEF Verdict
  <2>2. ASSUME NEW c \in passed'
        PROVE  \E i \in 1 .. (n + 1) : rows'[i].of = c /\ Verdict(rows'[i]) = "PASS"
    <3>1. CASE c \in passed
      <4>1. PICK i \in 1 .. n : rows[i].of = c /\ Verdict(rows[i]) = "PASS"
        BY <3>1 DEF IInv, RecordRight, PassedRight
      <4>2. i \in 1 .. (n + 1) /\ rows'[i] = rows[i]
        BY <1>2, <1>7
      <4> QED
        BY <4>1, <4>2
    <3>2. CASE c \notin passed
      <4>1. c = Subject /\ judged.overallPass
        BY <3>2
      <4>2. n + 1 \in 1 .. (n + 1)
        BY <1>2
      <4> QED
        BY <1>3, <1>7, <2>1, <4>1, <4>2
    <3> QED
      BY <3>1, <3>2
  <2>3. ASSUME ~outside, NEW i \in 1 .. (n + 1), Verdict(rows'[i]) = "PASS"
        PROVE  rows'[i].of \in passed'
    <3>1. CASE i = n + 1
      BY <1>3, <1>7, <2>1, <2>3, <3>1
    <3>2. CASE i # n + 1
      <4>1. i \in 1 .. n /\ rows'[i] = rows[i]
        BY <1>2, <1>7, <3>2
      <4> QED
        BY <2>3, <4>1 DEF IInv, RecordRight, PassedRight
    <3> QED
      BY <3>1, <3>2
  <2> QED
    BY <1>1, <1>7, <2>2, <2>3 DEF PassedRight
<1>14. ExitRight'
  BY <1>1 DEF IInv, Course, ExitRight, NoExit
<1> QED
  BY <1>8, <1>9, <1>10, <1>11, <1>12, <1>13, <1>14 DEF IInv, RecordRight

\* A step that touches neither calls nor rows: an exception, a file, the exit.
LEMMA EndStep ==
    ASSUME IInv, phase = "judging", phase' \in {"judging", "exited", "aborted"},
           UNCHANGED <<pool, call, taken, calls, tree, mode, outside, passed, rows>>,
           soiled' = soiled \/ (Soil /\ phase' = "aborted" /\ Len(rows) < Len(pool)),
           saved' \in {"nothing", "responses", "all"}, exit' \in {NoExit, 0, 1},
           exit' # NoExit => phase' = "exited" /\ saved' = "all" /\ (exit' = 0 <=> Won)
    PROVE  IInv'
<1>1. /\ pool' = pool /\ call' = call /\ taken' = taken /\ calls' = calls /\ tree' = tree
      /\ mode' = mode /\ outside' = outside /\ passed' = passed
      /\ rows' = rows /\ Places' = Places /\ Are("running")' = Are("running")
  BY DEF Places, Are
<1>2. taken = Len(pool) /\ Len(pool) \in Nat /\ Len(rows) \in Nat
  BY PoolTypes DEF IInv, Types, TypeOK
<1>3. /\ soiled \subseteq 1 .. Len(rows)
      /\ \/ soiled' = soiled
         \/ outside /\ phase' = "aborted" /\ soiled' = soiled \cup {Len(rows) + 1}
  BY DEF Soil, IInv, RecordRight, SoilRight
<1>4. Types'
  <2>1. soiled' \subseteq DOMAIN rows \cup {Len(rows) + 1}
    <3>1. DOMAIN rows = 1 .. Len(rows)
      BY DEF IInv, Types
    <3> QED
      BY <1>3, <3>1
  <2> QED
    BY <1>1, <1>2, <2>1 DEF IInv, Types, TypeOK
<1>5. LastKept' /\ Bounded' /\ RowsRight' /\ PassedRight'
  BY <1>1 DEF IInv, RecordRight, LastKept, Bounded, RowsRight, PassedRight
<1>6. Course'
  BY <1>1, <1>2 DEF IInv, Course
<1>7. SoilRight'
  <2>1. \A i \in 1 .. Len(rows) : /\ i \in soiled' <=> i \in soiled
                                  /\ soiled' \cap (1 .. (i - 1)) = soiled \cap (1 .. (i - 1))
    BY <1>2, <1>3, SoilGrows
  <2>2. soiled' # {} => outside
    BY <1>3 DEF IInv, RecordRight, SoilRight
  <2>3. phase' # "aborted" => soiled' \subseteq 1 .. Len(rows)
    BY <1>3
  <2> QED
    BY <1>1, <2>1, <2>2, <2>3 DEF IInv, RecordRight, SoilRight
<1>8. ExitRight'
  BY <1>1 DEF ExitRight, Won
<1> QED
  BY <1>4, <1>5, <1>6, <1>7, <1>8 DEF IInv, RecordRight

LEMMA JudgeStep == ASSUME IInv, Judge PROVE IInv'
<1>1. /\ NotVerified \in ReportType /\ ~NotVerified.overallPass
      /\ VerifyReports \subseteq ReportType
      /\ \A judged \in VerifyReports : judged.overallPass => ~judged.verifyError
  <2>1. NotVerified \in ReportType /\ ~NotVerified.overallPass
    BY DEF NotVerified, ReportType
  <2>2. [overallPass |-> TRUE, verifyError |-> FALSE, note |-> "text"] \in ReportType
    BY DEF ReportType
  <2>3. [overallPass : {FALSE}, verifyError : BOOLEAN, note : {"text"}] \subseteq ReportType
    BY DEF ReportType
  <2>4. [overallPass : {FALSE}, verifyError : {TRUE}, note : {"bytes"}] \subseteq ReportType
    BY DEF ReportType
  <2>5. \A judged \in VerifyReports : judged.overallPass => ~judged.verifyError
    <3>1. \A judged \in [overallPass : {FALSE}, verifyError : BOOLEAN, note : {"text"}] :
            ~judged.overallPass
      OBVIOUS
    <3>2. \A judged \in [overallPass : {FALSE}, verifyError : {TRUE}, note : {"bytes"}] :
            ~judged.overallPass
      OBVIOUS
    <3>3. [overallPass |-> TRUE, verifyError |-> FALSE, note |-> "text"].verifyError = FALSE
      OBVIOUS
    <3> QED
      BY <3>1, <3>2, <3>3, Zenon DEF VerifyReports
  <2> QED
    BY <2>1, <2>2, <2>3, <2>4, <2>5 DEF VerifyReports
<1>2. Soil <=> soiled' = soiled \/ (outside /\ soiled' = soiled \cup {Len(rows) + 1})
  BY DEF Soil
<1>3. CASE CallFailed
  BY <1>1, <1>2, <1>3, RowStep DEF CallFailed, AddUnverified
<1>4. CASE NoDiff
  BY <1>1, <1>2, <1>4, RowStep DEF NoDiff, AddUnverified
<1>5. CASE NotApplied
  BY <1>1, <1>2, <1>5, RowStep DEF NotApplied, AddUnverified
<1>6. CASE Verified
  <2>1. PICK judged \in VerifyReports :
          /\ AddRow(Row(TRUE, TRUE, judged))
          /\ passed' = IF judged.overallPass /\ ~outside THEN passed \cup {Subject} ELSE passed
    BY <1>6 DEF Verified
  <2>2. Judging /\ Soil /\ Result \in {"patch", "misfit"}
    BY <1>6 DEF Verified, ToVerify
  <2> QED
    BY <1>1, <2>1, <2>2, RowStep
<1>7. CASE JudgeRaises
  <2>1. exit = NoExit /\ saved \in {"nothing", "responses", "all"}
    BY <1>7 DEF JudgeRaises, Judging, IInv, Course, Types, TypeOK
  <2> QED
    BY <1>7, <2>1, EndStep DEF JudgeRaises, Judging, Abort, endVars, NoExit
<1> QED
  BY <1>3, <1>4, <1>5, <1>6, <1>7 DEF Judge

LEMMA ReportSteps == ASSUME IInv, Report PROVE IInv'
<1>0. phase = "judging" /\ exit = NoExit /\ saved \in {"nothing", "responses", "all"}
  BY DEF Report, SaveResponses, SaveScoreboard, SaveRaises, Exit, IInv, Course, Types, TypeOK
<1>1. CASE SaveResponses
  BY <1>0, <1>1, EndStep DEF SaveResponses, fanVars, rowVars, NoExit
<1>2. CASE SaveScoreboard
  BY <1>0, <1>2, EndStep DEF SaveScoreboard, fanVars, rowVars, NoExit
<1>3. CASE SaveRaises
  BY <1>0, <1>3, EndStep DEF SaveRaises, Abort, endVars, NoExit
<1>4. CASE Exit
  BY <1>0, <1>4, EndStep DEF Exit, rowVars, NoExit
<1> QED
  BY <1>1, <1>2, <1>3, <1>4 DEF Report

LEMMA Stutter == ASSUME IInv, UNCHANGED vars PROVE IInv'
<1>1. /\ pool' = pool /\ phase' = phase /\ call' = call /\ taken' = taken /\ calls' = calls
      /\ mode' = mode /\ outside' = outside /\ soiled' = soiled /\ passed' = passed
      /\ tree' = tree /\ rows' = rows /\ saved' = saved /\ exit' = exit
      /\ Places' = Places /\ Are("running")' = Are("running")
  BY DEF vars, fanVars, reportVars, rowVars, endVars, Places, Are
<1>2. RecordRight'
  BY <1>1, RecordKept DEF reportVars, rowVars, endVars
<1> QED
  BY <1>1, <1>2 DEF IInv, Types, TypeOK, LastKept, Bounded, Course

-----------------------------------------------------------------------------
(* The theorems.                                                           *)

LEMMA NextStep == ASSUME IInv, [Next]_vars PROVE IInv'
<1>1. CASE Collect /\ UNCHANGED reportVars
  BY <1>1, TakeResultStep, TakeExceptionStep, LeaveStep DEF Collect
<1>2. CASE Judge
  BY <1>2, JudgeStep
<1>3. CASE Report
  BY <1>3, ReportSteps
<1>4. ASSUME NEW i \in Places, WorkerThread(i) PROVE IInv'
  BY <1>4, StartStep, FinishStep, WriteTreeStep DEF WorkerThread, Worker
<1>5. CASE UNCHANGED vars
  BY <1>5, Stutter
<1> QED
  BY <1>1, <1>2, <1>3, <1>4, <1>5 DEF Next, MainThread

\* The inductive invariant of a bake-off: rows come after the last result, and
\* no call is left to change what they say or the tree they were judged on.
THEOREM Inductive == Spec => []IInv
<1>1. Init => IInv
  BY InitInvariant
<1>2. IInv /\ [Next]_vars => IInv'
  BY NextStep
<1> QED
  BY <1>1, <1>2, PTL DEF Spec

\* Types of the bake-off's state; what the dictionary has for a model is a call
\* to it.
THEOREM TypeCorrect == Spec => []TypeOK
<1>1. IInv => TypeOK
  BY DEF IInv, Types
<1> QED
  BY <1>1, Inductive, PTL

LEMMA LastCallKept ==
    ASSUME IInv, taken = Len(pool), NEW i \in Places
    PROVE  calls[pool[i]] = LastPlace(pool[i])
<1> DEFINE c == calls[pool[i]]
<1>1. /\ Places = 1 .. Len(pool) /\ Len(pool) \in Nat
      /\ \A j \in Places : pool[j] \in Models
  BY PoolTypes DEF IInv, Types, TypeOK
<1>2. \A j \in Places : calls[pool[j]] >= j /\ calls[pool[j]] \in Nat
  BY <1>1 DEF IInv, LastKept, Types
<1>3. c \in Places /\ pool[c] = pool[i]
  BY <1>1, <1>2 DEF IInv, Types, TypeOK, NoCall
<1>4. \A j \in Places : pool[j] = pool[i] => j <= c
  BY <1>1, <1>2
<1>5. \A k \in Places :
        pool[k] = pool[i] /\ (\A j \in Places : pool[j] = pool[i] => j <= k) => k = c
  BY <1>1, <1>3, <1>4
<1> HIDE DEF c
<1>6. c = LastPlace(pool[i])
  BY <1>3, <1>4, <1>5 DEF LastPlace
<1> QED
  BY <1>6 DEF c

\* The scoreboard is of the pool, place by place, whatever order calls end in.
THEOREM RowsAreOfThePool == Spec => []RowsOfThePool
<1>1. IInv => RowsOfThePool
  <2> SUFFICES ASSUME IInv, NEW i \in DOMAIN rows
               PROVE  LET c == LastPlace(pool[i]) IN
                      /\ rows[i].of = c
                      /\ Verdict(rows[i]) = "CALL_FAIL" <=> call[c] = "failed"
                      /\ Verdict(rows[i]) = "NO_DIFF" <=> call[c] = "prose"
    BY DEF RowsOfThePool
  <2>1. /\ DOMAIN rows = 1 .. Len(rows) /\ Len(rows) \in Nat /\ Len(rows) <= Len(pool)
        /\ Places = 1 .. Len(pool) /\ Len(pool) \in Nat
    BY PoolTypes DEF IInv, Types, TypeOK
  <2>2. i \in Places /\ taken = Len(pool)
    BY <2>1 DEF IInv, Course
  <2>3. calls[pool[i]] = LastPlace(pool[i])
    BY <2>2, LastCallKept
  <2>4. /\ rows[i].of = calls[pool[i]]
        /\ rows[i].callOk <=> call[calls[pool[i]]] # "failed"
        /\ rows[i].diffFound <=> call[calls[pool[i]]] \notin {"failed", "prose"}
    BY <2>1 DEF IInv, RecordRight, RowsRight
  <2>5. /\ Verdict(rows[i]) = "CALL_FAIL" <=> ~rows[i].callOk
        /\ Verdict(rows[i]) = "NO_DIFF" <=> rows[i].callOk /\ ~rows[i].diffFound
    BY DEF Verdict
  <2> QED
    BY <2>3, <2>4, <2>5
<1> QED
  BY <1>1, Inductive, PTL

\* All rows are judged on one tree: no call writes in the project by then, and
\* what a verifier outside its copy writes is in the copies of later rows alone.
THEOREM OneTree == Spec => []JudgedOnOneTree
<1>1. IInv => JudgedOnOneTree
  <2> SUFFICES ASSUME IInv, NEW i \in DOMAIN rows, NEW j \in DOMAIN rows, i < j
               PROVE  /\ rows[i].tree = rows[j].tree
                      /\ rows[i].soiled \subseteq rows[j].soiled
                      /\ rows[j].soiled \ rows[i].soiled \subseteq
                           {k \in i .. j - 1 : outside /\ rows[k].diffFound}
    BY DEF JudgedOnOneTree
  <2>1. DOMAIN rows = 1 .. Len(rows) /\ Len(rows) \in Nat
    BY DEF IInv, Types
  <2>2. rows[i].tree = tree /\ rows[j].tree = tree
    BY <2>1 DEF IInv, RecordRight, RowsRight
  <2>3. rows[i].soiled = soiled \cap (1 .. (i - 1)) /\ rows[j].soiled = soiled \cap (1 .. (j - 1))
    BY <2>1 DEF IInv, RecordRight, SoilRight
  <2>4. rows[i].soiled \subseteq rows[j].soiled
    BY <2>1, <2>3
  <2>5. ASSUME NEW k \in rows[j].soiled \ rows[i].soiled
        PROVE  k \in i .. j - 1 /\ outside /\ rows[k].diffFound
    <3>1. k \in i .. j - 1 /\ k \in soiled /\ k \in 1 .. Len(rows)
      BY <2>1, <2>3
    <3> QED
      BY <3>1 DEF IInv, RecordRight, SoilRight
  <2> QED
    BY <2>2, <2>4, <2>5
<1> QED
  BY <1>1, Inductive, PTL

\* An exit code is the word of a report on disk, 0 for every mind the verifier
\* passed; while the verifier keeps to its copies, 0 says that the work of the
\* last call for a mind was passed.
THEOREM ZeroIsAReportedPass == Spec => []ExitZeroIsAReportedPass
<1>1. IInv => ExitZeroIsAReportedPass
  <2> SUFFICES ASSUME IInv, exit # NoExit
               PROVE  /\ saved = "all"
                      /\ passed # {} => exit = 0
                      /\ exit = 0 /\ ~outside =>
                           \E i \in DOMAIN rows : /\ Verdict(rows[i]) = "PASS"
                                                  /\ rows[i].of \in passed
                                                  /\ rows[i].of = LastPlace(pool[i])
    BY DEF ExitZeroIsAReportedPass
  <2>1. /\ DOMAIN rows = 1 .. Len(rows) /\ Len(rows) <= Len(pool) /\ Len(rows) \in Nat
        /\ Places = 1 .. Len(pool) /\ Len(pool) \in Nat /\ taken = Len(pool)
    BY PoolTypes DEF IInv, Types, TypeOK, Course
  <2>2. saved = "all" /\ (exit = 0 <=> Won)
    BY DEF IInv, RecordRight, ExitRight
  <2>3. passed # {} => Won
    BY <2>1 DEF IInv, RecordRight, PassedRight, Won
  <2>4. ASSUME exit = 0, ~outside
        PROVE  \E i \in DOMAIN rows : /\ Verdict(rows[i]) = "PASS"
                                      /\ rows[i].of \in passed
                                      /\ rows[i].of = LastPlace(pool[i])
    <3>1. PICK i \in DOMAIN rows : Verdict(rows[i]) = "PASS"
      BY <2>2, <2>4 DEF Won
    <3>2. rows[i].of \in passed /\ rows[i].of = calls[pool[i]]
      BY <2>1, <2>4, <3>1 DEF IInv, RecordRight, RowsRight, PassedRight
    <3>3. calls[pool[i]] = LastPlace(pool[i])
      BY <2>1, LastCallKept
    <3> QED
      BY <3>1, <3>2, <3>3
  <2> QED
    BY <2>2, <2>3, <2>4
<1> QED
  BY <1>1, Inductive, PTL

\* What a round is to its caller does not change once it is over.
LEMMA OverIsOver ==
    ASSUME IInv, phase \notin {"calling", "leaving"}, phase' \notin {"calling", "leaving"},
           UNCHANGED <<pool, call, taken>>
    PROVE  UNCHANGED OneRound!vars
BY DEF OneRound!vars, State, AllTaken, Are, Places

\* Counting is the same in both modules.
LEMMA SameCount == ASSUME NEW S PROVE OneRound!Cardinality(S) = Cardinality(S)
BY DEF OneRound!Cardinality, OneRound!IsFiniteSet, Cardinality, IsFiniteSet

\* While calls go on there is nothing but the calls in flight.
LEMMA StillCalling ==
    ASSUME phase \in {"calling", "leaving"}, phase' \in {"calling", "leaving"}, pool' = pool,
           \/ Are("running")' = Are("running")
           \/ Are("running")' \in SUBSET Places /\ Cardinality(Are("running")') <= MaxWorkers
    PROVE  [OneRound!Next]_(OneRound!vars)
<1>1. State = "calling" /\ State' = "calling"
  BY DEF State
<1> QED
  BY <1>1, SameCount DEF OneRound!Next, OneRound!Work, OneRound!vars, Places

LEMMA RoundStep == ASSUME IInv, [Next]_vars PROVE [OneRound!Next]_(OneRound!vars)
<1>1. CASE TakeResult
  <2>1. phase = "calling" /\ phase' = phase /\ pool' = pool /\ Are("running")' = Are("running")
    BY <1>1 DEF TakeResult, Are, Places
  <2> QED
    BY <2>1, StillCalling
<1>2. CASE TakeException /\ UNCHANGED reportVars
  <2>1. phase = "calling" /\ phase' = "leaving" /\ pool' = pool
    BY <1>2 DEF TakeException
  <2> QED
    BY <1>2, <2>1, TakeExceptionStep, StillCalling
<1>3. CASE Leave
  <2>1. /\ pool' = pool /\ call' = call /\ taken' = taken /\ Are("running")' = Are("running")
    BY <1>3 DEF Leave, Are, Places
  <2>2. CASE phase = "calling" /\ AllTaken /\ phase' = "judging"
    <3>1. State = "calling" /\ State' = "returned"
      BY <2>1, <2>2 DEF State, AllTaken
    <3>2. call \in [Places -> Results]
      BY <2>2, AllResults DEF AllTaken
    <3>3. Are("running") = {}
      BY <3>2 DEF Are, Results, Answers
    <3> QED
      BY <2>1, <3>1, <3>2, <3>3 DEF OneRound!Next, OneRound!Return, Places
  <2>3. CASE phase = "leaving" /\ Quiet /\ phase' = "aborted"
    <3>1. taken # Len(pool)
      BY <2>3, PoolTypes DEF IInv, Course, Types, TypeOK
    <3>2. State = "calling" /\ State' = "raised"
      BY <2>1, <2>3, <3>1 DEF State, AllTaken
    <3> QED
      BY <2>1, <2>3, <3>2 DEF Quiet, OneRound!Next, OneRound!Raise
  <2> QED
    BY <1>3, <2>2, <2>3 DEF Leave
<1>4. CASE Judge \/ Report
  <2>1. /\ phase = "judging" /\ phase' \in {"judging", "exited", "aborted"}
        /\ pool' = pool /\ call' = call /\ taken' = taken
    BY <1>4 DEF Judge, Report, CallFailed, NoDiff, NotApplied, Verified, JudgeRaises, Judging,
       AddUnverified, AddRow, Abort, SaveResponses, SaveScoreboard, SaveRaises, Exit, fanVars
  <2> QED
    BY <2>1, OverIsOver
<1>5. ASSUME NEW i \in Places, WorkerThread(i) PROVE [OneRound!Next]_(OneRound!vars)
  <2>1. CASE Start(i)
    <3>1. phase' = phase /\ pool' = pool
      BY <2>1 DEF Start
    <3> QED
      BY <1>5, <2>1, <3>1, StartStep, StillCalling DEF WorkerThread
  <2>2. CASE Finish(i)
    <3>1. phase' = phase /\ pool' = pool
      BY <2>2 DEF Finish
    <3> QED
      BY <1>5, <2>2, <3>1, FinishStep, StillCalling DEF WorkerThread
  <2>3. CASE WriteTree(i)
    <3>1. pool' = pool /\ phase' = phase /\ call' = call /\ taken' = taken
      BY <2>3 DEF WriteTree
    <3> QED
      BY <3>1 DEF OneRound!vars, State, AllTaken, Are, Places
  <2> QED
    BY <1>5, <2>1, <2>2, <2>3 DEF WorkerThread, Worker
<1>6. CASE UNCHANGED vars
  BY <1>6 DEF vars, fanVars, OneRound!vars, State, AllTaken, Are, Places
<1> QED
  BY <1>1, <1>2, <1>3, <1>4, <1>5, <1>6 DEF Next, MainThread, Collect

\* The threads implement a round: never more calls in flight than workers, a
\* result for every place or an exception, and nothing in flight afterwards.
THEOREM ThreadsAreOneRound == Spec => FanOutIsOneRound
<1>1. Init => OneRound!Init
  BY DEF Init, FanInit, OneRound!Init, State, Are
<1>2. IInv /\ [Next]_vars => [OneRound!Next]_(OneRound!vars)
  BY RoundStep
<1> QED
  BY <1>1, <1>2, Inductive, PTL DEF Spec, FanOutIsOneRound, OneRound!Spec

-----------------------------------------------------------------------------
(* A bake-off comes to an end.                                             *)

\* What is still before a bake-off: calls that have not started, calls that have not
\* ended, agents that may still write, results to take, places to judge, and the
\* stages of the main thread.
NotStarted == Are("queued")
NotEnded == Are("queued") \cup Are("running")
NotWritten == Places \ tree

StagesLeft == CASE phase = "calling"                        -> 4
                [] phase = "judging" /\ saved = "nothing"   -> 3
                [] phase = "judging" /\ saved = "responses" -> 2
                [] phase = "judging" /\ saved = "all"       -> 1
                [] phase = "leaving"                        -> 1
                [] phase \in {"exited", "aborted"}          -> 0

CallsLeft == Cardinality(NotStarted) + Cardinality(NotEnded) + Cardinality(NotWritten)
MainLeft == (Len(pool) - taken) + (Len(pool) - Len(rows)) + StagesLeft

Remaining == CallsLeft + MainLeft

\* No part of it grows, and one shrinks.
Progress ==
    /\ pool' = pool
    /\ NotStarted' \subseteq NotStarted /\ NotEnded' \subseteq NotEnded
    /\ NotWritten' \subseteq NotWritten
    /\ taken' >= taken /\ Len(rows') >= Len(rows) /\ StagesLeft' <= StagesLeft
    /\ \/ NotStarted' # NotStarted \/ NotEnded' # NotEnded \/ NotWritten' # NotWritten
       \/ taken' # taken \/ Len(rows') # Len(rows) \/ StagesLeft' # StagesLeft

LEMMA CountPlaces ==
    ASSUME pool \in Pools, NEW S \in SUBSET Places
    PROVE  IsFiniteSet(S) /\ Cardinality(S) \in 0 .. Len(pool)
<1>1. Places = 1 .. Len(pool) /\ Len(pool) \in Nat /\ IsFiniteSet(Places)
  BY PoolTypes
<1>2. Cardinality(1 .. Len(pool)) = IF 1 > Len(pool) THEN 0 ELSE Len(pool) - 1 + 1
  BY <1>1, FS_Interval
<1>3. Cardinality(Places) = Len(pool)
  BY <1>1, <1>2
<1>4. IsFiniteSet(S) /\ Cardinality(S) <= Cardinality(Places)
  BY <1>1, FS_Subset
<1>5. Cardinality(S) \in Nat
  BY <1>4, FS_CardinalityType
<1> QED
  BY <1>1, <1>3, <1>4, <1>5

\* Each part is a number.
Counts ==
    /\ Len(pool) \in Nat
    /\ Cardinality(NotStarted) \in 0 .. Len(pool)
    /\ Cardinality(NotEnded) \in 0 .. Len(pool)
    /\ Cardinality(NotWritten) \in 0 .. Len(pool)
    /\ taken \in 0 .. Len(pool) /\ Len(rows) \in 0 .. Len(pool)
    /\ StagesLeft \in 0 .. 4
    /\ IsFiniteSet(NotStarted) /\ IsFiniteSet(NotEnded) /\ IsFiniteSet(NotWritten)

LEMMA CountsHold == ASSUME IInv PROVE Counts
<1>1. /\ NotStarted \in SUBSET Places /\ NotEnded \in SUBSET Places
      /\ NotWritten \in SUBSET Places
  BY DEF NotStarted, NotEnded, NotWritten, Are
<1>2. pool \in Pools
  BY DEF IInv, Types, TypeOK
<1>3. taken \in 0 .. Len(pool) /\ Len(rows) \in 0 .. Len(pool) /\ Len(pool) \in Nat
  BY <1>2, PoolTypes DEF IInv, Types, TypeOK
<1>4. StagesLeft \in 0 .. 4
  BY DEF IInv, Types, TypeOK, StagesLeft
<1> QED
  BY <1>1, <1>2, <1>3, <1>4, CountPlaces DEF Counts

LEMMA SmallerSum ==
    ASSUME NEW a \in Int, NEW b \in Int, NEW c \in Int, NEW d \in Int,
           c <= a, d <= b, c < a \/ d < b
    PROVE  c + d < a + b
  OBVIOUS

LEMMA SmallerRest ==
    ASSUME NEW n \in Int, NEW t \in Int, NEW r \in Int, NEW k \in Int,
           NEW t2 \in Int, NEW r2 \in Int, NEW k2 \in Int, t2 >= t, r2 >= r, k2 <= k
    PROVE  /\ (n - t2) + (n - r2) + k2 <= (n - t) + (n - r) + k
           /\ t2 # t \/ r2 # r \/ k2 # k =>
                (n - t2) + (n - r2) + k2 < (n - t) + (n - r) + k
  OBVIOUS

LEMMA ProgressCounts ==
    ASSUME Counts, Counts', Progress
    PROVE  Remaining' < Remaining
<1>1. \A S, T : IsFiniteSet(S) /\ T \subseteq S =>
        /\ Cardinality(T) <= Cardinality(S)
        /\ T # S => Cardinality(T) # Cardinality(S)
  BY FS_Subset
<1>2. /\ Cardinality(NotStarted)' <= Cardinality(NotStarted)
      /\ NotStarted' # NotStarted => Cardinality(NotStarted)' # Cardinality(NotStarted)
  BY <1>1 DEF Counts, Progress
<1>3. /\ Cardinality(NotEnded)' <= Cardinality(NotEnded)
      /\ NotEnded' # NotEnded => Cardinality(NotEnded)' # Cardinality(NotEnded)
  BY <1>1 DEF Counts, Progress
<1>4. /\ Cardinality(NotWritten)' <= Cardinality(NotWritten)
      /\ NotWritten' # NotWritten => Cardinality(NotWritten)' # Cardinality(NotWritten)
  BY <1>1 DEF Counts, Progress
<1>5. /\ Cardinality(NotStarted)' \in Int /\ Cardinality(NotEnded)' \in Int
      /\ Cardinality(NotWritten)' \in Int /\ taken' \in Int /\ Len(rows') \in Int
      /\ StagesLeft' \in Int
  BY DEF Counts
<1>6. /\ Cardinality(NotStarted) \in Int /\ Cardinality(NotEnded) \in Int
      /\ Cardinality(NotWritten) \in Int /\ taken \in Int /\ Len(rows) \in Int
      /\ StagesLeft \in Int /\ Len(pool) \in Int
  BY DEF Counts
<1>7. /\ Len(pool') = Len(pool)
      /\ taken' >= taken /\ Len(rows') >= Len(rows) /\ StagesLeft' <= StagesLeft
  BY DEF Progress
<1>8. \/ Cardinality(NotStarted)' # Cardinality(NotStarted)
      \/ Cardinality(NotEnded)' # Cardinality(NotEnded)
      \/ Cardinality(NotWritten)' # Cardinality(NotWritten)
      \/ taken' # taken \/ Len(rows') # Len(rows) \/ StagesLeft' # StagesLeft
  BY <1>2, <1>3, <1>4 DEF Progress
<1>9. /\ CallsLeft \in Int /\ CallsLeft' \in Int /\ CallsLeft' <= CallsLeft
      /\ Cardinality(NotStarted)' # Cardinality(NotStarted) => CallsLeft' < CallsLeft
      /\ Cardinality(NotEnded)' # Cardinality(NotEnded) => CallsLeft' < CallsLeft
      /\ Cardinality(NotWritten)' # Cardinality(NotWritten) => CallsLeft' < CallsLeft
  BY <1>2, <1>3, <1>4, <1>5, <1>6 DEF CallsLeft
<1>10. /\ MainLeft \in Int /\ MainLeft' \in Int /\ MainLeft' <= MainLeft
       /\ taken' # taken => MainLeft' < MainLeft
       /\ Len(rows') # Len(rows) => MainLeft' < MainLeft
       /\ StagesLeft' # StagesLeft => MainLeft' < MainLeft
  <2>1. /\ MainLeft = (Len(pool) - taken) + (Len(pool) - Len(rows)) + StagesLeft
        /\ MainLeft' = (Len(pool) - taken') + (Len(pool) - Len(rows')) + StagesLeft'
    BY <1>7 DEF MainLeft
  <2>2. MainLeft \in Int /\ MainLeft' \in Int
    BY <1>5, <1>6, <2>1
  <2> QED
    BY <1>5, <1>6, <1>7, <2>1, <2>2, SmallerRest
<1>11. CallsLeft' < CallsLeft \/ MainLeft' < MainLeft
  BY <1>8, <1>9, <1>10
<1> QED
  BY <1>9, <1>10, <1>11, SmallerSum, Zenon DEF Remaining

LEMMA WorkerProgress ==
    ASSUME IInv, NEW i \in Places, WorkerThread(i), vars' # vars
    PROVE  Progress
<1>1. /\ call \in [Places -> Results \cup {"queued", "running", "raised", "cancelled"}]
      /\ tree \subseteq Places /\ taken \in Int /\ Len(rows) \in Int /\ StagesLeft \in Int
  BY CountsHold DEF Counts, IInv, Types, TypeOK
<1>2. /\ pool' = pool /\ taken' = taken /\ rows' = rows /\ Places' = Places
      /\ StagesLeft' = StagesLeft
  BY DEF WorkerThread, Worker, Start, Finish, WriteTree, Places, StagesLeft, reportVars,
         rowVars, endVars
<1>3. CASE Start(i)
  <2>1. call[i] = "queued" /\ call' = [call EXCEPT ![i] = "running"] /\ tree' = tree
    BY <1>3 DEF Start
  <2>2. NotStarted' = NotStarted \ {i} /\ i \in NotStarted
    BY <1>1, <1>2, <2>1 DEF NotStarted, Are
  <2>3. NotEnded' = NotEnded /\ NotWritten' = NotWritten
    BY <1>1, <1>2, <2>1 DEF NotEnded, NotWritten, Are
  <2> QED
    BY <1>1, <1>2, <2>2, <2>3 DEF Progress
<1>4. CASE Finish(i)
  <2>1. PICK how \in Results \cup {"raised"} : call' = [call EXCEPT ![i] = how]
    BY <1>4 DEF Finish
  <2>2. call[i] = "running" /\ tree' = tree /\ how \notin {"queued", "running"}
    BY <1>4 DEF Finish, Results, Answers
  <2>3. NotEnded' = NotEnded \ {i} /\ i \in NotEnded
    BY <1>1, <1>2, <2>1, <2>2 DEF NotEnded, Are
  <2>4. NotStarted' = NotStarted /\ NotWritten' = NotWritten
    BY <1>1, <1>2, <2>1, <2>2 DEF NotStarted, NotWritten, Are
  <2> QED
    BY <1>1, <1>2, <2>3, <2>4 DEF Progress
<1>5. CASE WriteTree(i)
  <2>1. /\ call' = call /\ tree' = tree \cup {i} /\ phase' = phase /\ calls' = calls
        /\ UNCHANGED reportVars
    BY <1>5 DEF WriteTree, WorkerThread
  <2>2. i \notin tree
    BY <1>2, <2>1 DEF vars, fanVars
  <2>3. NotStarted' = NotStarted /\ NotEnded' = NotEnded
    BY <1>2, <2>1 DEF NotStarted, NotEnded, Are
  <2>4. NotWritten' = NotWritten \ {i} /\ i \in NotWritten
    BY <1>2, <2>1, <2>2 DEF NotWritten
  <2> QED
    BY <1>1, <1>2, <2>3, <2>4 DEF Progress
<1> QED
  BY <1>3, <1>4, <1>5 DEF WorkerThread, Worker

LEMMA MainProgress ==
    ASSUME IInv, MainThread
    PROVE  Progress
<1>1. /\ call \in [Places -> Results \cup {"queued", "running", "raised", "cancelled"}]
      /\ taken \in Int /\ Len(rows) \in Int /\ StagesLeft \in Int
      /\ saved \in {"nothing", "responses", "all"}
  BY CountsHold DEF Counts, IInv, Types, TypeOK
<1>2. pool' = pool /\ tree' = tree /\ Places' = Places /\ NotWritten' = NotWritten
  BY DEF MainThread, Collect, TakeResult, TakeException, Leave, Judge, Report, CallFailed,
         NoDiff, NotApplied, Verified, JudgeRaises, AddUnverified, AddRow, Abort,
         SaveResponses, SaveScoreboard, SaveRaises, Exit, fanVars, Places, NotWritten
<1>3. ASSUME call' = call PROVE NotStarted' = NotStarted /\ NotEnded' = NotEnded
  BY <1>2, <1>3 DEF NotStarted, NotEnded, Are
<1>4. ASSUME call' = call, taken' = taken, rows' = rows, StagesLeft' < StagesLeft,
             StagesLeft' \in Int
      PROVE  Progress
  BY <1>1, <1>2, <1>3, <1>4 DEF Progress
<1>5. CASE TakeResult /\ UNCHANGED reportVars
  <2>1. taken' = taken + 1 /\ call' = call /\ rows' = rows /\ StagesLeft' = StagesLeft
    BY <1>5 DEF TakeResult, StagesLeft, reportVars, rowVars, endVars
  <2> QED
    BY <1>1, <1>2, <1>3, <2>1 DEF Progress
<1>6. CASE TakeException /\ UNCHANGED reportVars
  <2>1. /\ phase = "calling" /\ phase' = "leaving" /\ taken' = taken /\ rows' = rows
        /\ call' = [i \in Places |-> IF call[i] = "queued" THEN "cancelled" ELSE call[i]]
    BY <1>6 DEF TakeException, reportVars, rowVars
  <2>2. StagesLeft' = 1 /\ StagesLeft = 4
    BY <2>1 DEF StagesLeft
  <2>3. NotStarted' \subseteq NotStarted /\ NotEnded' \subseteq NotEnded
    BY <1>2, <2>1 DEF NotStarted, NotEnded, Are
  <2> QED
    BY <1>1, <1>2, <2>1, <2>2, <2>3 DEF Progress
<1>7. CASE Leave /\ UNCHANGED reportVars
  <2>1. /\ call' = call /\ taken' = taken /\ rows' = rows /\ saved' = saved
        /\ \/ phase = "calling" /\ phase' = "judging"
           \/ phase = "leaving" /\ phase' = "aborted"
    BY <1>7 DEF Leave, reportVars, rowVars, endVars
  <2>2. StagesLeft' < StagesLeft /\ StagesLeft' \in Int
    BY <1>1, <2>1 DEF StagesLeft
  <2> QED
    BY <1>4, <2>1, <2>2
<1>8. ASSUME NEW row, AddRow(row) PROVE Progress
  <2>1. /\ Len(rows') = Len(rows) + 1 /\ call' = call /\ taken' = taken
        /\ StagesLeft' = StagesLeft
    BY <1>8 DEF AddRow, fanVars, endVars, IInv, Types, StagesLeft
  <2> QED
    BY <1>1, <1>2, <1>3, <2>1 DEF Progress
<1>9. CASE JudgeRaises
  <2>1. phase = "judging" /\ phase' = "aborted" /\ call' = call /\ taken' = taken /\ rows' = rows
    BY <1>9 DEF JudgeRaises, Judging, Abort, endVars
  <2>2. StagesLeft' < StagesLeft /\ StagesLeft' \in Int
    BY <1>1, <2>1 DEF StagesLeft
  <2> QED
    BY <1>4, <2>1, <2>2
<1>10. CASE Report
  <2>1. /\ phase = "judging" /\ call' = call /\ taken' = taken /\ rows' = rows
        /\ \/ phase' \in {"exited", "aborted"}
           \/ phase' = "judging" /\ saved = "nothing" /\ saved' = "responses"
           \/ phase' = "judging" /\ saved = "responses" /\ saved' = "all"
    BY <1>10 DEF Report, SaveResponses, SaveScoreboard, SaveRaises, Abort, Exit, fanVars, rowVars, endVars
  <2>2. StagesLeft' < StagesLeft /\ StagesLeft' \in Int
    BY <1>1, <2>1 DEF StagesLeft
  <2> QED
    BY <1>4, <2>1, <2>2
<1> QED
  BY <1>5, <1>6, <1>7, <1>8, <1>9, <1>10
  DEF MainThread, Collect, Judge, CallFailed, NoDiff, NotApplied, AddUnverified, Verified

\* Every step of a bake-off, of its main thread or of a worker, brings it nearer to
\* its end, whatever the calls come to and in whatever order: of five parts none is
\* longer than the pool, and the main thread has four stages.
THEOREM EveryBakeOffIsBounded ==
    Spec => /\ [](Remaining \in 0 .. 5 * Len(pool) + 4)
            /\ [][Remaining' < Remaining]_vars
<1>1. IInv => Counts
  BY CountsHold
<1>2. Counts => Remaining \in 0 .. 5 * Len(pool) + 4
  <2>1. \A n \in Nat : \A a, b, c, d, e \in 0 .. n : \A k \in 0 .. 4 :
          a + b + c + ((n - d) + (n - e) + k) \in 0 .. 5 * n + 4
    OBVIOUS
  <2> QED
    BY <2>1 DEF Counts, Remaining, CallsLeft, MainLeft
<1>3. IInv /\ Counts /\ Counts' /\ [Next]_vars => [Remaining' < Remaining]_vars
  <2> SUFFICES ASSUME IInv, Counts, Counts', Next, vars' # vars PROVE Progress
    BY ProgressCounts
  <2> QED
    BY MainProgress, WorkerProgress DEF Next
<1> QED
  BY <1>1, <1>2, <1>3, Inductive, PTL DEF Spec
=============================================================================

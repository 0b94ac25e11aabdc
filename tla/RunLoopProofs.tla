--------------------------- MODULE RunLoopProofs ---------------------------
(***************************************************************************)
(* Safety of `council run` for every registry, every task and every way    *)
(* the calls can turn out: what the classifier's functions return, the     *)
(* inductive invariant of the loop and what follows from it, and that the  *)
(* loop implements the escalation state machine.                           *)
(***************************************************************************)
EXTENDS RunLoop, FiniteSetTheorems, SequenceTheorems, WellFoundedInduction, TLAPS

-----------------------------------------------------------------------------
(* What the selection functions of the classifier return.                  *)

\* An entry of a well-formed registry has integer keys to be ranked by.
LEMMA EntryKeys ==
    ASSUME NEW reg \in RegistryType, NEW m \in Models(reg)
    PROVE  reg[m] \in Entry /\ reg[m].quality \in Int /\ reg[m].cost \in Nat /\ m \in Nat
<1>1. reg[m] \in Entry /\ m \in Nat
  BY DEF RegistryType, Models
<1> QED
  BY <1>1 DEF Entry, Unranked

\* The order max(key=_score_key) ranks by is total ...
LEMMA RankTotal ==
    ASSUME NEW reg \in RegistryType, NEW m \in Models(reg), NEW n \in Models(reg)
    PROVE  /\ ~OutrankedBy(reg, m, m)
           /\ m # n => OutrankedBy(reg, m, n) \/ OutrankedBy(reg, n, m)
           /\ ~(OutrankedBy(reg, m, n) /\ OutrankedBy(reg, n, m))
  BY EntryKeys DEF OutrankedBy, Beats

\* ... and transitive: who is not outranked by n, where n is not outranked
\* by k, is not outranked by k.
LEMMA RankTransitive ==
    ASSUME NEW reg \in RegistryType,
           NEW k \in Models(reg), NEW m \in Models(reg), NEW n \in Models(reg),
           ~OutrankedBy(reg, m, n), ~OutrankedBy(reg, n, k)
    PROVE  ~OutrankedBy(reg, m, k)
  BY EntryKeys DEF OutrankedBy, Beats

\* max() is well defined (classifier.py, select_model): among the models of a
\* registry every non-empty pool has one best model, ...
THEOREM BestExists ==
    ASSUME NEW reg \in RegistryType, NEW pool \in SUBSET Models(reg), pool # {}
    PROVE  Best(reg, pool) # {}
<1> DEFINE Smaller == StrictSubsetOrdering(Models(reg))
           Bad == {S \in SUBSET Models(reg) : S # {} /\ Best(reg, S) = {}}
<1>1. SUFFICES ASSUME Bad # {} PROVE FALSE
  OBVIOUS
<1>2. IsFiniteSet(Models(reg))
  <2>1. Models(reg) = 1 .. Len(reg) /\ Len(reg) \in Nat
    BY DEF Models, RegistryType
  <2> QED
    BY <2>1, FS_Interval
<1>3. IsWellFoundedOn(Smaller, SUBSET Models(reg))
  BY <1>2, FS_StrictSubsetOrderingWellFounded, FS_FiniteSubsetsOfFinite
<1>4. PICK S \in Bad : \A X \in Bad : <<X, S>> \notin Smaller
  <2>1. Bad \subseteq SUBSET Models(reg)
    OBVIOUS
  <2> HIDE DEF Bad, Smaller
  <2> QED
    BY <1>1, <1>3, <2>1, WFMin
<1>5. PICK m \in S : TRUE
  OBVIOUS
<1> DEFINE Rest == S \ {m}
<1>6. S \in SUBSET Models(reg) /\ m \in Models(reg) /\ Rest \in SUBSET Models(reg)
  OBVIOUS
<1>7. CASE Rest = {}
  <2>1. m \in Best(reg, S)
    BY <1>6, <1>7, RankTotal DEF Best
  <2> QED
    BY <2>1
<1>8. CASE Rest # {}
  <2>1. <<Rest, S>> \in Smaller
    BY <1>6 DEF StrictSubsetOrdering
  <2>2. Best(reg, Rest) # {}
    BY <1>4, <1>6, <1>8, <2>1
  <2>3. PICK b \in Best(reg, Rest) : TRUE
    BY <2>2
  <2>4. /\ b \in Rest /\ b \in Models(reg)
        /\ \A n \in Rest : ~OutrankedBy(reg, b, n)
    BY <1>6, <2>3 DEF Best
  <2>5. CASE OutrankedBy(reg, b, m)
    <3>1. ~OutrankedBy(reg, m, b) /\ ~OutrankedBy(reg, m, m)
      BY <1>6, <2>4, <2>5, RankTotal
    <3>2. \A n \in Rest : ~OutrankedBy(reg, m, n)
      BY <1>6, <2>4, <3>1, RankTransitive
    <3>3. m \in Best(reg, S)
      BY <3>1, <3>2 DEF Best
    <3> QED
      BY <3>3
  <2>6. CASE ~OutrankedBy(reg, b, m)
    <3>1. b \in Best(reg, S)
      BY <2>4, <2>6 DEF Best
    <3> QED
      BY <3>1
  <2> QED
    BY <2>5, <2>6
<1> QED
  BY <1>7, <1>8

\* ... and only one: the choice depends on the registry alone, never on the
\* order a pool is walked in.
THEOREM BestUnique ==
    ASSUME NEW reg \in RegistryType, NEW pool \in SUBSET Models(reg),
           NEW m \in Best(reg, pool), NEW n \in Best(reg, pool)
    PROVE  m = n
  BY RankTotal DEF Best

\* select_model raises NoEligibleModelError exactly when no entry qualifies.
THEOREM SelectionFails ==
    ASSUME NEW reg \in RegistryType, NEW caps, NEW tier
    PROVE  SelectModel(reg, caps, tier) = {}
             <=> Available(reg, EligibleFor(reg, caps, tier)) = {}
<1>1. Available(reg, EligibleFor(reg, caps, tier)) \in SUBSET Models(reg)
  BY DEF Available, EligibleFor
<1> QED
  BY <1>1, BestExists DEF SelectModel, Best

\* A model that is selected qualifies: it has every capability asked for, is
\* distrusted for none, has its key and is of the tier asked for.
THEOREM SelectedQualifies ==
    ASSUME NEW reg \in RegistryType, NEW caps, NEW tier,
           NEW m \in SelectModel(reg, caps, tier)
    PROVE  /\ m \in Models(reg)
           /\ m \in Available(reg, EligibleFor(reg, caps, tier))
           /\ Trusted(reg[m], caps) /\ HasApiKey(reg[m])
           /\ tier \in {AnyTier, reg[m].tier}
  BY DEF SelectModel, Best, Available, EligibleFor

\* On the command line a task is never a retry and is cross-file exactly when
\* it touches several files (task.py, build_task), so its size alone never
\* makes it complex: only a security keyword on a cross-file task skips the
\* free tier.
THEOREM OnlySecuritySkipsFreeTier ==
    ASSUME NEW tsk \in TaskType, ~tsk.retry, tsk.cross <=> tsk.files > 1,
           ClassifyComplexity(tsk) = "complex"
    PROVE  tsk.security /\ tsk.cross
<1>1. /\ tsk.files \in Nat /\ tsk.lines \in Nat
      /\ tsk.cross \in BOOLEAN /\ tsk.security \in BOOLEAN
  BY DEF TaskType
<1>2. ComplexityScore(tsk) >= 50 /\ ComplexityScore(tsk) \in Int
  <2>1. AtMost(tsk.files, 10) \in 0 .. 10 /\ AtMost(tsk.lines \div 20, 10) \in 0 .. 10
    <3>1. tsk.lines \div 20 \in Nat
      BY <1>1
    <3> QED
      BY <1>1, <3>1 DEF AtMost
  <2>2. ComplexityScore(tsk) \in Int
    BY <1>1, <2>1 DEF ComplexityScore, Signal
  <2> QED
    BY <2>2 DEF ClassifyComplexity
<1>3. AtMost(tsk.files, 10) <= 10 /\ AtMost(tsk.files, 10) \in Int
  BY <1>1 DEF AtMost
<1>4. AtMost(tsk.lines \div 20, 10) <= 10 /\ AtMost(tsk.lines \div 20, 10) \in Int
  BY <1>1 DEF AtMost
<1>5. tsk.security
  BY <1>1, <1>2, <1>3, <1>4 DEF ComplexityScore, Signal
<1>6. tsk.cross
  <2>1. SUFFICES ASSUME ~tsk.cross PROVE FALSE
    BY <1>1
  <2>2. AtMost(tsk.files, 10) <= 1
    BY <1>1, <2>1 DEF AtMost
  <2> QED
    BY <1>1, <1>2, <1>3, <1>4, <2>1, <2>2 DEF ComplexityScore, Signal
<1> QED
  BY <1>5, <1>6

\* The chosen model is one of the pool, and none of the pool scores higher.
LEMMA BestQuality ==
    ASSUME NEW reg \in RegistryType, NEW pool \in SUBSET Models(reg),
           NEW m \in Best(reg, pool)
    PROVE  m \in pool /\ \A n \in pool : reg[n].quality <= reg[m].quality
<1>1. m \in pool /\ \A n \in pool : ~OutrankedBy(reg, m, n)
  BY DEF Best
<1> QED
  BY <1>1, EntryKeys DEF OutrankedBy, Beats

Qualifying(reg, tsk, tier) ==
    Available(reg, EligibleFor(reg, RequiredCapabilities(tsk), tier))

\* decide_next case by case: the verdict on the last attempt, the free retry,
\* the escalation.
LEMMA Decisions ==
    ASSUME NEW reg, NEW tsk, NEW att,
           NEW step \in DecideNext(tsk, reg, att)
    PROVE  \/ /\ Last(att).verifyError
              /\ step = [state |-> "VERIFY_ERROR", model |-> NoModel]
           \/ /\ ~Last(att).verifyError /\ Last(att).passed
              /\ step = [state |-> "DONE", model |-> NoModel]
           \/ /\ ~Last(att).verifyError /\ ~Last(att).passed
              /\ \/ /\ StrongTried(reg, att)
                    /\ step = [state |-> "HUMAN_REVIEW", model |-> NoModel]
                 \/ /\ ~StrongTried(reg, att)
                    /\ Len(att) = 1
                    /\ step.state = "RUNNING"
                    /\ step.model \in Best(reg, RetryPool(reg, tsk, att))
                 \/ /\ ~StrongTried(reg, att)
                    /\ Len(att) # 1 \/ RetryPool(reg, tsk, att) = {}
                    /\ step.state = "ESCALATED"
                    /\ step.model \in SelectModel(reg, RequiredCapabilities(tsk), "paid")
<1>1. CASE Last(att).verifyError
  BY <1>1 DEF DecideNext, Verdict
<1>2. CASE ~Last(att).verifyError /\ Last(att).passed
  BY <1>2 DEF DecideNext, Verdict
<1>3. CASE ~Last(att).verifyError /\ ~Last(att).passed
  BY <1>3 DEF DecideNext, AfterFailure, Verdict, TryNext, OneFreeFailure
<1> QED
  BY <1>1, <1>2, <1>3

\* decide_next raises NoEligibleModelError only after a failed attempt, with
\* no paid model that qualifies and no free one left for a retry.
LEMMA NoDecision ==
    ASSUME NEW reg \in RegistryType, NEW tsk, NEW att,
           DecideNext(tsk, reg, att) = {}
    PROVE  /\ ~Last(att).verifyError /\ ~Last(att).passed
           /\ ~StrongTried(reg, att)
           /\ Qualifying(reg, tsk, "paid") = {}
           /\ Len(att) = 1 => RetryPool(reg, tsk, att) = {}
<1>1. ~Last(att).verifyError /\ ~Last(att).passed
  BY DEF DecideNext, Verdict
<1>2. ~StrongTried(reg, att)
  BY <1>1 DEF DecideNext, AfterFailure, Verdict
<1>3. RetryPool(reg, tsk, att) \in SUBSET Models(reg)
  BY DEF RetryPool, Available, EligibleFor
<1>4. Len(att) = 1 => RetryPool(reg, tsk, att) = {}
  BY <1>1, <1>2, <1>3, BestExists DEF DecideNext, AfterFailure, TryNext, OneFreeFailure
<1>5. SelectModel(reg, RequiredCapabilities(tsk), "paid") = {}
  BY <1>1, <1>2, <1>4 DEF DecideNext, AfterFailure, TryNext, OneFreeFailure
<1> QED
  BY <1>1, <1>2, <1>4, <1>5, SelectionFails DEF Qualifying

-----------------------------------------------------------------------------
(* The inductive invariant of the loop.                                    *)

\* The models asked before the i-th attempt of att.
Earlier(att, i) == {att[k].model : k \in 1 .. i - 1}

\* What makes m a legitimate i-th model to ask.
Askable(reg, tsk, att, m, i) ==
    /\ i \in 1 .. 3
    /\ m \in Models(reg) /\ m \notin Earlier(att, i)
    /\ RequiredCapabilities(tsk) \subseteq reg[m].caps \ reg[m].distrust
    /\ reg[m].auth # "missing"
    /\ \A n \in Qualifying(reg, tsk, reg[m].tier) \ Earlier(att, i) :
          reg[n].quality <= reg[m].quality
    /\ i = 3 => ~IsFree(reg, m)
    /\ ~IsFree(reg, m) =>
          \/ ClassifyComplexity(tsk) = "complex"
          \/ i = 3
          \/ Qualifying(reg, tsk, "free") \subseteq Earlier(att, i)

FailedFree(reg, a) == IsFree(reg, a.model) /\ ~a.passed /\ ~a.verifyError

\* Nothing is recorded before the first attempt ...
FreshStart == pc \in {"select", "asis"} => attempts = <<>>

\* ... and nothing is delivered before the run ends.
Undelivered ==
    pc # "exited" => /\ final = NoPatch /\ tree = Original
                     /\ outcome = Running /\ exit = 0

\* Who is about to be asked is the right model to ask, ...
CurrentAskable ==
    pc \in {"asis", "attempt"} =>
        Askable(registry, task, attempts, current, Len(attempts) + 1)

\* ... as was everybody who has been asked.
AllAskable ==
    \A i \in DOMAIN attempts : Askable(registry, task, attempts, attempts[i].model, i)

\* An attempt of the current model is there to be decided on.
SomethingToDecide ==
    pc = "decide" => attempts # <<>> /\ Last(attempts).model = current

\* Only free models that failed on their merits have a successor.
EarlierFailedFree ==
    \A i \in DOMAIN attempts :
        i < Len(attempts) \/ pc = "attempt" => FailedFree(registry, attempts[i])

\* vreport is the report the last attempt was made from.
ReportOfLast ==
    IF attempts = <<>> THEN report = NoReport
    ELSE Last(attempts) = Attempt(Last(attempts).model, report)

\* A passing attempt has left its diff, judged, at the end of diffs.
PassIsDelivered ==
    pc = "decide" /\ Passes(report) =>
        /\ diffs # <<>>
        /\ Last(diffs).patch = Len(attempts)
        /\ project.outside \/ [patch |-> Len(attempts), on |-> touched] \in verified

IInv == /\ TypeOK
        /\ FreshStart /\ Undelivered
        /\ CurrentAskable /\ AllAskable /\ SomethingToDecide /\ EarlierFailedFree
        /\ ReportOfLast /\ PassIsDelivered
        /\ DeliveredAsVerified
        /\ ExitMatchesEvidence /\ ChainExhausted

-----------------------------------------------------------------------------
(* Choosing a model.                                                       *)

\* The assumptions on the constants, for the registry and task of a run.
LEMMA InputTypes ==
    ASSUME TypeOK
    PROVE  registry \in RegistryType /\ task \in TaskType
  BY RegistriesAssumption, TasksAssumption DEF TypeOK

LEMMA QualifyingModels ==
    ASSUME NEW reg, NEW tsk, NEW tier, NEW m \in Qualifying(reg, tsk, tier)
    PROVE  /\ m \in Models(reg)
           /\ RequiredCapabilities(tsk) \subseteq reg[m].caps \ reg[m].distrust
           /\ reg[m].auth # "missing"
           /\ tier \in {AnyTier, reg[m].tier}
  BY DEF Qualifying, Available, EligibleFor, Trusted, HasApiKey

LEMMA QualifyingAnyTier ==
    ASSUME NEW reg, NEW tsk, NEW tier
    PROVE  Qualifying(reg, tsk, tier) \subseteq Qualifying(reg, tsk, AnyTier)
  BY DEF Qualifying, Available, EligibleFor

LEMMA TierNotAny ==
    ASSUME NEW reg \in RegistryType, NEW m \in Models(reg)
    PROVE  reg[m].tier \in Tiers /\ reg[m].tier # AnyTier
  BY EntryKeys DEF Entry, Tiers, AnyTier

\* The first model (select_initial_model) is a right one to ask.
LEMMA InitialAskable ==
    ASSUME NEW reg \in RegistryType, NEW tsk, NEW att,
           NEW m \in SelectInitialModel(reg, tsk)
    PROVE  Askable(reg, tsk, att, m, 1)
<1>1. Earlier(att, 1) = {}
  BY DEF Earlier
<1>2. \A tier : SelectModel(reg, RequiredCapabilities(tsk), tier)
                  = Best(reg, Qualifying(reg, tsk, tier))
  BY DEF SelectModel, Qualifying
<1>3. \A tier : Qualifying(reg, tsk, tier) \in SUBSET Models(reg)
  BY QualifyingModels
<1>4. ASSUME NEW tier, m \in SelectModel(reg, RequiredCapabilities(tsk), tier)
      PROVE  /\ m \in Qualifying(reg, tsk, tier)
             /\ \A n \in Qualifying(reg, tsk, tier) : reg[n].quality <= reg[m].quality
  BY <1>2, <1>3, <1>4, BestQuality
<1>5. PICK tier \in {"paid", "free", AnyTier} :
        /\ m \in SelectModel(reg, RequiredCapabilities(tsk), tier)
        /\ tier = "paid" => ClassifyComplexity(tsk) = "complex"
        /\ tier = AnyTier => SelectModel(reg, RequiredCapabilities(tsk), "free") = {}
  <2> DEFINE caps == RequiredCapabilities(tsk)
  <2>1. CASE ClassifyComplexity(tsk) = "complex"
    BY <2>1 DEF SelectInitialModel, AnyTier
  <2>2. CASE ClassifyComplexity(tsk) # "complex" /\ SelectModel(reg, caps, "free") # {}
    BY <2>2 DEF SelectInitialModel, AnyTier
  <2>3. CASE ClassifyComplexity(tsk) # "complex" /\ SelectModel(reg, caps, "free") = {}
    BY <2>3 DEF SelectInitialModel, AnyTier
  <2> QED
    BY <2>1, <2>2, <2>3
<1>6. /\ m \in Models(reg)
      /\ RequiredCapabilities(tsk) \subseteq reg[m].caps \ reg[m].distrust
      /\ reg[m].auth # "missing"
      /\ tier \in {AnyTier, reg[m].tier}
  BY <1>4, <1>5, QualifyingModels
<1>7. \A n \in Qualifying(reg, tsk, reg[m].tier) : reg[n].quality <= reg[m].quality
  BY <1>4, <1>5, <1>6, QualifyingAnyTier
<1>8. ~IsFree(reg, m) => \/ ClassifyComplexity(tsk) = "complex"
                         \/ Qualifying(reg, tsk, "free") \subseteq Earlier(att, 1)
  <2>1. CASE tier = AnyTier
    BY <1>1, <1>5, <2>1, SelectionFails DEF Qualifying
  <2>2. CASE tier # AnyTier
    BY <1>5, <1>6, <2>2 DEF IsFree
  <2> QED
    BY <2>1, <2>2
<1> QED
  BY <1>1, <1>6, <1>7, <1>8 DEF Askable

\* While every attempt was free, and no third one was, whoever decide_next
\* names next is a right one to ask, and at most two were asked before.
LEMMA NextAskable ==
    ASSUME NEW reg \in RegistryType, NEW tsk, NEW att \in Seq(AttemptType), att # <<>>,
           \A i \in DOMAIN att : Askable(reg, tsk, att, att[i].model, i),
           NEW step \in DecideNext(tsk, reg, att),
           step.state \in {"RUNNING", "ESCALATED"}
    PROVE  /\ Len(att) \in 1 .. 2
           /\ ~Last(att).verifyError /\ ~Last(att).passed
           /\ \A i \in DOMAIN att : IsFree(reg, att[i].model)
           /\ Askable(reg, tsk, att, step.model, Len(att) + 1)
<1> DEFINE n == Len(att)
           m == step.model
           caps == RequiredCapabilities(tsk)
<1>1. n \in Nat \ {0} /\ DOMAIN att = 1 .. n
  BY EmptySeq, LenProperties
<1>2. /\ ~Last(att).verifyError /\ ~Last(att).passed
      /\ ~StrongTried(reg, att)
      /\ \/ /\ n = 1
            /\ m \in Best(reg, RetryPool(reg, tsk, att))
         \/ /\ n # 1 \/ RetryPool(reg, tsk, att) = {}
            /\ m \in SelectModel(reg, caps, "paid")
  BY Decisions
<1>3. \A i \in DOMAIN att : IsFree(reg, att[i].model)
  BY <1>2 DEF StrongTried, Tried
<1>4. n \in 1 .. 2
  <2>1. n \in DOMAIN att
    BY <1>1
  <2>2. n \in 1 .. 3 /\ n # 3
    BY <1>3, <2>1 DEF Askable
  <2> QED
    BY <1>1, <2>2
<1>5. Earlier(att, n + 1) = Tried(att)
  BY <1>1 DEF Earlier, Tried
<1>6. RetryPool(reg, tsk, att) = Qualifying(reg, tsk, "free") \ Tried(att)
  BY DEF RetryPool, Qualifying
<1>7. CASE n = 1 /\ m \in Best(reg, RetryPool(reg, tsk, att))
  <2>1. RetryPool(reg, tsk, att) \in SUBSET Models(reg)
    BY <1>6, QualifyingModels
  <2>2. /\ m \in RetryPool(reg, tsk, att)
        /\ \A k \in RetryPool(reg, tsk, att) : reg[k].quality <= reg[m].quality
    BY <1>7, <2>1, BestQuality
  <2>3. /\ m \in Models(reg) /\ m \notin Tried(att) /\ reg[m].tier = "free"
        /\ caps \subseteq reg[m].caps \ reg[m].distrust
        /\ reg[m].auth # "missing"
    BY <1>6, <2>2, QualifyingModels DEF AnyTier
  <2>4. IsFree(reg, m) /\ n + 1 = 2
    BY <1>7, <2>3 DEF IsFree
  <2>5. Askable(reg, tsk, att, m, n + 1)
    BY <1>5, <1>6, <2>2, <2>3, <2>4 DEF Askable
  <2> QED
    BY <1>2, <1>3, <1>4, <2>5
<1>8. CASE /\ n # 1 \/ RetryPool(reg, tsk, att) = {}
           /\ m \in SelectModel(reg, caps, "paid")
  <2>1. SelectModel(reg, caps, "paid") = Best(reg, Qualifying(reg, tsk, "paid"))
    BY DEF SelectModel, Qualifying
  <2>2. Qualifying(reg, tsk, "paid") \in SUBSET Models(reg)
    BY QualifyingModels
  <2>3. /\ m \in Qualifying(reg, tsk, "paid")
        /\ \A k \in Qualifying(reg, tsk, "paid") : reg[k].quality <= reg[m].quality
    BY <1>8, <2>1, <2>2, BestQuality
  <2>4. /\ m \in Models(reg) /\ reg[m].tier = "paid"
        /\ caps \subseteq reg[m].caps \ reg[m].distrust
        /\ reg[m].auth # "missing"
    BY <2>3, QualifyingModels DEF AnyTier
  <2>5. ~IsFree(reg, m) /\ m \notin Tried(att)
    BY <1>2, <2>4 DEF IsFree, StrongTried
  <2>6. n + 1 = 3 \/ Qualifying(reg, tsk, "free") \subseteq Tried(att)
    BY <1>4, <1>6, <1>8
  <2>7. n + 1 \in 1 .. 3
    BY <1>4
  <2>8. Askable(reg, tsk, att, m, n + 1)
    BY <1>5, <2>3, <2>4, <2>5, <2>6, <2>7 DEF Askable
  <2> QED
    BY <1>2, <1>3, <1>4, <2>8
<1> QED
  BY <1>2, <1>7, <1>8

\* Recording an attempt does not change who was asked before it.
LEMMA AskableAppend ==
    ASSUME NEW reg, NEW tsk, NEW att \in Seq(AttemptType), NEW a \in AttemptType,
           NEW m, NEW i \in 1 .. Len(att) + 1, Askable(reg, tsk, att, m, i)
    PROVE  Askable(reg, tsk, Append(att, a), m, i)
<1>1. Len(att) \in Nat
  OBVIOUS
<1>2. \A k \in 1 .. i - 1 : Append(att, a)[k] = att[k]
  BY <1>1, AppendProperties
<1>3. Earlier(Append(att, a), i) = Earlier(att, i)
  BY <1>2 DEF Earlier
<1> QED
  BY <1>3 DEF Askable

-----------------------------------------------------------------------------
(* The invariant is inductive.                                             *)

\* The inputs of a run never change and an exited run is over.
Settled == DeliveredAsVerified /\ ExitMatchesEvidence /\ ChainExhausted

LEMMA InitEstablishes == Init => IInv
<1> SUFFICES ASSUME Init PROVE IInv
  OBVIOUS
<1>1. TypeOK
  BY DEF Init, TypeOK, Reports, Outcomes, Running, NoModel, NoPatch, Original
<1>2. FreshStart /\ Undelivered /\ CurrentAskable /\ SomethingToDecide
  BY DEF Init, FreshStart, Undelivered, CurrentAskable, SomethingToDecide
<1>3. AllAskable /\ EarlierFailedFree /\ ReportOfLast /\ PassIsDelivered
  BY DEF Init, AllAskable, EarlierFailedFree, ReportOfLast, PassIsDelivered
<1>4. Settled
  BY DEF Init, Settled, DeliveredAsVerified,
         ExitMatchesEvidence, ChainExhausted, Running
<1> QED
  BY <1>1, <1>2, <1>3, <1>4 DEF IInv, Settled

\* A run that has not exited has nothing to answer for yet.
LEMMA UnsettledYet ==
    ASSUME Undelivered, pc # "exited"
    PROVE  Settled
  BY DEF Undelivered, Settled, DeliveredAsVerified,
         ExitMatchesEvidence, ChainExhausted, Running

LEMMA SelectFirstModelKeeps == IInv /\ SelectFirstModel => IInv'
<1> SUFFICES ASSUME IInv, SelectFirstModel PROVE IInv'
  OBVIOUS
<1> USE DEF SelectFirstModel, GoOn, inputs, results
<1>1. attempts = <<>> /\ Len(attempts) = 0
  BY DEF IInv, FreshStart
<1>2. Askable(registry, task, attempts, current', 1)
  BY InitialAskable, InputTypes DEF IInv
<1>3. TypeOK'
  BY <1>2 DEF IInv, TypeOK, Askable
<1>4. FreshStart' /\ Undelivered' /\ SomethingToDecide'
  BY DEF IInv, FreshStart, Undelivered, SomethingToDecide
<1>5. CurrentAskable'
  BY <1>1, <1>2 DEF CurrentAskable
<1>6. AllAskable' /\ EarlierFailedFree' /\ ReportOfLast' /\ PassIsDelivered'
  BY <1>1 DEF IInv, AllAskable, EarlierFailedFree, ReportOfLast, PassIsDelivered
<1>7. Settled'
  BY <1>4 DEF Undelivered, Settled, DeliveredAsVerified,
              ExitMatchesEvidence, ChainExhausted, Running
<1> QED
  BY <1>3, <1>4, <1>5, <1>6, <1>7 DEF IInv, Settled

LEMMA RefuseTaskKeeps == IInv /\ RefuseTask => IInv'
<1> SUFFICES ASSUME IInv, RefuseTask PROVE IInv'
  OBVIOUS
<1> USE DEF RefuseTask, Exit, inputs, progress, results
<1>1. attempts = <<>> /\ report = NoReport /\ final = NoPatch /\ tree = Original
  BY DEF IInv, FreshStart, Undelivered, ReportOfLast
<1>2. TypeOK'
  BY DEF IInv, TypeOK, Outcomes
<1>3. FreshStart' /\ Undelivered' /\ CurrentAskable' /\ SomethingToDecide'
  BY DEF FreshStart, Undelivered, CurrentAskable, SomethingToDecide
<1>4. AllAskable' /\ EarlierFailedFree' /\ ReportOfLast' /\ PassIsDelivered'
  BY <1>1 DEF AllAskable, EarlierFailedFree, ReportOfLast, PassIsDelivered
<1>5. Settled'
  BY <1>1 DEF Settled, DeliveredAsVerified, ExitMatchesEvidence,
              ChainExhausted, NoReport, IsVerifyError
<1> QED
  BY <1>2, <1>3, <1>4, <1>5 DEF IInv, Settled

\* Whoever writes in the project is a number: an attempt's, or the verifier's.
LEMMA TouchKeepsType ==
    ASSUME IInv, NEW writers, writers \subseteq Nat, MayTouch(writers)
    PROVE  touched' \subseteq Nat
  BY DEF IInv, TypeOK, MayTouch

LEMMA SessionType ==
    ASSUME IInv
    PROVE  Session \subseteq Nat
<1>1. Len(attempts) \in Nat
  BY DEF IInv, TypeOK
<1> QED
  BY <1>1 DEF Session, Patch

LEMMA AsIsVerifyKeeps ==
    ASSUME NEW rep \in Reports
    PROVE  IInv /\ AsIsVerify(rep) => IInv'
<1> SUFFICES ASSUME IInv, AsIsVerify(rep) PROVE IInv'
  OBVIOUS
<1> USE DEF AsIsVerify, Exit, GoOn, inputs, results
<1>1. /\ attempts = <<>> /\ report = NoReport /\ final = NoPatch /\ tree = Original
      /\ outcome = Running /\ exit = 0
  BY DEF IInv, FreshStart, Undelivered, ReportOfLast
<1>2. TypeOK'
  <2>1. touched' \subseteq Nat
    BY TouchKeepsType DEF Verifier
  <2> QED
    BY <2>1 DEF IInv, TypeOK, Outcomes
<1>3. FreshStart' /\ Undelivered' /\ SomethingToDecide'
  BY <1>1 DEF FreshStart, Undelivered, SomethingToDecide
<1>4. CurrentAskable'
  BY DEF IInv, CurrentAskable
<1>5. AllAskable' /\ EarlierFailedFree' /\ ReportOfLast' /\ PassIsDelivered'
  BY <1>1 DEF AllAskable, EarlierFailedFree, ReportOfLast, PassIsDelivered
<1>6. Settled'
  BY <1>1 DEF Settled, DeliveredAsVerified, ExitMatchesEvidence,
              ChainExhausted, NoReport, IsVerifyError, Running
<1> QED
  BY <1>2, <1>3, <1>4, <1>5, <1>6 DEF IInv, Settled

\* What recording an attempt preserves, whatever became of its diff.
LEMMA RecordKeeps ==
    ASSUME NEW rep \in Reports \cup {NoReport}, IInv, Record(rep)
    PROVE  /\ attempts' \in Seq(AttemptType)
           /\ Len(attempts') = Len(attempts) + 1 /\ Len(attempts) \in Nat
           /\ FreshStart' /\ Undelivered' /\ CurrentAskable' /\ AllAskable'
           /\ SomethingToDecide' /\ EarlierFailedFree' /\ ReportOfLast' /\ Settled'
<1> DEFINE a == Attempt(current, rep)
           n == Len(attempts)
<1> USE DEF Record, GoOn, inputs, results
<1>1. /\ attempts \in Seq(AttemptType) /\ n \in Nat /\ DOMAIN attempts = 1 .. n
      /\ current \in Nat /\ a \in AttemptType
  <2>1. attempts \in Seq(AttemptType) /\ current \in {NoModel} \cup Models(registry)
    BY DEF IInv, TypeOK
  <2>2. current \in Nat
    BY <2>1, InputTypes DEF IInv, Models, RegistryType, NoModel
  <2> QED
    BY <2>1, <2>2 DEF Attempt, AttemptType, Passes, IsVerifyError
<1>2. /\ attempts' = Append(attempts, a)
      /\ Len(attempts') = n + 1 /\ DOMAIN attempts' = 1 .. n + 1
      /\ \A i \in 1 .. n : attempts'[i] = attempts[i]
      /\ attempts'[n + 1] = a /\ attempts' # <<>>
      /\ attempts' \in Seq(AttemptType)
  BY <1>1, AppendProperties
<1>3. FreshStart' /\ Undelivered' /\ CurrentAskable' /\ SomethingToDecide'
  <2>1. attempts' # <<>> /\ Last(attempts').model = current'
    BY <1>1, <1>2 DEF Last, Attempt
  <2> QED
    BY <1>2, <2>1 DEF IInv, FreshStart, Undelivered, CurrentAskable, SomethingToDecide
<1>4. AllAskable'
  <2>1. a.model = current
    BY DEF Attempt
  <2>2. Askable(registry, task, attempts, current, n + 1)
    BY DEF IInv, CurrentAskable
  <2>3. \A i \in 1 .. n + 1 :
          Askable(registry, task, attempts, attempts'[i].model, i)
    BY <1>1, <1>2, <2>1, <2>2 DEF IInv, AllAskable
  <2>4. \A i \in 1 .. n + 1 :
          Askable(registry, task, attempts', attempts'[i].model, i)
    BY <1>1, <1>2, <2>3, AskableAppend
  <2> QED
    BY <1>2, <2>4 DEF AllAskable
<1>5. EarlierFailedFree'
  <2>1. \A i \in 1 .. n : FailedFree(registry, attempts[i])
    BY <1>1 DEF IInv, EarlierFailedFree
  <2> QED
    BY <1>1, <1>2, <2>1 DEF EarlierFailedFree
<1>6. ReportOfLast'
  <2>1. a = Attempt(a.model, rep)
    BY DEF Attempt
  <2> QED
    BY <1>2, <2>1 DEF ReportOfLast, Last
<1>7. Settled'
  BY <1>3 DEF Undelivered, Settled, DeliveredAsVerified,
              ExitMatchesEvidence, ChainExhausted, Running
<1> QED
  BY <1>1, <1>2, <1>3, <1>4, <1>5, <1>6, <1>7

LEMMA AttemptWithoutDiffKeeps == IInv /\ AttemptWithoutDiff => IInv'
<1> SUFFICES ASSUME IInv, AttemptWithoutDiff PROVE IInv'
  OBVIOUS
<1>1. Record(NoReport) /\ UNCHANGED <<diffs, verified>> /\ MayTouch(Session)
  BY DEF AttemptWithoutDiff
<1>2. TypeOK'
  <2>1. touched' \subseteq Nat
    BY <1>1, TouchKeepsType, SessionType
  <2> QED
    BY <1>1, <2>1, RecordKeeps DEF IInv, TypeOK, Record, GoOn, inputs, results
<1>3. PassIsDelivered'
  BY <1>1 DEF PassIsDelivered, Record, Passes, NoReport
<1> QED
  BY <1>1, <1>2, <1>3, RecordKeeps DEF IInv, Settled

\* Keeping the diff of the attempt being recorded.
LEMMA KeepDiffKeeps ==
    ASSUME NEW rep \in Reports \cup {NoReport}, IInv, Record(rep), KeepDiff
    PROVE  /\ diffs' \in Seq(DiffType) /\ diffs' # <<>>
           /\ Last(diffs').patch = Len(attempts')
           /\ Patch = Len(attempts') /\ Patch \in Nat
<1>1. Len(attempts) \in Nat /\ Len(attempts') = Len(attempts) + 1
  BY RecordKeeps
<1>2. diffs \in Seq(DiffType) /\ current \in Nat
  BY InputTypes DEF IInv, TypeOK, Models, RegistryType, NoModel
<1>3. [model |-> current, patch |-> Patch] \in DiffType
  BY <1>1, <1>2 DEF DiffType, Patch
<1>4. /\ diffs' \in Seq(DiffType) /\ Len(diffs') = Len(diffs) + 1
      /\ diffs'[Len(diffs) + 1] = [model |-> current, patch |-> Patch]
  BY <1>2, <1>3, AppendProperties DEF KeepDiff
<1> QED
  BY <1>1, <1>2, <1>4 DEF Last, Patch

LEMMA AttemptRejectedKeeps == IInv /\ AttemptRejected => IInv'
<1> SUFFICES ASSUME IInv, AttemptRejected PROVE IInv'
  OBVIOUS
<1>1. Record(NoReport) /\ KeepDiff /\ UNCHANGED verified /\ MayTouch(Session)
  BY DEF AttemptRejected
<1>2. TypeOK'
  <2>1. touched' \subseteq Nat
    BY <1>1, TouchKeepsType, SessionType
  <2> QED
    BY <1>1, <2>1, RecordKeeps, KeepDiffKeeps
    DEF IInv, TypeOK, Record, GoOn, inputs, results
<1>3. PassIsDelivered'
  BY <1>1 DEF PassIsDelivered, Record, Passes, NoReport
<1> QED
  BY <1>1, <1>2, <1>3, RecordKeeps DEF IInv, Settled

LEMMA AttemptVerifiedKeeps ==
    ASSUME NEW rep \in Reports
    PROVE  IInv /\ AttemptVerified(rep) => IInv'
<1> SUFFICES ASSUME IInv, AttemptVerified(rep) PROVE IInv'
  OBVIOUS
<1> DEFINE writers == Session \cup IF project.outside THEN {Verifier} ELSE {}
<1>1. Record(rep) /\ KeepDiff /\ verified' = verified \cup Judged(rep) /\ MayTouch(writers)
  BY DEF AttemptVerified
<1>2. touched' \subseteq Nat
  <2>1. writers \subseteq Nat
    BY SessionType DEF Verifier
  <2> QED
    BY <1>1, <2>1, TouchKeepsType
<1>3. Judged(rep) \subseteq [patch : Nat, on : SUBSET Nat]
  <2>1. Patch \in Nat /\ touched' \in SUBSET Nat
    BY <1>1, <1>2, KeepDiffKeeps
  <2>2. [patch |-> Patch, on |-> touched'] \in [patch : Nat, on : SUBSET Nat]
    BY <2>1
  <2> QED
    BY <2>2 DEF Judged
<1>4. TypeOK'
  BY <1>1, <1>2, <1>3, RecordKeeps, KeepDiffKeeps
  DEF IInv, TypeOK, Record, GoOn, inputs, results
<1>5. PassIsDelivered'
  <2>1. SUFFICES ASSUME Passes(rep)
        PROVE  /\ diffs' # <<>> /\ Last(diffs').patch = Len(attempts')
               /\ \/ project.outside
                  \/ [patch |-> Len(attempts'), on |-> touched'] \in verified'
    BY <1>1 DEF PassIsDelivered, Record, inputs
  <2>2. ~project.outside => Judged(rep) = {[patch |-> Len(attempts'), on |-> touched']}
    BY <1>1, <2>1, KeepDiffKeeps DEF Judged
  <2> QED
    BY <1>1, <2>2, KeepDiffKeeps
<1> QED
  BY <1>1, <1>4, <1>5, RecordKeeps DEF IInv, Settled

-----------------------------------------------------------------------------
(* Acting on the classifier's answer.                                      *)

\* The answer at hand, read back into what the attempts have shown.
LEMMA AnswerMeans ==
    ASSUME IInv, pc = "decide"
    PROVE  /\ attempts # <<>> /\ attempts \in Seq(AttemptType)
           /\ Len(attempts) \in Nat \ {0} /\ DOMAIN attempts = 1 .. Len(attempts)
           /\ Last(attempts).passed = Passes(report)
           /\ Last(attempts).verifyError = IsVerifyError(report)
           /\ \A i \in 1 .. Len(attempts) - 1 :
                 ~attempts[i].passed /\ IsFree(registry, attempts[i].model)
           /\ final = NoPatch /\ tree = Original
           /\ Steps = Verdict("DONE") => Passes(report)
           /\ Steps = Verdict("VERIFY_ERROR") => IsVerifyError(report)
           /\ Steps = Verdict("HUMAN_REVIEW") =>
                 /\ ~Passes(report) /\ ~IsVerifyError(report)
                 /\ \E i \in DOMAIN attempts : ~Free(i)
<1>1. attempts # <<>> /\ attempts \in Seq(AttemptType)
  BY DEF IInv, TypeOK, SomethingToDecide
<1>2. Len(attempts) \in Nat \ {0} /\ DOMAIN attempts = 1 .. Len(attempts)
  BY <1>1, EmptySeq, LenProperties
<1>3. /\ Last(attempts).passed = Passes(report)
      /\ Last(attempts).verifyError = IsVerifyError(report)
  BY <1>1 DEF IInv, ReportOfLast, Attempt
<1>4. \A i \in 1 .. Len(attempts) - 1 :
        ~attempts[i].passed /\ IsFree(registry, attempts[i].model)
  BY <1>2 DEF IInv, EarlierFailedFree, FailedFree
<1>5. ASSUME NEW state, Steps = Verdict(state)
      PROVE  /\ state = "DONE" => Passes(report)
             /\ state = "VERIFY_ERROR" => IsVerifyError(report)
             /\ state = "HUMAN_REVIEW" =>
                  ~Passes(report) /\ ~IsVerifyError(report) /\ StrongTried(registry, attempts)
  <2>1. [state |-> state, model |-> NoModel] \in DecideNext(task, registry, attempts)
    BY <1>5 DEF Steps, Verdict
  <2> QED
    BY <1>3, <2>1, Decisions
<1>6. StrongTried(registry, attempts) => \E i \in DOMAIN attempts : ~Free(i)
  BY DEF StrongTried, Tried, Free
<1> QED
  BY <1>1, <1>2, <1>3, <1>4, <1>5, <1>6 DEF IInv, Undelivered

\* Ending a run leaves the bookkeeping of its attempts alone.
LEMMA EndingKeeps ==
    ASSUME IInv, pc = "decide", pc' = "exited", UNCHANGED <<inputs, progress, touched>>
    PROVE  /\ FreshStart' /\ Undelivered' /\ CurrentAskable' /\ AllAskable'
           /\ SomethingToDecide' /\ EarlierFailedFree' /\ ReportOfLast' /\ PassIsDelivered'
  BY DEF IInv, FreshStart, Undelivered, CurrentAskable, AllAskable, SomethingToDecide,
         EarlierFailedFree, ReportOfLast, PassIsDelivered, inputs, progress

LEMMA PassingPatch ==
    ASSUME IInv, pc = "decide", Passes(report)
    PROVE  FinalPatch \in Nat /\ (project.outside \/ [patch |-> FinalPatch, on |-> touched] \in verified)
<1>1. FinalPatch = Len(attempts)
  BY DEF IInv, PassIsDelivered, FinalPatch
<1> QED
  BY <1>1, AnswerMeans DEF IInv, PassIsDelivered

LEMMA FinishKeeps == IInv /\ Finish => IInv'
<1> SUFFICES ASSUME IInv, Finish PROVE IInv'
  OBVIOUS
<1>1. /\ pc = "decide" /\ pc' = "exited" /\ outcome' = "DONE" /\ exit' \in {0, 1}
      /\ final' = FinalPatch /\ UNCHANGED <<inputs, progress, touched, reviews>>
      /\ tree' = tree \/ (apply /\ tree' = final')
  BY DEF Finish, Exit, Applied
<1>2. Passes(report) /\ ~IsVerifyError(report) /\ tree = Original
  BY <1>1, AnswerMeans DEF Finish, Passes, IsVerifyError
<1>3. FinalPatch \in Nat /\ (project.outside \/ [patch |-> FinalPatch, on |-> touched] \in verified)
  BY <1>1, <1>2, PassingPatch
<1>4. TypeOK'
  BY <1>1, <1>3 DEF IInv, TypeOK, Outcomes, inputs, progress
<1>5. Settled'
  BY <1>1, <1>2, <1>3 DEF Settled, DeliveredAsVerified,
     ExitMatchesEvidence, ChainExhausted, inputs, progress
<1> QED
  BY <1>1, <1>4, <1>5, EndingKeeps DEF IInv, Settled

\* A record shows a report the run has.
LEMMA ReviewType_ ==
    ASSUME IInv, NEW state \in {"HUMAN_REVIEW", "VERIFY_ERROR"},
           NEW flag \in BOOLEAN, NEW m \in Nat, WriteReview(m, state, flag)
    PROVE  \A record \in reviews' : record \in ReviewType
<1>1. diffs \in Seq(DiffType) /\ Attached \in Reports \cup {NoReport}
  BY DEF IInv, TypeOK, Attached
<1>2. \A n \in 0 .. Len(diffs) : SubSeq(diffs, 1, n) \in Seq(DiffType)
  BY <1>1
<1> QED
  BY <1>1, <1>2 DEF IInv, TypeOK, WriteReview, ReviewType

LEMMA CurrentIsNat ==
    ASSUME TypeOK
    PROVE  current \in Nat
  BY InputTypes DEF TypeOK, Models, RegistryType, NoModel

\* What every handoff keeps; the evidence for it is the caller's.
LEMMA HandOffKeeps ==
    ASSUME IInv, pc = "decide",
           NEW state \in {"HUMAN_REVIEW", "VERIFY_ERROR"}, NEW flag \in BOOLEAN,
           NEW code \in {3, 4}, HandOff(state, code, flag),
           code = 3 <=> IsVerifyError(report),
           code = 4 => ~Passes(report),
           state = "HUMAN_REVIEW" => ChainExhausted'
    PROVE  IInv'
<1>1. /\ pc' = "exited" /\ outcome' = state /\ exit' = code
      /\ UNCHANGED <<inputs, progress, touched, final, tree>>
  BY DEF HandOff, Exit
<1>2. TypeOK'
  <2>1. \A record \in reviews' : record \in ReviewType
    BY ReviewType_, CurrentIsNat DEF HandOff, IInv
  <2> QED
    BY <1>1, <2>1 DEF IInv, TypeOK, Outcomes, inputs, progress
<1>3. ExitMatchesEvidence'
  <2>1. report \in Reports \cup {NoReport}
    BY DEF IInv, TypeOK
  <2>2. code = 4 => report \in {NoReport, "fail"}
    BY <2>1 DEF Reports, IsVerifyError, Passes
  <2>3. code = 4 => \A i \in DOMAIN attempts : ~attempts[i].passed
    BY AnswerMeans DEF Last
  <2> QED
    BY <1>1, <2>2, <2>3, AnswerMeans DEF ExitMatchesEvidence, IsVerifyError, inputs, progress
<1>4. Settled'
  BY <1>1, <1>3, AnswerMeans DEF Settled, DeliveredAsVerified,
     ChainExhausted, inputs, progress
<1> QED
  BY <1>1, <1>2, <1>4, EndingKeeps DEF IInv, Settled

LEMMA VerifierUnableKeeps == IInv /\ VerifierUnable => IInv'
<1> SUFFICES ASSUME IInv, VerifierUnable PROVE IInv'
  OBVIOUS
<1>1. pc = "decide" /\ HandOff("VERIFY_ERROR", 3, TRUE) /\ IsVerifyError(report)
  BY AnswerMeans DEF VerifierUnable
<1>2. /\ 3 \in {3, 4} /\ "VERIFY_ERROR" \in {"HUMAN_REVIEW", "VERIFY_ERROR"} /\ TRUE \in BOOLEAN
      /\ 3 = 3 <=> IsVerifyError(report)
      /\ 3 = 4 => ~Passes(report)
      /\ "VERIFY_ERROR" = "HUMAN_REVIEW" => ChainExhausted'
  BY <1>1
<1> QED
  BY <1>1, <1>2, HandOffKeeps

LEMMA GiveUpKeeps == IInv /\ GiveUp => IInv'
<1> SUFFICES ASSUME IInv, GiveUp PROVE IInv'
  OBVIOUS
<1>1. /\ pc = "decide" /\ HandOff("HUMAN_REVIEW", 4, FALSE)
      /\ ~Passes(report) /\ ~IsVerifyError(report)
      /\ \E i \in DOMAIN attempts : ~Free(i)
  BY AnswerMeans DEF GiveUp
<1>2. ChainExhausted'
  BY <1>1 DEF ChainExhausted, HandOff, inputs, progress, Free
<1>3. /\ 4 \in {3, 4} /\ "HUMAN_REVIEW" \in {"HUMAN_REVIEW", "VERIFY_ERROR"} /\ FALSE \in BOOLEAN
      /\ 4 = 3 <=> IsVerifyError(report)
      /\ 4 = 4 => ~Passes(report)
  BY <1>1
<1> QED
  BY <1>1, <1>2, <1>3, HandOffKeeps

LEMMA NobodyToEscalateToKeeps == IInv /\ NobodyToEscalateTo => IInv'
<1> SUFFICES ASSUME IInv, NobodyToEscalateTo PROVE IInv'
  OBVIOUS
<1>1. /\ pc = "decide" /\ HandOff("HUMAN_REVIEW", 4, FALSE)
      /\ DecideNext(task, registry, attempts) = {}
  BY DEF NobodyToEscalateTo, Steps
<1>2. /\ ~Passes(report) /\ ~IsVerifyError(report)
      /\ ~StrongTried(registry, attempts)
      /\ Qualifying(registry, task, "paid") = {}
      /\ Len(attempts) = 1 => RetryPool(registry, task, attempts) = {}
  BY <1>1, AnswerMeans, InputTypes, NoDecision DEF IInv
<1>3. Qualified("paid") = {}
  BY <1>2 DEF Qualified, Qualifying
<1>4. Len(attempts) = 2 \/ Qualified("free") \subseteq Tried(attempts)
  <2>1. Len(attempts) \in DOMAIN attempts /\ Len(attempts) \in Nat
    BY <1>1, AnswerMeans
  <2>2. Len(attempts) \in 1 .. 3 /\ Len(attempts) # 3
    BY <1>2, <2>1 DEF IInv, AllAskable, Askable, StrongTried, Tried
  <2>3. Len(attempts) = 1 => Qualified("free") \subseteq Tried(attempts)
    BY <1>2 DEF Qualified, RetryPool
  <2> QED
    BY <2>1, <2>2, <2>3
<1>5. ChainExhausted'
  BY <1>1, <1>3, <1>4 DEF ChainExhausted, HandOff, Exit, inputs, progress, Qualified
<1>6. /\ 4 \in {3, 4} /\ "HUMAN_REVIEW" \in {"HUMAN_REVIEW", "VERIFY_ERROR"} /\ FALSE \in BOOLEAN
      /\ 4 = 3 <=> IsVerifyError(report)
      /\ 4 = 4 => ~Passes(report)
  BY <1>2
<1> QED
  BY <1>1, <1>5, <1>6, HandOffKeeps

\* The run goes on: one or two free models have failed, and who is next may be asked.
LEMMA ProceedGoesOn ==
    ASSUME IInv, Proceed
    PROVE  /\ Len(attempts) \in 1 .. 2
           /\ ~Last(attempts).verifyError /\ ~Last(attempts).passed
           /\ \A i \in DOMAIN attempts : IsFree(registry, attempts[i].model)
           /\ Askable(registry, task, attempts, current', Len(attempts) + 1)
           /\ GoOn("attempt") /\ UNCHANGED reviews
<1>1. /\ pc = "decide"
      /\ UNCHANGED <<inputs, attempts, diffs, asIs, report, verified, touched, final, tree>>
  BY DEF Proceed
<1>2. PICK step \in DecideNext(task, registry, attempts) :
        step.state \in {"RUNNING", "ESCALATED"} /\ current' = step.model
  BY DEF Proceed, Steps
<1>3. /\ Len(attempts) \in 1 .. 2
      /\ ~Last(attempts).verifyError /\ ~Last(attempts).passed
      /\ \A i \in DOMAIN attempts : IsFree(registry, attempts[i].model)
      /\ Askable(registry, task, attempts, current', Len(attempts) + 1)
  BY <1>1, <1>2, AnswerMeans, InputTypes, NextAskable DEF IInv, AllAskable
<1>4. GoOn("attempt") /\ UNCHANGED reviews
  <2>1. Len(attempts) \in 1 .. 2
    BY <1>3
  <2>2. Len(attempts) < MaxLoopAttempts
    BY <2>1, MaxLoopAttemptsAssumption
  <2> QED
    BY <2>2, Zenon DEF Proceed
<1> QED
  BY <1>3, <1>4

LEMMA ProceedKeeps == IInv /\ Proceed => IInv'
<1> SUFFICES ASSUME IInv, Proceed PROVE IInv'
  OBVIOUS
<1>1. /\ pc = "decide"
      /\ UNCHANGED <<inputs, attempts, diffs, asIs, report, verified, touched, final, tree>>
  BY DEF Proceed
<1>2. /\ Len(attempts) \in 1 .. 2
      /\ ~Last(attempts).verifyError /\ ~Last(attempts).passed
      /\ \A i \in DOMAIN attempts : IsFree(registry, attempts[i].model)
      /\ Askable(registry, task, attempts, current', Len(attempts) + 1)
      /\ GoOn("attempt") /\ UNCHANGED reviews
  BY ProceedGoesOn
<1> USE DEF GoOn, inputs
<1>3. TypeOK'
  BY <1>1, <1>2 DEF IInv, TypeOK, Askable
<1>4. FreshStart' /\ Undelivered' /\ CurrentAskable' /\ AllAskable' /\ SomethingToDecide'
  BY <1>1, <1>2 DEF IInv, FreshStart, Undelivered, CurrentAskable,
     AllAskable, SomethingToDecide
<1>5. EarlierFailedFree'
  <2>1. \A i \in DOMAIN attempts : FailedFree(registry, attempts[i])
    BY <1>1, <1>2, AnswerMeans DEF FailedFree, IInv, EarlierFailedFree, Last
  <2> QED
    BY <1>1, <2>1 DEF EarlierFailedFree
<1>6. ReportOfLast' /\ PassIsDelivered'
  BY <1>1, <1>2 DEF IInv, ReportOfLast, PassIsDelivered
<1>7. Settled'
  BY <1>2, <1>4 DEF Undelivered, Settled, DeliveredAsVerified,
     ExitMatchesEvidence, ChainExhausted, Running
<1> QED
  BY <1>3, <1>4, <1>5, <1>6, <1>7 DEF IInv, Settled

LEMMA RaiseBeforeDecisionKeeps == IInv /\ RaiseBeforeDecision => IInv'
<1> SUFFICES ASSUME IInv, RaiseBeforeDecision PROVE IInv'
  OBVIOUS
<1> USE DEF RaiseBeforeDecision, Exit, inputs, progress, results
<1>1. final = NoPatch /\ tree = Original
  BY DEF IInv, Undelivered
<1>2. TypeOK'
  <2>1. touched' \subseteq Nat
    <3>1. Session \cup (IF project.outside THEN {Verifier} ELSE {}) \subseteq Nat
      BY SessionType DEF Verifier
    <3>2. {Verifier} \subseteq Nat
      BY DEF Verifier
    <3> QED
      BY <3>1, <3>2, TouchKeepsType
  <2> QED
    BY <2>1 DEF IInv, TypeOK, Outcomes
<1>3. /\ FreshStart' /\ Undelivered' /\ CurrentAskable' /\ AllAskable'
      /\ SomethingToDecide' /\ EarlierFailedFree' /\ ReportOfLast' /\ PassIsDelivered'
  BY DEF IInv, FreshStart, Undelivered, CurrentAskable, AllAskable, SomethingToDecide,
         EarlierFailedFree, ReportOfLast, PassIsDelivered
<1>4. Settled'
  BY <1>1 DEF Settled, DeliveredAsVerified, ExitMatchesEvidence,
              ChainExhausted
<1> QED
  BY <1>2, <1>3, <1>4 DEF IInv, Settled

LEMMA RaiseWhileFinishingKeeps == IInv /\ RaiseWhileFinishing => IInv'
<1> SUFFICES ASSUME IInv, RaiseWhileFinishing PROVE IInv'
  OBVIOUS
<1>1. /\ pc = "decide" /\ pc' = "exited" /\ outcome' = "ABORTED" /\ exit' = 1
      /\ UNCHANGED <<inputs, progress, touched, reviews>>
      /\ \/ final' \in {NoPatch, FinalPatch} /\ tree' = tree
         \/ apply /\ final' = FinalPatch /\ tree' \in {FinalPatch, Partial}
  BY DEF RaiseWhileFinishing, Exit
<1>2. Passes(report) /\ tree = Original
  BY <1>1, AnswerMeans DEF RaiseWhileFinishing
<1>3. FinalPatch \in Nat /\ (project.outside \/ [patch |-> FinalPatch, on |-> touched] \in verified)
  BY <1>1, <1>2, PassingPatch
<1>4. TypeOK'
  BY <1>1, <1>3 DEF IInv, TypeOK, Outcomes, inputs, progress, NoPatch
<1>5. Settled'
  BY <1>1, <1>2, <1>3 DEF Settled, DeliveredAsVerified,
     ExitMatchesEvidence, ChainExhausted, inputs, progress
<1> QED
  BY <1>1, <1>4, <1>5, EndingKeeps DEF IInv, Settled

LEMMA StutterKeeps == IInv /\ UNCHANGED vars => IInv'
  BY DEF IInv, TypeOK, FreshStart, Undelivered, CurrentAskable, AllAskable,
     SomethingToDecide, EarlierFailedFree, ReportOfLast, PassIsDelivered,
     DeliveredAsVerified, ExitMatchesEvidence, ChainExhausted,
     Qualified, Free, vars, inputs, progress, results

LEMMA NextKeeps == IInv /\ [Next]_vars => IInv'
  BY SelectFirstModelKeeps, RefuseTaskKeeps, AsIsVerifyKeeps, AttemptVerifiedKeeps,
     AttemptWithoutDiffKeeps, AttemptRejectedKeeps, FinishKeeps, VerifierUnableKeeps,
     GiveUpKeeps, NobodyToEscalateToKeeps, ProceedKeeps, RaiseBeforeDecisionKeeps,
     RaiseWhileFinishingKeeps, StutterKeeps
  DEF Next, Done

\* The inductive invariant holds in every run of the program.
THEOREM Inductive == Spec => []IInv
  BY InitEstablishes, NextKeeps, PTL DEF Spec

-----------------------------------------------------------------------------
(* The properties the runs check, for every instance.                      *)

\* The locals and files of a run have their types throughout.
THEOREM TypeCorrect == Spec => []TypeOK
  BY Inductive, PTL DEF IInv

\* Attempts are numbered by whom it was right to ask, and that stops at three.
LEMMA AttemptsBounded == IInv => AtMostThreeAttempts
<1> SUFFICES ASSUME IInv PROVE AtMostThreeAttempts
  OBVIOUS
<1>1. attempts \in Seq(AttemptType)
  BY DEF IInv, TypeOK
<1>2. Len(attempts) \in Nat /\ DOMAIN attempts = 1 .. Len(attempts)
  BY <1>1
<1>3. \A i \in DOMAIN attempts : i \in 1 .. 3
  BY DEF IInv, AllAskable, Askable
<1>4. CASE Len(attempts) = 0
  BY <1>4 DEF AtMostThreeAttempts
<1>5. CASE Len(attempts) # 0
  <2>1. Len(attempts) \in DOMAIN attempts
    BY <1>2, <1>5
  <2>2. Len(attempts) \in 1 .. 3
    BY <1>3, <2>1
  <2>3. \A n \in 1 .. 3 : n <= 3
    OBVIOUS
  <2> QED
    BY <2>2, <2>3 DEF AtMostThreeAttempts
<1> QED
  BY <1>4, <1>5

\* The loop ends after three attempts, so MAX_LOOP_ATTEMPTS never stops it.
THEOREM ThreeAttemptsSuffice == Spec => []AtMostThreeAttempts
  BY AttemptsBounded, Inductive, PTL

\* decide_next never offers a task to a model that already had it.
THEOREM NobodyAskedTwice == Spec => []NoModelTwice
<1>1. IInv => NoModelTwice
  <2> SUFFICES ASSUME IInv PROVE NoModelTwice
    OBVIOUS
  <2>1. DOMAIN attempts = 1 .. Len(attempts) /\ Len(attempts) \in Nat
    BY DEF IInv, TypeOK
  <2>2. \A i \in DOMAIN attempts : attempts[i].model \notin Earlier(attempts, i)
    BY DEF IInv, AllAskable, Askable
  <2>3. \A i, j \in DOMAIN attempts : j < i => attempts[j].model # attempts[i].model
    BY <2>1, <2>2 DEF Earlier
  <2> QED
    BY <2>1, <2>3 DEF NoModelTwice
<1> QED
  BY <1>1, Inductive, PTL

\* A paid or hybrid attempt is the last one of its run.
THEOREM NothingAfterStrong == Spec => []StrongIsLast
<1>1. IInv => StrongIsLast
  BY DEF IInv, TypeOK, EarlierFailedFree, FailedFree, StrongIsLast, Free
<1> QED
  BY <1>1, Inductive, PTL

\* A stronger tier is asked only when the free tier is not enough.
THEOREM FreeComesFirst == Spec => []FreeFirst
<1>1. IInv => FreeFirst
  BY DEF IInv, AllAskable, Askable, FreeFirst, Free, Complex, Qualified, Qualifying,
         TriedBefore, Earlier
<1> QED
  BY <1>1, Inductive, PTL

\* Whoever is asked qualifies and is the best of its tier still untried.
THEOREM OnlyBestQualifiedAsked == Spec => []BestQualifiedAsked
<1>1. IInv => BestQualifiedAsked
  BY DEF IInv, AllAskable, Askable, BestQualifiedAsked, Qualified, Qualifying,
         TriedBefore, Earlier
<1> QED
  BY <1>1, Inductive, PTL

\* Who wrote in the project during an attempt is the agent that was asked, which
\* the attempts name once they are recorded.
TouchedByAgents ==
    \A i \in touched \ {Verifier} :
        \/ i \in DOMAIN attempts /\ attempts[i].model \in Agents
        \/ i \notin DOMAIN attempts /\ pc = "exited" /\ current \in Agents

LEMMA InitTouched == Init => TouchedByAgents
  BY DEF Init, TouchedByAgents

\* Steps that make no attempt: only the verifier may have written.
LEMMA VerifierTouches ==
    ASSUME TouchedByAgents, pc # "exited", UNCHANGED attempts,
           touched' \subseteq touched \cup {Verifier}
    PROVE  TouchedByAgents'
  BY DEF TouchedByAgents

\* Recording an attempt names whose session it was.
LEMMA RecordTouched ==
    ASSUME IInv, TouchedByAgents, NEW rep \in Reports \cup {NoReport}, Record(rep),
           touched' \subseteq touched \cup Session \cup {Verifier}
    PROVE  TouchedByAgents'
<1>1. /\ attempts \in Seq(AttemptType) /\ Attempt(current, rep) \in AttemptType
      /\ attempts' = Append(attempts, Attempt(current, rep))
      /\ Attempt(current, rep).model = current /\ pc = "attempt"
  BY CurrentIsNat
  DEF IInv, TypeOK, Record, Attempt, AttemptType, Passes, IsVerifyError
<1>2. /\ DOMAIN attempts' = 1 .. Len(attempts) + 1 /\ DOMAIN attempts = 1 .. Len(attempts)
      /\ \A i \in 1 .. Len(attempts) : attempts'[i] = attempts[i]
      /\ attempts'[Patch].model = current /\ Patch \in DOMAIN attempts'
  BY <1>1, AppendProperties DEF Patch
<1>3. ASSUME NEW i \in touched' \ {Verifier}
      PROVE  i \in DOMAIN attempts' /\ attempts'[i].model \in Agents
  <2>1. CASE i \in touched
    BY <1>1, <1>2, <2>1, <1>3 DEF TouchedByAgents
  <2>2. CASE i \in Session
    BY <1>2, <2>2 DEF Session
  <2> QED
    BY <1>3, <2>1, <2>2
<1> QED
  BY <1>3 DEF TouchedByAgents

LEMMA NextTouched == IInv /\ TouchedByAgents /\ [Next]_vars => TouchedByAgents'
<1> SUFFICES ASSUME IInv, TouchedByAgents, [Next]_vars PROVE TouchedByAgents'
  OBVIOUS
<1>1. CASE \/ SelectFirstModel \/ RefuseTask \/ Finish \/ VerifierUnable \/ GiveUp
           \/ NobodyToEscalateTo \/ Proceed \/ RaiseWhileFinishing
  BY <1>1, VerifierTouches
  DEF SelectFirstModel, RefuseTask, Finish, VerifierUnable, GiveUp, NobodyToEscalateTo,
      Proceed, RaiseWhileFinishing, HandOff, progress
<1>2. CASE \E rep \in Reports : AsIsVerify(rep)
  BY <1>2, VerifierTouches DEF AsIsVerify, MayTouch
<1>3. CASE AttemptWithoutDiff \/ AttemptRejected
  BY <1>3, RecordTouched DEF AttemptWithoutDiff, AttemptRejected, MayTouch
<1>4. CASE \E rep \in Reports : AttemptVerified(rep)
  BY <1>4, RecordTouched DEF AttemptVerified, MayTouch
<1>5. CASE RaiseBeforeDecision
  <2>1. /\ pc # "exited" /\ pc' = "exited" /\ UNCHANGED <<attempts, current>>
        /\ touched' \subseteq touched \cup Session \cup {Verifier}
    BY <1>5 DEF RaiseBeforeDecision, MayTouch, Exit, progress
  <2>2. \A i \in Session : i \notin DOMAIN attempts /\ current \in Agents
    BY DEF IInv, TypeOK, Session, Patch
  <2> QED
    BY <2>1, <2>2 DEF TouchedByAgents
<1>6. CASE Done \/ UNCHANGED vars
  BY <1>6 DEF Done, vars, progress, TouchedByAgents
<1> QED
  BY <1>1, <1>2, <1>3, <1>4, <1>5, <1>6 DEF Next

\* final.diff is the patch that passed, on the project as it is, and nothing else
\* reaches the tree but what agents and verifiers write there themselves.
THEOREM OnlyVerifiedDelivered == Spec => []NothingAutoApplied
<1>1. Spec => []TouchedByAgents
  BY InitTouched, NextTouched, Inductive, PTL DEF Spec
<1>2. IInv /\ TouchedByAgents => NothingAutoApplied
  BY DEF IInv, NothingAutoApplied, OnlyAgentsTouch, TouchedByAgents
<1> QED
  BY <1>1, <1>2, Inductive, PTL

\* The exit code is backed by the verifier's reports.
THEOREM ExitIsHonest == Spec => []ExitMatchesEvidence
  BY Inductive, PTL DEF IInv

\* A human is asked only after everybody the rules allow has been.
THEOREM HumanIsLastResort == Spec => []ChainExhausted
  BY Inductive, PTL DEF IInv

-----------------------------------------------------------------------------
(* What a handoff leaves behind.                                           *)

\* No record is written before the run ends, ...
Unrecorded == pc # "exited" => reviews = {}

\* ... and a diff the verifier reached is the last of those that are kept.
DiffOfLast ==
    attempts # <<>> /\ ReachedVerifier(report) =>
        /\ diffs # <<>>
        /\ Last(diffs) = [model |-> Last(attempts).model, patch |-> Len(attempts)]

Evidence == Unrecorded /\ DiffOfLast /\ ReviewKeepsTheEvidence

LEMMA InitEvidence == Init => Evidence
  BY DEF Init, Evidence, Unrecorded, DiffOfLast, ReviewKeepsTheEvidence

\* A run that has not ended has no record that could be wrong.
LEMMA NoRecordYet ==
    ASSUME reviews = {}
    PROVE  Unrecorded /\ ReviewKeepsTheEvidence
  BY DEF Unrecorded, ReviewKeepsTheEvidence

\* Steps that make no attempt and write no record.
LEMMA QuietStepEvidence ==
    ASSUME Evidence, pc # "exited", UNCHANGED <<attempts, diffs, report, reviews>>
    PROVE  Evidence'
<1>1. reviews' = {}
  BY DEF Evidence, Unrecorded
<1>2. DiffOfLast'
  BY DEF Evidence, DiffOfLast, ReachedVerifier
<1> QED
  BY <1>1, <1>2 DEF Evidence, Unrecorded, ReviewKeepsTheEvidence

\* An attempt that produced a diff keeps it last, whatever became of it.
LEMMA RecordEvidence ==
    ASSUME IInv, Evidence, NEW rep \in Reports \cup {NoReport}, Record(rep),
           KeepDiff \/ rep = NoReport
    PROVE  Evidence'
<1>1. reviews' = {} /\ report' = rep
  BY DEF Record, results, Evidence, Unrecorded
<1>2. DiffOfLast'
  <2>1. CASE rep = NoReport
    BY <1>1, <2>1 DEF DiffOfLast, ReachedVerifier
  <2>2. CASE KeepDiff
    <3> DEFINE d == [model |-> current, patch |-> Patch]
    <3>1. /\ attempts' # <<>> /\ Last(attempts').model = current'
          /\ current' = current
      BY RecordKeeps DEF SomethingToDecide, Record, GoOn
    <3>2. diffs \in Seq(DiffType) /\ d \in DiffType
      BY CurrentIsNat, <2>2, KeepDiffKeeps DEF IInv, TypeOK, DiffType
    <3>3. diffs' = Append(diffs, d)
      BY <2>2 DEF KeepDiff
    <3>4. diffs' # <<>> /\ Last(diffs') = d
      BY <3>2, <3>3, AppendProperties DEF Last
    <3>5. Patch = Len(attempts')
      BY <2>2, KeepDiffKeeps
    <3> QED
      BY <3>1, <3>4, <3>5 DEF DiffOfLast
  <2> QED
    BY <2>1, <2>2
<1> QED
  BY <1>1, <1>2 DEF Evidence, Unrecorded, ReviewKeepsTheEvidence

\* Writing the record of a handoff: the exit code and the state are the run's.
LEMMA HandOffEvidence ==
    ASSUME IInv, Evidence, pc = "decide", NEW state, NEW code, NEW flag,
           HandOff(state, code, flag), code = IF flag THEN 3 ELSE 4
    PROVE  Evidence'
<1>1. /\ pc' = "exited" /\ exit' = code /\ outcome' = state
      /\ UNCHANGED <<attempts, diffs, report>> /\ attempts # <<>>
  BY DEF HandOff, Exit, progress, IInv, SomethingToDecide
<1>2. \A record \in reviews' :
        /\ record.state = state /\ record.environmentError = flag
        /\ record.listed = diffs
        /\ \E n \in 0 .. Len(diffs) : record.kept = SubSeq(record.listed, 1, n)
  BY DEF HandOff, WriteReview, Evidence, Unrecorded
<1>3. DiffOfLast'
  BY <1>1 DEF Evidence, DiffOfLast, ReachedVerifier
<1>4. ReviewKeepsTheEvidence'
  BY <1>1, <1>2, <1>3 DEF ReviewKeepsTheEvidence, DiffOfLast, ReachedVerifier
<1> QED
  BY <1>1, <1>3, <1>4 DEF Evidence, Unrecorded

LEMMA NextEvidence == IInv /\ Evidence /\ [Next]_vars => Evidence'
<1> SUFFICES ASSUME IInv, Evidence, [Next]_vars PROVE Evidence'
  OBVIOUS
<1>1. CASE \/ SelectFirstModel \/ RefuseTask \/ RaiseBeforeDecision
           \/ Finish \/ RaiseWhileFinishing
           \/ \E rep \in Reports : AsIsVerify(rep)
  BY <1>1, QuietStepEvidence
  DEF SelectFirstModel, RefuseTask, RaiseBeforeDecision, Finish, RaiseWhileFinishing,
      AsIsVerify, progress, results
<1>2. CASE AttemptWithoutDiff \/ AttemptRejected
  BY <1>2, RecordEvidence DEF AttemptWithoutDiff, AttemptRejected
<1>3. CASE \E rep \in Reports : AttemptVerified(rep)
  BY <1>3, RecordEvidence DEF AttemptVerified
<1>4. CASE VerifierUnable \/ GiveUp \/ NobodyToEscalateTo
  BY <1>4, HandOffEvidence DEF VerifierUnable, GiveUp, NobodyToEscalateTo
<1>5. CASE Proceed
  <2>1. pc = "decide" /\ UNCHANGED <<attempts, diffs, report>>
    BY <1>5 DEF Proceed
  <2>2. UNCHANGED reviews
    BY <1>5, ProceedGoesOn
  <2> QED
    BY <2>1, <2>2, QuietStepEvidence
<1>6. CASE Done \/ UNCHANGED vars
  BY <1>6 DEF Done, vars, inputs, progress, results, Evidence, Unrecorded, DiffOfLast,
              ReviewKeepsTheEvidence, ReachedVerifier
<1> QED
  BY <1>1, <1>2, <1>3, <1>4, <1>5, <1>6 DEF Next

\* The record of a handoff lists every diff, the one just judged last, agrees with
\* the exit code, and what a failed write leaves of the diffs is the first of them.
THEOREM EvidenceIsKept == Spec => []ReviewKeepsTheEvidence
<1>1. Spec => []Evidence
  BY InitEvidence, NextEvidence, Inductive, PTL DEF Spec
<1>2. Evidence => ReviewKeepsTheEvidence
  BY DEF Evidence
<1> QED
  BY <1>1, <1>2, PTL

-----------------------------------------------------------------------------
(* A run comes to an end.                                                  *)

\* The steps a run can still take: two for each attempt that is left.
StepsOf(place) == CASE place = "select"  -> 3
                    [] place \in {"asis", "decide"} -> 2
                    [] place = "attempt" -> 1
                    [] place = "exited"  -> 0

Remaining == 2 * (3 - Len(attempts)) + StepsOf(pc)

LEMMA FewAttempts ==
    ASSUME IInv
    PROVE  /\ Len(attempts) \in 0 .. 3
           /\ pc = "attempt" => Len(attempts) \in 0 .. 2
           /\ pc \in {"select", "asis"} => Len(attempts) = 0
<1>1. attempts \in Seq(AttemptType) /\ Len(attempts) \in Nat
  BY DEF IInv, TypeOK
<1>2. Len(attempts) <= 3
  BY AttemptsBounded DEF AtMostThreeAttempts
<1>3. pc = "attempt" => Len(attempts) + 1 \in 1 .. 3
  BY DEF IInv, CurrentAskable, Askable
<1>4. pc \in {"select", "asis"} => Len(attempts) = 0
  BY DEF IInv, FreshStart
<1>5. \A n \in Nat : /\ n <= 3 => n \in 0 .. 3
                     /\ n + 1 \in 1 .. 3 => n \in 0 .. 2
  OBVIOUS
<1> QED
  BY <1>1, <1>2, <1>3, <1>4, <1>5

\* Whatever the calls return, every step of a run brings it nearer to its end, which
\* is nine steps away at most: no retry, fallback or escalation of decide_next goes
\* round in a circle.
THEOREM EveryRunIsBounded ==
    Spec => /\ [](Remaining \in 0 .. 9)
            /\ [][Remaining' < Remaining]_vars
<1>1. IInv => Remaining \in 0 .. 9
  <2> SUFFICES ASSUME IInv PROVE Remaining \in 0 .. 9
    OBVIOUS
  <2>1. StepsOf(pc) \in 0 .. 3
    BY DEF IInv, TypeOK, StepsOf
  <2>2. \A n \in 0 .. 3, k \in 0 .. 3 : 2 * (3 - n) + k \in 0 .. 9
    OBVIOUS
  <2> QED
    BY <2>1, <2>2, FewAttempts DEF Remaining
<1>2. IInv /\ IInv' /\ [Next]_vars => [Remaining' < Remaining]_vars
  <2> SUFFICES ASSUME IInv, IInv', Next, vars' # vars
               PROVE  Remaining' < Remaining
    OBVIOUS
  <2>1. Len(attempts) \in Int
    BY FewAttempts
  <2>2. CASE SelectFirstModel \/ RefuseTask
    <3>1. pc = "select" /\ pc' \in {"asis", "exited"} /\ attempts' = attempts
      BY <2>2 DEF SelectFirstModel, RefuseTask, GoOn, Exit, progress
    <3> QED
      BY <2>1, <3>1 DEF Remaining, StepsOf
  <2>3. CASE \E rep \in Reports : AsIsVerify(rep)
    <3>1. pc = "asis" /\ pc' \in {"attempt", "exited"} /\ attempts' = attempts
      BY <2>3 DEF AsIsVerify, GoOn, Exit
    <3> QED
      BY <2>1, <3>1 DEF Remaining, StepsOf
  <2>4. CASE \E rep \in Reports \cup {NoReport} : Record(rep)
    <3>1. pc = "attempt" /\ pc' = "decide" /\ Len(attempts') = Len(attempts) + 1
      BY <2>4, RecordKeeps DEF Record, GoOn
    <3> QED
      BY <2>1, <3>1 DEF Remaining, StepsOf
  <2>5. CASE Finish \/ VerifierUnable \/ GiveUp \/ NobodyToEscalateTo \/ RaiseWhileFinishing
    <3>1. pc = "decide" /\ pc' = "exited" /\ attempts' = attempts
      BY <2>5 DEF Finish, VerifierUnable, GiveUp, NobodyToEscalateTo, RaiseWhileFinishing,
                  HandOff, Exit, progress
    <3> QED
      BY <2>1, <3>1 DEF Remaining, StepsOf
  <2>6. CASE Proceed
    <3>1. pc = "decide" /\ pc' = "attempt" /\ attempts' = attempts
      BY <2>6, ProceedGoesOn DEF Proceed, GoOn
    <3> QED
      BY <2>1, <3>1 DEF Remaining, StepsOf
  <2>7. CASE RaiseBeforeDecision
    <3>1. pc \in {"asis", "attempt"} /\ pc' = "exited" /\ attempts' = attempts
      BY <2>7 DEF RaiseBeforeDecision, Exit, progress
    <3> QED
      BY <2>1, <3>1 DEF Remaining, StepsOf
  <2> QED
    BY <2>2, <2>3, <2>4, <2>5, <2>6, <2>7
    DEF Next, Done, AttemptVerified, AttemptWithoutDiff, AttemptRejected
<1> QED
  BY <1>1, <1>2, Inductive, PTL DEF Spec

-----------------------------------------------------------------------------
(* Every step of the loop is a step of Escalation or leaves its state       *)
(* alone.                                                                  *)

\* Sequences written as functions, one entry longer.
LEMMA ExtendsByOne ==
    ASSUME NEW S, NEW n \in Nat, NEW f \in [1 .. n -> S], NEW g \in [1 .. n + 1 -> S],
           \A i \in 1 .. n : f[i] = g[i]
    PROVE  g = Append(f, g[n + 1])
<1>1. f \in Seq(S) /\ g \in Seq(S) /\ Len(f) = n /\ Len(g) = n + 1
  OBVIOUS
<1>2. Append(f, g[n + 1]) \in Seq(S) /\ Len(Append(f, g[n + 1])) = n + 1
  BY <1>1
<1>3. \A i \in 1 .. n + 1 : Append(f, g[n + 1])[i] = g[i]
  BY <1>1
<1> QED
  BY <1>1, <1>2, <1>3, SeqEqual

LEMMA ChargedType ==
    ASSUME IInv
    PROVE  ChargedCount \in Nat /\ Charged \in [1 .. ChargedCount -> {"free", "strong"}]
<1>1. attempts \in Seq(AttemptType)
  BY DEF IInv, TypeOK
<1>2. attempts # <<>> => Len(attempts) \in Nat \ {0}
  BY <1>1, EmptySeq
<1>3. ChargedCount \in Nat
  BY <1>2 DEF ChargedCount
<1> QED
  BY <1>3 DEF Charged, Strength

\* Steps that charge nobody: the tally, and who is in it, stay.
LEMMA NobodyCharged ==
    ASSUME ChargedCount' = ChargedCount, UNCHANGED registry,
           \A i \in 1 .. ChargedCount : attempts'[i] = attempts[i]
    PROVE  Charged' = Charged
  BY DEF Charged, Strength, Free, IsFree

LEMMA NoneCharged == ASSUME ChargedCount = 0 PROVE Charged = <<>>
  BY DEF Charged

LEMMA OneCharged ==
    ASSUME ChargedCount = 1, Free(1)
    PROVE  Charged = <<"free">>
<1>1. Charged = [i \in 1 .. 1 |-> Charged[i]] /\ Charged[1] = "free"
  BY DEF Charged, Strength
<1> QED
  BY <1>1

LEMMA TwoCharged ==
    ASSUME ChargedCount = 2, Free(1), Free(2)
    PROVE  Charged = <<"free", "free">>
<1>1. Charged = [i \in 1 .. 2 |-> Charged[i]] /\ Charged[1] = "free" /\ Charged[2] = "free"
  BY DEF Charged, Strength
<1> QED
  BY <1>1

LEMMA InitRefines == Init => Machine!Init
<1> SUFFICES ASSUME Init PROVE Machine!Init
  OBVIOUS
<1>1. ChargedCount = 0
  BY DEF Init, ChargedCount
<1>2. EscalationState = "NEW"
  BY DEF Init, EscalationState
<1> QED
  BY <1>1, <1>2, NoneCharged DEF Machine!Init

\* How many have been charged at each point of a run.
LEMMA ChargedAt ==
    ASSUME IInv
    PROVE  /\ attempts = <<>> => ChargedCount = 0
           /\ pc = "decide" => ChargedCount = Len(attempts) - 1
           /\ pc = "attempt" => ChargedCount = Len(attempts)
<1>1. attempts \in Seq(AttemptType)
  BY DEF IInv, TypeOK
<1>2. attempts # <<>> => Len(attempts) \in DOMAIN attempts
  BY <1>1, EmptySeq
<1>3. attempts = <<>> => Len(attempts) = 0
  OBVIOUS
<1>4. pc = "attempt" /\ attempts # <<>> =>
        ~Last(attempts).passed /\ ~Last(attempts).verifyError
  BY <1>2 DEF IInv, EarlierFailedFree, FailedFree, Last
<1> QED
  BY <1>3, <1>4 DEF ChargedCount, IInv, SomethingToDecide

\* Before the first attempt: assigning a model, refusing, finding nothing to do.
LEMMA StartRefines ==
    ASSUME IInv, IInv',
           \/ SelectFirstModel
           \/ RefuseTask
           \/ \E rep \in Reports : AsIsVerify(rep)
    PROVE  [Machine!Next]_(Machine!vars)
<1>1. /\ pc \in {"select", "asis"} /\ attempts = <<>> /\ attempts' = <<>>
      /\ outcome = Running
  BY DEF IInv, FreshStart, Undelivered, SelectFirstModel, RefuseTask, AsIsVerify,
         progress
<1>2. Charged = <<>> /\ Charged' = <<>>
  <2>1. ChargedCount = 0 /\ ChargedCount' = 0
    BY <1>1 DEF ChargedCount
  <2> QED
    BY <2>1, NobodyCharged, NoneCharged DEF Charged
<1>3. EscalationState = "NEW"
  BY <1>1 DEF EscalationState
<1>4. EscalationState' \in {"NEW", "RUNNING", "ESCALATED", "NO_MODEL", "DONE"}
  BY <1>1 DEF SelectFirstModel, RefuseTask, AsIsVerify, GoOn, Exit,
              EscalationState, Running
<1> QED
  BY <1>2, <1>3, <1>4 DEF Machine!Next, Machine!vars, Machine!Assign, Machine!Decline

\* Recording an attempt is invisible until it is decided on.
LEMMA RecordRefines ==
    ASSUME IInv, IInv', NEW rep \in Reports \cup {NoReport}, Record(rep)
    PROVE  UNCHANGED Machine!vars
<1>1. /\ pc = "attempt" /\ pc' = "decide" /\ UNCHANGED <<registry, current, outcome>>
      /\ outcome = Running
  BY DEF Record, GoOn, inputs, IInv, Undelivered
<1>2. ChargedCount = Len(attempts) /\ ChargedCount' = Len(attempts')- 1
  BY <1>1, ChargedAt, RecordKeeps DEF ChargedCount, IInv, SomethingToDecide
<1>3. /\ Len(attempts') = Len(attempts) + 1 /\ Len(attempts) \in Nat
      /\ attempts \in Seq(AttemptType)
  BY RecordKeeps DEF IInv, TypeOK
<1>4. \A i \in 1 .. Len(attempts) : attempts'[i] = attempts[i]
  BY <1>3 DEF Record
<1>5. Charged' = Charged
  BY <1>1, <1>2, <1>3, <1>4, NobodyCharged
<1>6. EscalationState' = EscalationState
  BY <1>1 DEF EscalationState, Running
<1> QED
  BY <1>5, <1>6 DEF Machine!vars

\* The abstract state of a run that has an attempt to decide on.
LEMMA DecidingState ==
    ASSUME IInv, pc = "decide"
    PROVE  /\ Len(attempts) \in Nat \ {0} /\ attempts \in Seq(AttemptType)
           /\ DOMAIN attempts = 1 .. Len(attempts) /\ attempts # <<>>
           /\ ChargedCount = Len(attempts) - 1
           /\ outcome = Running
           /\ Free(Len(attempts)) <=> IsFree(registry, current)
           /\ EscalationState = IF IsFree(registry, current) THEN "RUNNING" ELSE "ESCALATED"
<1>1. outcome = Running /\ current = Last(attempts).model
  BY DEF IInv, Undelivered, SomethingToDecide
<1>2. EscalationState = IF IsFree(registry, current) THEN "RUNNING" ELSE "ESCALATED"
  BY <1>1 DEF EscalationState
<1> QED
  BY <1>1, <1>2, AnswerMeans, ChargedAt DEF Free, Last

\* A run that ends with a pass or a verifier error charges nobody for it.
LEMMA EndUncharged ==
    ASSUME IInv, pc = "decide", pc' = "exited", UNCHANGED <<registry, attempts>>,
           Last(attempts).passed \/ Last(attempts).verifyError
    PROVE  Charged' = Charged
<1>1. ChargedCount' = ChargedCount
  BY DecidingState DEF ChargedCount
<1> QED
  BY <1>1, NobodyCharged

\* One that goes on, or ends, with a failure charges exactly the last attempt.
LEMMA FailureCharged ==
    ASSUME IInv, pc = "decide", pc' # "decide", UNCHANGED <<registry, attempts>>,
           ~Last(attempts).passed, ~Last(attempts).verifyError
    PROVE  /\ ChargedCount' = Len(attempts)
           /\ \A k \in DOMAIN attempts : Free(k)' = Free(k)
<1>1. ChargedCount' = Len(attempts)
  BY DecidingState DEF ChargedCount
<1> QED
  BY <1>1 DEF Free

\* Free attempts only: the two tallies the machine allows.
LEMMA FreeFailureCharged ==
    ASSUME IInv, pc = "decide", pc' # "decide", UNCHANGED <<registry, attempts>>,
           ~Last(attempts).passed, ~Last(attempts).verifyError,
           Len(attempts) \in 1 .. 2, \A i \in DOMAIN attempts : Free(i)
    PROVE  /\ EscalationState = "RUNNING"
           /\ \/ Len(attempts) = 1 /\ Charged = <<>> /\ Charged' = <<"free">>
              \/ Len(attempts) = 2 /\ Charged = <<"free">> /\ Charged' = <<"free", "free">>
<1>1. /\ Len(attempts) \in DOMAIN attempts /\ DOMAIN attempts = 1 .. Len(attempts)
      /\ ChargedCount = Len(attempts) - 1 /\ ChargedCount' = Len(attempts)
      /\ EscalationState = "RUNNING"
  BY DecidingState, FailureCharged
<1>2. \A k \in DOMAIN attempts : Free(k) /\ Free(k)'
  BY FailureCharged
<1>3. CASE Len(attempts) = 1
  <2>1. Charged = <<>>
    BY <1>1, <1>3, NoneCharged
  <2>2. Charged' = [i \in 1 .. 1 |-> Charged'[i]] /\ Charged'[1] = "free"
    BY <1>1, <1>2, <1>3 DEF Charged, Strength
  <2>3. Charged' = <<"free">>
    BY <2>2
  <2> QED
    BY <1>1, <1>3, <2>1, <2>3
<1>4. CASE Len(attempts) = 2
  <2>1. Charged = <<"free">>
    BY <1>1, <1>2, <1>4, OneCharged
  <2>2. /\ Charged' = [i \in 1 .. 2 |-> Charged'[i]]
        /\ Charged'[1] = "free" /\ Charged'[2] = "free"
    BY <1>1, <1>2, <1>4 DEF Charged, Strength
  <2>3. Charged' = <<"free", "free">>
    BY <2>2
  <2> QED
    BY <1>1, <1>4, <2>1, <2>3
<1> QED
  BY <1>3, <1>4

LEMMA FinishRefines ==
    ASSUME IInv, Finish \/ RaiseWhileFinishing
    PROVE  Machine!Next
<1>1. /\ pc = "decide" /\ pc' = "exited" /\ UNCHANGED <<registry, attempts>>
      /\ outcome' \in {"DONE", "ABORTED"} /\ Steps = Verdict("DONE")
  BY DEF Finish, RaiseWhileFinishing, Exit, inputs, progress
<1>2. Last(attempts).passed
  BY <1>1, AnswerMeans DEF IInv, ReportOfLast, Attempt
<1>3. Charged' = Charged
  BY <1>1, <1>2, EndUncharged
<1>4. EscalationState \in {"RUNNING", "ESCALATED"}
  BY <1>1, DecidingState
<1>5. EscalationState' \in {"DONE", "ABORTED"}
  BY <1>1 DEF EscalationState, Running
<1> QED
  BY <1>3, <1>4, <1>5 DEF Machine!Next, Machine!Pass, Machine!Abort, Machine!Terminal

LEMMA VerifierUnableRefines ==
    ASSUME IInv, VerifierUnable
    PROVE  Machine!Next
<1>1. /\ pc = "decide" /\ pc' = "exited" /\ UNCHANGED <<registry, attempts>>
      /\ outcome' = "VERIFY_ERROR" /\ Steps = Verdict("VERIFY_ERROR")
  BY DEF VerifierUnable, HandOff, Exit, inputs, progress
<1>2. Last(attempts).verifyError
  BY <1>1, AnswerMeans DEF IInv, ReportOfLast, Attempt
<1>3. Charged' = Charged
  BY <1>1, <1>2, EndUncharged
<1>4. EscalationState \in {"RUNNING", "ESCALATED"} /\ EscalationState' = "VERIFY_ERROR"
  BY <1>1, DecidingState DEF EscalationState, Running
<1> QED
  BY <1>3, <1>4 DEF Machine!Next, Machine!VerifierUnable

LEMMA GiveUpRefines ==
    ASSUME IInv, IInv', GiveUp
    PROVE  Machine!Next
<1> DEFINE n == Len(attempts)
<1>1. /\ pc = "decide" /\ pc' = "exited" /\ UNCHANGED <<registry, attempts>>
      /\ outcome' = "HUMAN_REVIEW" /\ Steps = Verdict("HUMAN_REVIEW")
  BY DEF GiveUp, HandOff, Exit, inputs, progress
<1>2. /\ ~Last(attempts).passed /\ ~Last(attempts).verifyError
      /\ \E i \in DOMAIN attempts : ~Free(i)
  BY <1>1, AnswerMeans
<1>3. /\ n \in Nat \ {0} /\ DOMAIN attempts = 1 .. n
      /\ ChargedCount = n - 1 /\ ChargedCount' = n
  BY <1>1, <1>2, DecidingState, FailureCharged
<1>4. ~Free(n)
  BY <1>1, <1>2, <1>3, AnswerMeans DEF Free
<1>5. EscalationState = "ESCALATED" /\ EscalationState' = "HUMAN_REVIEW"
  <2>1. ~IsFree(registry, current)
    BY <1>1, <1>4, DecidingState
  <2> QED
    BY <1>1, <2>1, DecidingState DEF EscalationState, Running
<1>6. Charged' = Append(Charged, "strong")
  <2>1. Charged \in [1 .. n - 1 -> {"free", "strong"}]
    BY <1>3, ChargedType
  <2>2. \A i \in 1 .. n : Strength(i)' = Strength(i)
    BY <1>1 DEF Strength, Free
  <2>3. Charged' = [i \in 1 .. n |-> Strength(i)']
    BY <1>3 DEF Charged
  <2>4. Charged' \in [1 .. (n - 1) + 1 -> {"free", "strong"}]
    BY <1>3, <2>3 DEF Strength
  <2>5. \A i \in 1 .. n - 1 : Charged[i] = Charged'[i]
    BY <1>3, <2>2, <2>3 DEF Charged
  <2>6. Charged'[n] = "strong"
    BY <1>3, <1>4, <2>2, <2>3 DEF Strength
  <2>7. Charged' = Append(Charged, Charged'[(n - 1) + 1])
    <3>1. n - 1 \in Nat
      BY <1>3
    <3> HIDE DEF n
    <3> QED
      BY <3>1, <2>1, <2>4, <2>5, ExtendsByOne
  <2> QED
    BY <1>3, <2>6, <2>7
<1> QED
  BY <1>5, <1>6 DEF Machine!Next, Machine!StrongFailure

LEMMA NobodyToEscalateToRefines ==
    ASSUME IInv, IInv', NobodyToEscalateTo
    PROVE  Machine!Next
<1>1. /\ pc = "decide" /\ pc' = "exited" /\ UNCHANGED <<registry, attempts>>
      /\ outcome' = "HUMAN_REVIEW" /\ DecideNext(task, registry, attempts) = {}
  BY DEF NobodyToEscalateTo, HandOff, Exit, Steps, inputs, progress
<1>2. /\ ~Last(attempts).passed /\ ~Last(attempts).verifyError
      /\ ~StrongTried(registry, attempts)
  BY <1>1, InputTypes, NoDecision DEF IInv
<1>3. \A i \in DOMAIN attempts : Free(i)
  BY <1>2 DEF StrongTried, Tried, Free
<1>4. Len(attempts) \in 1 .. 2
  <2>1. Len(attempts) \in DOMAIN attempts /\ Len(attempts) \in Nat
    BY <1>1, DecidingState
  <2>2. Len(attempts) \in 1 .. 3 /\ Len(attempts) # 3
    BY <1>3, <2>1 DEF IInv, AllAskable, Askable, Free
  <2> QED
    BY <2>1, <2>2
<1>5. EscalationState' = "HUMAN_REVIEW"
  BY <1>1 DEF EscalationState, Running
<1> QED
  BY <1>1, <1>2, <1>3, <1>4, <1>5, FreeFailureCharged
  DEF Machine!Next, Machine!FirstFreeFailure, Machine!SecondFreeFailure

LEMMA ProceedRefines ==
    ASSUME IInv, IInv', Proceed
    PROVE  Machine!Next
<1>1. pc = "decide" /\ UNCHANGED <<registry, task, attempts>>
  BY DEF Proceed, inputs
<1>2. /\ Len(attempts) \in 1 .. 2
      /\ ~Last(attempts).verifyError /\ ~Last(attempts).passed
      /\ \A i \in DOMAIN attempts : IsFree(registry, attempts[i].model)
      /\ Askable(registry, task, attempts, current', Len(attempts) + 1)
  BY ProceedGoesOn
<1>3. pc' = "attempt" /\ outcome' = Running
  BY <1>1, ProceedGoesOn DEF GoOn, IInv, Undelivered
<1>4. /\ EscalationState = "RUNNING"
      /\ \/ Len(attempts) = 1 /\ Charged = <<>> /\ Charged' = <<"free">>
         \/ Len(attempts) = 2 /\ Charged = <<"free">> /\ Charged' = <<"free", "free">>
  BY <1>1, <1>2, <1>3, FreeFailureCharged DEF Free
<1>5. /\ EscalationState' \in {"RUNNING", "ESCALATED"}
      /\ Len(attempts) = 2 => EscalationState' = "ESCALATED"
  BY <1>1, <1>2, <1>3 DEF EscalationState, Running, Askable
<1> QED
  BY <1>4, <1>5 DEF Machine!Next, Machine!FirstFreeFailure, Machine!SecondFreeFailure

LEMMA RaiseBeforeDecisionRefines ==
    ASSUME IInv, RaiseBeforeDecision
    PROVE  Machine!Next
<1>1. /\ pc \in {"asis", "attempt"} /\ pc' = "exited" /\ outcome' = "ABORTED"
      /\ outcome = Running /\ UNCHANGED <<registry, attempts>>
  BY DEF RaiseBeforeDecision, Exit, inputs, progress, IInv, Undelivered
<1>2. Charged' = Charged
  <2>1. ChargedCount' = ChargedCount
    BY <1>1 DEF ChargedCount
  <2> QED
    BY <1>1, <2>1, NobodyCharged
<1>3. EscalationState \in {"NEW", "RUNNING", "ESCALATED"} /\ EscalationState' = "ABORTED"
  BY <1>1 DEF EscalationState, Running
<1> QED
  BY <1>2, <1>3 DEF Machine!Next, Machine!Abort, Machine!Terminal

LEMMA StutterRefines ==
    ASSUME UNCHANGED vars
    PROVE  UNCHANGED Machine!vars
<1>1. UNCHANGED <<pc, registry, attempts, outcome, current>>
  BY DEF vars, inputs, progress
<1>2. Charged' = Charged
  BY <1>1 DEF Charged, ChargedCount, Strength, Free
<1>3. EscalationState' = EscalationState
  BY <1>1 DEF EscalationState
<1> QED
  BY <1>2, <1>3 DEF Machine!vars

LEMMA NextRefines == IInv /\ IInv' /\ [Next]_vars => [Machine!Next]_(Machine!vars)
<1> SUFFICES ASSUME IInv, IInv', [Next]_vars PROVE [Machine!Next]_(Machine!vars)
  OBVIOUS
<1>1. CASE SelectFirstModel \/ RefuseTask \/ \E rep \in Reports : AsIsVerify(rep)
  BY <1>1, StartRefines
<1>2. CASE AttemptWithoutDiff \/ AttemptRejected
  BY <1>2, RecordRefines DEF AttemptWithoutDiff, AttemptRejected
<1>3. CASE \E rep \in Reports : AttemptVerified(rep)
  BY <1>3, RecordRefines DEF AttemptVerified
<1>4. CASE Finish \/ RaiseWhileFinishing
  BY <1>4, FinishRefines
<1>5. CASE VerifierUnable
  BY <1>5, VerifierUnableRefines
<1>6. CASE GiveUp
  BY <1>6, GiveUpRefines
<1>7. CASE NobodyToEscalateTo
  BY <1>7, NobodyToEscalateToRefines
<1>8. CASE Proceed
  BY <1>8, ProceedRefines
<1>9. CASE RaiseBeforeDecision
  BY <1>9, RaiseBeforeDecisionRefines
<1>10. CASE Done \/ UNCHANGED vars
  BY <1>10, StutterRefines DEF Done
<1> QED
  BY <1>1, <1>2, <1>3, <1>4, <1>5, <1>6, <1>7, <1>8, <1>9, <1>10 DEF Next

\* Whatever the registry holds and the calls return, a run of the program is a
\* run of the escalation state machine of Section 6.
THEOREM RunFollowsEscalation == Spec => FollowsEscalation
<1>1. Spec => Machine!Init /\ [][Machine!Next]_(Machine!vars)
  BY InitRefines, NextRefines, Inductive, PTL DEF Spec
<1> QED
  BY <1>1 DEF FollowsEscalation, Machine!Spec
=============================================================================

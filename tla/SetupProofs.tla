---------------------------- MODULE SetupProofs ----------------------------
(***************************************************************************)
(* What loading promises, for every models.yaml and every catalog: the walk*)
(* accepts exactly the graphs of escalations that are sound, and merging   *)
(* the catalog leaves what the file says as it is.                         *)
(*                                                                         *)
(* The walk is right because of what a set that no chain leaves means for  *)
(* it: a walk that begins in such a set is still in it, so one that has    *)
(* come to its end began in none; and where it meets itself again, what it *)
(* has seen is such a set.                                                 *)
(***************************************************************************)
EXTENDS Setup, TLAPS, FiniteSetTheorems

Sound(entries) == NoDuplicates(entries) /\ NoDangling(entries) /\ ~Cyclic(entries)

\* Where a command stands, and what has been refused.
Course ==
    /\ phase = "parsing" => models = <<>> /\ seen = {} /\ merging = 0
    /\ phase # "refused" => refusal = "none"
    /\ phase \in {"checking", "walking"} => NoDuplicates(models)
    /\ phase \in {"reading", "merging", "selecting", "ready"} => Sound(models)
    /\ phase = "merging" => merging > 0
    /\ phase = "reading" => merging = 0
    /\ merging > 0 => Sound(models) /\ models # <<>>
    /\ refusal = "cycle" => Cyclic(models)
    /\ refusal \in {"duplicates", "dangling", "cycle"} => merging = 0

\* The walk, as the introduction has it.
Walk ==
    phase = "walking" =>
        /\ NoDangling(models)
        /\ \A m \in seen : To(models, m) \in seen \cup {current}
        /\ \A S \in SUBSET IdsOf(models) : Trap(models, S) =>
             /\ models[start].id \in S => current \in S
             /\ \A j \in DOMAIN models : j < start => models[j].id \notin S

\* The file is the beginning of the registry, and the catalog's ids are in it
\* as far as the merge has come.
Merged ==
    /\ models # <<>> => \A i \in DOMAIN file : i \in DOMAIN models /\ models[i] = file[i]
    /\ \A k \in DOMAIN cache.models :
         k < merging /\ cache.models[k].id # NoId => cache.models[k].id \in IdsOf(models)
    /\ phase = "ready" /\ request.by = "tier" /\ request.tier = "free" =>
         \A k \in DOMAIN pool : pool[k] \in DOMAIN models /\ models[pool[k]].tier = "free"

IInv == TypeOK /\ Course /\ Walk /\ Merged

-----------------------------------------------------------------------------
(* Lemmas on graphs of escalations.                                        *)

\* An entry leads where it says, when no id is listed twice.
LEMMA ToIs ==
    ASSUME NEW entries, NoDuplicates(entries), NEW i \in DOMAIN entries
    PROVE  To(entries, entries[i].id) = entries[i].escalatesTo
<1> DEFINE j == CHOOSE j \in DOMAIN entries : entries[j].id = entries[i].id
<1>1. j \in DOMAIN entries /\ entries[j].id = entries[i].id
  OBVIOUS
<1>2. j = i
  BY <1>1 DEF NoDuplicates
<1> QED
  BY <1>2 DEF To

LEMMA ToListed ==
    ASSUME NEW entries, NoDuplicates(entries), NoDangling(entries), NEW m \in IdsOf(entries)
    PROVE  To(entries, m) \in IdsOf(entries) \cup {NoId}
<1> PICK i \in DOMAIN entries : entries[i].id = m
  BY DEF IdsOf
<1> QED
  BY ToIs DEF NoDangling

LEMMA IdsAreIds ==
    ASSUME NEW entries \in Seq(Listed)
    PROVE  NoId \notin IdsOf(entries)
<1>1. \A entry \in Listed : entry.id \in Ids
  BY DEF Listed
<1>2. \A i \in DOMAIN entries : entries[i] \in Listed
  OBVIOUS
<1> QED
  BY <1>1, <1>2, IdsAssumption DEF IdsOf

\* A sound graph stays sound when a new model that escalates to nobody is added.
LEMMA AppendSound ==
    ASSUME NEW entries \in Seq(Listed), Sound(entries),
           NEW entry \in Listed, entry.escalatesTo = NoId, entry.id \notin IdsOf(entries)
    PROVE  /\ Sound(Append(entries, entry))
           /\ IdsOf(Append(entries, entry)) = IdsOf(entries) \cup {entry.id}
<1> DEFINE n == Len(entries) + 1
           more == Append(entries, entry)
<1>1. /\ more \in Seq(Listed) /\ DOMAIN more = 1 .. n /\ DOMAIN entries = 1 .. Len(entries)
      /\ Len(entries) \in Nat /\ more[n] = entry /\ n \in DOMAIN more
      /\ DOMAIN more = DOMAIN entries \cup {n} /\ n \notin DOMAIN entries
      /\ \A i \in DOMAIN entries : i \in DOMAIN more /\ more[i] = entries[i]
  OBVIOUS
<1> HIDE DEF more, n
<1>2. IdsOf(more) = IdsOf(entries) \cup {entry.id}
  <2>1. ASSUME NEW i \in DOMAIN more PROVE more[i].id \in IdsOf(entries) \cup {entry.id}
    <3>1. CASE i = n
      BY <1>1, <3>1
    <3>2. CASE i # n
      BY <1>1, <3>2 DEF IdsOf
    <3> QED
      BY <3>1, <3>2
  <2>2. ASSUME NEW i \in DOMAIN entries PROVE entries[i].id \in IdsOf(more)
    BY <1>1 DEF IdsOf
  <2>3. entry.id \in IdsOf(more)
    BY <1>1 DEF IdsOf
  <2>4. IdsOf(more) \subseteq IdsOf(entries) \cup {entry.id}
    BY <2>1, Zenon DEF IdsOf
  <2>5. IdsOf(entries) \subseteq IdsOf(more)
    BY <2>2, Zenon DEF IdsOf
  <2> QED
    BY <2>3, <2>4, <2>5
<1>3. NoDuplicates(more)
  <2>1. \A i \in DOMAIN entries : entries[i].id # entry.id
    BY DEF IdsOf
  <2> QED
    BY <1>1, <2>1 DEF NoDuplicates, Sound
<1>4. NoDangling(more)
  BY <1>1, <1>2 DEF NoDangling, Sound
<1>5. ASSUME Cyclic(more) PROVE FALSE
  <2>1. PICK S \in SUBSET IdsOf(more) : S # {} /\ Trap(more, S)
    BY <1>5 DEF Cyclic
  <2>2. NoId \notin S
    BY <1>1, IdsAreIds
  <2>3. To(more, entry.id) = NoId
    <3>1. To(more, more[n].id) = more[n].escalatesTo
      BY <1>1, <1>3, ToIs
    <3> QED
      BY <3>1, <1>1
  <2>4. S \subseteq IdsOf(entries)
    BY <1>2, <2>1, <2>2, <2>3 DEF Trap
  <2>5. \A m \in IdsOf(entries) : To(more, m) = To(entries, m)
    <3> SUFFICES ASSUME NEW i \in DOMAIN entries
                 PROVE  To(more, entries[i].id) = To(entries, entries[i].id)
      BY DEF IdsOf
    <3>1. To(entries, entries[i].id) = entries[i].escalatesTo
      BY ToIs DEF Sound
    <3>2. To(more, more[i].id) = more[i].escalatesTo
      BY <1>1, <1>3, ToIs
    <3> QED
      BY <3>1, <3>2, <1>1
  <2>6. Trap(entries, S)
    BY <2>1, <2>4, <2>5 DEF Trap
  <2> QED
    BY <2>1, <2>4, <2>6 DEF Cyclic, Sound
<1> QED
  BY <1>2, <1>3, <1>4, <1>5 DEF Sound, more
-----------------------------------------------------------------------------
(* The invariant.                                                          *)

LEMMA FileTypes ==
    ASSUME file \in Files
    PROVE  file \in Seq(Listed)
  BY FilesAssumption

\* The empty registry has no ids.
LEMMA NoIdsYet == IdsOf(<<>>) = {}
  BY DEF IdsOf

LEMMA CatalogTypes ==
    ASSUME cache \in Caches
    PROVE  cache.models \in Seq(Offer) /\ Len(cache.models) \in Nat
<1>1. <<>> \in Seq(Offer)
  OBVIOUS
<1>2. cache.models \in {<<>>} \cup Catalogs
  BY DEF Caches
<1>3. cache.models \in Seq(Offer)
  BY <1>1, <1>2, CatalogsAssumption
<1> QED
  BY <1>3

LEMMA InitInvariant == Init => IInv
<1> SUFFICES ASSUME Init PROVE IInv
  OBVIOUS
<1>1. cache.models \in Seq(Offer) /\ Len(cache.models) \in Nat
  BY CatalogTypes DEF Init
<1>2. TypeOK
  BY <1>1, NoIdsYet DEF Init, TypeOK
<1>3. Course
  BY DEF Init, Course
<1>4. Walk
  BY DEF Init, Walk
<1>5. Merged
  BY <1>1 DEF Init, Merged
<1> QED
  BY <1>2, <1>3, <1>4, <1>5 DEF IInv

\* A refusal changes nothing but that the command is over.
LEMMA RefuseStep ==
    ASSUME IInv, NEW why, Refuse(why), phase \notin {"refused", "ready", "raised"},
           why \in {"malformed", "duplicates", "dangling", "cycle", "no cache",
                    "unknown id", "no pool"},
           why = "cycle" => Cyclic(models),
           why \in {"duplicates", "dangling", "cycle"} => merging = 0
    PROVE  IInv'
<1>1. /\ phase' = "refused" /\ refusal' = why /\ models' = models /\ merging' = merging
      /\ file' = file /\ cache' = cache /\ request' = request /\ routerKey' = routerKey
      /\ start' = start /\ current' = current /\ seen' = seen /\ pool' = pool
  BY DEF Refuse, inputs, walk
<1>2. TypeOK'
  BY <1>1 DEF IInv, TypeOK
<1>3. Course'
  BY <1>1 DEF IInv, Course
<1>4. Walk'
  BY <1>1 DEF Walk
<1>5. Merged'
  BY <1>1 DEF IInv, Merged
<1> QED
  BY <1>2, <1>3, <1>4, <1>5 DEF IInv

LEMMA ParseStep == IInv /\ Parse => IInv'
<1> SUFFICES ASSUME IInv, Parse PROVE IInv'
  OBVIOUS
<1>0. merging = 0 /\ seen = {} /\ phase = "parsing" /\ file \in Seq(Listed)
  BY FileTypes DEF IInv, Course, Parse, TypeOK
<1>1. CASE Refuse("malformed")
  BY <1>0, <1>1, RefuseStep
<1>2. CASE Refuse("duplicates")
  BY <1>0, <1>2, RefuseStep
<1>3. CASE Parses /\ NoDuplicates(file) /\ phase' = "checking" /\ models' = file
           /\ UNCHANGED <<inputs, refusal, merging, walk, pool>>
  <2>1. /\ models' = file /\ phase' = "checking" /\ refusal' = refusal /\ merging' = 0
        /\ file' = file /\ cache' = cache /\ request' = request /\ routerKey' = routerKey
        /\ seen' = {} /\ pool' = pool /\ file # <<>> /\ NoDuplicates(file)
    BY <1>0, <1>3 DEF inputs, walk, Parses
  <2>2. refusal = "none" /\ pool = <<>>
    BY <1>0 DEF IInv, Course, TypeOK
  <2>3. TypeOK'
    BY <1>0, <2>1, <2>2 DEF IInv, TypeOK
  <2>4. Course'
    BY <2>1, <2>2 DEF Course
  <2>5. Walk'
    BY <2>1 DEF Walk
  <2>6. Merged'
    BY <2>1 DEF IInv, Merged, TypeOK, Caches
  <2> QED
    BY <2>3, <2>4, <2>5, <2>6 DEF IInv
<1> QED
  BY <1>1, <1>2, <1>3 DEF Parse

LEMMA CheckStep == IInv /\ Check => IInv'
<1> SUFFICES ASSUME IInv, Check PROVE IInv'
  OBVIOUS
<1>0. phase = "checking" /\ NoDuplicates(models) /\ models \in Seq(Listed) /\ models # <<>>
  BY DEF IInv, Course, Check, TypeOK
<1>1. CASE ~NoDangling(models) /\ Refuse("dangling")
  <2>1. merging = 0
    BY <1>1 DEF IInv, Course, Sound, TypeOK
  <2> QED
    BY <1>0, <1>1, <2>1, RefuseStep
<1>2. CASE NoDangling(models) /\ phase' = "walking" /\ WalkFrom(1)
           /\ UNCHANGED <<inputs, refusal, models, merging, pool>>
  <2>1. /\ phase' = "walking" /\ start' = 1 /\ current' = models[1].id /\ seen' = {}
        /\ file' = file /\ cache' = cache /\ request' = request /\ routerKey' = routerKey
        /\ refusal' = refusal /\ models' = models /\ merging' = merging /\ pool' = pool
    BY <1>2 DEF WalkFrom, inputs
  <2>2. 1 \in DOMAIN models /\ models[1].id \in IdsOf(models)
    <3>1. 1 \in DOMAIN models
      BY <1>0
    <3> QED
      BY <3>1 DEF IdsOf
  <2>3. TypeOK'
    BY <2>1, <2>2 DEF IInv, TypeOK
  <2>4. Course'
    BY <1>0, <2>1 DEF IInv, Course
  <2>5. Walk'
    <3>1. DOMAIN models = 1 .. Len(models) /\ Len(models) \in Nat
      BY <1>0
    <3>2. \A j \in DOMAIN models : ~(j < 1)
      BY <3>1
    <3> QED
      BY <1>2, <2>1, <2>2, <3>2 DEF Walk
  <2>6. Merged'
    BY <2>1 DEF IInv, Merged
  <2> QED
    BY <2>3, <2>4, <2>5, <2>6 DEF IInv
<1> QED
  BY <1>1, <1>2 DEF Check

LEMMA WalkOnStep == IInv /\ WalkOn => IInv'
<1> SUFFICES ASSUME IInv, WalkOn PROVE IInv'
  OBVIOUS
<1>0. /\ phase = "walking" /\ NoDuplicates(models) /\ NoDangling(models)
      /\ current # NoId /\ current \in IdsOf(models)
  BY DEF IInv, Course, Walk, WalkOn, TypeOK
<1>1. /\ seen' = seen \cup {current} /\ current' = To(models, current) /\ phase' = "walking"
      /\ file' = file /\ cache' = cache /\ request' = request /\ routerKey' = routerKey
      /\ refusal' = refusal /\ models' = models /\ merging' = merging /\ pool' = pool
      /\ start' = start
  BY <1>0 DEF WalkOn, Seen, inputs
<1>2. TypeOK'
  <2>1. current' \in IdsOf(models) \cup {NoId}
    BY <1>0, <1>1, ToListed
  <2> QED
    BY <1>0, <1>1, <2>1 DEF IInv, TypeOK
<1>3. Course'
  BY <1>0, <1>1 DEF IInv, Course
<1>4. Walk'
  <2>1. \A m \in seen' : To(models, m) \in seen' \cup {current'}
    BY <1>0, <1>1 DEF IInv, Walk
  <2>2. ASSUME NEW S \in SUBSET IdsOf(models), Trap(models, S), models[start].id \in S
        PROVE  current' \in S
    BY <1>0, <1>1, <2>2 DEF IInv, Walk, Trap
  <2> QED
    BY <1>0, <1>1, <2>1, <2>2 DEF IInv, Walk
<1>5. Merged'
  BY <1>1 DEF IInv, Merged
<1> QED
  BY <1>2, <1>3, <1>4, <1>5 DEF IInv

\* Where the walk meets itself, what it has seen is a trap: there is a cycle,
\* and so the graph is not one that has been accepted before.
LEMMA RevisitStep == IInv /\ Revisit => IInv'
<1> SUFFICES ASSUME IInv, Revisit PROVE IInv'
  OBVIOUS
<1>1. phase = "walking" /\ current \in seen /\ Refuse("cycle")
  BY DEF Revisit
<1>2. Trap(models, seen)
  BY <1>1 DEF IInv, Walk, TypeOK, Trap
<1>3. Cyclic(models)
  BY <1>1, <1>2 DEF Cyclic, IInv, TypeOK
<1>4. merging = 0
  BY <1>3 DEF IInv, Course, Sound, TypeOK
<1> QED
  BY <1>1, <1>3, <1>4, RefuseStep

\* Where it comes to an end it began in no trap.
LEMMA ChainEndsStep == IInv /\ ChainEnds => IInv'
<1> SUFFICES ASSUME IInv, ChainEnds PROVE IInv'
  OBVIOUS
<1>0. /\ phase = "walking" /\ NoDuplicates(models) /\ NoDangling(models)
      /\ current = NoId /\ start \in DOMAIN models
      /\ models \in Seq(Listed) /\ DOMAIN models = 1 .. Len(models) /\ Len(models) \in Nat
      /\ refusal = "none" /\ merging \in Nat
  BY DEF IInv, Course, Walk, ChainEnds, TypeOK
<1>1. ASSUME NEW S \in SUBSET IdsOf(models), Trap(models, S)
      PROVE  \A j \in DOMAIN models : j <= start => models[j].id \notin S
  <2>1. NoId \notin S
    BY <1>0, IdsAreIds
  <2>2. models[start].id \notin S
    BY <1>0, <1>1, <2>1 DEF IInv, Walk
  <2>3. \A j \in DOMAIN models : j < start => models[j].id \notin S
    BY <1>0, <1>1 DEF IInv, Walk
  <2> QED
    BY <1>0, <2>2, <2>3
<1>2. CASE ~AllWalked /\ WalkFrom(start + 1) /\ phase' = phase
           /\ UNCHANGED <<inputs, refusal, models, merging, pool>>
  <2>1. /\ phase' = "walking" /\ start' = start + 1 /\ current' = models[start + 1].id
        /\ seen' = {} /\ file' = file /\ cache' = cache /\ request' = request
        /\ routerKey' = routerKey /\ refusal' = refusal /\ models' = models
        /\ merging' = merging /\ pool' = pool
    BY <1>0, <1>2 DEF WalkFrom, inputs
  <2>2. start + 1 \in DOMAIN models /\ models[start + 1].id \in IdsOf(models)
    <3>1. start + 1 \in DOMAIN models
      BY <1>0, <1>2 DEF AllWalked
    <3> QED
      BY <3>1 DEF IdsOf
  <2>3. TypeOK'
    BY <1>0, <2>1, <2>2 DEF IInv, TypeOK
  <2>4. Course'
    BY <1>0, <2>1 DEF IInv, Course
  <2>5. Walk'
    <3>1. \A j \in DOMAIN models : j < start + 1 => j <= start
      BY <1>0
    <3> QED
      BY <1>0, <1>1, <2>1, <3>1 DEF Walk
  <2>6. Merged'
    BY <1>0, <2>1 DEF IInv, Merged
  <2> QED
    BY <2>3, <2>4, <2>5, <2>6 DEF IInv
<1>3. CASE AllWalked
           /\ phase' = (IF request.live /\ merging = 0 THEN "reading" ELSE "selecting")
           /\ UNCHANGED <<walk, inputs, refusal, models, merging, pool>>
  <2>1. /\ phase' \in {"reading", "selecting"} /\ (phase' = "reading" => merging = 0)
        /\ start' = start /\ current' = current /\ seen' = seen
        /\ file' = file /\ cache' = cache /\ request' = request
        /\ routerKey' = routerKey /\ refusal' = refusal /\ models' = models
        /\ merging' = merging /\ pool' = pool
    BY <1>3 DEF inputs, walk
  <2>2. ~Cyclic(models)
    <3> SUFFICES ASSUME NEW S \in SUBSET IdsOf(models), Trap(models, S) PROVE S = {}
      BY DEF Cyclic
    <3>1. \A j \in DOMAIN models : models[j].id \notin S
      BY <1>0, <1>1, <1>3 DEF AllWalked
    <3> QED
      BY <3>1 DEF IdsOf
  <2>3. Sound(models)
    BY <1>0, <2>2 DEF Sound
  <2>4. TypeOK'
    BY <1>0, <2>1 DEF IInv, TypeOK
  <2>5. Course'
    BY <1>0, <2>1, <2>3 DEF IInv, Course
  <2>6. Walk'
    BY <2>1 DEF Walk
  <2>7. Merged'
    BY <2>1 DEF IInv, Merged
  <2> QED
    BY <2>4, <2>5, <2>6, <2>7 DEF IInv
<1> QED
  BY <1>0, <1>2, <1>3 DEF ChainEnds

LEMMA ReadCacheStep == IInv /\ ReadCache => IInv'
<1> SUFFICES ASSUME IInv, ReadCache PROVE IInv'
  OBVIOUS
<1>0. phase = "reading" /\ merging = 0 /\ Sound(models) /\ models # <<>> /\ refusal = "none"
      /\ Len(cache.models) \in Nat
  BY CatalogTypes DEF IInv, Course, ReadCache, TypeOK
<1>1. CASE Refuse("no cache")
  BY <1>0, <1>1, RefuseStep
<1>2. CASE phase' \in {"raised", "merging"} /\ merging' \in {0, 1}
           /\ (phase' = "merging" => merging' = 1)
           /\ UNCHANGED <<inputs, refusal, models, walk, pool>>
  <2>1. /\ file' = file /\ cache' = cache /\ request' = request /\ routerKey' = routerKey
        /\ refusal' = refusal /\ models' = models /\ pool' = pool
        /\ start' = start /\ current' = current /\ seen' = seen
    BY <1>2 DEF inputs, walk
  <2>2. TypeOK'
    BY <1>0, <1>2, <2>1 DEF IInv, TypeOK
  <2>3. Course'
    BY <1>0, <1>2, <2>1 DEF Course, Sound
  <2>4. Walk'
    BY <1>2 DEF Walk
  <2>5. Merged'
    <3>1. DOMAIN cache.models = 1 .. Len(cache.models)
      BY CatalogTypes DEF IInv, TypeOK
    <3>2. \A k \in DOMAIN cache.models : ~(k < merging')
      BY <1>0, <1>2, <3>1
    <3> QED
      BY <1>0, <1>2, <2>1, <3>2 DEF IInv, Merged
  <2> QED
    BY <2>2, <2>3, <2>4, <2>5 DEF IInv
<1> QED
  BY <1>0, <1>1, <1>2 DEF ReadCache

LEMMA DiscoveredIsListed ==
    ASSUME NEW offer \in Offer, offer.id # NoId, routerKey \in {"set", "missing"}
    PROVE  /\ Discovered(offer) \in Listed
           /\ Discovered(offer).escalatesTo = NoId
           /\ Discovered(offer).id = offer.id
  BY DEF Discovered, Listed, Offer, Tiers, Caps, Auth, Unranked

LEMMA MergeEntryStep == IInv /\ MergeEntry => IInv'
<1> SUFFICES ASSUME IInv, MergeEntry PROVE IInv'
  OBVIOUS
<1> DEFINE offer == cache.models[merging]
<1>0. /\ phase = "merging" /\ merging > 0 /\ merging \in Nat /\ Sound(models)
      /\ models # <<>> /\ models \in Seq(Listed) /\ refusal = "none"
      /\ routerKey \in {"set", "missing"}
  BY DEF IInv, Course, MergeEntry, TypeOK
<1>1. /\ file' = file /\ cache' = cache /\ request' = request /\ routerKey' = routerKey
      /\ refusal' = refusal /\ pool' = pool /\ phase' = "merging" /\ merging' = merging + 1
      /\ start' = start /\ current' = current /\ seen' = seen /\ merging <= Len(cache.models)
      /\ models' = IF New(offer) THEN Append(models, Discovered(offer)) ELSE models
  BY DEF MergeEntry, inputs, walk
<1>2. cache.models \in Seq(Offer) /\ Len(cache.models) \in Nat
      /\ DOMAIN cache.models = 1 .. Len(cache.models) /\ offer \in Offer
  <2>1. cache.models \in Seq(Offer)
    BY CatalogTypes DEF IInv, TypeOK
  <2> QED
    BY <1>0, <1>1, <2>1
<1> HIDE DEF offer
<1>3. /\ models' \in Seq(Listed) /\ models' # <<>> /\ Sound(models')
      /\ IdsOf(models) \subseteq IdsOf(models')
      /\ (offer.id # NoId => offer.id \in IdsOf(models'))
      /\ \A i \in DOMAIN models : i \in DOMAIN models' /\ models'[i] = models[i]
  <2>1. CASE ~New(offer)
    BY <1>0, <1>1, <2>1 DEF New
  <2>2. CASE New(offer)
    <3>1. /\ Discovered(offer) \in Listed /\ Discovered(offer).escalatesTo = NoId
          /\ Discovered(offer).id = offer.id /\ offer.id \notin IdsOf(models)
      BY <1>0, <1>2, <2>2, DiscoveredIsListed DEF New
    <3>2. /\ Sound(Append(models, Discovered(offer)))
          /\ IdsOf(Append(models, Discovered(offer))) = IdsOf(models) \cup {offer.id}
      BY <1>0, <3>1, AppendSound
    <3>3. /\ Append(models, Discovered(offer)) \in Seq(Listed)
          /\ Append(models, Discovered(offer)) # <<>>
          /\ \A i \in DOMAIN models :
               /\ i \in DOMAIN Append(models, Discovered(offer))
               /\ Append(models, Discovered(offer))[i] = models[i]
      BY <1>0, <3>1
    <3> QED
      BY <1>1, <2>2, <3>2, <3>3
  <2> QED
    BY <2>1, <2>2
<1>4. TypeOK'
  BY <1>0, <1>1, <1>2, <1>3 DEF IInv, TypeOK
<1>5. Course'
  BY <1>0, <1>1, <1>3 DEF Course
<1>6. Walk'
  BY <1>1 DEF Walk
<1>7. Merged'
  <2>1. \A i \in DOMAIN file : i \in DOMAIN models' /\ models'[i] = file[i]
    BY <1>0, <1>3 DEF IInv, Merged
  <2>2. ASSUME NEW k \in DOMAIN cache.models, k < merging + 1, cache.models[k].id # NoId
        PROVE  cache.models[k].id \in IdsOf(models')
    <3>1. CASE k < merging
      BY <1>3, <2>2, <3>1 DEF IInv, Merged
    <3>2. CASE k = merging
      BY <1>3, <2>2, <3>2 DEF offer
    <3> QED
      BY <1>0, <1>2, <2>2, <3>1, <3>2
  <2> QED
    BY <1>1, <2>1, <2>2 DEF Merged
<1> QED
  BY <1>4, <1>5, <1>6, <1>7 DEF IInv

LEMMA MergeEndsStep == IInv /\ MergeEnds => IInv'
<1> SUFFICES ASSUME IInv, MergeEnds PROVE IInv'
  OBVIOUS
<1>1. /\ file' = file /\ cache' = cache /\ request' = request /\ routerKey' = routerKey
      /\ refusal' = refusal /\ pool' = pool /\ phase' = "checking" /\ merging' = merging
      /\ start' = start /\ current' = current /\ seen' = seen /\ models' = models
      /\ phase = "merging" /\ refusal = "none" /\ merging > 0 /\ Sound(models)
      /\ models # <<>>
  BY DEF IInv, Course, MergeEnds, inputs, walk
<1>2. TypeOK'
  BY <1>1 DEF IInv, TypeOK
<1>3. Course'
  BY <1>1 DEF Course, Sound
<1>4. Walk' /\ Merged'
  BY <1>1 DEF IInv, Walk, Merged
<1> QED
  BY <1>2, <1>3, <1>4 DEF IInv

\* The command gets its pool.
LEMMA ReadyStep ==
    ASSUME IInv, phase = "selecting", phase' = "ready", pool' \in Seq(DOMAIN models),
           UNCHANGED <<inputs, refusal, models, merging, walk>>,
           request.by = "tier" /\ request.tier = "free" =>
               \A k \in DOMAIN pool' : models[pool'[k]].tier = "free"
    PROVE  IInv'
<1>1. /\ file' = file /\ cache' = cache /\ request' = request /\ routerKey' = routerKey
      /\ refusal' = refusal /\ merging' = merging /\ models' = models
      /\ start' = start /\ current' = current /\ seen' = seen
      /\ Sound(models) /\ models # <<>> /\ refusal = "none"
  BY DEF IInv, Course, TypeOK, inputs, walk
<1>2. TypeOK'
  BY <1>1 DEF IInv, TypeOK
<1>3. Course'
  BY <1>1 DEF Course, IInv
<1>4. Walk'
  BY DEF Walk
<1>5. Merged'
  BY <1>1 DEF IInv, Merged
<1> QED
  BY <1>2, <1>3, <1>4, <1>5 DEF IInv

LEMMA SelectByIdStep == IInv /\ SelectById => IInv'
<1> SUFFICES ASSUME IInv, SelectById PROVE IInv'
  OBVIOUS
<1> DEFINE place(m) == CHOOSE i \in DOMAIN models : models[i].id = m
<1>1. CASE Refuse("unknown id")
  BY <1>1, RefuseStep DEF SelectById
<1>2. CASE /\ \A k \in DOMAIN request.wanted : request.wanted[k] \in IdsOf(models)
           /\ pool' = [k \in DOMAIN request.wanted |-> place(request.wanted[k])]
           /\ phase' = "ready"
           /\ UNCHANGED <<inputs, refusal, models, merging, walk>>
  <2>1. request.wanted \in Seq(Ids)
    BY RequestsAssumption DEF IInv, TypeOK, Request
  <2>2. \A m \in IdsOf(models) : place(m) \in DOMAIN models
    BY DEF IdsOf
  <2>3. pool' \in Seq(DOMAIN models)
    <3> HIDE DEF place
    <3>1. DOMAIN request.wanted = 1 .. Len(request.wanted) /\ Len(request.wanted) \in Nat
      BY <2>1
    <3>2. pool' \in [1 .. Len(request.wanted) -> DOMAIN models]
      BY <1>2, <2>2, <3>1
    <3> QED
      BY <3>1, <3>2
  <2> QED
    BY <1>2, <2>3, ReadyStep DEF SelectById
<1> QED
  BY <1>1, <1>2 DEF SelectById

LEMMA SelectByTierStep == IInv /\ SelectByTier => IInv'
<1> SUFFICES ASSUME IInv, SelectByTier PROVE IInv'
  OBVIOUS
<1>1. CASE Refuse("no pool")
  BY <1>1, RefuseStep DEF SelectByTier
<1>2. ASSUME NEW p \in [1 .. Cardinality(Candidates) -> Candidates], pool' = p,
             phase' = "ready", UNCHANGED <<inputs, refusal, models, merging, walk>>
      PROVE  IInv'
  <2>1. models \in Seq(Listed) /\ DOMAIN models = 1 .. Len(models) /\ Len(models) \in Nat
    BY DEF IInv, TypeOK
  <2>2. Candidates \subseteq DOMAIN models
    BY DEF Candidates, Available, EligibleFor, Models
  <2>3. Cardinality(Candidates) \in Nat
    <3>1. IsFiniteSet(1 .. Len(models))
      BY <2>1, FS_Interval
    <3> QED
      BY <2>1, <2>2, <3>1, FS_Subset, FS_CardinalityType
  <2>4. pool' \in Seq(DOMAIN models)
    BY <1>2, <2>2, <2>3
  <2>5. ASSUME request.tier = "free", NEW m \in Candidates PROVE models[m].tier = "free"
    BY <2>5 DEF Candidates, Available, EligibleFor, AnyTier
  <2>6. \A k \in DOMAIN pool' : pool'[k] \in Candidates
    BY <1>2
  <2> QED
    BY <1>2, <2>4, <2>5, <2>6, ReadyStep DEF SelectByTier
<1> QED
  BY <1>1, <1>2 DEF SelectByTier

\* The inductive invariant of a command's setup.
THEOREM Inductive == Spec => []IInv
<1>1. IInv /\ [Next]_vars => IInv'
  <2> SUFFICES ASSUME IInv, [Next]_vars PROVE IInv'
    OBVIOUS
  <2>1. CASE UNCHANGED vars
    BY <2>1 DEF IInv, TypeOK, Course, Walk, Merged, vars, inputs, walk
  <2>2. CASE Load
    BY <2>2, ParseStep, CheckStep, WalkOnStep, RevisitStep, ChainEndsStep, ReadCacheStep,
       MergeEntryStep, MergeEndsStep DEF Load
  <2>3. CASE Select
    BY <2>3, SelectByIdStep, SelectByTierStep DEF Select
  <2> QED
    BY <2>1, <2>2, <2>3 DEF Next, Ended
<1> QED
  BY <1>1, InitInvariant, PTL DEF Spec

-----------------------------------------------------------------------------
(* What follows from it.                                                   *)

\* Types of the setup's state.
THEOREM TypeCorrect == Spec => []TypeOK
  BY Inductive, PTL DEF IInv

\* The walk accepts the graphs in which every chain ends, and no others; and no
\* catalog makes a graph unsound.
THEOREM OnlySoundGraphs == Spec => []RefusesExactlyBrokenGraphs
<1>1. IInv => RefusesExactlyBrokenGraphs
  BY DEF IInv, Course, Sound, RefusesExactlyBrokenGraphs
<1> QED
  BY <1>1, Inductive, PTL

\* The merge keeps every local entry and takes every other id of the catalog
\* once; a pool of free models has none the file calls paid.
THEOREM OverridesKept == Spec => []MergeKeepsOverrides
<1>1. IInv => MergeKeepsOverrides
  <2> SUFFICES ASSUME IInv PROVE MergeKeepsOverrides
    OBVIOUS
  <2>1. ASSUME merging > Len(cache.models), merging > 0
        PROVE  /\ \A i \in DOMAIN file : models[i] = file[i]
               /\ \A k \in DOMAIN cache.models :
                    cache.models[k].id # NoId => cache.models[k].id \in IdsOf(models)
               /\ \A i, j \in DOMAIN models : models[i].id = models[j].id => i = j
    <3>1. DOMAIN cache.models = 1 .. Len(cache.models) /\ Len(cache.models) \in Nat
          /\ merging \in Int
      BY CatalogTypes DEF IInv, TypeOK
    <3>2. \A k \in DOMAIN cache.models : k < merging
      BY <2>1, <3>1
    <3> QED
      BY <2>1, <3>2 DEF IInv, Course, Sound, NoDuplicates, Merged
  <2>2. ASSUME phase = "ready", request.by = "tier", request.tier = "free",
               NEW k \in DOMAIN pool, NEW i \in DOMAIN file, file[i].id = models[pool[k]].id
        PROVE  file[i].tier = "free"
    <3>1. models # <<>> /\ NoDuplicates(models)
      BY <2>2 DEF IInv, TypeOK, Course, Sound
    <3>2. i \in DOMAIN models /\ models[i] = file[i]
      BY <3>1 DEF IInv, Merged
    <3>3. pool[k] \in DOMAIN models /\ models[pool[k]].tier = "free"
      BY <2>2 DEF IInv, Merged
    <3> QED
      BY <2>2, <3>1, <3>2, <3>3 DEF NoDuplicates
  <2> QED
    BY <2>1, <2>2 DEF MergeKeepsOverrides
<1> QED
  BY <1>1, Inductive, PTL

-----------------------------------------------------------------------------
(* A setup comes to an end.                                                *)

\* What is still before a command: the stages of its setup; in a stage, the chains to
\* walk or the entries to merge; in a chain, the models it has not been at.
Stage ==
    CASE phase = "parsing"                   -> 8
      [] phase = "checking" /\ merging = 0   -> 7
      [] phase = "walking" /\ merging = 0    -> 6
      [] phase = "reading"                   -> 5
      [] phase = "merging"                   -> 4
      [] phase = "checking" /\ merging # 0   -> 3
      [] phase = "walking" /\ merging # 0    -> 2
      [] phase = "selecting"                 -> 1
      [] phase \in {"ready", "refused", "raised"} -> 0

ToDo == CASE phase = "walking" -> Len(models) - start
          [] phase = "merging" -> Len(cache.models) + 1 - merging
          [] OTHER             -> 0

Unseen == Cardinality(IdsOf(models) \ seen)

\* The lexicographic order, in which nothing goes down for ever.
Nearer == \/ Stage' < Stage
          \/ Stage' = Stage /\ ToDo' < ToDo
          \/ Stage' = Stage /\ ToDo' = ToDo /\ Unseen' < Unseen

LEMMA FinitelyManyIds ==
    ASSUME NEW entries \in Seq(Listed)
    PROVE  IsFiniteSet(IdsOf(entries))
<1> DEFINE id == [i \in 1 .. Len(entries) |-> entries[i].id]
<1>1. DOMAIN entries = 1 .. Len(entries) /\ Len(entries) \in Nat
  OBVIOUS
<1>2. IsFiniteSet(1 .. Len(entries))
  BY <1>1, FS_Interval
<1>3. id \in Surjection(1 .. Len(entries), IdsOf(entries))
  <2>1. id \in [1 .. Len(entries) -> IdsOf(entries)]
    BY <1>1 DEF IdsOf
  <2>2. \A m \in IdsOf(entries) : \E i \in 1 .. Len(entries) : id[i] = m
    BY <1>1 DEF IdsOf
  <2> QED
    BY <2>1, <2>2 DEF Surjection
<1> HIDE DEF id
<1> QED
  BY <1>2, <1>3, FS_Surjection

LEMMA MeasureTypes ==
    ASSUME IInv
    PROVE  /\ Stage \in 0 .. 8 /\ ToDo \in Nat /\ Unseen \in Nat
           /\ IsFiniteSet(IdsOf(models) \ seen)
<1>1. models \in Seq(Listed) /\ Len(cache.models) \in Nat /\ merging \in Nat
  BY CatalogTypes DEF IInv, TypeOK
<1>2. Stage \in 0 .. 8
  BY DEF IInv, TypeOK, Stage
<1>3. ToDo \in Nat
  <2>1. phase = "walking" => start \in 1 .. Len(models) /\ Len(models) \in Nat
    BY <1>1 DEF IInv, TypeOK
  <2>2. merging \in 0 .. Len(cache.models) + 1
    BY DEF IInv, TypeOK
  <2> QED
    BY <1>1, <2>1, <2>2 DEF ToDo
<1>4. IsFiniteSet(IdsOf(models) \ seen)
  BY <1>1, FinitelyManyIds, FS_Difference
<1> QED
  BY <1>2, <1>3, <1>4, FS_CardinalityType DEF Unseen

LEMMA EveryStepIsNearer ==
    ASSUME IInv, Load \/ Select
    PROVE  Nearer
<1>0. merging \in Nat /\ Stage \in Int
  BY MeasureTypes, CatalogTypes DEF IInv, TypeOK
<1>1. ASSUME NEW why, Refuse(why), phase \notin {"ready", "refused", "raised"}
      PROVE  Nearer
  <2>1. phase' = "refused"
    BY <1>1 DEF Refuse
  <2>2. Stage' = 0 /\ Stage > 0
    BY <1>1, <2>1 DEF Stage, IInv, TypeOK
  <2> QED
    BY <2>2 DEF Nearer
<1>2. CASE Parse
  <2>1. phase = "parsing"
    BY <1>2 DEF Parse
  <2>2. CASE phase' = "checking" /\ merging' = merging
    BY <1>0, <2>1, <2>2 DEF Stage, Nearer
  <2> QED
    BY <1>1, <1>2, <2>1, <2>2 DEF Parse
<1>3. CASE Check
  <2>1. CASE phase' = "walking" /\ merging' = merging
    BY <1>0, <1>3, <2>1 DEF Check, Stage, Nearer
  <2> QED
    BY <1>1, <1>3, <2>1 DEF Check
<1>4. CASE WalkOn
  <2>1. /\ phase' = phase /\ merging' = merging /\ models' = models /\ start' = start
        /\ cache' = cache /\ seen' = seen \cup {current}
        /\ current \in IdsOf(models) /\ current \notin seen
    BY <1>4 DEF WalkOn, Seen, inputs, IInv, TypeOK
  <2>2. Stage' = Stage /\ ToDo' = ToDo
    BY <2>1 DEF Stage, ToDo
  <2>3. Unseen' < Unseen
    <3>1. IdsOf(models)' \ seen' = (IdsOf(models) \ seen) \ {current}
      BY <2>1 DEF IdsOf
    <3>2. Unseen' = Unseen - 1
      BY <2>1, <3>1, MeasureTypes, FS_RemoveElement DEF Unseen
    <3> QED
      BY <3>2, MeasureTypes
  <2> QED
    BY <2>2, <2>3 DEF Nearer
<1>5. CASE Revisit
  BY <1>1, <1>5 DEF Revisit
<1>6. CASE ChainEnds
  <2>0. phase = "walking" /\ merging' = merging /\ models' = models
    BY <1>6 DEF ChainEnds
  <2>1. CASE WalkFrom(start + 1) /\ phase' = phase
    <3>1. start \in Int /\ Len(models) \in Int /\ start' = start + 1
      BY <2>0, <2>1 DEF WalkFrom, IInv, TypeOK
    <3>2. Stage' = Stage /\ ToDo' < ToDo
      BY <2>0, <2>1, <3>1 DEF Stage, ToDo
    <3> QED
      BY <3>2 DEF Nearer
  <2>2. CASE phase' = IF request.live /\ merging = 0 THEN "reading" ELSE "selecting"
    BY <1>0, <2>0, <2>2 DEF Stage, Nearer
  <2> QED
    BY <1>6, <2>1, <2>2 DEF ChainEnds
<1>7. CASE ReadCache
  <2>1. phase = "reading"
    BY <1>7 DEF ReadCache
  <2>2. CASE phase' \in {"raised", "merging"}
    BY <2>1, <2>2 DEF Stage, Nearer
  <2> QED
    BY <1>1, <1>7, <2>1, <2>2 DEF ReadCache
<1>8. CASE MergeEntry
  <2>1. /\ phase = "merging" /\ phase' = phase /\ cache' = cache /\ merging' = merging + 1
        /\ Len(cache.models) \in Int
    BY <1>8, CatalogTypes DEF MergeEntry, inputs, IInv, TypeOK
  <2>2. Stage' = Stage /\ ToDo' < ToDo
    BY <1>0, <2>1 DEF Stage, ToDo
  <2> QED
    BY <2>2 DEF Nearer
<1>9. CASE MergeEnds
  <2>1. phase = "merging" /\ phase' = "checking" /\ merging' = merging /\ merging # 0
    BY <1>0, <1>9 DEF MergeEnds, IInv, Course
  <2> QED
    BY <2>1 DEF Stage, Nearer
<1>10. CASE Select
  <2>1. phase = "selecting"
    BY <1>10 DEF Select, SelectById, SelectByTier
  <2>2. CASE phase' = "ready"
    BY <2>1, <2>2 DEF Stage, Nearer
  <2> QED
    BY <1>1, <1>10, <2>1, <2>2 DEF Select, SelectById, SelectByTier
<1> QED
  BY <1>2, <1>3, <1>4, <1>5, <1>6, <1>7, <1>8, <1>9, <1>10 DEF Load

\* Loading ends even where the graph of escalations does not, since the walk never
\* visits a model twice in a chain: every step of a setup brings it nearer to its
\* pool, its refusal or its exception, and there are only so many.
THEOREM EverySetupIsBounded ==
    Spec => /\ [](Stage \in 0 .. 8 /\ ToDo \in Nat /\ Unseen \in Nat)
            /\ [][Nearer]_vars
<1>1. IInv /\ [Next]_vars => [Nearer]_vars
  BY EveryStepIsNearer DEF Next, Ended
<1>2. IInv => Stage \in 0 .. 8 /\ ToDo \in Nat /\ Unseen \in Nat
  BY MeasureTypes
<1> QED
  BY <1>1, <1>2, Inductive, PTL DEF Spec
=============================================================================

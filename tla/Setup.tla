------------------------------- MODULE Setup -------------------------------
(***************************************************************************)
(* What every command does first: load models.yaml and check its graph of  *)
(* escalations (council/registry.py), merge the cached live catalog under  *)
(* it (council/discovery.py) and choose the pool of models (council/cli.py,*)
(* _select_pool).                                                          *)
(*                                                                         *)
(* The files are inputs, chosen in the initial state and never changed     *)
(* here: how the cache comes to be what it is, is module Catalog's.        *)
(***************************************************************************)
EXTENDS Registry, FiniteSets

CONSTANTS Ids,        \* model ids
          Files,      \* what models.yaml may list
          Catalogs,   \* what a live catalog may list
          Requests    \* what the command line may ask for

\* No id: escalates_to is null, or the catalog's entry has no usable id.
NoId == ""

\* An entry of models.yaml; one that fails a check of _parse_entry is one with
\* a tier there is not.
Listed == [id : Ids, escalatesTo : Ids \cup {NoId}, tier : Tiers \cup {"invalid"},
           caps : SUBSET Caps, distrust : SUBSET Caps, auth : Auth,
           quality : {Unranked} \cup Nat, cost : Nat]

\* An entry of the catalog, free by its pricing or not.
Offer == [id : Ids \cup {NoId}, free : BOOLEAN]

\* The cache file: missing, cut short, or a whole catalog.
Caches == [state : {"missing", "torn"}, models : {<<>>}]
              \cup [state : {"whole"}, models : Catalogs]

Request == [live : BOOLEAN, by : {"ids", "tier"}, wanted : Seq(Ids), tier : Tiers \cup {AnyTier}]

ASSUME IdsAssumption == NoId \notin Ids
ASSUME FilesAssumption == Files \subseteq Seq(Listed)
ASSUME CatalogsAssumption == Catalogs \subseteq Seq(Offer)
ASSUME RequestsAssumption == Requests \subseteq Request

VARIABLES
    file,      \* the entries of models.yaml
    cache,     \* the cache file
    request,   \* the command line
    routerKey, \* how OPENROUTER_API_KEY stands
    phase,     \* where the command is
    refusal,   \* why it was refused
    models,    \* the registry so far
    merging,   \* the entry of the catalog to be merged next, 0 before
    start,     \* the entry whose chain is walked
    current,   \* the id the walk is at
    seen,      \* the ids it has been at
    pool       \* the pool, as positions in the registry

inputs == <<file, cache, request, routerKey>>
walk == <<start, current, seen>>
vars == <<inputs, phase, refusal, models, merging, walk, pool>>

IdsOf(entries) == {entries[i].id : i \in DOMAIN entries}

\* by_id[m].escalates_to
To(entries, m) == entries[CHOOSE i \in DOMAIN entries : entries[i].id = m].escalatesTo

Init == /\ file \in Files
        /\ cache \in Caches
        /\ request \in Requests
        /\ routerKey \in {"set", "missing"}
        /\ phase = "parsing"
        /\ refusal = "none"
        /\ models = <<>>
        /\ merging = 0
        /\ start = 0 /\ current = NoId /\ seen = {}
        /\ pool = <<>>

\* RegistryError, DiscoveryError or an error of _select_pool: exit code 2.
Refuse(why) == /\ phase' = "refused"
               /\ refusal' = why
               /\ UNCHANGED <<inputs, models, merging, walk, pool>>

Parses == file # <<>> /\ \A i \in DOMAIN file : file[i].tier \in Tiers

NoDuplicates(entries) == \A i, j \in DOMAIN entries : entries[i].id = entries[j].id => i = j

Parse ==
    /\ phase = "parsing"
    /\ \/ ~Parses /\ Refuse("malformed")
       \/ Parses /\ ~NoDuplicates(file) /\ Refuse("duplicates")
       \/ /\ Parses /\ NoDuplicates(file)
          /\ phase' = "checking"
          /\ models' = file
          /\ UNCHANGED <<inputs, refusal, merging, walk, pool>>

\* _validate_escalation_graph: nobody escalates to a model that is not listed.
NoDangling(entries) ==
    \A i \in DOMAIN entries : entries[i].escalatesTo \in IdsOf(entries) \cup {NoId}

WalkFrom(i) == start' = i /\ current' = models[i].id /\ seen' = {}

Check ==
    /\ phase = "checking"
    /\ \/ ~NoDangling(models) /\ Refuse("dangling")
       \/ /\ NoDangling(models)
          /\ phase' = "walking"
          /\ WalkFrom(1)
          /\ UNCHANGED <<inputs, refusal, models, merging, pool>>

\* A defect to be caught: the walk does not note where it has been.
NothingSeen == seen

Seen == seen \cup {current}

WalkOn ==
    /\ phase = "walking"
    /\ current # NoId
    /\ current \notin seen
    /\ seen' = Seen
    /\ current' = To(models, current)
    /\ UNCHANGED <<inputs, phase, refusal, models, merging, start, pool>>

Revisit == phase = "walking" /\ current \in seen /\ Refuse("cycle")

\* A defect to be caught: the last model's chain is not walked.
AlmostAllWalked == start + 1 >= Len(models)

AllWalked == start = Len(models)

ChainEnds ==
    /\ phase = "walking"
    /\ current = NoId
    /\ \/ ~AllWalked /\ WalkFrom(start + 1) /\ UNCHANGED phase
       \/ /\ AllWalked
          /\ phase' = IF request.live /\ merging = 0 THEN "reading" ELSE "selecting"
          /\ UNCHANGED walk
    /\ UNCHANGED <<inputs, refusal, models, merging, pool>>

\* read_cache: there is none, json.loads fails (nobody catches it), or the
\* catalog is there.
ReadCache ==
    /\ phase = "reading"
    /\ \/ cache.state = "missing" /\ Refuse("no cache")
       \/ /\ cache.state = "torn"
          /\ phase' = "raised"
          /\ UNCHANGED <<inputs, refusal, models, merging, walk, pool>>
       \/ /\ cache.state = "whole"
          /\ phase' = "merging"
          /\ merging' = 1
          /\ UNCHANGED <<inputs, refusal, models, walk, pool>>

\* discovered_to_entries: minimal capabilities, unranked, tier by price alone.
Discovered(offer) ==
    [id |-> offer.id, escalatesTo |-> NoId,
     tier |-> IF offer.free THEN "free" ELSE "paid",
     caps |-> {"code_generation"}, distrust |-> {}, auth |-> routerKey,
     quality |-> Unranked, cost |-> 0]

\* Defects to be caught: what models.yaml says is not looked at, or an entry
\* without an id is taken.
NewUnchecked(offer) == offer.id # NoId
NewNamelessToo(offer) == offer.id \notin IdsOf(models)

\* An id of the registry keeps its entry, and so does one of the catalog that
\* is there twice.
New(offer) == offer.id # NoId /\ offer.id \notin IdsOf(models)

MergeEntry ==
    /\ phase = "merging"
    /\ merging <= Len(cache.models)
    /\ merging' = merging + 1
    /\ models' = LET offer == cache.models[merging] IN
                 IF New(offer) THEN Append(models, Discovered(offer)) ELSE models
    /\ UNCHANGED <<inputs, phase, refusal, walk, pool>>

\* The merged registry is checked again.
MergeEnds ==
    /\ phase = "merging"
    /\ merging > Len(cache.models)
    /\ phase' = "checking"
    /\ UNCHANGED <<inputs, refusal, models, merging, walk, pool>>

\* --models: the ones named, in that order, as often as they are named, and
\* whether or not they have a key.
SelectById ==
    /\ phase = "selecting"
    /\ request.by = "ids"
    /\ IF \A k \in DOMAIN request.wanted : request.wanted[k] \in IdsOf(models)
         THEN /\ pool' = [k \in DOMAIN request.wanted |->
                            CHOOSE i \in DOMAIN models : models[i].id = request.wanted[k]]
              /\ phase' = "ready"
              /\ UNCHANGED <<inputs, refusal, models, merging, walk>>
         ELSE Refuse("unknown id")

\* --tier: those of the tier that can write code, or all there are, with a key.
Candidates ==
    Available(models, IF request.tier = AnyTier THEN Models(models)
                      ELSE EligibleFor(models, {"code_generation"}, request.tier))

\* The candidates in the order of the registry.
InOrder(p) == \A k, l \in DOMAIN p : k < l => p[k] < p[l]

SelectByTier ==
    /\ phase = "selecting"
    /\ request.by = "tier"
    /\ IF Candidates = {} THEN Refuse("no pool")
       ELSE /\ \E p \in [1 .. Cardinality(Candidates) -> Candidates] :
                 InOrder(p) /\ pool' = p
            /\ phase' = "ready"
            /\ UNCHANGED <<inputs, refusal, models, merging, walk>>

Load == Parse \/ Check \/ WalkOn \/ Revisit \/ ChainEnds \/ ReadCache \/ MergeEntry \/ MergeEnds
Select == SelectById \/ SelectByTier

Ended == phase \in {"ready", "refused", "raised"} /\ UNCHANGED vars

Next == Load \/ Select \/ Ended

Spec == Init /\ [][Next]_vars

\* One thread, which nothing stops.
FairSpec == Spec /\ WF_vars(Load \/ Select)

-----------------------------------------------------------------------------
(* Properties.                                                             *)

\* Types of the setup's state.  A walk is at a listed model, has been at listed
\* ones, and the pool is of models of the registry.
TypeOK ==
    /\ file \in Files /\ cache \in Caches /\ request \in Requests
    /\ routerKey \in {"set", "missing"}
    /\ phase \in {"parsing", "checking", "walking", "reading", "merging",
                  "selecting", "ready", "refused", "raised"}
    /\ models \in Seq(Listed)
    /\ merging \in 0 .. Len(cache.models) + 1
    /\ phase # "parsing" => models # <<>> \/ phase = "refused"
    /\ phase = "walking" => start \in DOMAIN models /\ current \in IdsOf(models) \cup {NoId}
    /\ seen \subseteq IdsOf(models)
    /\ pool \in Seq(DOMAIN models)

\* A set of models from which no chain of escalations ever leads out, not even
\* to the human at its end.
Trap(entries, S) == S \subseteq IdsOf(entries) /\ \A m \in S : To(entries, m) \in S
Cyclic(entries) == \E S \in SUBSET IdsOf(entries) : S # {} /\ Trap(entries, S)

\* The walk accepts exactly the graphs in which every chain ends at a human: a
\* registry in use has no id twice, no escalation to a model it lacks and no
\* cycle, one refused for a cycle has one, and merging the catalog, whose
\* entries escalate to nobody, is never what makes a graph unsound.
RefusesExactlyBrokenGraphs ==
    /\ phase \in {"reading", "merging", "selecting", "ready"}
         => NoDuplicates(models) /\ NoDangling(models) /\ ~Cyclic(models)
    /\ refusal = "cycle" => Cyclic(models)
    /\ refusal \in {"duplicates", "dangling", "cycle"} => merging = 0

\* "Any discovered ID present in models.yaml keeps the local entry untouched":
\* the merged registry begins with the file as it is and goes on with every
\* other id of the catalog, once.  So what a file lists as paid is in no pool
\* of free models, whatever the catalog says it costs.
MergeKeepsOverrides ==
    /\ merging > Len(cache.models) /\ merging > 0 =>
         /\ \A i \in DOMAIN file : models[i] = file[i]
         /\ \A k \in DOMAIN cache.models :
              cache.models[k].id # NoId => cache.models[k].id \in IdsOf(models)
         /\ \A i, j \in DOMAIN models : models[i].id = models[j].id => i = j
    /\ phase = "ready" /\ request.by = "tier" /\ request.tier = "free" =>
         \A k \in DOMAIN pool : \A i \in DOMAIN file :
           file[i].id = models[pool[k]].id => file[i].tier = "free"

\* The walk over the graph comes to an end even where the graph has none.
SetupEnds == <>(phase \in {"ready", "refused", "raised"})
=============================================================================

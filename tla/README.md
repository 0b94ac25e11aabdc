# Society of Minds Council: verification project

TLA+ models of the council's core (`council/*.py`), the TLC runs that check
them on small instances, and theorems about them checked by TLAPS for every
value of the constants.

## The system and its parts

The council is a command-line program. Language models ("minds") propose
changes to a project; a *verifier* (the project's own commands) decides which
of them are any good.

| part | state it keeps | operations | how it interacts |
|---|---|---|---|
| registry (`registry.py`) | entries of `models.yaml` by id | load and check, filter by capability and tier, by key | read by the classifier and the pools |
| classifier (`classifier.py`) | none; reads a task and its attempts | score, select, `decide_next` | called by the run loop after every attempt |
| run loop (`cli.py`, `run`) | current model, attempts, diffs, reports; files under `.council/` | select, as-is check, attempt, finish, hand off | calls classifier, executor, verifier, `git apply` |
| verifier (`verifier.py`) | the step results so far | run the steps in order | shell commands in a copy of the project |
| rate limiter (`ratelimit.py`) | process-wide: a bucket per `api_key_env` | acquire | shared by the threads of the fan-outs |
| executor (`executor.py`) | per call: the retry counter | call one mind, retry, classify | HTTP or the `opencode` CLI |
| bake-off (`compare.py`) | results by model id, rows, report files | fan out, judge, save | thread pool, limiter, executor, verifier |
| council mode (`collab.py`) | codes, notes and reviews of each mind, rows | write, review, revise, again as the human directs | the same fan-out, verifier, the human |
| live catalog (`discovery.py`) | a cache file with an age, shared by processes | sync, read, merge | network, registry, other commands |
| configuration, ingestion (`config.py`, `task.py`) | none | parse | inputs of the above |

What is hard: the order of attempts over arbitrary registries; telling a
verifier that could not run from a model that failed; threads that race for the
first limiter and for tokens; retries, timeouts and exceptions of calls that
end in any order while the main thread takes their results in one; failures
between the steps that leave a record on disk; commands that share the cache of
the live catalog without knowing of each other, and may be killed while they
replace it; what a mind is told and credited with over several rounds. No
command resumes what another began: the cache is all that outlives one.

What makes each part correct, in a sentence: *classifier and run loop* ask only
qualified models, free ones first, no model twice and a stronger one last, end
after three attempts, and deliver only what passed on the project as it then is;
*verifier*: its verdict is about the required steps alone and, as far as a shell
lets it be known, charges a model with nothing that did not run; *limiter*: one for all threads, every window bounded, nobody held up for nothing and
nobody starved;
*executor*: a request is repeated only when the last failed in a way a second
try may mend, and then as often as allowed; *bake-off*: each place of the pool
gets the row its call deserves, on the tree the calls left, in bounded parallelism, and an end;
*council*: each mind revises its own code with what was said about it, and the
scoreboard is that of the last round in which anybody passed; *registry and merge*: only graphs of
escalations that end at a human, and local entries always win; *catalog*: the
cache is the whole catalog of the last sync, and a dead network blocks nobody
who has one that can be read and has no null price.

`PROJECT.json` lists every hazard at its line with the properties that cover it.

## Modules

| module | models | checked by | proofs |
|---|---|---|---|
| `Registry` | entries and their filters | (used by the next four) | |
| `Setup` | loading `models.yaml`, the check of its graph, the merge with the catalog, the choice of a pool | `Setup` | `SetupProofs` |
| `Catalog` | `models sync` and the readers of the cache, as processes on a file system | `Catalog` | `CatalogProofs` |
| `Classifier` | scoring, selection, `decide_next` as operators | `RunLoop` | `RunLoopProofs` |
| `Escalation` | the abstract escalation machine | `RunLoop` (`FollowsEscalation`) | `RunLoopProofs` |
| `RunLoop` | `council run` | `RunLoop`, `RunLoopApply` | `RunLoopProofs` |
| `Verifier` | `run_verifier` | `Verifier`, `VerifierLookup` | `VerifierProofs` |
| `RateLimiter` | `get_limiter().acquire` under threads and time | `RateLimiter` | `RateLimiterProofs` |
| `ModelCall` | one `safe_call` with its retries | `ModelCall`, `ModelCallRaises` | `ModelCallProofs` |
| `Round` | what a fan-out promises its caller | `Compare` (`FanOutIsOneRound`) | `CompareProofs` |
| `FanOut`, `Compare` | the thread pool, and a bake-off on top of it | `Compare` | `CompareProofs` |
| `Council` | council mode, a round at a time | `Council`, `CouncilWinner` | `CouncilProofs` |

`MC*` modules give the constants of the runs. A definition headed "A defect to
be caught" is a mutation used to show that a property can fail; no
specification uses it.

### Setup

What `council compare` and `council collab` do before anything else
(`_load_config_and_pool`), and `council run` up to the pool. `file`, `cache` and
`request` are inputs; `routerKey` says whether the catalog's models have a key.
`Parse` is `load_registry` up to the graph, `Check` the look for dangling
escalations, and the walk for cycles goes step by step: `WalkOn` is one round of
its `while`, `ChainEnds` goes to the next start, `Revisit` refuses. With
`--live`, `ReadCache`, a `MergeEntry` per entry of the catalog and `MergeEnds`
follow, and the same check of the merged registry. `SelectById` and
`SelectByTier` are `_select_pool`. `Cyclic` is the reference definition the walk
is held against: a set of models no chain leaves.

### Catalog

Commands are processes that run once; any number of them is modelled by having
a few, in every order, each of which may be killed at any step (`Die`), and whose
every use of the disk may be refused: `DiskFails` is an `OSError` of
`write_cache`, from its `mkdir` to its `replace`, which nobody catches, and
`Unreadable` is what a reader sees of a file it may not read. How a process ended
by an uncaught exception is kept apart: "diskError", "unpriced" (a null price
among the models that are counted, discovery.py:119) and "raised" (all others,
which `FailsOnlyWithoutACache` excludes). Files
are separate from paths, as in a file system: `open` is what a process has
open, `cache` and `tmp` are where the two paths lead, so that a process may go on
writing in a file that was renamed under it. `write_cache` is `Open` (create or
empty `.tmp`), `Write` and `Rename`. A write over another's may leave a mixture
(`Torn`). The variable `overlapped` is a history: the processes that were between fetch
and rename at the same time as another. What the properties promise is
about the others, and the code promises no more (see the disagreements).

### Classifier and RunLoop

A registry is a sequence, a model its position in it, because `max` returns the
first of equals. Selections are sets: empty for `NoEligibleModelError`.
`DecideNext` follows `decide_next` branch by branch. One action of `RunLoop` is
one stage of `_cmd_run`: `SelectFirstModel`/`RefuseTask` (the `try` at
cli.py:542), `AsIsVerify`, one of `AttemptWithoutDiff`, `AttemptRejected`,
`AttemptVerified` for `_run_model_attempt` and the bookkeeping after it, and one
of `Finish`, `VerifierUnable`, `GiveUp`, `NobodyToEscalateTo`, `Proceed` for what
the loop does with the answer. Exceptions that nobody catches are
`RaiseBeforeDecision` and `RaiseWhileFinishing`. Contents are provenance: a
patch is the number of the attempt that made it. What a call, `git apply` or a
verifier comes back with is chosen freely.

The project directory is not only the user's: an opencode model (`Agents`) is
started in it, and the verifier runs in it for the as-is check and when
`working_dir` leads out of the copy. `touched` says which attempts' agents wrote
there, with 0 for the verifier, and `verified` is a set of a patch with what had
been written when it was judged: `NothingAutoApplied` says the patch delivered
was judged on just that project. `tree` is what `--apply` alone did. Edits by
anybody else during a run are not modelled. A review record is several files
written in turn; `WriteReview` writes all, the first so many of the diffs, or
none, since an `OSError` between two of them is swallowed.

### Escalation

The documented machine without registry, diffs or reports: which states follow
which, and what is charged. `RunLoop` implements it under the mapping
`EscalationState`, `Charged`; the run checks it and `RunLoopProofs` proves it.

### Verifier

One action is one round of the loop; `ended` is the history of how each step
really ended, so that the report can be compared with what happened: how, and
with which code, negative for a signal. A command
is reduced to whether its first word is found on the PATH (`resolves`) and
whether that word is the program the shell starts (`direct`). The `shell` is a
POSIX one, which says 126 or 127 of what it cannot start, or cmd.exe, which says
1, as a failing test does; the lookup is there for the second, and
`NeverChargedUnrun` fails without it (`CouldNotRunByCode`). Of a command that is
more than one program cmd.exe leaves no trace the lookup could find, so the
property excepts it.

### RateLimiter

Threads interleave between critical sections: the unlocked and the locked look
at the singleton, the lookup of a bucket, each round of the bucket's loop. Time
is in ticks and tokens in `Minute`-ths, which makes the arithmetic exact.
`Lateness` bounds how late a ready thread runs in a bounded instance; the
proofs do not need it. `WindowBound` allows nearly twice the rate in a minute
that starts with a full bucket, and so does the code. That calls arrive at any time is
what a fan-out amounts to here: a worker that waits for a token is a sleeping call.

### ModelCall, FanOut, Compare

`ModelCall` is one `safe_call` in full: what the backend needs (`Refused`, and
`Misaddressed` for an endpoint that is no URL), requests, retries, and what the
last one's end is made into (`Concluded`). `FanOut` takes a
call as running until it comes to a result, a failed result or an exception,
which is what `ModelCall` shows it comes to; it models the workers, the
submission order, the taking of results in pool order, the cancelling and the
wait on an exception (the last three are `concurrent.futures`, modelled from
its use). `Compare` adds the judging of each place, the two stages of
`write_compare_report`, either of which may raise, and the exit code. An opencode
mind may write in the project while its call runs (`WriteTree`); one that goes on
after its process was killed is outside the model. `outside` says that
`working_dir` leads out of the copy: what is judged then is no mind's work, and
the verifier of a row may write in the project (`soiled`), of which the next row's copy is
made. `passed` keeps the calls whose own work the verifier passed. The two
properties about rows and exit codes say what remains true then, and the whole
promise while `working_dir` stays in the copy.

### Round and Council

`Round` is the promise of `_fan_out`: never more calls in flight than the limit,
then a result for each place or an exception, and nothing in flight once it has
returned. `FanOut` has the threads; `FanOutIsOneRound` says it implements
`Round` with `State` for what the caller sees. `Council` therefore takes a round
in one step: `Write`, `Review`, `Revise`, each followed by the verdicts on what
came back. `Save` is `write_council_report`, `Direct` the human's prompt, after
which `Revise` runs again without notes and reviews, as `_cmd_collab` calls it.
A response is named by its round and place; whatever else is in it is left out.
Its verdict is the verifier's wherever that ran: `working_dir` is joined to the copy
here too (collab.py:40-59), and what it means when it leads out is in `Compare`.
What a round makes, and the scoreboard, is a function of the places that were
called (a later round calls only the minds with code). A dictionary filled in
pool order is `Latest`: of a mind named twice the later one stays.

## Runs, bounds and what they show

Every property is stated, with the code behaviour it is about, above its
definition; `PROJECT.json` says what each run shows.

- `RunLoop`: all registries of up to two of seven kinds of entry (free scored,
  unranked and keyless, distrusted, without key; paid with and without key;
  hybrid), all of three that start with a free one, and some of four; tasks on
  both sides of each threshold that is reachable; three layouts. Three attempts
  need three models, and a fourth shows that one is passed over. The models behind
  opencode are a fixed set of positions, so that a run meets agents before, after and
  between others. 637 680 states.
- `Verifier`: all lists of up to three steps, three being what a failing, an
  optional and a later step need; both shells; a pass, a failure, a signal and the
  two codes of the shell's. 163 078 states.
- `RateLimiter`: four calls, three on a key of rate 2, so that the bucket runs
  dry with one waiting, and a key of its own for the fourth; arrivals up to
  tick 1, threads up to three ticks late, which is a whole minute, so that
  buckets reach their cap. The clock runs to 40, later than any call is still
  waiting: a deadlock is looked for and there is none, so that the bound of the
  clock never stops a call. 232 158 states.
- `ModelCall`: two retries, one more than the program uses, so that a retry
  after a retry happens. 252 states.
- `Compare`: pools with more models than workers, one named twice, one and
  none; two workers; the program ends, so ending is not a deadlock, and
  `EveryBakeOffEnds` says that it gets there. 391 992 states.
- `Council`: directed by a human, a mind alone, two, and one named twice; without
  one, three with a cap of one reviewer, and one of two named twice with and
  without the cap. Up to two rounds of the human's, which is one
  more than the first, after which a round differs in nothing (the program
  allows five). 455 713 states.
- `Setup`: all graphs over up to three models with edges to themselves, each
  other and a model that is not listed, which gives every cycle of length one to
  three with and without a tail, plus files that are empty, malformed or list an
  id twice; three catalogs; every kind of request. 124 264 states.
- `Catalog`: two syncs, a forced one and a reader, since three writers are what
  an overlap and a later victim of it need; four files, so that there is always an
  unused one; a tick of the clock is longer than the TTL, so that a cache is fresh or
  stale; two catalogs, the second with a null price. 1 475 700 states.

The other four runs expect a violation: each states what a comment or document
says and the code does not do. All were met while modelling; `findings` quotes
both sides.

- `RunLoopApply`: success is reported for a patch that was not applied.
- `VerifierLookup`: a real failure is taken for a command that could not run.
- `ModelCallRaises`: exceptions escape `safe_call`.
- `CouncilWinner`: a mind's code passes, its revision fails, nobody's passes:
  the row says PASS and the code that is kept is the failing revision.

Further disagreements, which need no run to be seen (`docs` is
`src/council-model-schema-and-classifier.md`):

- cli.py:635: a handoff after an attempt without a report attaches the report on
  the unmodified tree, and its record says `environment_error: false` even if
  that one could not run; docs:268 wants such a record tagged.
- cli.py:374: a review names the last model and those that sent a diff; docs:258
  says "models tried in order".
- cli.py:435, compare.py:210, compare.py:296, collab.py:40-59: joining an absolute
  `working_dir` to the copy, or one with enough `..`, discards the copy, so that the
  unmodified project is judged, and written in by the verifier's commands;
  cli.py:404 says the diff is applied in a copy and verified there, compare.py:148
  that the working tree is never touched.
- classifier.py:96: the first model of a moderate task is a free one if any
  qualifies. The pseudocode at docs:223-226 gives it the open pool at once,
  paid models included, against its own comment there, "complex or already-retried
  tasks can see paid tier".
- executor.py:486: an opencode mind is an agent with the project as its directory,
  in a bake-off (compare.py:245) and in `council run` (cli.py:413), so that an
  attempt may change the working tree without `--apply`, also in a run that ends in
  a handoff; compare.py:3, compare.py:148 and cli.py:404 say that the working tree is
  never touched. In the model `touched` has that attempt.
- verifier.py:118: under cmd.exe, `cd sub && pytest` without a pytest exits 1, its
  first word resolves, and the step is charged to the model; verifier.py:67 says
  that a command not found "must never count as evidence". The condition
  of `NeverChargedUnrun` excepts just this: without it the property is violated.
- discovery.py:131: if the cache has a model whose `pricing` is null, a sync whose
  fetch failed ends in an `AttributeError`, and so does one that finds that cache
  fresh (119) or fetched it (139); discovery.py:111 says a failed fetch with a usable
  cache falls back to it. The ends "unpriced" and "diskError" of the model are this
  and an uncaught `OSError` (discovery.py:138); the property names both.
- classifier.py:171: escalation goes to the best paid model; the
  `escalates_to` that docs:31 and docs:40 describe is checked but never followed.
- executor.py:241: a retry passes the limiter by; ratelimit.py:54 says that every
  call acquires first.
- ratelimit.py:69: a bucket takes its rate from the first model called with its
  key, the fallback if that entry states none, although another entry with the
  key does; ratelimit.py:18 says the fallback is used only when no entry does.
- executor.py:51: an HTTP backend looks for a variable of the name in
  `api_key_env` even where it is "none", so that the keyless entry
  src/README.md:128 documents is available (registry.py:60) and cannot be called.
- compare.py:337: the output of a step killed at its timeout is bytes, and
  `json.dumps` refuses the scoreboard; compare.py:318 says it is persisted.
- discovery.py:81: two syncs share one `.tmp`. The first to rename it may make
  the file the second has just emptied the cache, the second's rename then raises
  an uncaught `FileNotFoundError`, and a third sync without a network, which
  src/README.md:164 sends to the cache, fails. Met while modelling:
  `FailsOnlyWithoutACache` without its condition is violated so.
- discovery.py:132: a sync that falls back calls a fresh cache stale;
  discovery.py:38 says stale is older than the TTL.
- collab.py:174: of a mind named twice, the notes are those of its last row and
  the code is its last that was any, which need not be the same response; and
  the jobs being keyed by ids, its two reviews of a peer are one.
- collab.py:148: the cap is applied to places, so that a mind named twice takes
  up two and a peer is left out; cli.py:302 says it caps reviewers.
- cli.py:848: a round the human directs has no verifier notes, though a row of the
  round before may have some; executor.py:120 says a revise round has them.

### Fairness

Only the three liveness properties assume any. `Setup`: one thread, which goes
on while it has something to do. `RateLimiter`: time passes, and
the scheduler runs each thread that is ready (weak fairness per thread; a lock
is held for one short step). `Compare`: the main thread and the workers go on,
and every call ends, since requests and processes have timeouts, retries are
counted (`ModelCall`; `EveryCallIsBounded` says so of every call), and the limiter grants every call (`EveryCallGranted`).
That idealises one thing: the timeout of `urllib` is one of each operation on the
socket, so that a provider that sends a byte now and then could prolong a call.
No fairness is assumed of what a call comes to, or of an agent's writing.

## What is proved

The proofs hold for every value of the constants that satisfies the named
assumptions of the modules (types of registries, tasks, configurations, rates).

- `RunLoopProofs` begins with the classifier: selection is total and
  deterministic (`BestExists` by well-founded induction on the set of
  candidates, `BestUnique`), fails exactly when nobody qualifies, and returns a
  model that qualifies and is not outranked; only a security task over several
  files skips the free tier.
  Then every invariant of the run. Most are not inductive: that
  three attempts suffice (`AtMostThreeAttempts`, which no run checks by itself
  since `FollowsEscalation` implies it) needs that all attempts before the last were free
  failures, that there were at most two of them while `pc` is "attempt", and
  that the current model qualifies and is untried. `IInv` collects these
  (`EarlierFailedFree`, `AllAskable`, what `final`, `verified` and `exit` say of
  the reports); one lemma per action shows that it is kept.
  `ReviewKeepsTheEvidence` has an invariant of its own on top, `Evidence`: no
  record before the end, and a diff the verifier reached is the last of those
  listed. So has `OnlyAgentsTouch` (`TouchedByAgents`). And the refinement: every step of the loop is a step of `Escalation` or
  leaves its state alone; initial states map to initial states.
- `VerifierProofs`: the invariant relates `results` to `ended` position by
  position, and says that nothing before the last result stops the loop.
  `NeverChargedUnrun` follows from what the two kinds of shell may report.
- `SetupProofs`: every invariant of `Setup`. The walk is the interesting part:
  what it has seen is closed under escalation but for where it is, so that a
  revisit shows a trap, and a chain that ends shows that nothing it went through
  is in one; with every start walked there is none (`Cyclic` is false), and the
  entries of a catalog, which escalate to nobody, add none.
- `CatalogProofs`: every invariant of `Catalog`, for any number of processes and
  files. Who publishes without being overlapped is alone between fetch and
  rename (`Known`), so that `.tmp` is its own (`OwnTmp`) and nobody has the
  cache open once it renamed (`CacheKept`); a file that is opened later is not the
  cache, because the cache and `.tmp` never lead to one file. What there is to
  find is therefore whole or nothing (`WholeOrMissing`), from which
  `FailsOnlyWithoutACache` follows at each place that reads.
- `CompareProofs`: every invariant of `Compare`, and that its threads implement
  `Round`, for every pool and number of workers. The invariant says that the
  dictionary holds the last call for each model among those taken (`LastKept`),
  and that nothing is queued or running once the last result is taken or the
  exception's `with` is left (`Course`, from which `Idle` follows): so the tree
  and the results the rows are made of no longer change. `RecordRight` ties each
  row to them, to what verifiers outside their copies had written when its copy
  was made (`SoilRight`), and to the passes of minds' own work (`PassedRight`).
- `ModelCallProofs`: every property of `ModelCall`, the action property
  included, for any number of retries. The invariant says how the last request
  ended at each point of a call, and that a retry follows a transient failure.
- `CouncilProofs`: every invariant of `Council`, for every pool (minds named
  more than once included), any cap and any number of the human's rounds. That
  the scoreboard tells of a pass needs that the rows are of one round and that
  every pass is either in them or followed by a round with one (`Told`), since a
  round in which nobody passes leaves the rows as they are. That a mind revises
  on the record needs that the codes are those of the rows until the first
  revision (`FirstNotes`), that a code is a response of its own mind (`Kept`),
  and that reviews are replaced with the codes (`ReviewsOfTheCode`).
  `StrongestCriticsKept` is about the cap alone: as many critics as it allows,
  each ranked before all that are left out, and without a cap (0) nobody is left
  out; that there are so many is because of those left out one is ahead of the
  others (`FirstLeftOut`, by well-foundedness), with the whole cap ahead of it.
- `RateLimiterProofs`: one limiter (the locked look makes a second one
  impossible), and `WindowBound`. Its invariant is an accounting one: for every
  earlier grant, what is in the bucket plus what was spent since is at most a
  full bucket plus what accrued since. `Refill` keeps it because of the cap,
  `Spend` because it takes exactly what a grant costs. That nobody is held up for
  nothing (`SleepsUntilItFits`) is the converse: a bucket that is not full holds
  all that the account of some grant leaves (`Exact`), the one after which it was
  full for the last time. A sleeper's wait then ends at the first tick at which
  its call fits in every window, by the division in `Wait`; the 0.05 s that the
  code sleeps at least is less than a tick, as long as `Minute` is at most 1200.

That things end is proved as far as it needs no fairness: for each sequential
part and for the bake-off with its threads there is a measure that every step
lowers, whatever calls, verifiers and humans answer (`EveryRunIsBounded`,
`EveryCallIsBounded`, `EveryCouncilIsBounded`, `EveryVerificationIsBounded`,
`EveryBakeOffIsBounded`; `EverySetupIsBounded` with a lexicographic one, because a
chain of escalations is walked again from each start). Nothing goes round in a
circle, then, and how long a run can be is a number in the statement. That each
gets there, which needs that it is never stuck and is scheduled, remains with
the runs: they look for deadlocks and check the liveness properties.

Model-checked only: liveness (`EveryCallGranted`, `EveryBakeOffEnds`,
`SetupEnds`), which is beyond the prover together with fairness. No invariant
of a passing run is without its theorem.

## Not modelled

The parsing of `config.py`, `task.py` and of one entry of `models.yaml`, prompts,
the extraction of diffs and code from answers, printing and costs are data: they
keep no state, and what they come to is chosen freely. Listing models
(`council models`) only prints. Partial copies of a project, colliding file
names of responses, edits by the user during a run, what two sessions do to each
other's files, and what processes of a verify step or of opencode do after a
timeout left them are hazards without a property, with the reason in `PROJECT.json`. A file
system that loses a rename at a power failure is not modelled either. `examples/verify_game.py` is a verify command, one of any.

## Plan

Done: all modules with their runs, the proofs of every invariant and action
property of the passing runs, the two refinements, and the measures. Next:

1. `Council` on top of `Round`: that the places a round calls and what it returns
   are what `OneRound` promises, with the verdicts as a function of its result.
2. Determinism of what is kept: two bake-offs of one pool whose calls come to the
   same have the same rows, in whatever order the calls end.

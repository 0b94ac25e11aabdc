------------------------------- MODULE Catalog -------------------------------
(***************************************************************************)
(* The cached live catalog (council/discovery.py): `models sync` fetches   *)
(* it, writes it beside the cache and renames it into place; every command *)
(* with --live reads it.  Commands are processes, any number at a time,    *)
(* which know nothing of each other and may be killed at any step.         *)
(*                                                                         *)
(* Files are as the file system has them: a path leads to a file, and a    *)
(* process that opened a file goes on with it whatever its path becomes.   *)
(* The disk may refuse any of what is done to a file.                      *)
(***************************************************************************)
EXTENDS Integers, FiniteSets

CONSTANTS Syncs,        \* processes: `council models sync`,
          Refreshes,    \*   the same with --refresh,
          Loads,        \*   a command with --live
          Files,        \* the files there may be at a time
          NoFile,       \* where a path leads that leads nowhere
          Ttl,          \* CACHE_TTL
          Unpriced,     \* the catalogs with a model whose `pricing` is null
          MaxTime,      \* bounds: on the clock,
          MaxVersion    \*   and on the catalogs published

ASSUME BoundsAssumption == Ttl \in Nat /\ MaxTime \in Nat /\ MaxVersion \in Nat \ {0}
ASSUME ProcessesAssumption == (Syncs \cup Refreshes) \cap Loads = {}
ASSUME UnpricedAssumption == Unpriced \subseteq 1 .. MaxVersion
ASSUME FilesAssumption == NoFile \notin Files

Writers == Syncs \cup Refreshes
Procs == Writers \cup Loads

VARIABLES
    upstream,   \* the catalog OpenRouter publishes
    clock,      \* now
    held,       \* what each file holds
    stamp,      \* its fetched_at
    cache,      \* the file openrouter-models.json
    tmp,        \* the file openrouter-models.tmp
    pc,         \* where each process is, or how it ended
    fetched,    \* the catalog it fetched
    taken,      \* the time it writes beside it
    open,       \* the file it has open
    found,      \* what it found at the path of the cache and acted on
    overlapped, \* history: the processes that were in write_cache with another
    publisher   \* history: the process that renamed the cache into place

env == <<upstream, clock>>
disk == <<held, stamp, cache, tmp>>
own == <<fetched, taken, open, found>>
history == <<overlapped, publisher>>
vars == <<env, disk, pc, own, history>>

\* A file with nothing in it, one that is no JSON, no file, and one that the
\* disk does not let be read.
Empty == 0
Torn == -1
Missing == -2
Unreadable == -3
Catalogs == 1 .. MaxVersion

\* There is no cache yet, or one of the first catalog.
Init == /\ upstream = 1 /\ clock = 0
        /\ cache \in Files \cup {NoFile}
        /\ held = [f \in Files |-> IF f = cache THEN 1 ELSE Empty]
        /\ stamp = [f \in Files |-> 0]
        /\ tmp = NoFile
        /\ pc = [p \in Procs |-> "started"]
        /\ fetched = [p \in Procs |-> Empty]
        /\ taken = [p \in Procs |-> 0]
        /\ open = [p \in Procs |-> NoFile]
        /\ found = [p \in Procs |-> Missing]
        /\ overlapped = {} /\ publisher = {}

Goto(p, label) == pc' = [pc EXCEPT ![p] = label]

\* read_cache, as far as what it finds: a file that is no JSON raises, and so
\* does one that cannot be read.
Cache == IF cache = NoFile THEN Missing ELSE held[cache]
Sights == IF cache = NoFile THEN {Missing} ELSE {Cache, Unreadable}
Usable(sight) == sight \in Catalogs
Read(p, sight) == found' = [found EXCEPT ![p] = sight]

Stale == clock - stamp[cache] > Ttl

\* Counting the free models of a catalog: `_is_free(None)` nobody catches.
Counted(catalog, label) == IF catalog \in Unpriced THEN "unpriced" ELSE label

\* sync_openrouter serves a fresh cache without a fetch; what is wrong with it
\* otherwise is passed over.
Served(sight) == Usable(sight) /\ ~Stale

LookAtCache(p) == \E sight \in Sights :
    IF Served(sight) THEN Read(p, sight) /\ Goto(p, Counted(sight, "served"))
    ELSE Goto(p, "fetching") /\ UNCHANGED found

Look(p) ==
    /\ p \in Writers /\ pc[p] = "started"
    /\ IF p \in Refreshes THEN Goto(p, "fetching") /\ UNCHANGED found ELSE LookAtCache(p)
    /\ UNCHANGED <<env, disk, fetched, taken, open, history>>

\* The processes that have fetched and not yet renamed.
Publishing == {p \in Writers : pc[p] \in {"fetched", "opened", "written"}}

Fetch(p) ==
    /\ pc[p] = "fetching"
    /\ Goto(p, "fetched")
    /\ fetched' = [fetched EXCEPT ![p] = upstream]
    /\ overlapped' = IF Publishing = {} THEN overlapped ELSE overlapped \cup Publishing \cup {p}
    /\ UNCHANGED <<env, disk, taken, open, found, publisher>>

FetchFails(p) ==
    /\ pc[p] = "fetching"
    /\ Goto(p, "unfetched")
    /\ UNCHANGED <<env, disk, own, history>>

\* A defect to be caught: only a fresh cache stands in for a failed fetch.
FallsBackIfFresh(sight) == Usable(sight) /\ ~Stale

\* A failed fetch falls back to whatever cache there is, and calls it stale.
FallsBack(sight) == Usable(sight)

FallBack(p) ==
    /\ pc[p] = "unfetched"
    /\ \E sight \in Sights :
         /\ Read(p, sight)
         /\ Goto(p, IF FallsBack(sight) THEN Counted(sight, "fellBack") ELSE "failed")
    /\ UNCHANGED <<env, disk, fetched, taken, open, history>>

Unused == Files \ ({cache, tmp} \cup {open[p] : p \in Procs})

\* A defect to be caught: the cache is written where it is.
TargetInPlace == IF cache = NoFile THEN Unused ELSE {cache}

Target == IF tmp = NoFile THEN Unused ELSE {tmp}

\* A defect to be caught: the file is opened for appending.
OpenedToAppend(f) == held[f]

Opened(f) == Empty

\* Path.write_text: the time is taken, then the file is opened and emptied,
\* also when it is one that another process left or is writing.
Open(p) ==
    /\ pc[p] = "fetched"
    /\ \E f \in Target :
         /\ open' = [open EXCEPT ![p] = f]
         /\ tmp' = f
         /\ held' = [held EXCEPT ![f] = Opened(f)]
    /\ taken' = [taken EXCEPT ![p] = clock]
    /\ Goto(p, "opened")
    /\ UNCHANGED <<env, stamp, cache, fetched, found, history>>

\* Where another process has written meanwhile, its text may show behind.
Written(p) == {fetched[p]} \cup IF held[open[p]] = Empty THEN {} ELSE {Torn}

Write(p) ==
    /\ pc[p] = "opened"
    /\ \E content \in Written(p) : held' = [held EXCEPT ![open[p]] = content]
    /\ stamp' = [stamp EXCEPT ![open[p]] = taken[p]]
    /\ open' = [open EXCEPT ![p] = NoFile]
    /\ Goto(p, "written")
    /\ UNCHANGED <<env, cache, tmp, fetched, taken, found, history>>

\* tmp.replace: whatever the path leads to is the cache from now on; nobody
\* catches the error if it leads nowhere.  The models are counted afterwards.
Rename(p) ==
    /\ pc[p] = "written"
    /\ IF tmp = NoFile THEN Goto(p, "raised") /\ UNCHANGED <<cache, tmp, publisher>>
       ELSE /\ cache' = tmp /\ tmp' = NoFile
            /\ publisher' = {p}
            /\ Goto(p, Counted(fetched[p], "synced"))
    /\ UNCHANGED <<env, held, stamp, own, overlapped>>

\* load_merged_registry: without a cache the command is refused; an error of
\* json.loads, or of reading, nobody catches.  A null price is a price of nothing.
LoadEnds(sight) == CASE Usable(sight)      -> "loaded"
                     [] sight = Missing    -> "failed"
                     [] sight = Unreadable -> "diskError"
                     [] OTHER              -> "raised"

Load(p) ==
    /\ p \in Loads /\ pc[p] = "started"
    /\ \E sight \in Sights : Read(p, sight) /\ Goto(p, LoadEnds(sight))
    /\ UNCHANGED <<env, disk, fetched, taken, open, history>>

\* Ends by an exception nobody catches, and all ends.
Uncaught == {"raised", "diskError", "unpriced"}
Over == {"served", "fellBack", "synced", "loaded", "failed", "dead"} \cup Uncaught

\* A process goes: what it was writing may be there in part.
Stop(p, label) ==
    /\ \/ UNCHANGED held
       \/ pc[p] = "opened" /\ held' = [held EXCEPT ![open[p]] = Torn]
    /\ open' = [open EXCEPT ![p] = NoFile]
    /\ Goto(p, label)
    /\ UNCHANGED <<env, stamp, cache, tmp, fetched, taken, found, history>>

\* An OSError of write_cache, of its mkdir, open, write or replace: a full disk,
\* a directory that may not be written.  Nobody catches it.
DiskFails(p) == p \in Publishing /\ Stop(p, "diskError")

\* The process is killed.
Die(p) == pc[p] \notin Over /\ Stop(p, "dead")

Tick == /\ clock < MaxTime
        /\ clock' = clock + 1
        /\ UNCHANGED <<upstream, disk, pc, own, history>>

Publish == /\ upstream < MaxVersion
           /\ upstream' = upstream + 1
           /\ UNCHANGED <<clock, disk, pc, own, history>>

Sync(p) == \/ Look(p) \/ Fetch(p) \/ FetchFails(p) \/ FallBack(p)
           \/ Open(p) \/ Write(p) \/ Rename(p) \/ DiskFails(p)

Ended == (\A p \in Procs : pc[p] \in Over) /\ UNCHANGED vars

Next == \/ \E p \in Procs : Sync(p) \/ Load(p) \/ Die(p)
        \/ Tick
        \/ Publish
        \/ Ended

Spec == Init /\ [][Next]_vars

-----------------------------------------------------------------------------
(* Properties.                                                             *)

\* Types of the catalog's state: whoever has a file open is about to write it,
\* and the two paths never lead to one file.
TypeOK ==
    /\ upstream \in Catalogs /\ clock \in 0 .. MaxTime
    /\ held \in [Files -> Catalogs \cup {Empty, Torn}]
    /\ stamp \in [Files -> 0 .. MaxTime]
    /\ cache \in Files \cup {NoFile} /\ tmp \in Files \cup {NoFile}
    /\ cache = tmp => cache = NoFile
    /\ pc \in [Procs -> Over \cup {"started", "fetching", "unfetched", "fetched", "opened", "written"}]
    /\ fetched \in [Procs -> Catalogs \cup {Empty}]
    /\ taken \in [Procs -> 0 .. MaxTime]
    /\ open \in [Procs -> Files \cup {NoFile}]
    /\ \A p \in Procs : pc[p] = "opened" <=> open[p] # NoFile
    /\ found \in [Procs -> Catalogs \cup {Missing, Empty, Torn, Unreadable}]
    /\ overlapped \subseteq Writers /\ publisher \subseteq Writers

\* A sync that had write_cache to itself leaves the whole catalog it fetched in
\* the cache, and it stays there until the next: neither what a killed process
\* left behind nor a reader at the same time makes a difference.
CacheIsTheWriters ==
    /\ \A p \in publisher \ overlapped : Cache = fetched[p]
    /\ publisher = {} => Cache \in {Missing, 1}

\* While no two syncs publish at the same time, a command is refused only for
\* want of a cache it can read, however stale; and what nobody catches is an
\* error of the disk, or a catalog with a null price that a sync counts: never a
\* cache half written, or one that another command took away.
FailsOnlyWithoutACache ==
    overlapped = {} =>
        \A p \in Procs :
            /\ pc[p] = "failed" => found[p] \in {Missing, Unreadable}
            /\ pc[p] # "raised"
            /\ pc[p] = "unpriced" => p \in Writers /\ {found[p], fetched[p]} \cap Unpriced # {}
=============================================================================

--------------------------- MODULE CatalogProofs ---------------------------
(***************************************************************************)
(* What the cache promises, for any number of processes, of files, of      *)
(* catalogs and any clock, with processes killed wherever it may be.       *)
(*                                                                         *)
(* A sync that publishes alone has .tmp to itself: whoever else has a file *)
(* open has opened it after the last such sync renamed, and so not the     *)
(* cache.  That is what keeps the cache whole.                             *)
(***************************************************************************)
EXTENDS Catalog, TLAPS

Publishes(p) == pc[p] \in {"fetched", "opened", "written"}

\* Only writers come past the first step, and they have fetched when they say so.
Course ==
    \A p \in Procs :
        /\ pc[p] \notin {"started", "loaded", "failed", "raised", "diskError", "dead"} => p \in Writers
        /\ pc[p] \in {"fetched", "opened", "written"} => fetched[p] \in Catalogs

\* Two that publish at the same time are both known to.
Known == \A p, q \in Procs : p # q /\ Publishes(p) /\ Publishes(q) => p \in overlapped

\* Who publishes alone has the file it wrote, or will write, at .tmp.
OwnTmp ==
    \A p \in Procs \ overlapped :
        /\ pc[p] = "opened" => tmp # NoFile /\ open[p] = tmp /\ held[tmp] = Empty
        /\ pc[p] = "written" => tmp # NoFile /\ held[tmp] = fetched[p]

\* The last to publish did, and if it was alone nobody has the cache open.
CacheKept ==
    /\ \A p \in publisher : p \in Procs /\ pc[p] \in {"synced", "unpriced"} /\ fetched[p] \in Catalogs
    /\ \A p, q \in publisher : p = q
    /\ publisher # {} => cache # NoFile
    /\ publisher \cap overlapped = {} =>
         \A p \in Procs : pc[p] = "opened" => open[p] # cache

IInv == TypeOK /\ Course /\ Known /\ OwnTmp /\ CacheKept
          /\ CacheIsTheWriters /\ FailsOnlyWithoutACache

\* What there is to find while nobody has overlapped is a catalog or nothing.
LEMMA WholeOrMissing ==
    ASSUME IInv, overlapped = {}, NEW sight \in Sights, ~Usable(sight)
    PROVE  sight \in {Missing, Unreadable}
<1>1. Cache \in Catalogs \cup {Missing}
  <2>1. CASE publisher = {}
    BY <2>1, BoundsAssumption DEF IInv, CacheIsTheWriters, Catalogs
  <2>2. CASE publisher # {}
    BY <2>2 DEF IInv, CacheIsTheWriters, CacheKept
  <2> QED
    BY <2>1, <2>2
<1> QED
  BY <1>1 DEF Sights, Usable

LEMMA SightTypes ==
    ASSUME IInv, NEW sight \in Sights
    PROVE  sight \in Catalogs \cup {Missing, Empty, Torn, Unreadable}
BY DEF IInv, TypeOK, Sights, Cache

LEMMA CountedTypes ==
    ASSUME NEW catalog, NEW label
    PROVE  /\ Counted(catalog, label) \in {label, "unpriced"}
           /\ Counted(catalog, label) = "unpriced" /\ label # "unpriced" => catalog \in Unpriced
BY DEF Counted

LEMMA InitInvariant == Init => IInv
<1> SUFFICES ASSUME Init PROVE IInv
  OBVIOUS
<1>1. TypeOK
  BY BoundsAssumption, FilesAssumption
  DEF Init, TypeOK, Catalogs, Over, Empty, Torn, Missing, Writers
<1>2. Course /\ Known /\ OwnTmp /\ CacheKept
  BY DEF Init, Course, Known, OwnTmp, CacheKept, Publishes
<1>3. CacheIsTheWriters /\ FailsOnlyWithoutACache
  BY DEF Init, CacheIsTheWriters, FailsOnlyWithoutACache, Cache, Missing
<1> QED
  BY <1>1, <1>2, <1>3 DEF IInv

\* A step that touches no file and takes no process past its fetch.
LEMMA QuietStep ==
    ASSUME IInv, NEW p \in Procs, NEW label \in Over \cup {"fetching", "unfetched"},
           Goto(p, label), ~Publishes(p), pc[p] \notin {"synced", "unpriced"},
           UNCHANGED <<disk, fetched, taken, open, history, env>>,
           found' \in [Procs -> Catalogs \cup {Missing, Empty, Torn, Unreadable}],
           \A q \in Procs \ {p} : found'[q] = found[q],
           p \in Writers \/ label \in {"loaded", "failed", "raised", "diskError", "dead"},
           overlapped = {} => /\ label # "raised"
                              /\ label = "failed" => found'[p] \in {Missing, Unreadable}
                              /\ label = "unpriced" => found'[p] \in Unpriced
    PROVE  IInv'
<1>1. /\ pc' = [pc EXCEPT ![p] = label] /\ held' = held /\ stamp' = stamp /\ cache' = cache
      /\ tmp' = tmp /\ fetched' = fetched /\ taken' = taken /\ open' = open
      /\ overlapped' = overlapped /\ publisher' = publisher
      /\ upstream' = upstream /\ clock' = clock
  BY DEF Goto, disk, history, env
<1>2. /\ pc' \in [Procs -> Over \cup {"started", "fetching", "unfetched", "fetched", "opened", "written"}]
      /\ pc'[p] = label /\ \A q \in Procs \ {p} : pc'[q] = pc[q]
      /\ label \notin {"fetched", "opened", "written", "started"}
  BY <1>1 DEF IInv, TypeOK, Over, Uncaught
<1>3. TypeOK'
  BY <1>1, <1>2 DEF IInv, TypeOK, Publishes
<1>4. Course'
  BY <1>1, <1>2 DEF IInv, Course
<1>5. Known'
  BY <1>1, <1>2 DEF IInv, Known, Publishes
<1>6. OwnTmp'
  BY <1>1, <1>2 DEF IInv, OwnTmp
<1>7. CacheKept'
  BY <1>1, <1>2 DEF IInv, CacheKept
<1>8. CacheIsTheWriters'
  BY <1>1 DEF IInv, CacheIsTheWriters, Cache
<1>9. FailsOnlyWithoutACache'
  BY <1>1, <1>2 DEF IInv, FailsOnlyWithoutACache
<1> QED
  BY <1>3, <1>4, <1>5, <1>6, <1>7, <1>8, <1>9 DEF IInv

\* A process that found something, and went by it.
LEMMA FoundStep ==
    ASSUME IInv, NEW p \in Procs, NEW sight \in Sights, Read(p, sight)
    PROVE  /\ found' \in [Procs -> Catalogs \cup {Missing, Empty, Torn, Unreadable}]
           /\ \A q \in Procs \ {p} : found'[q] = found[q]
           /\ found'[p] = sight
BY SightTypes DEF Read, IInv, TypeOK

LEMMA LookStep == ASSUME IInv, NEW p \in Procs, Look(p) PROVE IInv'
<1>1. /\ ~Publishes(p) /\ pc[p] \notin {"synced", "unpriced"} /\ p \in Writers
      /\ UNCHANGED <<disk, fetched, taken, open, history, env>>
  BY DEF Look, Publishes, disk, env
<1>2. CASE Goto(p, "fetching") /\ UNCHANGED found
  <2>1. found' \in [Procs -> Catalogs \cup {Missing, Empty, Torn, Unreadable}]
    BY <1>2 DEF IInv, TypeOK
  <2> QED
    BY <1>1, <1>2, <2>1, QuietStep
<1>3. ASSUME NEW sight \in Sights, Read(p, sight), Goto(p, Counted(sight, "served")) PROVE IInv'
  <2>1. Counted(sight, "served") \in Over
    BY CountedTypes DEF Over, Uncaught
  <2>2. /\ Counted(sight, "served") \notin {"raised", "failed"}
        /\ Counted(sight, "served") = "unpriced" => sight \in Unpriced
    BY CountedTypes
  <2> QED
    BY <1>1, <1>3, <2>1, <2>2, FoundStep, QuietStep
<1> QED
  BY <1>2, <1>3 DEF Look, LookAtCache

LEMMA FetchFailsStep == ASSUME IInv, NEW p \in Procs, FetchFails(p) PROVE IInv'
<1>1. found' \in [Procs -> Catalogs \cup {Missing, Empty, Torn, Unreadable}]
      /\ \A q \in Procs \ {p} : found'[q] = found[q]
  BY DEF FetchFails, own, IInv, TypeOK
<1>2. p \in Writers /\ ~Publishes(p) /\ pc[p] \notin {"synced", "unpriced"}
  BY DEF FetchFails, IInv, Course, Publishes
<1> QED
  BY <1>1, <1>2, QuietStep DEF FetchFails, disk, env, own

LEMMA FallBackStep == ASSUME IInv, NEW p \in Procs, FallBack(p) PROVE IInv'
<1>1. PICK sight \in Sights :
        /\ Read(p, sight)
        /\ Goto(p, IF Usable(sight) THEN Counted(sight, "fellBack") ELSE "failed")
  BY DEF FallBack, FallsBack
<1> DEFINE label == IF Usable(sight) THEN Counted(sight, "fellBack") ELSE "failed"
<1>2. /\ label \in {"fellBack", "unpriced", "failed"}
      /\ label = "unpriced" => sight \in Unpriced
      /\ label = "failed" => ~Usable(sight)
  BY CountedTypes
<1>3. /\ ~Publishes(p) /\ pc[p] \notin {"synced", "unpriced"} /\ p \in Writers
      /\ UNCHANGED <<disk, fetched, taken, open, history, env>>
  BY DEF FallBack, IInv, Course, Publishes, disk, env
<1>4. overlapped = {} /\ label = "failed" => sight \in {Missing, Unreadable}
  BY <1>2, WholeOrMissing
<1> HIDE DEF label
<1>5. Goto(p, label) /\ label \in Over \cup {"fetching", "unfetched"}
  BY <1>1, <1>2 DEF label, Over, Uncaught
<1> QED
  BY <1>1, <1>2, <1>3, <1>4, <1>5, FoundStep, QuietStep

LEMMA LoadStep == ASSUME IInv, NEW p \in Procs, Load(p) PROVE IInv'
<1>1. PICK sight \in Sights : Read(p, sight) /\ Goto(p, LoadEnds(sight))
  BY DEF Load
<1>2. /\ LoadEnds(sight) \in {"loaded", "failed", "diskError", "raised"}
      /\ LoadEnds(sight) = "failed" => sight = Missing
      /\ LoadEnds(sight) = "raised" => ~Usable(sight) /\ sight \notin {Missing, Unreadable}
  BY DEF LoadEnds
<1>3. /\ ~Publishes(p) /\ pc[p] \notin {"synced", "unpriced"}
      /\ UNCHANGED <<disk, fetched, taken, open, history, env>>
  BY DEF Load, Publishes, disk, env
<1>4. overlapped = {} => LoadEnds(sight) # "raised"
  BY <1>2, WholeOrMissing
<1>5. LoadEnds(sight) \in Over
  BY <1>2 DEF Over, Uncaught
<1> QED
  BY <1>1, <1>2, <1>3, <1>4, <1>5, FoundStep, QuietStep

\* What becomes of the process that takes a step and of the others.
LEMMA GoneTo ==
    ASSUME TypeOK, NEW p \in Procs, NEW label, Goto(p, label),
           label \in Over \cup {"started", "fetching", "unfetched", "fetched", "opened", "written"}
    PROVE  /\ pc' \in [Procs -> Over \cup {"started", "fetching", "unfetched", "fetched", "opened", "written"}]
           /\ pc'[p] = label
           /\ \A q \in Procs \ {p} : pc'[q] = pc[q]
<1>1. pc \in [Procs -> Over \cup {"started", "fetching", "unfetched", "fetched", "opened", "written"}]
  BY DEF TypeOK
<1>2. pc' = [pc EXCEPT ![p] = label]
  BY DEF Goto
<1> QED
  BY <1>1, <1>2

LEMMA FetchStep == ASSUME IInv, NEW p \in Procs, Fetch(p) PROVE IInv'
<1>1. /\ pc[p] = "fetching" /\ p \in Writers
      /\ fetched' = [fetched EXCEPT ![p] = upstream]
      /\ overlapped' = IF Publishing = {} THEN overlapped ELSE overlapped \cup Publishing \cup {p}
      /\ upstream' = upstream /\ clock' = clock /\ held' = held /\ stamp' = stamp
      /\ cache' = cache /\ tmp' = tmp /\ taken' = taken /\ open' = open /\ found' = found
      /\ publisher' = publisher
  BY DEF Fetch, env, disk, IInv, Course
<1>2. /\ pc' \in [Procs -> Over \cup {"started", "fetching", "unfetched", "fetched", "opened", "written"}]
      /\ pc'[p] = "fetched" /\ \A q \in Procs \ {p} : pc'[q] = pc[q]
  BY GoneTo DEF Fetch, IInv
<1>3. upstream \in Catalogs /\ fetched' \in [Procs -> Catalogs \cup {Empty}]
      /\ fetched'[p] = upstream /\ \A q \in Procs \ {p} : fetched'[q] = fetched[q]
  BY <1>1 DEF IInv, TypeOK
<1>4. overlapped \subseteq overlapped' /\ overlapped' \subseteq Writers
  BY <1>1 DEF IInv, TypeOK, Publishing
<1>5. p \notin publisher
  BY <1>1 DEF IInv, CacheKept
<1>6. TypeOK'
  BY <1>1, <1>2, <1>3, <1>4 DEF IInv, TypeOK
<1>7. Course'
  BY <1>1, <1>2, <1>3 DEF IInv, Course
<1>8. Known'
  <2> SUFFICES ASSUME NEW q \in Procs, NEW r \in Procs, q # r, Publishes(q)', Publishes(r)'
               PROVE  q \in overlapped'
    BY DEF Known
  <2>1. CASE q # p /\ r # p
    BY <2>1, <1>2, <1>4 DEF IInv, Known, Publishes
  <2>2. CASE q = p
    <3>1. r \in Publishing
      BY <2>2, <1>2 DEF Publishes, Publishing, IInv, Course
    <3> QED
      BY <2>2, <3>1, <1>1
  <2>3. CASE r = p
    <3>1. q \in Publishing
      BY <2>3, <1>2 DEF Publishes, Publishing, IInv, Course
    <3> QED
      BY <3>1, <1>1
  <2> QED
    BY <2>1, <2>2, <2>3
<1>9. OwnTmp'
  BY <1>1, <1>2, <1>3, <1>4 DEF IInv, OwnTmp
<1>10. CacheKept'
  BY <1>1, <1>2, <1>4, <1>5 DEF IInv, CacheKept
<1>11. CacheIsTheWriters'
  BY <1>1, <1>3, <1>4, <1>5 DEF IInv, CacheIsTheWriters, CacheKept, Cache
<1>12. FailsOnlyWithoutACache'
  BY <1>1, <1>2, <1>4 DEF IInv, FailsOnlyWithoutACache
<1> QED
  BY <1>6, <1>7, <1>8, <1>9, <1>10, <1>11, <1>12 DEF IInv

\* While a process publishes, whoever else does is known to have overlapped.
LEMMA AloneInPublishing ==
    ASSUME IInv, NEW p \in Procs, Publishes(p), NEW q \in Procs \ {p}, Publishes(q)
    PROVE  p \in overlapped /\ q \in overlapped
BY DEF IInv, Known

LEMMA OpenStep == ASSUME IInv, NEW p \in Procs, Open(p) PROVE IInv'
<1>1. PICK f \in Target :
        open' = [open EXCEPT ![p] = f] /\ tmp' = f /\ held' = [held EXCEPT ![f] = Empty]
  BY DEF Open, Opened
<1>2. /\ pc[p] = "fetched" /\ Publishes(p)
      /\ taken' = [taken EXCEPT ![p] = clock]
      /\ upstream' = upstream /\ clock' = clock /\ stamp' = stamp /\ cache' = cache
      /\ fetched' = fetched /\ found' = found
      /\ overlapped' = overlapped /\ publisher' = publisher
  BY DEF Open, env, history, Publishes
<1>3. /\ pc' \in [Procs -> Over \cup {"started", "fetching", "unfetched", "fetched", "opened", "written"}]
      /\ pc'[p] = "opened" /\ \A q \in Procs \ {p} : pc'[q] = pc[q]
  BY GoneTo DEF Open, IInv
<1>4. f \in Files /\ f # cache /\ f # NoFile
  BY FilesAssumption DEF Target, Unused, IInv, TypeOK
<1>5. /\ open' \in [Procs -> Files \cup {NoFile}]
      /\ open'[p] = f /\ \A q \in Procs \ {p} : open'[q] = open[q]
  BY <1>1, <1>4 DEF IInv, TypeOK
<1>6. /\ held' \in [Files -> Catalogs \cup {Empty, Torn}]
      /\ held'[f] = Empty /\ \A g \in Files \ {f} : held'[g] = held[g]
  BY <1>1, <1>4 DEF IInv, TypeOK
<1>7. taken' \in [Procs -> 0 .. MaxTime]
  BY <1>2 DEF IInv, TypeOK
<1>8. TypeOK'
  BY <1>1, <1>2, <1>3, <1>4, <1>5, <1>6, <1>7 DEF IInv, TypeOK
<1>9. Course'
  BY <1>2, <1>3 DEF IInv, Course
<1>10. Known'
  BY <1>2, <1>3 DEF IInv, Known, Publishes
<1>11. OwnTmp'
  <2>1. \A q \in Procs \ overlapped : q # p => pc'[q] \notin {"opened", "written"}
    BY <1>2, <1>3, AloneInPublishing DEF Publishes
  <2> QED
    BY <2>1, <1>1, <1>2, <1>3, <1>4, <1>5, <1>6 DEF OwnTmp
<1>12. CacheKept'
  BY <1>2, <1>3, <1>4, <1>5 DEF IInv, CacheKept
<1>13. Cache' = Cache
  BY <1>2, <1>4, <1>6 DEF Cache, IInv, TypeOK
<1>14. CacheIsTheWriters'
  BY <1>2, <1>13 DEF IInv, CacheIsTheWriters
<1>15. FailsOnlyWithoutACache'
  BY <1>2, <1>3 DEF IInv, FailsOnlyWithoutACache
<1> QED
  BY <1>8, <1>9, <1>10, <1>11, <1>12, <1>14, <1>15 DEF IInv

\* What a process that has a file open does to it never shows in the cache of
\* one that published alone.
LEMMA CacheNotOpen ==
    ASSUME IInv, NEW p \in Procs, pc[p] = "opened", publisher \cap overlapped = {}
    PROVE  open[p] # cache
BY DEF IInv, CacheKept

LEMMA CacheUntouched ==
    ASSUME IInv, NEW p \in Procs, pc[p] = "opened", NEW content,
           held' = [held EXCEPT ![open[p]] = content], UNCHANGED <<cache, fetched, history>>
    PROVE  CacheIsTheWriters'
<1>1. CASE publisher \cap overlapped = {}
  <2>1. open[p] # cache
    BY <1>1, CacheNotOpen
  <2>2. Cache' = Cache
    BY <2>1 DEF Cache, IInv, TypeOK
  <2> QED
    BY <2>2 DEF IInv, CacheIsTheWriters, history
<1>2. CASE publisher \cap overlapped # {}
  <2>1. publisher \ overlapped = {} /\ publisher # {}
    BY <1>2 DEF IInv, CacheKept
  <2> QED
    BY <2>1 DEF CacheIsTheWriters, history
<1> QED
  BY <1>1, <1>2

LEMMA WriteStep == ASSUME IInv, NEW p \in Procs, Write(p) PROVE IInv'
<1>1. PICK content \in Written(p) : held' = [held EXCEPT ![open[p]] = content]
  BY DEF Write
<1>2. /\ pc[p] = "opened" /\ Publishes(p)
      /\ stamp' = [stamp EXCEPT ![open[p]] = taken[p]]
      /\ open' = [open EXCEPT ![p] = NoFile]
      /\ upstream' = upstream /\ clock' = clock /\ cache' = cache /\ tmp' = tmp
      /\ fetched' = fetched /\ taken' = taken /\ found' = found
      /\ overlapped' = overlapped /\ publisher' = publisher
  BY DEF Write, env, history, Publishes
<1>3. /\ pc' \in [Procs -> Over \cup {"started", "fetching", "unfetched", "fetched", "opened", "written"}]
      /\ pc'[p] = "written" /\ \A q \in Procs \ {p} : pc'[q] = pc[q]
  BY GoneTo DEF Write, IInv
<1>4. open[p] \in Files /\ fetched[p] \in Catalogs
  BY <1>2 DEF IInv, TypeOK, Course
<1>5. content \in Catalogs \cup {Torn}
  BY <1>4 DEF Written
<1>6. /\ held' \in [Files -> Catalogs \cup {Empty, Torn}]
      /\ held'[open[p]] = content
  BY <1>1, <1>4, <1>5 DEF IInv, TypeOK
<1>7. stamp' \in [Files -> 0 .. MaxTime]
  BY <1>2, <1>4 DEF IInv, TypeOK
<1>8. /\ open' \in [Procs -> Files \cup {NoFile}]
      /\ open'[p] = NoFile /\ \A q \in Procs \ {p} : open'[q] = open[q]
  BY <1>2 DEF IInv, TypeOK
<1>9. TypeOK'
  BY <1>2, <1>3, <1>6, <1>7, <1>8 DEF IInv, TypeOK
<1>10. Course'
  BY <1>2, <1>3 DEF IInv, Course
<1>11. Known'
  BY <1>2, <1>3 DEF IInv, Known, Publishes
<1>12. OwnTmp'
  <2>1. \A q \in Procs \ overlapped : q # p => pc'[q] \notin {"opened", "written"}
    BY <1>2, <1>3, AloneInPublishing DEF Publishes
  <2>2. p \notin overlapped => tmp # NoFile /\ open[p] = tmp /\ content = fetched[p]
    BY <1>2, <1>1 DEF IInv, OwnTmp, Written
  <2> QED
    BY <2>1, <2>2, <1>2, <1>3, <1>6 DEF OwnTmp
<1>13. CacheKept'
  BY <1>2, <1>3, <1>8 DEF IInv, CacheKept
<1>14. CacheIsTheWriters'
  BY <1>1, <1>2, CacheUntouched DEF history
<1>15. FailsOnlyWithoutACache'
  BY <1>2, <1>3 DEF IInv, FailsOnlyWithoutACache
<1> QED
  BY <1>9, <1>10, <1>11, <1>12, <1>13, <1>14, <1>15 DEF IInv

LEMMA RenameStep == ASSUME IInv, NEW p \in Procs, Rename(p) PROVE IInv'
<1>1. /\ pc[p] = "written" /\ Publishes(p) /\ p \in Writers /\ fetched[p] \in Catalogs
      /\ upstream' = upstream /\ clock' = clock /\ held' = held /\ stamp' = stamp
      /\ fetched' = fetched /\ taken' = taken /\ open' = open /\ found' = found
      /\ overlapped' = overlapped
  BY DEF Rename, env, own, Publishes, IInv, Course
<1>2. p \notin overlapped => tmp # NoFile /\ held[tmp] = fetched[p]
  BY <1>1 DEF IInv, OwnTmp
<1>3. \A q \in Procs \ overlapped : q # p => pc[q] \notin {"opened", "written"}
  BY <1>1, AloneInPublishing DEF Publishes
<1>4. CASE tmp = NoFile
  <2>1. cache' = cache /\ tmp' = tmp /\ publisher' = publisher /\ p \in overlapped
    BY <1>1, <1>2, <1>4 DEF Rename
  <2>2. /\ pc' \in [Procs -> Over \cup {"started", "fetching", "unfetched", "fetched", "opened", "written"}]
        /\ pc'[p] = "raised" /\ \A q \in Procs \ {p} : pc'[q] = pc[q]
    BY <1>4, GoneTo DEF Rename, IInv, Over, Uncaught
  <2>3. TypeOK'
    BY <1>1, <2>1, <2>2 DEF IInv, TypeOK
  <2>4. Course' /\ Known' /\ OwnTmp'
    BY <1>1, <2>1, <2>2 DEF IInv, Course, Known, OwnTmp, Publishes
  <2>5. CacheKept'
    BY <1>1, <2>1, <2>2 DEF IInv, CacheKept
  <2>6. CacheIsTheWriters' /\ FailsOnlyWithoutACache'
    BY <1>1, <2>1, <2>2 DEF IInv, CacheIsTheWriters, FailsOnlyWithoutACache, Cache
  <2> QED
    BY <2>3, <2>4, <2>5, <2>6 DEF IInv
<1>5. CASE tmp # NoFile
  <2>1. cache' = tmp /\ tmp' = NoFile /\ publisher' = {p}
    BY <1>5 DEF Rename
  <2>0. /\ Counted(fetched[p], "synced") \in {"synced", "unpriced"}
        /\ Counted(fetched[p], "synced") = "unpriced" => fetched[p] \in Unpriced
    BY CountedTypes
  <2>2. /\ pc' \in [Procs -> Over \cup {"started", "fetching", "unfetched", "fetched", "opened", "written"}]
        /\ pc'[p] \in {"synced", "unpriced"} /\ (pc'[p] = "unpriced" => fetched[p] \in Unpriced)
        /\ \A q \in Procs \ {p} : pc'[q] = pc[q]
    <3>1. Goto(p, Counted(fetched[p], "synced"))
      BY <1>5 DEF Rename
    <3>2. Counted(fetched[p], "synced") \in Over
      BY <2>0 DEF Over, Uncaught
    <3> QED
      BY <2>0, <3>1, <3>2, GoneTo DEF IInv
  <2>3. TypeOK'
    BY <1>1, <1>5, <2>1, <2>2 DEF IInv, TypeOK
  <2>4. Course' /\ Known'
    BY <1>1, <2>2 DEF IInv, Course, Known, Publishes
  <2>5. OwnTmp'
    BY <1>1, <1>3, <2>2 DEF OwnTmp
  <2>6. CacheKept'
    <3>1. p \notin overlapped => \A q \in Procs : pc'[q] # "opened"
      <4>1. p \notin overlapped => \A q \in Procs : q # p => pc[q] # "opened"
        BY <1>1, AloneInPublishing DEF Publishes
      <4> QED
        BY <4>1, <2>2
    <3> QED
      BY <3>1, <1>1, <1>5, <2>1, <2>2 DEF CacheKept
  <2>7. CacheIsTheWriters'
    BY <1>1, <1>2, <1>5, <2>1 DEF CacheIsTheWriters, Cache
  <2>8. FailsOnlyWithoutACache'
    BY <1>1, <2>2 DEF IInv, FailsOnlyWithoutACache
  <2> QED
    BY <2>3, <2>4, <2>5, <2>6, <2>7, <2>8 DEF IInv
<1> QED
  BY <1>4, <1>5

\* A process goes, killed or by an error of the disk.
LEMMA StopStep ==
    ASSUME IInv, NEW p \in Procs, pc[p] \notin Over,
           NEW label \in {"dead", "diskError"}, Stop(p, label)
    PROVE  IInv'
<1>1. /\ open' = [open EXCEPT ![p] = NoFile]
      /\ upstream' = upstream /\ clock' = clock /\ stamp' = stamp /\ cache' = cache
      /\ tmp' = tmp /\ fetched' = fetched /\ taken' = taken /\ found' = found
      /\ overlapped' = overlapped /\ publisher' = publisher
  BY DEF Stop, env, history
<1>2. /\ pc' \in [Procs -> Over \cup {"started", "fetching", "unfetched", "fetched", "opened", "written"}]
      /\ pc'[p] = label /\ \A q \in Procs \ {p} : pc'[q] = pc[q]
  BY GoneTo DEF Stop, IInv, Over, Uncaught
<1>3. /\ open' \in [Procs -> Files \cup {NoFile}]
      /\ open'[p] = NoFile /\ \A q \in Procs \ {p} : open'[q] = open[q]
  BY <1>1 DEF IInv, TypeOK
<1>4. \/ held' = held
      \/ pc[p] = "opened" /\ held' = [held EXCEPT ![open[p]] = Torn]
  BY DEF Stop
<1>5. held' \in [Files -> Catalogs \cup {Empty, Torn}]
  BY <1>4 DEF IInv, TypeOK
<1>6. TypeOK'
  BY <1>1, <1>2, <1>3, <1>5 DEF IInv, TypeOK
<1>7. Course' /\ Known'
  BY <1>1, <1>2 DEF IInv, Course, Known, Publishes
<1>8. OwnTmp'
  <2>1. CASE held' = held
    BY <2>1, <1>1, <1>2, <1>3 DEF IInv, OwnTmp
  <2>2. CASE pc[p] = "opened"
    <3>1. \A q \in Procs \ overlapped : q # p => pc[q] \notin {"opened", "written"}
      BY <2>2, AloneInPublishing DEF Publishes
    <3> QED
      BY <3>1, <1>1, <1>2 DEF OwnTmp
  <2> QED
    BY <1>4, <2>1, <2>2
<1>9. CacheKept'
  <2>1. p \notin publisher
    BY DEF IInv, CacheKept, Over, Uncaught
  <2> QED
    BY <2>1, <1>1, <1>2, <1>3 DEF IInv, CacheKept
<1>10. CacheIsTheWriters'
  <2>1. CASE held' = held
    BY <2>1, <1>1 DEF IInv, CacheIsTheWriters, Cache
  <2>2. CASE pc[p] = "opened" /\ held' = [held EXCEPT ![open[p]] = Torn]
    BY <2>2, <1>1, CacheUntouched DEF history
  <2> QED
    BY <1>4, <2>1, <2>2
<1>11. FailsOnlyWithoutACache'
  BY <1>1, <1>2 DEF IInv, FailsOnlyWithoutACache
<1> QED
  BY <1>6, <1>7, <1>8, <1>9, <1>10, <1>11 DEF IInv

\* Time passes, and catalogs are published, behind everybody's back.
LEMMA WorldStep ==
    ASSUME IInv, UNCHANGED <<disk, pc, own, history>>,
           upstream' \in Catalogs, clock' \in 0 .. MaxTime
    PROVE  IInv'
<1>1. /\ held' = held /\ stamp' = stamp /\ cache' = cache /\ tmp' = tmp /\ pc' = pc
      /\ fetched' = fetched /\ taken' = taken /\ open' = open /\ found' = found
      /\ overlapped' = overlapped /\ publisher' = publisher
  BY DEF disk, own, history
<1>2. TypeOK'
  BY <1>1 DEF IInv, TypeOK
<1>3. Course' /\ Known' /\ OwnTmp' /\ CacheKept'
  BY <1>1 DEF IInv, Course, Known, OwnTmp, CacheKept, Publishes
<1>4. CacheIsTheWriters' /\ FailsOnlyWithoutACache'
  BY <1>1 DEF IInv, CacheIsTheWriters, FailsOnlyWithoutACache, Cache
<1> QED
  BY <1>2, <1>3, <1>4 DEF IInv

\* The inductive invariant of the catalog's cache: whoever publishes alone has
\* .tmp to itself, and what it renamed stays as it is.
THEOREM Inductive == Spec => []IInv
<1>1. Init => IInv
  BY InitInvariant
<1>2. IInv /\ [Next]_vars => IInv'
  <2> SUFFICES ASSUME IInv, [Next]_vars PROVE IInv'
    OBVIOUS
  <2>1. upstream \in Catalogs /\ clock \in 0 .. MaxTime
    BY DEF IInv, TypeOK
  <2>2. ASSUME NEW p \in Procs, Sync(p) PROVE IInv'
    <3>1. CASE DiskFails(p)
      <4>1. pc[p] \notin Over
        BY <3>1 DEF DiskFails, Publishing, Over, Uncaught
      <4> QED
        BY <3>1, <4>1, StopStep DEF DiskFails
    <3> QED
      BY <2>2, <3>1, LookStep, FetchStep, FetchFailsStep, FallBackStep, OpenStep, WriteStep,
         RenameStep DEF Sync
  <2>3. ASSUME NEW p \in Procs, Load(p) PROVE IInv'
    BY <2>3, LoadStep
  <2>4. ASSUME NEW p \in Procs, Die(p) PROVE IInv'
    BY <2>4, StopStep DEF Die
  <2>5. CASE Tick
    BY <2>1, <2>5, BoundsAssumption, WorldStep DEF Tick
  <2>6. CASE Publish
    BY <2>1, <2>6, BoundsAssumption, WorldStep DEF Publish, Catalogs
  <2>7. CASE UNCHANGED vars
    BY <2>1, <2>7, WorldStep DEF vars, env
  <2> QED
    BY <2>2, <2>3, <2>4, <2>5, <2>6, <2>7 DEF Next, Ended
<1> QED
  BY <1>1, <1>2, PTL DEF Spec

\* Types of the catalog's state; no file is ever the cache and .tmp at once.
THEOREM TypeCorrect == Spec => []TypeOK
<1>1. IInv => TypeOK
  BY DEF IInv
<1> QED
  BY <1>1, Inductive, PTL

\* A sync that publishes alone leaves the whole catalog it fetched in the cache,
\* however many others are killed, left files behind or read at the time.
THEOREM CacheStaysWhole == Spec => []CacheIsTheWriters
<1>1. IInv => CacheIsTheWriters
  BY DEF IInv
<1> QED
  BY <1>1, Inductive, PTL

\* While no two syncs publish at the same time, a command is refused for want of
\* a cache it can read and for nothing else, and no exception is of a cache torn
\* or taken away: what nobody catches is the disk's error or a null price.
THEOREM OnlyNoCacheFails == Spec => []FailsOnlyWithoutACache
<1>1. IInv => FailsOnlyWithoutACache
  BY DEF IInv
<1> QED
  BY <1>1, Inductive, PTL
=============================================================================

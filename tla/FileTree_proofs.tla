-------------------------- MODULE FileTree_proofs --------------------------
(***************************************************************************)
(* The tables of the file system watcher, and that the file map follows    *)
(* the disk, for any tree of directories and whatever the user, the        *)
(* kernel, the scans and the slots do.                                     *)
(*                                                                         *)
(* The tables are almost inductive.  What has to be added is where names   *)
(* and directories come from: an event, a scan and a report name only what *)
(* is in a directory of the tree, so that every entry of the file map is   *)
(* that of a directory and holds names.  The second half adds what the     *)
(* scans in progress have still to find.                                   *)
(***************************************************************************)
EXTENDS FileTree, FiniteSetTheorems, SequenceTheorems, WellFoundedInduction, TLAPS

Entries == Files \cup Dirs
Descs == Dirs \X Nat

\* What a ScanJob finds, and what an event names; "" is the directory itself,
\* of which only its parent's path has a slash at the end.
FoundPaths == {Path(n) : n \in Entries \ {Root}}
EventPaths == (Dirs \X Entries) \cup ((Dirs \ {Root}) \X {""})

EventSet ==
    {e \in [wd : Descs, mask : {"IN_CREATE", "IN_DELETE", "IN_DELETE_SELF"}, name : Entries \cup {""}] :
       <<e.wd[1], e.name>> \in EventPaths}
Scans == [todo : Seq(Dirs), paths : SUBSET FoundPaths, seen : SUBSET Dirs, stale : SUBSET Entries]
Reports == [paths : SUBSET FoundPaths, stale : SUBSET Entries, busy : BOOLEAN]

DiskTypes == disk \subseteq Entries /\ events \in Seq(EventSet)
WatcherTypes ==
    /\ inotify \subseteq Descs /\ mWatched \subseteq Descs /\ generation \in Nat
    /\ removed \subseteq EventPaths /\ added \subseteq EventPaths
ManagerTypes == scans \in Seq(Scans) /\ report \in Reports
MapTypes ==
    /\ DOMAIN mFiles \subseteq {Slash(d) : d \in Dirs}
    /\ \A k \in DOMAIN mFiles : mFiles[k] \subseteq Entries \cup {""}

\* The conjuncts of WatchTables.
OneDescriptor == \A v, w \in mWatched : v[1] = w[1] => v = w
KernelKnown == inotify \subseteq mWatched
WatchedHaveNames == \A d \in Watched : Names(d) # {}

TypeInv == DiskTypes /\ WatcherTypes /\ ManagerTypes /\ MapTypes
WatchInv == OneDescriptor /\ KernelKnown /\ WatchedHaveNames
IInv == TypeInv /\ WatchInv

---------------------------------------------------------------------------
(* The tree.                                                               *)

LEMMA Tree ==
    /\ "" \notin Entries /\ Root \in Dirs /\ Root \notin Files
    /\ \A n \in Entries \ {Root} : Up[n] \in Dirs
  BY TreeAssumption DEF Entries

LEMMA FoundHaveParents ==
    ASSUME NEW p \in FoundPaths
    PROVE  parentDir(p) \in Dirs /\ p[2] \in Entries /\ p = <<parentDir(p), p[2]>>
<1>1. PICK n \in Entries \ {Root} : p = <<Up[n], n>>
  BY DEF FoundPaths, Path
<1> QED  BY <1>1, Tree DEF parentDir

LEMMA NamedHaveParents ==
    ASSUME NEW p \in EventPaths
    PROVE  parentDir(p) \in Dirs /\ p[2] \in Entries \cup {""}
<1>1. CASE p \in Dirs \X Entries
  BY <1>1, Tree DEF parentDir
<1>2. CASE p \in (Dirs \ {Root}) \X {""}
  BY <1>2, Tree DEF parentDir, Entries
<1> QED  BY <1>1, <1>2 DEF EventPaths

\* A finite set has a sequence of its elements, which leaves none out.
LEMMA SetToSeqHas ==
    ASSUME NEW S, IsFiniteSet(S)
    PROVE  /\ SetToSeq(S) \in Seq(S) /\ Len(SetToSeq(S)) = Cardinality(S)
           /\ \A x \in S : \E k \in DOMAIN SetToSeq(S) : SetToSeq(S)[k] = x
<1> DEFINE n == Cardinality(S)
<1>1. n \in Nat /\ ExistsBijection(1..n, S)
  BY FS_CardinalityType
<1>2. \E g \in [1..n -> S] : IsInjective(g)
  BY <1>1 DEF ExistsBijection, Bijection, Injection
<1>3. SetToSeq(S) \in [1..n -> S] /\ IsInjective(SetToSeq(S))
  BY <1>2 DEF SetToSeq
<1>4. SetToSeq(S) \in Injection(1..n, S)
  BY <1>3 DEF Injection
<1>5. Cardinality(1..n) = n
  BY <1>1, FS_Interval
<1>6. SetToSeq(S) \in Surjection(1..n, S)
  <2> HIDE DEF n
  <2>1. Cardinality(1..n) = Cardinality(S)
    BY <1>5 DEF n
  <2> QED  BY <1>4, <2>1, FS_Injection
<1>7. SetToSeq(S) \in Seq(S)
  BY <1>1, <1>3, SeqDef
<1> HIDE DEF n
<1>8. Len(SetToSeq(S)) = n
  BY <1>1, <1>3, <1>7, LenProperties
<1>9. \A x \in S : \E k \in 1..n : SetToSeq(S)[k] = x
  BY <1>6 DEF Surjection
<1> QED  BY <1>3, <1>7, <1>8, <1>9 DEF n

LEMMA SeqOfSubset ==
    ASSUME NEW T, NEW S \in SUBSET T, NEW s \in Seq(S)
    PROVE  s \in Seq(T)
<1>1. Len(s) \in Nat /\ s \in [1..Len(s) -> S]
  BY LenProperties
<1>2. s \in [1..Len(s) -> T]
  BY <1>1
<1> QED  BY <1>1, <1>2, SeqDef

---------------------------------------------------------------------------
(* The file map.                                                           *)

LEMMA SlashIsInjective == \A c, d : Slash(c) = Slash(d) => c = d
  BY DEF Slash

LEMMA WithNamesGives ==
    ASSUME MapTypes, NEW d \in Dirs, NEW names \in SUBSET (Entries \cup {""}),
           mFiles' = WithNames(d, names)
    PROVE  /\ MapTypes'
           /\ \A c : Names(c)' = IF c = d THEN names ELSE Names(c)
<1>1. /\ DOMAIN mFiles' = DOMAIN mFiles \cup {Slash(d)}
      /\ \A k \in DOMAIN mFiles' : mFiles'[k] = IF k = Slash(d) THEN names ELSE mFiles[k]
  BY DEF WithNames
<1>2. MapTypes'
  BY <1>1 DEF MapTypes
<1>3. ASSUME NEW c
      PROVE  Names(c)' = IF c = d THEN names ELSE Names(c)
  BY <1>1, SlashIsInjective DEF Names
<1> QED  BY <1>2, <1>3

---------------------------------------------------------------------------
(* The watcher.                                                            *)

LEMMA watchKeeps ==
    ASSUME TypeInv, OneDescriptor, KernelKnown, NEW ds \in SUBSET Dirs, watch(ds)
    PROVE  /\ mWatched' \subseteq Descs /\ inotify' \subseteq Descs /\ generation' = generation
           /\ OneDescriptor' /\ KernelKnown'
           /\ Watched' \subseteq Watched \cup ds
<1> DEFINE new == Descriptors((ds \cap disk) \ Watched)
<1>1. mWatched' = mWatched \cup new /\ inotify' = inotify \cup new /\ generation' = generation
  BY DEF watch
<1>2. \A w \in new : w = <<w[1], generation>> /\ w[1] \in ds /\ w[1] \notin Watched
  BY DEF Descriptors
<1>3. new \subseteq Descs
  BY <1>2 DEF Descs, TypeInv, WatcherTypes, Descriptors
<1> HIDE DEF new
<1>4. OneDescriptor'
  <2> SUFFICES ASSUME NEW v \in mWatched \cup new, NEW w \in mWatched \cup new, v[1] = w[1]
               PROVE  v = w
    BY <1>1 DEF OneDescriptor
  <2>1. \A u \in mWatched : u[1] \in Watched
    BY DEF Watched
  <2> QED  BY <1>2, <2>1 DEF OneDescriptor
<1>5. Watched' \subseteq Watched \cup ds
  BY <1>1, <1>2 DEF Watched
<1>6. mWatched' \subseteq Descs /\ inotify' \subseteq Descs
  BY <1>1, <1>3 DEF TypeInv, WatcherTypes
<1> QED  BY <1>1, <1>4, <1>5, <1>6 DEF KernelKnown

LEMMA unwatchKeeps ==
    ASSUME TypeInv, OneDescriptor, KernelKnown, NEW ds, unwatch(ds)
    PROVE  /\ mWatched' \subseteq Descs /\ inotify' \subseteq Descs /\ generation' \in Nat
           /\ OneDescriptor' /\ KernelKnown'
           /\ Watched' \subseteq Watched \ ds
<1>1. /\ mWatched' = {wd \in mWatched : wd[1] \notin ds}
      /\ inotify' = inotify \ {wd \in mWatched : wd[1] \in ds}
      /\ generation' = IF Watched \cap ds = {} THEN generation ELSE generation + 1
  BY DEF unwatch
<1>2. generation' \in Nat
  BY <1>1 DEF TypeInv, WatcherTypes
<1>3. OneDescriptor' /\ KernelKnown'
  BY <1>1 DEF OneDescriptor, KernelKnown
<1>4. Watched' \subseteq Watched \ ds
  BY <1>1 DEF Watched
<1>5. mWatched' \subseteq Descs /\ inotify' \subseteq Descs
  BY <1>1 DEF TypeInv, WatcherTypes
<1> QED  BY <1>2, <1>3, <1>4, <1>5

\* The kernel has at most one watch for a directory.
LEMMA QueueIsSeq ==
    ASSUME TypeInv, OneDescriptor, KernelKnown, NEW d \in Dirs, NEW n \in Entries \cup {""},
           <<d, n>> \in EventPaths,
           NEW mask \in {"IN_CREATE", "IN_DELETE", "IN_DELETE_SELF"}
    PROVE  Queue(d, mask, n) \in Seq(EventSet)
<1> DEFINE S == {[wd |-> wd, mask |-> mask, name |-> n] : wd \in {w \in inotify : w[1] = d}}
<1>1. S \subseteq EventSet
  <2> SUFFICES ASSUME NEW w \in inotify, w[1] = d
               PROVE  [wd |-> w, mask |-> mask, name |-> n] \in EventSet
    OBVIOUS
  <2>1. w \in Descs
    BY DEF TypeInv, WatcherTypes
  <2>2. [wd |-> w, mask |-> mask, name |-> n]
           \in [wd : Descs, mask : {"IN_CREATE", "IN_DELETE", "IN_DELETE_SELF"}, name : Entries \cup {""}]
    BY <2>1
  <2> QED  BY <2>2 DEF EventSet
<1>2. IsFiniteSet(S)
  <2>1. CASE {w \in inotify : w[1] = d} = {}
    <3>1. S = {}
      BY <2>1
    <3> QED  BY <3>1, FS_EmptySet
  <2>2. CASE {w \in inotify : w[1] = d} # {}
    <3>1. PICK w \in inotify : w[1] = d
      BY <2>2
    <3>2. {v \in inotify : v[1] = d} = {w}
      BY <3>1 DEF OneDescriptor, KernelKnown
    <3>3. S = {[wd |-> w, mask |-> mask, name |-> n]}
      BY <3>2
    <3> QED  BY <3>3, FS_Singleton
  <2> QED  BY <2>1, <2>2
<1> HIDE DEF S
<1>3. SetToSeq(S) \in Seq(S)
  BY <1>2, SetToSeqHas
<1>4. SetToSeq(S) \in Seq(EventSet)
  BY <1>1, <1>3, SeqOfSubset
<1> QED  BY <1>4 DEF Queue, S

---------------------------------------------------------------------------
(* The actions.                                                            *)

\* Removing one of the scans.
LEMMA RemoveAtKeeps ==
    ASSUME NEW S, NEW s \in Seq(S), NEW i \in DOMAIN s
    PROVE  RemoveAt(s, i) \in Seq(S)
<1>1. i \in 1..Len(s) /\ Len(s) \in Nat
  OBVIOUS
<1>2. SubSeq(s, 1, i - 1) \in Seq(S)
  BY <1>1
<1>3. SubSeq(s, i + 1, Len(s)) \in Seq(S)
  BY <1>1
<1> QED  BY <1>2, <1>3 DEF RemoveAt

\* A step that leaves the watcher and the map alone.
LEMMA WatcherAlone ==
    ASSUME IInv, UNCHANGED <<mWatched, mFiles>>, inotify' \subseteq inotify
    PROVE  MapTypes' /\ WatchInv' /\ inotify' \subseteq Descs
<1>1. MapTypes'
  BY DEF IInv, TypeInv, MapTypes
<1>2. WatchInv'
  BY DEF IInv, WatchInv, OneDescriptor, KernelKnown, WatchedHaveNames, Watched, Names
<1> QED  BY <1>1, <1>2 DEF IInv, TypeInv, WatcherTypes

LEMMA ChangeKeeps ==
    ASSUME IInv, NEW n \in Entries \ {Root}, Change(n), disk' \subseteq Entries,
           events' \in Seq(EventSet), inotify' \subseteq inotify
    PROVE  IInv'
<1>1. /\ UNCHANGED <<watcherVars, manager, mFiles>>
      /\ scans' = [i \in DOMAIN scans |-> IF Up[n] \in scans[i].seen
                                          THEN [scans[i] EXCEPT !.stale = @ \cup {n}] ELSE scans[i]]
      /\ report' = IF report.busy THEN [report EXCEPT !.stale = @ \cup {n}] ELSE report
  BY DEF Change, NoteChange
<1>2. ManagerTypes'
  <2>1. \A job \in Scans : [job EXCEPT !.stale = @ \cup {n}] \in Scans
    BY DEF Scans
  <2>2. scans \in Seq(Scans) /\ DOMAIN scans = 1..Len(scans) /\ Len(scans) \in Nat
    BY DEF IInv, TypeInv, ManagerTypes
  <2>3. \A i \in DOMAIN scans : scans[i] \in Scans
    BY <2>2
  <2>4. scans' \in [1..Len(scans) -> Scans]
    BY <1>1, <2>1, <2>2, <2>3
  <2>5. scans' \in Seq(Scans)
    BY <2>2, <2>4, SeqDef
  <2>6. report' \in Reports
    BY <1>1 DEF IInv, TypeInv, ManagerTypes, Reports
  <2> QED  BY <2>5, <2>6 DEF ManagerTypes
<1>3. MapTypes' /\ WatchInv' /\ inotify' \subseteq Descs
  BY <1>1, WatcherAlone DEF watcherVars
<1> QED  BY <1>1, <1>2, <1>3 DEF IInv, TypeInv, DiskTypes, WatcherTypes, watcherVars

LEMMA DiskActions ==
    ASSUME IInv,
           \/ \E n \in Entries \ {Root} : Create(n)
           \/ \E f \in Files : RemoveFile(f)
           \/ \E d \in Dirs \ {Root} : RemoveDir(d)
    PROVE  IInv'
<1>0. /\ TypeInv /\ OneDescriptor /\ KernelKnown /\ disk \subseteq Entries /\ events \in Seq(EventSet)
      /\ \A n \in Entries \ {Root} : Up[n] \in Dirs /\ <<Up[n], n>> \in EventPaths
  BY Tree DEF IInv, WatchInv, TypeInv, DiskTypes, EventPaths
<1>1. ASSUME NEW n \in Entries \ {Root}, Create(n)
      PROVE  IInv'
  <2>1. Queue(Up[n], "IN_CREATE", n) \in Seq(EventSet)
    BY <1>0, QueueIsSeq
  <2>2. events' \in Seq(EventSet) /\ disk' \subseteq Entries /\ inotify' = inotify /\ Change(n)
    BY <1>0, <1>1, <2>1 DEF Create
  <2> QED  BY <2>2, ChangeKeeps
<1>2. ASSUME NEW f \in Files, RemoveFile(f)
      PROVE  IInv'
  <2>0. f \in Entries \ {Root}
    BY Tree DEF Entries
  <2>1. Queue(Up[f], "IN_DELETE", f) \in Seq(EventSet)
    BY <1>0, <2>0, QueueIsSeq
  <2>2. events' \in Seq(EventSet) /\ disk' \subseteq Entries /\ inotify' = inotify /\ Change(f)
    BY <1>0, <1>2, <2>1 DEF RemoveFile
  <2> QED  BY <2>0, <2>2, ChangeKeeps
<1>3. ASSUME NEW d \in Dirs \ {Root}, RemoveDir(d)
      PROVE  IInv'
  <2>0. d \in Entries \ {Root} /\ <<d, "">> \in EventPaths
    BY DEF Entries, EventPaths
  <2>1. Queue(Up[d], "IN_DELETE", d) \in Seq(EventSet)
    BY <1>0, <2>0, QueueIsSeq
  <2>2. Queue(d, "IN_DELETE_SELF", "") \in Seq(EventSet)
    BY <1>0, <2>0, QueueIsSeq
  <2>3. /\ events' = events \o Queue(Up[d], "IN_DELETE", d) \o Queue(d, "IN_DELETE_SELF", "")
        /\ disk' \subseteq Entries /\ inotify' \subseteq inotify /\ Change(d)
    BY <1>0, <1>3 DEF RemoveDir
  <2>4. events' \in Seq(EventSet)
    <3>1. events \o Queue(Up[d], "IN_DELETE", d) \in Seq(EventSet)
      BY <1>0, <2>1, ConcatProperties
    <3> QED  BY <2>2, <2>3, <3>1, ConcatProperties
  <2> QED  BY <2>0, <2>3, <2>4, ChangeKeeps
<1> QED  BY <1>1, <1>2, <1>3

LEMMA ReadEventsKeeps ==
    ASSUME IInv, ReadEvents
    PROVE  IInv'
<1>1. \A i \in DOMAIN events : Named(i) \in EventPaths
  <2>1. \A i \in DOMAIN events : events[i] \in EventSet
    BY DEF IInv, TypeInv, DiskTypes
  <2> QED  BY <2>1 DEF Named, EventSet
<1>2. removed' = NamedBy(Deletions) /\ added' = NamedBy(Additions) /\ events' = <<>>
  BY DEF ReadEvents
<1>3. removed' \subseteq EventPaths /\ added' \subseteq EventPaths
  BY <1>1, <1>2 DEF NamedBy, Deletions, Additions, Known
<1>4. UNCHANGED <<disk, inotify, mWatched, generation, scans, report, mFiles>>
  BY DEF ReadEvents, managerVars
<1>5. MapTypes' /\ WatchInv'
  BY <1>4, WatcherAlone
<1>6. DiskTypes' /\ WatcherTypes' /\ ManagerTypes'
  BY <1>2, <1>3, <1>4 DEF IInv, TypeInv, DiskTypes, WatcherTypes, ManagerTypes
<1> QED  BY <1>5, <1>6 DEF IInv, TypeInv

LEMMA ScanDirKeeps ==
    ASSUME IInv, NEW i \in DOMAIN scans, ScanDir(i)
    PROVE  IInv'
<1> DEFINE d == Head(scans[i].todo)
           x == [scans[i] EXCEPT
                   !.todo  = SetToSeq(Visited(d, "Directory")) \o Tail(scans[i].todo),
                   !.paths = scans[i].paths \cup {Path(f) : f \in Visited(d, "File")},
                   !.seen  = scans[i].seen \cup {d}]
<1>1. scans \in Seq(Scans) /\ scans[i] \in Scans /\ scans[i].todo # <<>>
  BY DEF IInv, TypeInv, ManagerTypes, ScanDir
<1>2. scans' = [scans EXCEPT ![i] = x]
  BY DEF ScanDir
<1>3. \A result : Visited(d, result) \subseteq Entries \ {Root}
  BY Tree DEF Visited, FilesIn, DirsIn, Entries
<1>4. Visited(d, "Directory") \subseteq Dirs
  <2> SUFFICES ASSUME NEW n \in Visited(d, "Directory")
               PROVE  n \in Dirs
    OBVIOUS
  <2>1. n \in FilesIn(d) \cup DirsIn(d) /\ Filter(Path(n), Excluded) = "Directory" /\ n \in Entries
    BY <1>3 DEF Visited
  <2>2. isDir(Path(n)) /\ Path(n)[2] = n /\ n # ""
    BY <2>1, Tree DEF Filter, Path
  <2> QED  BY <2>2 DEF isDir
<1>5. d \in Dirs /\ Tail(scans[i].todo) \in Seq(Dirs)
  BY <1>1 DEF Scans
<1>6. SetToSeq(Visited(d, "Directory")) \in Seq(Dirs)
  <2>1. IsFiniteSet(Visited(d, "Directory"))
    BY <1>4, FiniteAssumption, FS_Subset
  <2>2. SetToSeq(Visited(d, "Directory")) \in Seq(Visited(d, "Directory"))
    BY <2>1, SetToSeqHas
  <2> QED  BY <1>4, <2>2, SeqOfSubset
<1>7. {Path(f) : f \in Visited(d, "File")} \subseteq FoundPaths
  BY <1>3 DEF FoundPaths
<1> HIDE DEF d
<1>8. x \in Scans
  <2>1. SetToSeq(Visited(d, "Directory")) \o Tail(scans[i].todo) \in Seq(Dirs)
    BY <1>5, <1>6, ConcatProperties
  <2>2. scans[i].paths \cup {Path(f) : f \in Visited(d, "File")} \subseteq FoundPaths
    BY <1>1, <1>7 DEF Scans
  <2>3. scans[i].seen \cup {d} \subseteq Dirs
    BY <1>1, <1>5 DEF Scans
  <2>4. ASSUME NEW todo \in Seq(Dirs), NEW paths \in SUBSET FoundPaths, NEW seen \in SUBSET Dirs
        PROVE  [scans[i] EXCEPT !.todo = todo, !.paths = paths, !.seen = seen] \in Scans
    BY <1>1 DEF Scans
  <2> QED  BY <2>1, <2>2, <2>3, <2>4
<1> HIDE DEF x
<1>9. scans' \in Seq(Scans)
  BY <1>1, <1>2, <1>8
<1>10. UNCHANGED <<disk, inotify, events, mWatched, generation, removed, added, report, mFiles>>
  BY DEF ScanDir, watcherVars
<1>11. MapTypes' /\ WatchInv'
  BY <1>10, WatcherAlone
<1>12. DiskTypes' /\ WatcherTypes' /\ ManagerTypes'
  BY <1>9, <1>10 DEF IInv, TypeInv, DiskTypes, WatcherTypes, ManagerTypes
<1> QED  BY <1>11, <1>12 DEF IInv, TypeInv

\* onRecurseJobFinished() clears every watch.
LEMMA ScanFinishedKeeps ==
    ASSUME IInv, NEW i \in DOMAIN scans, ScanFinished(i)
    PROVE  IInv'
<1>1. /\ scans' = RemoveAt(scans, i)
      /\ report' = [paths |-> scans[i].paths, stale |-> scans[i].stale, busy |-> TRUE]
      /\ unwatch(Watched)
      /\ UNCHANGED <<disk, events, removed, added, mFiles>>
  BY DEF ScanFinished
<1>2. scans \in Seq(Scans) /\ scans[i] \in Scans
  BY DEF IInv, TypeInv, ManagerTypes
<1>3. ManagerTypes'
  BY <1>1, <1>2, RemoveAtKeeps DEF ManagerTypes, Scans, Reports
<1>4. /\ mWatched' \subseteq Descs /\ inotify' \subseteq Descs /\ generation' \in Nat
      /\ OneDescriptor' /\ KernelKnown' /\ Watched' \subseteq {}
  BY <1>1, unwatchKeeps DEF IInv, WatchInv
<1>5. WatchInv'
  BY <1>4 DEF WatchInv, WatchedHaveNames
<1>6. DiskTypes' /\ WatcherTypes' /\ MapTypes'
  BY <1>1, <1>4 DEF IInv, TypeInv, DiskTypes, WatcherTypes, MapTypes
<1> QED  BY <1>3, <1>5, <1>6 DEF IInv, TypeInv

LEMMA ScanFinishedTooLateKeeps ==
    ASSUME IInv, NEW i \in DOMAIN scans, ScanFinishedTooLate(i)
    PROVE  IInv'
<1>1. /\ scans' = RemoveAt(scans, i)
      /\ UNCHANGED <<disk, inotify, events, mWatched, generation, removed, added, report, mFiles>>
  BY DEF ScanFinishedTooLate, watcherVars
<1>2. scans' \in Seq(Scans)
  BY <1>1, RemoveAtKeeps DEF IInv, TypeInv, ManagerTypes
<1>3. MapTypes' /\ WatchInv'
  BY <1>1, WatcherAlone
<1>4. DiskTypes' /\ WatcherTypes' /\ ManagerTypes'
  BY <1>1, <1>2 DEF IInv, TypeInv, DiskTypes, WatcherTypes, ManagerTypes
<1> QED  BY <1>3, <1>4 DEF IInv, TypeInv

\* What is watched anew gets names with it.
LEMMA FillFilesKeeps ==
    ASSUME IInv, FillFiles
    PROVE  IInv'
<1> DEFINE parents == {parentDir(p) : p \in report.paths}
           In(d) == {p[2] : p \in {q \in report.paths : parentDir(q) = d}}
<1>1. /\ watch({d \in parents : Names(d) = {}})
      /\ mFiles' = [k \in DOMAIN mFiles \cup {Slash(d) : d \in parents} |-> Names(k[1]) \cup In(k[1])]
      /\ report' = NoReport
      /\ UNCHANGED <<disk, events, removed, added, scans>>
  BY DEF FillFiles
<1>2. report.paths \subseteq FoundPaths
  BY DEF IInv, TypeInv, ManagerTypes, Reports
<1>3. parents \subseteq Dirs
  BY <1>2, FoundHaveParents
<1>4. \A d : In(d) \subseteq Entries
  BY <1>2, FoundHaveParents
<1>5. \A d \in parents : In(d) # {}
  OBVIOUS
<1> HIDE DEF In, parents
<1>6. \A d : Names(d) \subseteq Entries \cup {""}
  BY DEF IInv, TypeInv, MapTypes, Names
<1>7. /\ DOMAIN mFiles' = DOMAIN mFiles \cup {Slash(d) : d \in parents}
      /\ \A d : Slash(d) \in DOMAIN mFiles' => mFiles'[Slash(d)] = Names(d) \cup In(d)
  BY <1>1 DEF Slash
<1>8. MapTypes'
  <2>1. DOMAIN mFiles' \subseteq {Slash(d) : d \in Dirs}
    BY <1>3, <1>7 DEF IInv, TypeInv, MapTypes
  <2>2. \A k \in DOMAIN mFiles' : mFiles'[k] \subseteq Entries \cup {""}
    <3> SUFFICES ASSUME NEW d \in Dirs, Slash(d) \in DOMAIN mFiles'
                 PROVE  mFiles'[Slash(d)] \subseteq Entries \cup {""}
      BY <2>1
    <3> QED  BY <1>4, <1>6, <1>7
  <2> QED  BY <2>1, <2>2 DEF MapTypes
<1>9. /\ mWatched' \subseteq Descs /\ inotify' \subseteq Descs /\ generation' = generation
      /\ OneDescriptor' /\ KernelKnown'
      /\ Watched' \subseteq Watched \cup parents
  <2>1. {d \in parents : Names(d) = {}} \in SUBSET Dirs
    BY <1>3
  <2> QED  BY <1>1, <2>1, watchKeeps DEF IInv, WatchInv
<1>10. WatchedHaveNames'
  <2> SUFFICES ASSUME NEW d \in Watched'
               PROVE  Names(d)' # {}
    BY DEF WatchedHaveNames
  <2>1. CASE d \in parents
    <3>1. Names(d)' = Names(d) \cup In(d)
      BY <1>7, <2>1 DEF Names
    <3> QED  BY <1>5, <2>1, <3>1
  <2>2. CASE d \in Watched
    <3>1. Names(d) # {}
      BY <2>2 DEF IInv, WatchInv, WatchedHaveNames
    <3>2. Slash(d) \in DOMAIN mFiles
      BY <3>1 DEF Names
    <3>3. Names(d)' = Names(d) \cup In(d)
      BY <1>7, <3>2 DEF Names
    <3> QED  BY <3>1, <3>3
  <2> QED  BY <1>9, <2>1, <2>2
<1>11. ManagerTypes'
  BY <1>1 DEF IInv, TypeInv, ManagerTypes, NoReport, Reports
<1>12. DiskTypes' /\ WatcherTypes'
  BY <1>1, <1>9 DEF IInv, TypeInv, DiskTypes, WatcherTypes
<1> QED  BY <1>8, <1>9, <1>10, <1>11, <1>12 DEF IInv, TypeInv, WatchInv

LEMMA NewScanIsScan == NewScan \in Scans
<1>1. <<Root>> \in Seq(Dirs)
  <2>1. Root \in Dirs
    BY Tree
  <2>2. <<Root>> \in [1..1 -> Dirs]
    BY <2>1
  <2> QED  BY <2>2, SeqDef
<1> QED  BY <1>1 DEF NewScan, Scans

LEMMA recurseDirsKeeps ==
    ASSUME IInv, recurseDirs,
           UNCHANGED <<disk, events, inotify, mWatched, generation, report, mFiles>>,
           removed' \subseteq removed, added' \subseteq added
    PROVE  IInv'
<1>1. scans' \in Seq(Scans)
  BY NewScanIsScan DEF recurseDirs, IInv, TypeInv, ManagerTypes
<1>2. MapTypes' /\ WatchInv'
  BY WatcherAlone
<1>3. DiskTypes' /\ WatcherTypes' /\ ManagerTypes'
  BY <1>1 DEF IInv, TypeInv, DiskTypes, WatcherTypes, ManagerTypes
<1> QED  BY <1>2, <1>3 DEF IInv, TypeInv

\* The name comes into the map with the watch of its directory.
LEMMA onFileAddedKeeps ==
    ASSUME IInv, NEW path \in added, onFileAdded(path)
    PROVE  IInv'
<1> DEFINE parent == parentDir(path)
<1>1. path \in EventPaths /\ parent \in Dirs /\ path[2] \in Entries \cup {""}
  BY NamedHaveParents DEF IInv, TypeInv, WatcherTypes
<1>2. added' \subseteq added /\ UNCHANGED <<disk, events, removed, report>>
  BY DEF onFileAdded
<1>3. CASE recurseDirs /\ UNCHANGED <<inotify, mWatched, generation, mFiles>>
  BY <1>2, <1>3, recurseDirsKeeps
<1>4. CASE /\ watch(IF Names(parent) = {} THEN {parent} ELSE {})
           /\ mFiles' = WithNames(parent, Names(parent) \cup {path[2]})
           /\ UNCHANGED scans
  <2> DEFINE ds == IF Names(parent) = {} THEN {parent} ELSE {}
             names == Names(parent) \cup {path[2]}
  <2>1. ds \in SUBSET Dirs /\ names \in SUBSET (Entries \cup {""}) /\ names # {}
    BY <1>1 DEF IInv, TypeInv, MapTypes, Names
  <2>2. watch(ds) /\ mFiles' = WithNames(parent, names)
    BY <1>4
  <2> HIDE DEF ds, names, parent
  <2>3. MapTypes' /\ \A c : Names(c)' = IF c = parent THEN names ELSE Names(c)
    BY <1>1, <2>1, <2>2, WithNamesGives DEF IInv, TypeInv, parent
  <2>4. /\ mWatched' \subseteq Descs /\ inotify' \subseteq Descs /\ generation' = generation
        /\ OneDescriptor' /\ KernelKnown'
        /\ Watched' \subseteq Watched \cup ds
    BY <2>1, <2>2, watchKeeps DEF IInv, WatchInv
  <2>5. ds \subseteq {parent}
    BY DEF ds
  <2>6. WatchedHaveNames'
    BY <2>1, <2>3, <2>4, <2>5 DEF IInv, WatchInv, WatchedHaveNames
  <2>7. DiskTypes' /\ WatcherTypes' /\ ManagerTypes'
    BY <1>2, <1>4, <2>4 DEF IInv, TypeInv, DiskTypes, WatcherTypes, ManagerTypes
  <2> QED  BY <2>3, <2>4, <2>6, <2>7 DEF IInv, TypeInv, WatchInv
<1> QED  BY <1>3, <1>4 DEF onFileAdded

\* The watch of a directory goes with the last of its names.
LEMMA onFileRemovedKeeps ==
    ASSUME IInv, NEW path \in removed, onFileRemoved(path)
    PROVE  IInv'
<1> DEFINE parent == parentDir(path)
           left == Names(parent) \ {path[2]}
<1>1. path \in EventPaths /\ parent \in Dirs
  BY NamedHaveParents DEF IInv, TypeInv, WatcherTypes
<1>2. removed' \subseteq removed /\ UNCHANGED <<disk, events, added, report>>
  BY DEF onFileRemoved
<1>3. CASE recurseDirs /\ UNCHANGED <<inotify, mWatched, generation, mFiles>>
  BY <1>2, <1>3, recurseDirsKeeps
<1>4. CASE /\ left = {} /\ unwatch({parent}) /\ UNCHANGED scans
           /\ mFiles' = [k \in DOMAIN mFiles \ {Slash(parent)} |-> mFiles[k]]
  <2>1. /\ mWatched' \subseteq Descs /\ inotify' \subseteq Descs /\ generation' \in Nat
        /\ OneDescriptor' /\ KernelKnown' /\ Watched' \subseteq Watched \ {parent}
    BY <1>4, unwatchKeeps DEF IInv, WatchInv
  <2>2. \A c : c # parent => Names(c)' = Names(c)
    BY <1>4, SlashIsInjective DEF Names
  <2>3. WatchedHaveNames'
    BY <2>1, <2>2 DEF IInv, WatchInv, WatchedHaveNames
  <2>4. MapTypes'
    BY <1>4 DEF IInv, TypeInv, MapTypes
  <2>5. DiskTypes' /\ WatcherTypes' /\ ManagerTypes'
    BY <1>2, <1>4, <2>1 DEF IInv, TypeInv, DiskTypes, WatcherTypes, ManagerTypes
  <2> QED  BY <2>1, <2>3, <2>4, <2>5 DEF IInv, TypeInv, WatchInv
<1>5. CASE /\ path[2] \notin Names(parent) \/ left # {}
           /\ mFiles' = WithNames(parent, left) /\ UNCHANGED scans
           /\ UNCHANGED <<inotify, mWatched, generation>>
  <2>1. left \in SUBSET (Entries \cup {""})
    BY DEF IInv, TypeInv, MapTypes, Names
  <2>2. Names(parent) # {} => left # {}
    BY <1>5
  <2> HIDE DEF parent, left
  <2>3. MapTypes' /\ \A c : Names(c)' = IF c = parent THEN left ELSE Names(c)
    BY <1>1, <1>5, <2>1, WithNamesGives DEF IInv, TypeInv, parent
  <2>4. Watched' = Watched
    BY <1>5 DEF Watched
  <2>5. WatchedHaveNames'
    BY <2>2, <2>3, <2>4 DEF IInv, WatchInv, WatchedHaveNames
  <2>6. OneDescriptor' /\ KernelKnown'
    BY <1>5 DEF IInv, WatchInv, OneDescriptor, KernelKnown
  <2>7. DiskTypes' /\ WatcherTypes' /\ ManagerTypes'
    BY <1>2, <1>5 DEF IInv, TypeInv, DiskTypes, WatcherTypes, ManagerTypes
  <2> QED  BY <2>3, <2>5, <2>6, <2>7 DEF IInv, TypeInv, WatchInv
<1> QED  BY <1>3, <1>4, <1>5 DEF onFileRemoved

LEMMA UnloadKeeps ==
    ASSUME IInv, Unload
    PROVE  IInv'
<1>1. /\ mWatched' = {} /\ inotify' = {} /\ events' = <<>>
      /\ UNCHANGED <<disk, generation, removed, added, scans, report, mFiles>>
  BY DEF Unload
<1>2. DiskTypes' /\ WatcherTypes' /\ ManagerTypes' /\ MapTypes'
  <2>1. events' \in Seq(EventSet)
    BY <1>1, EmptySeq
  <2>2. DiskTypes'
    BY <1>1, <2>1 DEF IInv, TypeInv, DiskTypes
  <2>3. WatcherTypes'
    BY <1>1 DEF IInv, TypeInv, WatcherTypes
  <2>4. ManagerTypes' /\ MapTypes'
    BY <1>1 DEF IInv, TypeInv, ManagerTypes, MapTypes
  <2> QED  BY <2>2, <2>3, <2>4
<1>3. WatchInv'
  BY <1>1 DEF WatchInv, OneDescriptor, KernelKnown, WatchedHaveNames, Watched
<1> QED  BY <1>2, <1>3 DEF IInv, TypeInv

LEMMA StutterKeeps ==
    ASSUME IInv, UNCHANGED vars
    PROVE  IInv'
<1>1. UNCHANGED <<disk, inotify, events, mWatched, generation, removed, added, scans, report, mFiles>>
  BY DEF vars, watcherVars, managerVars
<1>2. MapTypes' /\ WatchInv'
  BY <1>1, WatcherAlone
<1>3. DiskTypes' /\ WatcherTypes' /\ ManagerTypes'
  BY <1>1 DEF IInv, TypeInv, DiskTypes, WatcherTypes, ManagerTypes
<1> QED  BY <1>2, <1>3 DEF IInv, TypeInv

LEMMA InitIsGood ==
    ASSUME Init
    PROVE  IInv
<1>1. /\ disk \subseteq Entries /\ inotify = {} /\ events = <<>>
      /\ mWatched = {} /\ generation = 1 /\ removed = {} /\ added = {}
      /\ scans = <<NewScan>> /\ report = NoReport /\ mFiles = <<>>
  BY Tree DEF Init, Entries
<1>2. DiskTypes /\ WatcherTypes
  BY <1>1 DEF DiskTypes, WatcherTypes
<1>3. ManagerTypes
  BY <1>1, NewScanIsScan DEF ManagerTypes, NoReport, Reports
<1>4. MapTypes
  BY <1>1 DEF MapTypes
<1>5. WatchInv
  BY <1>1 DEF WatchInv, OneDescriptor, KernelKnown, WatchedHaveNames, Watched
<1> QED  BY <1>2, <1>3, <1>4, <1>5 DEF IInv, TypeInv

\* Names, paths and descriptors are those of the tree, and the tables agree, whatever
\* the kernel, the scans and the slots do.
THEOREM FileTreeInvariant == Spec => []IInv
<1>1. Init => IInv
  BY InitIsGood
<1>2. IInv /\ [Next]_vars => IInv'
  BY DiskActions, ReadEventsKeeps, FillFilesKeeps, UnloadKeeps, ScanDirKeeps, ScanFinishedKeeps,
     ScanFinishedTooLateKeeps, onFileAddedKeeps, onFileRemovedKeeps, StutterKeeps
  DEF Next, Entries
<1> QED  BY <1>1, <1>2, PTL DEF Spec

\* For any tree and any number of scans and events: a directory has one
\* descriptor, the kernel has no watch the tables do not know, a watched
\* directory has names in the file map, and every entry of the map is that of a
\* directory (FileSystemWatcher::watch(), unwatch(), FileManager's slots).
THEOREM WatchTablesHolds == Spec => []WatchTables
<1>1. IInv => WatchTables
  <2> SUFFICES ASSUME IInv
               PROVE  WatchTables
    OBVIOUS
  <2>1. \A k \in DOMAIN mFiles : k[2] = "" /\ mFiles[k] \subseteq Files \cup Dirs \cup {""}
    <3>1. \A k \in DOMAIN mFiles : \E d \in Dirs : k = <<d, "">>
      BY DEF IInv, TypeInv, MapTypes, Slash
    <3>2. \A d \in Dirs : <<d, "">>[2] = ""
      OBVIOUS
    <3>3. ASSUME NEW k \in DOMAIN mFiles
          PROVE  k[2] = ""
      <4>1. PICK d \in Dirs : k = <<d, "">>
        BY <3>1
      <4> QED  BY <3>2, <4>1
    <3> QED  BY <3>3 DEF IInv, TypeInv, MapTypes, Entries
  <2> QED  BY <2>1 DEF IInv, WatchInv, OneDescriptor, KernelKnown, WatchedHaveNames, WatchTables
<1> QED  BY <1>1, FileTreeInvariant, PTL

---------------------------------------------------------------------------
(* The map follows the disk.  MapFollowsDisk speaks of the states without  *)
(* a scan; with scans a file is either where it will end up, or was there  *)
(* from the start and not heard of, and then a scan has still to find it.  *)
(* The rest is history: what the events, the scans and the report name is  *)
(* on the disk unless it has changed since.                                *)

\* The disk is a tree.
TreeClosed == \A n \in disk \ {Root} : Up[n] \in disk

\* An event names a file in its directory; that of a forgotten watch is of an earlier
\* generation, so that no later watch is taken for it.
EventsOfTree ==
    /\ \A i \in DOMAIN events :
         /\ events[i].name \in Files =>
              events[i].wd[1] = Up[events[i].name] /\ events[i].mask \in {"IN_CREATE", "IN_DELETE"}
         /\ events[i].wd \in mWatched \/ events[i].wd[2] < generation
    /\ \A w \in mWatched : w[2] <= generation

PathsOfTree == \A p \in added \cup removed : p[2] \in Files => p = Path(p[2])

\* Between clear() and the new watches nothing is watched.
BusyUnwatched == report.busy => mWatched = {}

\* A file that a scan has found is on the disk, or has changed since.
ScansAreRight ==
    \A i \in DOMAIN scans : \A f \in Files :
        Path(f) \in scans[i].paths =>
            Up[f] \in scans[i].seen /\ (f \in scans[i].stale \/ f \in disk)
ReportIsRight ==
    \A f \in Files : report.busy /\ Path(f) \in report.paths => f \in report.stale \/ f \in disk

\* A file that was there from the start, of which nobody has told: a scan finds it.
Finds(job, f) ==
    Path(f) \in job.paths \/ \E k \in DOMAIN job.todo : f \in Below(job.todo[k])
ToBeFound(f) ==
    (report.busy /\ Path(f) \in report.paths) \/ \E i \in DOMAIN scans : Finds(scans[i], f)
Unheard(f) ==
    /\ f \in disk /\ f \notin Names(Up[f])
    /\ Path(f) \notin added \cup removed /\ EventsOf(f) = {}
    /\ ToBeFound(f)

FollowedOf(f) == (Final(f) <=> f \in disk) \/ Unheard(f)
Followed == manager = "up" => \A f \in (Files \cap Scannable) \ escaped : FollowedOf(f)

HistoryInv ==
    /\ TreeClosed /\ EventsOfTree /\ PathsOfTree /\ BusyUnwatched
    /\ ScansAreRight /\ ReportIsRight
FollowInv == HistoryInv /\ Followed

---------------------------------------------------------------------------
(* What is below a directory.                                              *)

Closed(X) == \A n \in Entries \ {Root} : Up[n] \in X /\ {n, Up[n]} \cap Excluded = {} => n \in X

LEMMA BelowIs ==
    \A d, n : n \in Below(d) <=>
        n \in Entries /\ \A X \in SUBSET Entries : d \in X /\ Closed(X) => n \in X
  BY DEF Below, Entries, Closed

LEMMA BelowItself == \A d \in Entries : d \in Below(d)
  BY BelowIs

LEMMA BelowStep ==
    ASSUME NEW d \in Dirs, NEW f \in Below(d), f # d
    PROVE  \E s \in Entries \ {Root} :
              Up[s] = d /\ {s, Up[s]} \cap Excluded = {} /\ f \in Below(s)
<1> DEFINE Kids == {s \in Entries \ {Root} : Up[s] = d /\ {s, Up[s]} \cap Excluded = {}}
           X == {d} \cup {n \in Entries : \E s \in Kids : n \in Below(s)}
<1>1. X \in SUBSET Entries /\ d \in X
  BY DEF Entries
<1>2. ASSUME NEW n \in Entries \ {Root}, Up[n] \in X, {n, Up[n]} \cap Excluded = {}
      PROVE  n \in X
  <2>1. CASE Up[n] = d
    BY <2>1, <1>2, BelowItself
  <2>2. CASE Up[n] # d
    <3>1. PICK s \in Kids : Up[n] \in Below(s)
      BY <2>2, <1>2
    <3>2. n \in Below(s)
      <4> SUFFICES ASSUME NEW Y \in SUBSET Entries, s \in Y, Closed(Y)
                   PROVE  n \in Y
        BY BelowIs
      <4>1. Up[n] \in Y
        BY <3>1, BelowIs
      <4> QED  BY <4>1, <1>2 DEF Closed
    <3> QED  BY <3>1, <3>2
  <2> QED  BY <2>1, <2>2
<1>3. Closed(X)
  BY <1>2 DEF Closed
<1> HIDE DEF X, Kids
<1>4. f \in X
  BY <1>1, <1>3, BelowIs
<1> QED  BY <1>4 DEF X, Kids

\* What is on the disk has its directories there.
LEMMA BelowOnDisk ==
    ASSUME TreeClosed, NEW s \in Entries, NEW f \in Below(s), f \in disk
    PROVE  s \in disk
<1> SUFFICES ASSUME s \notin disk PROVE FALSE
  OBVIOUS
<1> DEFINE X == {n \in Entries : n \notin disk}
<1>1. X \in SUBSET Entries /\ s \in X
  OBVIOUS
<1>2. Closed(X)
  BY DEF Closed, TreeClosed
<1>3. f \notin X
  OBVIOUS
<1> HIDE DEF X
<1> QED  BY <1>1, <1>2, <1>3, BelowIs

LEMMA BelowFile ==
    ASSUME NEW s \in Files, NEW f \in Below(s)
    PROVE  f = s
<1>1. {s} \in SUBSET Entries
  BY DEF Entries
<1>2. Closed({s})
  BY Tree, TreeAssumption DEF Closed
<1> QED  BY <1>1, <1>2, BelowIs

---------------------------------------------------------------------------
(* News of the files.                                                      *)

LEMMA QueueGives ==
    ASSUME IInv, NEW d \in Dirs, NEW mask, NEW n
    PROVE  \/ (\A w \in inotify : w[1] # d) /\ Queue(d, mask, n) = <<>>
           \/ \E w \in inotify : /\ w[1] = d
                                 /\ Queue(d, mask, n) = <<[wd |-> w, mask |-> mask, name |-> n]>>
<1> DEFINE S == {[wd |-> wd, mask |-> mask, name |-> n] : wd \in {w \in inotify : w[1] = d}}
<1>0. Queue(d, mask, n) = SetToSeq(S)
  BY DEF Queue
<1>1. CASE \A w \in inotify : w[1] # d
  <2>1. S = {}
    BY <1>1
  <2> HIDE DEF S
  <2>2. IsFiniteSet(S) /\ Cardinality(S) = 0
    BY <2>1, FS_EmptySet
  <2>3. SetToSeq(S) \in Seq(S) /\ Len(SetToSeq(S)) = 0
    BY <2>2, SetToSeqHas
  <2>4. SetToSeq(S) = <<>>
    BY <2>3, EmptySeq
  <2> QED  BY <1>0, <1>1, <2>4
<1>2. CASE \E w \in inotify : w[1] = d
  <2>1. PICK w \in inotify : w[1] = d
    BY <1>2
  <2> DEFINE e == [wd |-> w, mask |-> mask, name |-> n]
  <2>2. {v \in inotify : v[1] = d} = {w}
    BY <2>1 DEF IInv, WatchInv, OneDescriptor, KernelKnown
  <2>3. S = {e}
    BY <2>2
  <2> HIDE DEF S, e
  <2>4. IsFiniteSet(S) /\ Cardinality(S) = 1
    BY <2>3, FS_Singleton
  <2>5. SetToSeq(S) \in Seq(S) /\ Len(SetToSeq(S)) = 1
    BY <2>4, SetToSeqHas
  <2>6. SetToSeq(S)[1] = e
    BY <2>3, <2>5, LenProperties
  <2>7. <<e>> \in Seq(S) /\ Len(<<e>>) = 1 /\ <<e>>[1] = e
    BY <2>3
  <2>8. SetToSeq(S) = <<e>>
    BY <2>5, <2>6, <2>7, SeqEqual
  <2> QED  BY <1>0, <2>1, <2>8 DEF e
<1> QED  BY <1>1, <1>2

LEMMA EventPlaces ==
    ASSUME IInv
    PROVE  /\ Len(events) \in Nat /\ DOMAIN events = 1..Len(events)
           /\ \A i \in DOMAIN events : events[i] \in EventSet
           /\ \A f : EventsOf(f) = {i \in 1..Len(events) : events[i].wd \in mWatched /\ events[i].name = f}
<1>1. events \in Seq(EventSet)
  BY DEF IInv, TypeInv, DiskTypes
<1> QED  BY <1>1 DEF EventsOf, Known

LEMMA MoreEvents ==
    ASSUME IInv, NEW q \in Seq(EventSet), events' = events \o q
    PROVE  /\ Len(q) \in Nat /\ Len(events') = Len(events) + Len(q)
           /\ DOMAIN events' = 1..(Len(events) + Len(q))
           /\ \A i \in 1..Len(events) : events'[i] = events[i]
           /\ \A i \in 1..(Len(events) + Len(q)) : i > Len(events) =>
                i - Len(events) \in 1..Len(q) /\ events'[i] = q[i - Len(events)]
<1>1. events \in Seq(EventSet)
  BY DEF IInv, TypeInv, DiskTypes
<1>2. /\ events' \in Seq(EventSet) /\ Len(events') = Len(events) + Len(q)
      /\ \A i \in 1..(Len(events) + Len(q)) :
            events'[i] = IF i <= Len(events) THEN events[i] ELSE q[i - Len(events)]
  BY <1>1, ConcatProperties
<1>3. Len(events) \in Nat /\ Len(q) \in Nat /\ DOMAIN events' = 1..Len(events')
  BY <1>1, <1>2, LenProperties
<1> QED  BY <1>2, <1>3

LEMMA OtherNews ==
    ASSUME IInv, NEW q \in Seq(EventSet), events' = events \o q, mWatched' = mWatched,
           NEW f, \A k \in 1..Len(q) : q[k].name # f
    PROVE  EventsOf(f)' = EventsOf(f) /\ \A i \in EventsOf(f) : events'[i] = events[i]
<1>1. EventsOf(f)' = {i \in 1..(Len(events) + Len(q)) : events'[i].wd \in mWatched /\ events'[i].name = f}
  BY MoreEvents DEF EventsOf, Known
<1>2. \A i \in 1..(Len(events) + Len(q)) : events'[i].name = f => i \in 1..Len(events)
  BY MoreEvents, EventPlaces
<1>3. \A i \in 1..Len(events) : i \in 1..(Len(events) + Len(q)) /\ events'[i] = events[i]
  BY MoreEvents, EventPlaces
<1> QED  BY <1>1, <1>2, <1>3, EventPlaces

LEMMA OwnNews ==
    ASSUME IInv, NEW e \in EventSet, e.wd \in mWatched, events' = events \o <<e>>,
           mWatched' = mWatched
    PROVE  Final(e.name)' <=> e.mask = "IN_CREATE"
<1> DEFINE n == Len(events) + 1
           f == e.name
<1>1. <<e>> \in Seq(EventSet) /\ Len(<<e>>) = 1 /\ <<e>>[1] = e
  OBVIOUS
<1>2. n \in Nat /\ DOMAIN events' = 1..n /\ events'[n] = e
  BY <1>1, MoreEvents, EventPlaces
<1>3. EventsOf(f)' = {i \in 1..n : events'[i].wd \in mWatched /\ events'[i].name = f}
  BY <1>2 DEF EventsOf, Known
<1>4. n \in EventsOf(f)' /\ \A i \in EventsOf(f)' : i \in 1..n
  BY <1>2, <1>3, EventPlaces
<1>5. \A i \in EventsOf(f)' : (\A j \in EventsOf(f)' : j <= i) <=> i = n
  BY <1>2, <1>4
<1> HIDE DEF n, f
<1>6. (\E i \in EventsOf(f)' : events'[i].mask = "IN_CREATE" /\ \A j \in EventsOf(f)' : j <= i)
        <=> events'[n].mask = "IN_CREATE"
  BY <1>4, <1>5
<1> QED  BY <1>2, <1>4, <1>6 DEF Final, f

LEMMA SameFinal ==
    ASSUME NEW f, EventsOf(f)' = EventsOf(f), \A i \in EventsOf(f) : events'[i] = events[i],
           Path(f) \in added' <=> Path(f) \in added, Path(f) \in removed' <=> Path(f) \in removed,
           f \in Names(Up[f])' <=> f \in Names(Up[f])
    PROVE  Final(f)' <=> Final(f)
<1>1. (\E i \in EventsOf(f)' : events'[i].mask = "IN_CREATE" /\ \A j \in EventsOf(f)' : j <= i)
        <=> (\E i \in EventsOf(f) : events[i].mask = "IN_CREATE" /\ \A j \in EventsOf(f) : j <= i)
  OBVIOUS
<1> QED  BY <1>1 DEF Final, Path

\* A change of n, of which a live watch has told.
LEMMA ChangeFollows ==
    ASSUME IInv, FollowInv, NEW n \in Entries \ {Root}, Change(n), TreeClosed',
           disk' = disk \cup {n} \/ disk' = disk \ {n},
           NEW q \in Seq(EventSet), events' = events \o q,
           \A k \in 1..Len(q) :
              /\ q[k].wd \in mWatched
              /\ q[k].name \in Files => /\ q[k].name = n /\ q[k].wd[1] = Up[n]
                                        /\ q[k].mask \in {"IN_CREATE", "IN_DELETE"},
           n \in Files /\ (\E w \in mWatched \cap inotify : w[1] = Up[n]) =>
              \E w \in mWatched, mask \in {"IN_CREATE", "IN_DELETE"} :
                 /\ q = <<[wd |-> w, mask |-> mask, name |-> n]>>
                 /\ mask = "IN_CREATE" <=> n \in disk'
    PROVE  FollowInv'
<1> USE DEF FollowInv, HistoryInv
<1>1. /\ UNCHANGED <<mWatched, generation, removed, added, manager, mFiles>>
      /\ scans' = [i \in DOMAIN scans |-> IF Up[n] \in scans[i].seen
                                          THEN [scans[i] EXCEPT !.stale = @ \cup {n}] ELSE scans[i]]
      /\ report' = IF report.busy THEN [report EXCEPT !.stale = @ \cup {n}] ELSE report
      /\ escaped' = IF \E wd \in mWatched \cap inotify : wd[1] = Up[n] THEN escaped ELSE escaped \cup {n}
  BY DEF Change, NoteChange, watcherVars
<1>2. /\ DOMAIN scans' = DOMAIN scans
      /\ \A i \in DOMAIN scans : /\ scans[i] \in Scans
                                 /\ scans'[i].todo = scans[i].todo /\ scans'[i].paths = scans[i].paths
                                 /\ scans'[i].seen = scans[i].seen /\ scans[i].stale \subseteq scans'[i].stale
                                 /\ Up[n] \in scans[i].seen => n \in scans'[i].stale
  <2>1. \A i \in DOMAIN scans : scans[i] \in Scans
    BY DEF IInv, TypeInv, ManagerTypes
  <2>2. ASSUME NEW i \in DOMAIN scans
        PROVE  /\ scans'[i].todo = scans[i].todo /\ scans'[i].paths = scans[i].paths
               /\ scans'[i].seen = scans[i].seen /\ scans[i].stale \subseteq scans'[i].stale
               /\ Up[n] \in scans[i].seen => n \in scans'[i].stale
    <3>1. CASE Up[n] \in scans[i].seen
      BY <1>1, <2>1, <3>1 DEF Scans
    <3>2. CASE Up[n] \notin scans[i].seen
      BY <1>1, <3>2
    <3> QED  BY <3>1, <3>2
  <2> QED  BY <1>1, <2>1, <2>2
<1>3. /\ report'.busy = report.busy /\ report'.paths = report.paths /\ report.stale \subseteq report'.stale
      /\ report.busy => n \in report'.stale
  BY <1>1 DEF IInv, TypeInv, ManagerTypes, Reports
<1>4. EventsOfTree'
  <2> SUFFICES ASSUME NEW i \in DOMAIN events'
               PROVE  /\ events'[i].name \in Files =>
                           events'[i].wd[1] = Up[events'[i].name] /\ events'[i].mask \in {"IN_CREATE", "IN_DELETE"}
                      /\ events'[i].wd \in mWatched \/ events'[i].wd[2] < generation
    BY <1>1 DEF EventsOfTree
  <2>1. CASE i \in 1..Len(events)
    BY <2>1, MoreEvents, EventPlaces DEF EventsOfTree
  <2>2. CASE i > Len(events)
    BY <2>2, MoreEvents
  <2> QED  BY <2>1, <2>2, MoreEvents, EventPlaces
<1>5. PathsOfTree' /\ BusyUnwatched'
  BY <1>1, <1>3 DEF PathsOfTree, BusyUnwatched, Path
<1>6. ScansAreRight'
  <2> SUFFICES ASSUME NEW i \in DOMAIN scans, NEW f \in Files, Path(f) \in scans[i].paths
               PROVE  Up[f] \in scans[i].seen /\ (f \in scans'[i].stale \/ f \in disk')
    BY <1>2 DEF ScansAreRight, Path
  <2>1. Up[f] \in scans[i].seen /\ (f \in scans[i].stale \/ f \in disk)
    BY DEF ScansAreRight
  <2> QED  BY <1>2, <2>1
<1>7. ReportIsRight'
  BY <1>3 DEF ReportIsRight, Path
<1>8. ASSUME NEW f \in (Files \cap Scannable) \ escaped', manager = "up"
      PROVE  FollowedOf(f)'
  <2>1. f \notin escaped /\ FollowedOf(f)
    BY <1>1, <1>8 DEF Followed
  <2>2. CASE f = n
    <3>1. PICK w \in mWatched, mask \in {"IN_CREATE", "IN_DELETE"} :
             /\ q = <<[wd |-> w, mask |-> mask, name |-> n]>>
             /\ mask = "IN_CREATE" <=> n \in disk'
      BY <1>1, <1>8, <2>2
    <3> DEFINE e == [wd |-> w, mask |-> mask, name |-> n]
    <3>2. e \in EventSet
      <4>1. Len(q) = 1 /\ q[1] = e
        BY <3>1
      <4>2. Len(q) \in Nat /\ q \in [1..Len(q) -> EventSet]
        BY LenProperties
      <4> QED  BY <4>1, <4>2
    <3>3. e.wd \in mWatched /\ e.name = n /\ e.mask = mask
      OBVIOUS
    <3> HIDE DEF e
    <3>4. Final(n)' <=> mask = "IN_CREATE"
      BY <1>1, <3>1, <3>2, <3>3, OwnNews DEF e
    <3> QED  BY <2>2, <3>1, <3>4 DEF FollowedOf
  <2>3. CASE f # n
    <3>1. \A k \in 1..Len(q) : q[k].name # f
      BY <1>8, <2>3
    <3>2. EventsOf(f)' = EventsOf(f) /\ \A i \in EventsOf(f) : events'[i] = events[i]
      BY <1>1, <3>1, OtherNews
    <3>3. Names(Up[f])' = Names(Up[f])
      BY <1>1 DEF Names
    <3>4. Final(f)' <=> Final(f)
      BY <1>1, <3>2, <3>3, SameFinal
    <3>5. f \in disk' <=> f \in disk
      BY <2>3
    <3>6. ToBeFound(f)' <=> ToBeFound(f)
      <4>1. \A i \in DOMAIN scans : Finds(scans'[i], f) <=> Finds(scans[i], f)
        BY <1>2 DEF Finds
      <4> QED  BY <1>2, <1>3, <4>1 DEF ToBeFound, Finds, Path, Below
    <3>7. Unheard(f)' <=> Unheard(f)
      BY <1>1, <3>2, <3>3, <3>5, <3>6 DEF Unheard, Path
    <3> QED  BY <2>1, <3>4, <3>5, <3>7 DEF FollowedOf
  <2> QED  BY <2>2, <2>3
<1>9. Followed'
  BY <1>1, <1>8 DEF Followed, Scannable, Below
<1> QED  BY <1>4, <1>5, <1>6, <1>7, <1>9

LEMMA QueueHas ==
    ASSUME IInv, NEW d \in Dirs, NEW mask, NEW n
    PROVE  \A k \in 1..Len(Queue(d, mask, n)) :
              Queue(d, mask, n)[k].wd \in inotify /\ Queue(d, mask, n)[k].wd[1] = d
                /\ Queue(d, mask, n)[k].mask = mask /\ Queue(d, mask, n)[k].name = n
<1>1. CASE Queue(d, mask, n) = <<>>
  BY <1>1
<1>2. ASSUME NEW w \in inotify, w[1] = d, Queue(d, mask, n) = <<[wd |-> w, mask |-> mask, name |-> n]>>
      PROVE  \A k \in 1..Len(Queue(d, mask, n)) :
              Queue(d, mask, n)[k].wd \in inotify /\ Queue(d, mask, n)[k].wd[1] = d
                /\ Queue(d, mask, n)[k].mask = mask /\ Queue(d, mask, n)[k].name = n
  BY <1>2
<1> QED  BY <1>1, <1>2, QueueGives

\* A file is made or removed, a directory made.
LEMMA EntryFollows ==
    ASSUME IInv, FollowInv, NEW n \in Entries \ {Root}, Change(n), TreeClosed',
           NEW mask \in {"IN_CREATE", "IN_DELETE"},
           disk' = IF mask = "IN_CREATE" THEN disk \cup {n} ELSE disk \ {n},
           events' = events \o Queue(Up[n], mask, n)
    PROVE  FollowInv'
<1> DEFINE q == Queue(Up[n], mask, n)
<1>1. Up[n] \in Dirs
  BY Tree
<1>1a. <<Up[n], n>> \in EventPaths /\ n \in Entries \cup {""}
  BY <1>1 DEF EventPaths
<1>2. q \in Seq(EventSet)
  BY <1>1, <1>1a, QueueIsSeq DEF IInv, WatchInv
<1>0. inotify \subseteq mWatched
  BY DEF IInv, WatchInv, KernelKnown
<1>3. \A k \in 1..Len(q) : /\ q[k].wd \in mWatched
                           /\ q[k].name = n /\ q[k].wd[1] = Up[n] /\ q[k].mask = mask
  <2>1. \A k \in 1..Len(Queue(Up[n], mask, n)) :
              Queue(Up[n], mask, n)[k].wd \in inotify /\ Queue(Up[n], mask, n)[k].wd[1] = Up[n]
                /\ Queue(Up[n], mask, n)[k].mask = mask /\ Queue(Up[n], mask, n)[k].name = n
    BY <1>1, QueueHas
  <2> QED  BY <1>0, <2>1
<1>4. ASSUME \E w \in mWatched \cap inotify : w[1] = Up[n]
      PROVE  \E w \in mWatched : q = <<[wd |-> w, mask |-> mask, name |-> n]>>
  <2>1. \/ (\A w \in inotify : w[1] # Up[n]) /\ q = <<>>
        \/ \E w \in inotify : w[1] = Up[n] /\ q = <<[wd |-> w, mask |-> mask, name |-> n]>>
    BY <1>1, QueueGives
  <2> QED  BY <1>0, <1>4, <2>1
<1>5. mask = "IN_CREATE" <=> n \in disk'
  OBVIOUS
<1>6. n \in Files /\ (\E w \in mWatched \cap inotify : w[1] = Up[n]) =>
              \E w \in mWatched, m \in {"IN_CREATE", "IN_DELETE"} :
                 /\ q = <<[wd |-> w, mask |-> m, name |-> n]>>
                 /\ m = "IN_CREATE" <=> n \in disk'
  BY <1>4, <1>5
<1>7. events' = events \o q /\ (disk' = disk \cup {n} \/ disk' = disk \ {n})
  OBVIOUS
<1> HIDE DEF q
<1> QED  BY <1>2, <1>3, <1>6, <1>7, ChangeFollows

LEMMA DiskFollows ==
    ASSUME IInv, FollowInv,
           \/ \E n \in Entries \ {Root} : Create(n)
           \/ \E f \in Files : RemoveFile(f)
           \/ \E d \in Dirs \ {Root} : RemoveDir(d)
    PROVE  FollowInv'
<1>0. TreeClosed /\ disk \subseteq Entries /\ inotify \subseteq mWatched
  BY DEF FollowInv, HistoryInv, IInv, TypeInv, DiskTypes, WatchInv, KernelKnown
<1>1. ASSUME NEW n \in Entries \ {Root}, Create(n)
      PROVE  FollowInv'
  <2>1. TreeClosed'
    BY <1>0, <1>1 DEF Create, Change, TreeClosed
  <2> QED  BY <1>1, <2>1, EntryFollows DEF Create
<1>2. ASSUME NEW f \in Files, RemoveFile(f)
      PROVE  FollowInv'
  <2>1. f \in Entries \ {Root} /\ f \notin Dirs
    BY Tree, TreeAssumption DEF Entries
  <2>2. TreeClosed'
    BY <1>0, <1>2, <2>1, Tree DEF RemoveFile, TreeClosed
  <2> QED  BY <1>2, <2>1, <2>2, EntryFollows DEF RemoveFile
<1>3. ASSUME NEW d \in Dirs \ {Root}, RemoveDir(d)
      PROVE  FollowInv'
  <2> DEFINE q1 == Queue(Up[d], "IN_DELETE", d)
             q2 == Queue(d, "IN_DELETE_SELF", "")
             q == q1 \o q2
  <2>0. d \in Entries \ {Root} /\ d \notin Files /\ Up[d] \in Dirs
    BY Tree, TreeAssumption DEF Entries
  <2>1. "" \notin Files /\ <<d, "">> \in EventPaths /\ <<Up[d], d>> \in EventPaths
    BY <2>0, Tree, TreeAssumption DEF Entries, EventPaths
  <2>2. TreeClosed'
    <3>1. \A n \in disk \ {Root} : Up[n] # d
      BY <1>0, <1>3 DEF RemoveDir, FilesIn, DirsIn, Entries
    <3> QED  BY <1>0, <1>3, <3>1 DEF RemoveDir, TreeClosed
  <2>3. q1 \in Seq(EventSet)
    BY <2>0, <2>1, QueueIsSeq DEF IInv, WatchInv
  <2>3a. q2 \in Seq(EventSet)
    BY <2>0, <2>1, QueueIsSeq DEF IInv, WatchInv
  <2>4. \A k \in 1..Len(q1) : q1[k].wd \in mWatched /\ q1[k].name = d
    BY <1>0, <2>0, QueueHas
  <2>4a. \A k \in 1..Len(q2) : q2[k].wd \in mWatched /\ q2[k].name = ""
    <3>1. ASSUME NEW n
          PROVE  \A k \in 1..Len(Queue(d, "IN_DELETE_SELF", n)) :
                    /\ Queue(d, "IN_DELETE_SELF", n)[k].wd \in mWatched
                    /\ Queue(d, "IN_DELETE_SELF", n)[k].name = n
      BY <1>0, <2>0, QueueHas
    <3> QED  BY <3>1, Zenon
  <2>5. events' = (events \o q1) \o q2 /\ Change(d) /\ disk' = disk \ {d}
    BY <1>3 DEF RemoveDir
  <2> HIDE DEF q1, q2
  <2>6. events' = events \o q /\ q \in Seq(EventSet)
    BY <2>3, <2>3a, <2>5, ConcatAssociative, ConcatProperties DEF IInv, TypeInv, DiskTypes
  <2>7. \A k \in 1..Len(q) : q[k].wd \in mWatched /\ q[k].name \notin Files
    <3>1. /\ Len(q) = Len(q1) + Len(q2) /\ Len(q1) \in Nat /\ Len(q2) \in Nat
          /\ \A k \in 1..Len(q) : q[k] = IF k <= Len(q1) THEN q1[k] ELSE q2[k - Len(q1)]
      BY <2>3, <2>3a, ConcatProperties, LenProperties
    <3> HIDE DEF q
    <3>2. ASSUME NEW k \in 1..Len(q)
          PROVE  q[k].wd \in mWatched /\ q[k].name \notin Files
      <4>1. CASE k <= Len(q1)
        <5>1. k \in 1..Len(q1) /\ q[k] = q1[k]
          BY <3>1, <4>1
        <5> QED  BY <2>0, <2>1, <2>4, <5>1
      <4>2. CASE k > Len(q1)
        <5>1. k - Len(q1) \in 1..Len(q2) /\ q[k] = q2[k - Len(q1)]
          BY <3>1, <4>2
        <5> QED  BY <2>0, <2>1, <2>4a, <5>1
      <4> QED  BY <3>1, <4>1, <4>2
    <3> QED  BY <3>2
  <2> HIDE DEF q
  <2> QED  BY <2>0, <2>1, <2>2, <2>5, <2>6, <2>7, ChangeFollows
<1> QED  BY <1>1, <1>2, <1>3

---------------------------------------------------------------------------
(* The watcher and the scans.                                              *)

\* A set of numbers that is not empty has a least one.
LEMMA LeastNumber ==
    ASSUME NEW T \in SUBSET Nat, T # {}
    PROVE  \E k \in T : \A j \in T : k <= j
<1> DEFINE R == {p \in Nat \X Nat : p[1] < p[2]}
<1>1. IsWellFoundedOn(R, Nat)
  BY NatLessThanWellFounded DEF OpToRel
<1> HIDE DEF R
<1>2. PICK k \in T : \A j \in T : <<j, k>> \notin R
  BY <1>1, WFMin
<1>3. \A j \in T : k <= j
  <2> TAKE j \in T
  <2>1. <<j, k>> \in Nat \X Nat /\ ~(<<j, k>>[1] < <<j, k>>[2])
    BY <1>2 DEF R
  <2> QED  BY <2>1
<1> QED  BY <1>3

\* The last of some places.
LEMMA LastOf ==
    ASSUME NEW n \in Nat, NEW T \in SUBSET (1..n), T # {}
    PROVE  \E m \in T : \A j \in T : j <= m
<1> DEFINE S == {k \in Nat : n - k \in T}
<1>1. \A j \in T : n - j \in S
  OBVIOUS
<1>2. PICK k \in S : \A j \in S : k <= j
  BY <1>1, LeastNumber
<1>3. ASSUME NEW j \in T
      PROVE  j <= n - k
  BY <1>1, <1>2
<1> QED  BY <1>2, <1>3

LEMMA ReadEventsFollows ==
    ASSUME IInv, FollowInv, ReadEvents
    PROVE  FollowInv'
<1> USE DEF FollowInv, HistoryInv
<1>1. /\ removed = {} /\ added = {} /\ manager = "up"
      /\ removed' = NamedBy(Deletions) /\ added' = NamedBy(Additions) /\ events' = <<>>
      /\ UNCHANGED <<disk, mWatched, generation, manager, scans, report, mFiles, escaped>>
  BY DEF ReadEvents, managerVars
<1>2. TreeClosed' /\ BusyUnwatched' /\ ScansAreRight' /\ ReportIsRight'
  BY <1>1 DEF TreeClosed, BusyUnwatched, ScansAreRight, ReportIsRight, Path
<1>3. EventsOfTree'
  BY <1>1 DEF EventsOfTree
<1>4. \A i \in Known : i \in DOMAIN events /\ events[i].wd \in mWatched
  BY DEF Known
<1>5. \A i \in Known : events[i].name \in Files =>
         Named(i) = Path(events[i].name) /\ events[i].mask \in {"IN_CREATE", "IN_DELETE"}
  BY <1>4 DEF EventsOfTree, Named, Path
<1>6. \A f, i : Named(i) = Path(f) => events[i].name = f
  BY DEF Named, Path
<1>7. PathsOfTree'
  <2>1. \A p \in NamedBy(Known) : p[2] \in Files => p = Path(p[2])
    <3> SUFFICES ASSUME NEW i \in Known, Named(i)[2] \in Files
                 PROVE  Named(i) = Path(Named(i)[2])
      BY DEF NamedBy
    <3>1. Named(i)[2] = events[i].name
      BY DEF Named
    <3> QED  BY <1>5, <3>1
  <2>2. removed' \subseteq NamedBy(Known) /\ added' \subseteq NamedBy(Known)
    BY <1>1 DEF NamedBy, Deletions, Additions
  <2> QED  BY <2>1, <2>2 DEF PathsOfTree, Path
<1>8. \A f : EventsOf(f)' = {}
  BY <1>1 DEF EventsOf, Known
<1>9. \A f : Names(f)' = Names(f)
  BY <1>1 DEF Names
<1>10. \A f : Final(f)' <=> Path(f) \in added' \/ (Path(f) \notin removed' /\ f \in Names(Up[f]))
  BY <1>8, <1>9 DEF Final, Path
<1>11. ASSUME NEW f \in (Files \cap Scannable) \ escaped
       PROVE  FollowedOf(f)'
  <2>1. FollowedOf(f)
    BY <1>1 DEF Followed
  <2>2. \A i \in EventsOf(f) : i \in Known /\ Named(i) = Path(f) /\ events[i].mask \in {"IN_CREATE", "IN_DELETE"}
    BY <1>5 DEF EventsOf
  <2>3. \A i \in Known : Named(i) = Path(f) => i \in EventsOf(f)
    BY <1>6 DEF EventsOf
  <2>4. EventsOf(f) \in SUBSET (1..Len(events)) /\ Len(events) \in Nat
    BY EventPlaces
  <2>5. CASE EventsOf(f) = {}
    <3>1. \A i \in Known : Named(i) # Path(f)
      BY <2>3, <2>5
    <3>2. Path(f) \notin added' /\ Path(f) \notin removed'
      BY <1>1, <3>1 DEF NamedBy, Deletions, Additions
    <3>3. Final(f)' <=> Final(f)
      BY <1>1, <1>10, <2>5, <3>2 DEF Final
    <3>4. Unheard(f) => Unheard(f)'
      <4>1. ToBeFound(f) => ToBeFound(f)'
        BY <1>1 DEF ToBeFound, Finds, Path, Below
      <4> QED  BY <1>1, <1>8, <1>9, <3>2, <4>1 DEF Unheard, Path
    <3> QED  BY <1>1, <2>1, <3>3, <3>4 DEF FollowedOf
  <2>6. CASE EventsOf(f) # {}
    <3>1. PICK m \in EventsOf(f) : \A j \in EventsOf(f) : j <= m
      BY <2>4, <2>6, LastOf
    <3>2. Final(f) <=> events[m].mask = "IN_CREATE"
      <4>1. \A i \in EventsOf(f) : (\A j \in EventsOf(f) : j <= i) => i = m
        BY <2>4, <3>1
      <4> QED  BY <2>6, <3>1, <4>1 DEF Final
    <3>3. \A j \in Deletions : Named(j) = Path(f) => j <= m
      BY <2>3, <3>1 DEF Deletions
    <3>4. CASE events[m].mask = "IN_CREATE"
      <4>1. m \in Additions
        <5>1. m \in Known \ Deletions
          BY <2>2, <3>4 DEF Deletions
        <5>2. \A j \in Deletions : j > m => Named(j) # Named(m)
          <6>1. \A j \in Deletions : j \in 1..Len(events)
            BY EventPlaces DEF Deletions, Known
          <6> QED  BY <2>2, <2>4, <3>3, <6>1
        <5> QED  BY <5>1, <5>2 DEF Additions
      <4>2. Path(f) \in added'
        BY <1>1, <2>2, <4>1 DEF NamedBy
      <4> QED  BY <1>1, <1>10, <2>1, <2>6, <3>2, <3>4, <4>2 DEF FollowedOf, Unheard
    <3>5. CASE events[m].mask # "IN_CREATE"
      <4>1. m \in Deletions
        BY <2>2, <3>5 DEF Deletions
      <4>2. Path(f) \in removed'
        BY <1>1, <2>2, <4>1 DEF NamedBy
      <4>3. Path(f) \notin added'
        <5> SUFFICES ASSUME NEW i \in Additions, Named(i) = Path(f)
                     PROVE  FALSE
          BY <1>1 DEF NamedBy
        <5>1. i \in EventsOf(f) /\ i \notin Deletions
          BY <2>3 DEF Additions
        <5>2. m > i
          BY <2>4, <3>1, <4>1, <5>1
        <5> QED  BY <2>2, <4>1, <5>2 DEF Additions
      <4> QED  BY <1>1, <1>10, <2>1, <2>6, <3>2, <3>5, <4>2, <4>3 DEF FollowedOf, Unheard
    <3> QED  BY <3>4, <3>5
  <2> QED  BY <2>5, <2>6
<1>12. Followed'
  BY <1>1, <1>11 DEF Followed, Scannable, Below
<1> QED  BY <1>2, <1>3, <1>7, <1>12

---------------------------------------------------------------------------
\* A scan that reads a directory still finds what it would have found.
LEMMA ScanDirFinds ==
    ASSUME IInv, TreeClosed, NEW i \in DOMAIN scans, ScanDir(i),
           NEW f \in Files, f \in disk, Finds(scans[i], f)
    PROVE  Finds(scans'[i], f)
<1> DEFINE d == Head(scans[i].todo)
           q == SetToSeq(Visited(d, "Directory"))
           rest == Tail(scans[i].todo)
<1>1. scans \in Seq(Scans) /\ scans[i] \in Scans /\ scans[i].todo # <<>>
  BY DEF IInv, TypeInv, ManagerTypes, ScanDir
<1>2. /\ scans'[i].todo = q \o rest
      /\ scans'[i].paths = scans[i].paths \cup {Path(g) : g \in Visited(d, "File")}
  BY <1>1 DEF ScanDir, Scans
<1>3. d \in Dirs /\ scans[i].todo \in Seq(Dirs) /\ rest \in Seq(Dirs) /\ d = scans[i].todo[1]
  BY <1>1 DEF Scans
<1>4. Visited(d, "Directory") \subseteq Dirs
  <2> SUFFICES ASSUME NEW n \in Visited(d, "Directory")
               PROVE  n \in Dirs
    OBVIOUS
  <2>1. n \in Entries /\ isDir(Path(n)) /\ Path(n)[2] = n /\ n # ""
    BY Tree DEF Visited, FilesIn, DirsIn, Entries, Filter, Path
  <2> QED  BY <2>1 DEF isDir
<1>5. IsFiniteSet(Visited(d, "Directory"))
  BY <1>4, FiniteAssumption, FS_Subset
<1> HIDE DEF d
<1>6. /\ q \in Seq(Visited(d, "Directory"))
      /\ \A x \in Visited(d, "Directory") : \E k \in DOMAIN q : q[k] = x
  BY <1>5, SetToSeqHas
<1>7. q \in Seq(Dirs)
  BY <1>4, <1>6, SeqOfSubset
<1> HIDE DEF q
<1>8. /\ Len(q) \in Nat /\ Len(rest) \in Nat /\ DOMAIN q = 1..Len(q)
      /\ DOMAIN (q \o rest) = 1..(Len(q) + Len(rest))
      /\ \A k \in 1..(Len(q) + Len(rest)) :
           (q \o rest)[k] = IF k <= Len(q) THEN q[k] ELSE rest[k - Len(q)]
  <2>1. q \o rest \in Seq(Dirs) /\ Len(q \o rest) = Len(q) + Len(rest)
    BY <1>3, <1>7, ConcatProperties
  <2> QED  BY <1>3, <1>7, <2>1, ConcatProperties, LenProperties
<1>9. ASSUME NEW k \in DOMAIN scans[i].todo, f \in Below(scans[i].todo[k]), k > 1
      PROVE  \E j \in DOMAIN (q \o rest) : f \in Below((q \o rest)[j])
  <2>1. /\ k - 1 \in 1..Len(rest) /\ rest[k - 1] = scans[i].todo[k]
    BY <1>1, <1>3, <1>9
  <2> HIDE DEF rest
  <2>2. Len(q) + (k - 1) \in 1..(Len(q) + Len(rest)) /\ (q \o rest)[Len(q) + (k - 1)] = rest[k - 1]
    BY <1>8, <2>1
  <2> QED  BY <1>8, <1>9, <2>1, <2>2
<1> HIDE DEF rest
<1>10. ASSUME f \in Below(d)
       PROVE  Path(f) \in scans'[i].paths \/ \E j \in DOMAIN (q \o rest) : f \in Below((q \o rest)[j])
  <2>1. f # d
    BY <1>3, TreeAssumption
  <2>2. PICK s \in Entries \ {Root} :
               Up[s] = d /\ {s, Up[s]} \cap Excluded = {} /\ f \in Below(s)
    BY <1>3, <1>10, <2>1, BelowStep
  <2>3. s \in disk /\ s # ""
    BY <2>2, BelowOnDisk, Tree
  <2>4. CASE s \in Files
    <3>1. s = f
      BY <2>2, <2>4, BelowFile
    <3>2. f \in FilesIn(d) /\ f \notin Dirs
      BY <2>2, <2>3, <3>1, TreeAssumption DEF FilesIn
    <3>3. Filter(Path(f), Excluded) = "File"
      BY <2>2, <2>3, <3>1, <3>2 DEF Filter, Path, isDir
    <3>4. f \in Visited(d, "File")
      BY <3>2, <3>3 DEF Visited
    <3> QED  BY <1>2, <3>4
  <2>5. CASE s \in Dirs
    <3>1. s \in DirsIn(d)
      BY <2>2, <2>3, <2>5 DEF DirsIn
    <3>2. Filter(Path(s), Excluded) = "Directory"
      BY <2>2, <2>3, <2>5 DEF Filter, Path, isDir
    <3>3. s \in Visited(d, "Directory")
      BY <3>1, <3>2 DEF Visited
    <3>4. PICK k \in 1..Len(q) : q[k] = s
      BY <1>6, <1>8, <3>3
    <3>5. k \in 1..(Len(q) + Len(rest)) /\ (q \o rest)[k] = s
      BY <1>8, <3>4
    <3> QED  BY <1>8, <2>2, <3>5
  <2> QED  BY <2>4, <2>5 DEF Entries
<1>11. CASE Path(f) \in scans[i].paths
  BY <1>2, <1>11 DEF Finds
<1>12. CASE \E k \in DOMAIN scans[i].todo : f \in Below(scans[i].todo[k])
  <2>1. PICK k \in DOMAIN scans[i].todo : f \in Below(scans[i].todo[k])
    BY <1>12
  <2>2. k = 1 \/ k > 1
    BY <1>3
  <2>3. CASE k = 1
    BY <1>2, <1>3, <1>10, <2>1, <2>3 DEF Finds
  <2>4. CASE k > 1
    BY <1>2, <1>9, <2>1, <2>4 DEF Finds
  <2> QED  BY <2>2, <2>3, <2>4
<1> QED  BY <1>11, <1>12 DEF Finds

LEMMA ScanDirFollows ==
    ASSUME IInv, FollowInv, NEW i \in DOMAIN scans, ScanDir(i)
    PROVE  FollowInv'
<1> USE DEF FollowInv, HistoryInv
<1> DEFINE d == Head(scans[i].todo)
<1>1. scans \in Seq(Scans) /\ scans[i] \in Scans
  BY DEF IInv, TypeInv, ManagerTypes
<1>2. /\ DOMAIN scans' = DOMAIN scans
      /\ \A j \in DOMAIN scans : j # i => scans'[j] = scans[j]
      /\ scans'[i].paths = scans[i].paths \cup {Path(f) : f \in Visited(d, "File")}
      /\ scans'[i].seen = scans[i].seen \cup {d} /\ scans'[i].stale = scans[i].stale
  BY <1>1 DEF ScanDir, Scans
<1>3. UNCHANGED <<disk, events, mWatched, generation, removed, added, manager, report, mFiles, escaped>>
  BY DEF ScanDir, watcherVars
<1>4. TreeClosed' /\ BusyUnwatched' /\ ReportIsRight' /\ PathsOfTree'
  BY <1>3 DEF TreeClosed, BusyUnwatched, ReportIsRight, PathsOfTree, Path
<1>5. EventsOfTree'
  BY <1>3 DEF EventsOfTree
<1>6. ScansAreRight'
  <2> SUFFICES ASSUME NEW j \in DOMAIN scans, NEW f \in Files, Path(f) \in scans'[j].paths
               PROVE  Up[f] \in scans'[j].seen /\ (f \in scans'[j].stale \/ f \in disk)
    BY <1>2, <1>3 DEF ScansAreRight, Path
  <2>1. CASE Path(f) \in scans[j].paths
    BY <1>2, <2>1 DEF ScansAreRight
  <2>2. CASE j = i /\ Path(f) \notin scans[i].paths
    <3>1. PICK g \in Visited(d, "File") : Path(f) = Path(g)
      BY <1>2, <2>2
    <3>2. f = g /\ Up[g] = d /\ g \in disk
      BY <3>1 DEF Path, Visited, FilesIn, DirsIn
    <3> QED  BY <1>2, <2>2, <3>2
  <2> QED  BY <1>2, <2>1, <2>2
<1>7. ASSUME NEW f \in (Files \cap Scannable) \ escaped, manager = "up"
      PROVE  FollowedOf(f)'
  <2>1. FollowedOf(f)
    BY <1>7 DEF Followed
  <2>2. EventsOf(f)' = EventsOf(f) /\ Names(Up[f])' = Names(Up[f])
    BY <1>3 DEF EventsOf, Known, Names
  <2>3. Final(f)' <=> Final(f)
    BY <1>3, <2>2, SameFinal
  <2>4. Unheard(f) => Unheard(f)'
    <3>1. ASSUME f \in disk, ToBeFound(f)
          PROVE  ToBeFound(f)'
      <4>1. CASE report.busy /\ Path(f) \in report.paths
        BY <1>3, <4>1 DEF ToBeFound, Path
      <4>2. CASE \E j \in DOMAIN scans : Finds(scans[j], f)
        <5>1. PICK j \in DOMAIN scans : Finds(scans[j], f)
          BY <4>2
        <5>2. Finds(scans'[j], f)
          BY <1>2, <3>1, <5>1, ScanDirFinds
        <5> QED  BY <1>2, <5>2 DEF ToBeFound, Finds, Path, Below
      <4> QED  BY <3>1, <4>1, <4>2 DEF ToBeFound
    <3> QED  BY <1>3, <2>2, <3>1 DEF Unheard, Path
  <2> QED  BY <1>3, <2>1, <2>3, <2>4 DEF FollowedOf
<1>8. Followed'
  BY <1>3, <1>7 DEF Followed, Scannable, Below
<1> QED  BY <1>4, <1>5, <1>6, <1>8

\* No queued event is of a descriptor that is still to come.
LEMMA watchIsNoNews ==
    ASSUME IInv, EventsOfTree, NEW ds \in SUBSET Dirs, watch(ds), events' = events
    PROVE  EventsOfTree' /\ Known' = Known
<1> DEFINE new == Descriptors((ds \cap disk) \ Watched)
<1>1. mWatched' = mWatched \cup new /\ generation' = generation
  BY DEF watch
<1>2. generation \in Nat
  BY DEF IInv, TypeInv, WatcherTypes
<1>3. \A w \in new : w[2] = generation /\ w \notin mWatched
  BY DEF Descriptors, Watched
<1> HIDE DEF new
<1>4. ASSUME NEW i \in DOMAIN events, events[i].wd \in new
      PROVE  FALSE
  BY <1>2, <1>3, <1>4 DEF EventsOfTree
<1>5. Known' = Known
  BY <1>1, <1>4 DEF Known
<1>6. EventsOfTree'
  BY <1>1, <1>2, <1>3 DEF EventsOfTree
<1> QED  BY <1>5, <1>6

LEMMA unwatchIsNoNews ==
    ASSUME IInv, EventsOfTree, NEW ds, unwatch(ds), events' = events
    PROVE  EventsOfTree' /\ Known' = {i \in Known : events[i].wd[1] \notin ds}
<1>1. /\ mWatched' = {wd \in mWatched : wd[1] \notin ds}
      /\ generation' = IF Watched \cap ds = {} THEN generation ELSE generation + 1
  BY DEF unwatch
<1>2. generation \in Nat /\ mWatched \subseteq Descs
  BY DEF IInv, TypeInv, WatcherTypes
<1>3. \A i \in DOMAIN events : events[i].wd \in Descs
  BY EventPlaces DEF EventSet
<1>4. Known' = {i \in Known : events[i].wd[1] \notin ds}
  BY <1>1 DEF Known
<1>5. \A w \in mWatched' : w[2] <= generation'
  BY <1>1, <1>2 DEF EventsOfTree, Descs
<1>6. ASSUME NEW i \in DOMAIN events, events[i].wd \notin mWatched'
      PROVE  events[i].wd[2] < generation'
  <2>1. CASE events[i].wd \in mWatched
    <3>1. events[i].wd[2] <= generation /\ Watched \cap ds # {}
      BY <1>1, <1>6, <2>1 DEF EventsOfTree, Watched
    <3> QED  BY <1>1, <1>2, <1>3, <3>1 DEF Descs
  <2>2. CASE events[i].wd \notin mWatched
    <3>1. events[i].wd[2] < generation
      BY <2>2 DEF EventsOfTree
    <3> QED  BY <1>1, <1>2, <1>3, <3>1 DEF Descs
  <2> QED  BY <2>1, <2>2
<1>7. EventsOfTree'
  BY <1>5, <1>6 DEF EventsOfTree
<1> QED  BY <1>4, <1>7

LEMMA RemoveAtLeaves ==
    ASSUME NEW S, NEW s \in Seq(S), NEW i \in DOMAIN s
    PROVE  /\ \A j \in DOMAIN RemoveAt(s, i) : \E k \in DOMAIN s : RemoveAt(s, i)[j] = s[k]
           /\ \A k \in DOMAIN s \ {i} : \E j \in DOMAIN RemoveAt(s, i) : RemoveAt(s, i)[j] = s[k]
<1> DEFINE a == SubSeq(s, 1, i - 1)
           b == SubSeq(s, i + 1, Len(s))
<1>1. i \in 1..Len(s) /\ Len(s) \in Nat /\ DOMAIN s = 1..Len(s)
  OBVIOUS
<1>2. a \in Seq(S) /\ Len(a) = i - 1 /\ \A j \in 1..(i - 1) : a[j] = s[j]
  BY <1>1
<1>3. b \in Seq(S) /\ Len(b) = Len(s) - i /\ \A j \in 1..(Len(s) - i) : b[j] = s[i + j]
  BY <1>1
<1>4. RemoveAt(s, i) = a \o b
  BY DEF RemoveAt
<1> HIDE DEF a, b
<1>5. /\ a \o b \in Seq(S) /\ Len(a \o b) = Len(s) - 1
      /\ \A j \in 1..(Len(s) - 1) : (a \o b)[j] = IF j <= i - 1 THEN a[j] ELSE b[j - (i - 1)]
  <2>1. /\ a \o b \in Seq(S) /\ Len(a \o b) = Len(a) + Len(b)
        /\ \A j \in 1..(Len(a) + Len(b)) : (a \o b)[j] = IF j <= Len(a) THEN a[j] ELSE b[j - Len(a)]
    BY <1>2, <1>3, ConcatProperties
  <2>2. Len(a) + Len(b) = Len(s) - 1
    BY <1>1, <1>2, <1>3
  <2> QED  BY <1>2, <2>1, <2>2
<1>6. DOMAIN (a \o b) = 1..(Len(s) - 1)
  BY <1>5, LenProperties
<1>7. ASSUME NEW j \in 1..(Len(s) - 1)
      PROVE  (a \o b)[j] = IF j < i THEN s[j] ELSE s[j + 1]
  <2>1. CASE j < i
    <3>1. j \in 1..(i - 1)
      BY <1>1, <2>1
    <3> QED  BY <1>2, <1>5, <2>1, <3>1
  <2>2. CASE ~(j < i)
    <3>1. j - (i - 1) \in 1..(Len(s) - i) /\ i + (j - (i - 1)) = j + 1 /\ ~(j <= i - 1)
      BY <1>1, <2>2
    <3> QED  BY <1>3, <1>5, <2>2, <3>1
  <2> QED  BY <2>1, <2>2
<1>8. \A j \in DOMAIN (a \o b) : \E k \in DOMAIN s : (a \o b)[j] = s[k]
  <2> SUFFICES ASSUME NEW j \in 1..(Len(s) - 1)
               PROVE  \E k \in 1..Len(s) : (a \o b)[j] = s[k]
    BY <1>1, <1>6
  <2>1. j \in 1..Len(s) /\ j + 1 \in 1..Len(s)
    BY <1>1
  <2> QED  BY <1>7, <2>1
<1>9. \A k \in DOMAIN s \ {i} : \E j \in DOMAIN (a \o b) : (a \o b)[j] = s[k]
  <2> SUFFICES ASSUME NEW k \in 1..Len(s), k # i
               PROVE  \E j \in 1..(Len(s) - 1) : (a \o b)[j] = s[k]
    BY <1>1, <1>6
  <2>0. k < i \/ k > i
    BY <1>1
  <2>1. CASE k < i
    <3>1. k \in 1..(Len(s) - 1)
      BY <1>1, <2>1
    <3> QED  BY <1>7, <2>1, <3>1
  <2>2. CASE k > i
    <3>1. k - 1 \in 1..(Len(s) - 1) /\ ~(k - 1 < i) /\ (k - 1) + 1 = k
      BY <1>1, <2>2
    <3>2. (a \o b)[k - 1] = s[(k - 1) + 1]
      BY <1>7, <3>1
    <3> QED  BY <3>1, <3>2
  <2> QED  BY <2>0, <2>1, <2>2
<1> QED  BY <1>4, <1>8, <1>9

\* The scans that are left were right.
LEMMA LeftScansAreRight ==
    ASSUME IInv, ScansAreRight, NEW i \in DOMAIN scans, scans' = RemoveAt(scans, i), disk' = disk
    PROVE  ScansAreRight'
<1>1. scans \in Seq(Scans)
  BY DEF IInv, TypeInv, ManagerTypes
<1>2. \A j \in DOMAIN scans' : \E k \in DOMAIN scans : scans'[j] = scans[k]
  BY <1>1, RemoveAtLeaves
<1> QED  BY <1>2 DEF ScansAreRight, Path

LEMMA ScanFinishedFollows ==
    ASSUME IInv, FollowInv, NEW i \in DOMAIN scans, ScanFinished(i)
    PROVE  FollowInv'
<1> USE DEF FollowInv, HistoryInv
<1>1. /\ scans[i].todo = <<>> /\ ~report.busy /\ manager = "up"
      /\ scans' = RemoveAt(scans, i)
      /\ report' = [paths |-> scans[i].paths, stale |-> scans[i].stale, busy |-> TRUE]
      /\ unwatch(Watched)
      /\ escaped' = escaped \cup QueuedFor(mWatched)
      /\ UNCHANGED <<disk, events, removed, added, manager, mFiles>>
  BY DEF ScanFinished
<1>2. /\ mWatched' = {}
      /\ generation' = IF Watched = {} THEN generation ELSE generation + 1
  BY <1>1 DEF unwatch, Watched
<1>3. TreeClosed' /\ PathsOfTree' /\ BusyUnwatched'
  BY <1>1, <1>2 DEF TreeClosed, PathsOfTree, BusyUnwatched, Path
<1>4. EventsOfTree'
  BY <1>1, unwatchIsNoNews
<1>5. ScansAreRight'
  BY <1>1, LeftScansAreRight
<1>6. ReportIsRight'
  BY <1>1 DEF ReportIsRight, ScansAreRight, Path
<1>7. ASSUME NEW f \in (Files \cap Scannable) \ escaped'
      PROVE  FollowedOf(f)'
  <2>1. FollowedOf(f)
    BY <1>1, <1>7 DEF Followed
  <2>2. EventsOf(f) = {}
    BY <1>1, <1>7 DEF QueuedFor, EventsOf, Known
  <2>3. EventsOf(f)' = {} /\ Names(Up[f])' = Names(Up[f])
    BY <1>1, <1>2 DEF EventsOf, Known, Names
  <2>4. Final(f)' <=> Final(f)
    BY <1>1, <2>2, <2>3, SameFinal
  <2>5. ToBeFound(f) => ToBeFound(f)'
    <3> SUFFICES ASSUME NEW j \in DOMAIN scans, Finds(scans[j], f)
                 PROVE  ToBeFound(f)'
      BY <1>1 DEF ToBeFound
    <3>1. CASE j = i
      <4>1. Path(f) \in scans[i].paths
        BY <1>1, <3>1 DEF Finds
      <4> QED  BY <1>1, <4>1 DEF ToBeFound, Path
    <3>2. CASE j # i
      <4>1. scans \in Seq(Scans)
        BY DEF IInv, TypeInv, ManagerTypes
      <4>2. \E k \in DOMAIN scans' : scans'[k] = scans[j]
        BY <1>1, <3>2, <4>1, RemoveAtLeaves
      <4> QED  BY <4>2 DEF ToBeFound, Finds, Path, Below
    <3> QED  BY <3>1, <3>2
  <2> QED  BY <1>1, <2>1, <2>2, <2>3, <2>4, <2>5 DEF FollowedOf, Unheard, Path
<1>8. Followed'
  BY <1>1, <1>7 DEF Followed, Scannable, Below
<1> QED  BY <1>3, <1>4, <1>5, <1>6, <1>8

\* Once the FileManager is gone, nobody asks what the map would become.
LEMMA ScanFinishedTooLateFollows ==
    ASSUME IInv, FollowInv, NEW i \in DOMAIN scans, ScanFinishedTooLate(i)
    PROVE  FollowInv'
<1> USE DEF FollowInv, HistoryInv
<1>1. /\ scans' = RemoveAt(scans, i) /\ manager' = "undefined"
      /\ UNCHANGED <<disk, events, mWatched, generation, removed, added, report>>
  BY DEF ScanFinishedTooLate, watcherVars
<1>2. TreeClosed' /\ PathsOfTree' /\ BusyUnwatched' /\ ReportIsRight'
  BY <1>1 DEF TreeClosed, PathsOfTree, BusyUnwatched, ReportIsRight, Path
<1>3. EventsOfTree'
  BY <1>1 DEF EventsOfTree
<1>4. ScansAreRight'
  BY <1>1, LeftScansAreRight
<1>5. Followed'
  BY <1>1 DEF Followed
<1> QED  BY <1>2, <1>3, <1>4, <1>5

LEMMA UnloadFollows ==
    ASSUME IInv, FollowInv, Unload
    PROVE  FollowInv'
<1> USE DEF FollowInv, HistoryInv
<1>1. /\ mWatched' = {} /\ events' = <<>> /\ manager' = "deleted"
      /\ UNCHANGED <<disk, generation, removed, added, scans, report>>
  BY DEF Unload
<1>2. TreeClosed' /\ PathsOfTree' /\ BusyUnwatched' /\ ReportIsRight' /\ ScansAreRight'
  BY <1>1 DEF TreeClosed, PathsOfTree, BusyUnwatched, ReportIsRight, ScansAreRight, Path
<1>3. EventsOfTree'
  BY <1>1 DEF EventsOfTree
<1>4. Followed'
  BY <1>1 DEF Followed
<1> QED  BY <1>2, <1>3, <1>4

LEMMA InitFollows ==
    ASSUME Init
    PROVE  FollowInv
<1>1. /\ TreeClosed /\ events = <<>> /\ mWatched = {} /\ removed = {} /\ added = {}
      /\ scans = <<NewScan>> /\ report = NoReport /\ mFiles = <<>>
  BY DEF Init, TreeClosed
<1>2. EventsOfTree /\ PathsOfTree /\ BusyUnwatched
  BY <1>1 DEF EventsOfTree, PathsOfTree, BusyUnwatched
<1>3. DOMAIN scans = {1} /\ scans[1].paths = {} /\ scans[1].todo = <<Root>>
  BY <1>1 DEF NewScan
<1>4. ScansAreRight /\ ReportIsRight
  BY <1>1, <1>3 DEF ScansAreRight, ReportIsRight, NoReport
<1>5. ASSUME NEW f \in Files \cap Scannable
      PROVE  FollowedOf(f)
  <2>1. EventsOf(f) = {} /\ Names(Up[f]) = {}
    BY <1>1 DEF EventsOf, Known, Names
  <2>2. ~Final(f)
    BY <1>1, <2>1 DEF Final
  <2>3. Finds(scans[1], f)
    <3>1. 1 \in DOMAIN scans[1].todo /\ scans[1].todo[1] = Root
      BY <1>3
    <3> QED  BY <1>5, <3>1 DEF Finds, Scannable
  <2>4. ToBeFound(f)
    BY <1>3, <2>3 DEF ToBeFound
  <2> QED  BY <1>1, <2>1, <2>2, <2>4 DEF FollowedOf, Unheard
<1>6. Followed
  BY <1>5 DEF Followed
<1> QED  BY <1>1, <1>2, <1>4, <1>6 DEF FollowInv, HistoryInv

LEMMA StutterFollows ==
    ASSUME FollowInv, UNCHANGED vars
    PROVE  FollowInv'
<1>1. UNCHANGED <<disk, events, mWatched, generation, removed, added, manager, scans, report, mFiles, escaped>>
  BY DEF vars, watcherVars, managerVars
<1>2. HistoryInv'
  BY <1>1 DEF FollowInv, HistoryInv, TreeClosed, EventsOfTree, PathsOfTree, BusyUnwatched, ScansAreRight,
              ReportIsRight, Path
<1>3. Scannable' = Scannable
  BY DEF Scannable, Below
<1>4. ASSUME NEW f
      PROVE  FollowedOf(f)' <=> FollowedOf(f)
  <2>1. EventsOf(f)' = EventsOf(f) /\ Names(Up[f])' = Names(Up[f])
    BY <1>1 DEF EventsOf, Known, Names
  <2>2. Final(f)' <=> Final(f)
    BY <1>1, <2>1, SameFinal
  <2>3. ToBeFound(f)' <=> ToBeFound(f)
    BY <1>1 DEF ToBeFound, Finds, Path, Below
  <2> QED  BY <1>1, <2>1, <2>2, <2>3 DEF FollowedOf, Unheard, Path
<1>5. Followed'
  BY <1>1, <1>3, <1>4 DEF FollowInv, Followed
<1> QED  BY <1>2, <1>5 DEF FollowInv

\* Nothing is new about a file.
LEMMA NoNews ==
    ASSUME NEW f, FollowedOf(f), disk' = disk,
           EventsOf(f)' = EventsOf(f), \A i \in EventsOf(f) : events'[i] = events[i],
           Path(f) \in added' <=> Path(f) \in added, Path(f) \in removed' <=> Path(f) \in removed,
           f \in Names(Up[f])' <=> f \in Names(Up[f]),
           ToBeFound(f) => ToBeFound(f)'
    PROVE  FollowedOf(f)'
<1>1. Final(f)' <=> Final(f)
  BY SameFinal
<1>2. Unheard(f) => Unheard(f)'
  BY DEF Unheard, Path
<1> QED  BY <1>1, <1>2 DEF FollowedOf

\* The names that a scan reports, and what escapes it.
LEMMA FillFilesFollows ==
    ASSUME IInv, FollowInv, FillFiles
    PROVE  FollowInv'
<1> USE DEF FollowInv, HistoryInv
<1> DEFINE parents == {parentDir(p) : p \in report.paths}
           In(d) == {p[2] : p \in {q \in report.paths : parentDir(q) = d}}
           Wrong(f) == (Path(f) \in report.paths \/ f \in Names(Up[f])) # (f \in disk)
<1>1. /\ report.busy
      /\ watch({d \in parents : Names(d) = {}})
      /\ mFiles' = [k \in DOMAIN mFiles \cup {Slash(d) : d \in parents} |-> Names(k[1]) \cup In(k[1])]
      /\ escaped' = {f \in escaped : Wrong(f) \/ Path(f) \in added \cup removed}
                        \cup {f \in report.stale \cap Files : Path(f) \in report.paths}
      /\ report' = NoReport
      /\ UNCHANGED <<disk, events, removed, added, manager, scans>>
  BY DEF FillFiles
<1>2. report.paths \subseteq FoundPaths
  BY DEF IInv, TypeInv, ManagerTypes, Reports
<1>3. parents \subseteq Dirs
  BY <1>2, FoundHaveParents
<1>4. \A d : d \notin parents => In(d) = {}
  OBVIOUS
<1>5. \A f \in Files : f \in In(Up[f]) <=> Path(f) \in report.paths
  <2> SUFFICES ASSUME NEW f \in Files
               PROVE  f \in In(Up[f]) <=> Path(f) \in report.paths
    OBVIOUS
  <2>1. parentDir(Path(f)) = Up[f] /\ Path(f)[2] = f
    BY TreeAssumption DEF parentDir, Path
  <2>2. ASSUME NEW p \in report.paths, parentDir(p) = Up[f], p[2] = f
        PROVE  p = Path(f)
    BY <1>2, <2>2, FoundHaveParents DEF Path
  <2> QED  BY <2>1, <2>2
<1>6. EventsOfTree' /\ Known' = Known
  <2>1. {d \in parents : Names(d) = {}} \in SUBSET Dirs
    BY <1>3
  <2> HIDE DEF parents
  <2> QED  BY <1>1, <2>1, watchIsNoNews
<1> HIDE DEF In, parents
<1>7. \A d : Names(d)' = Names(d) \cup In(d)
  <2>1. /\ DOMAIN mFiles' = DOMAIN mFiles \cup {Slash(d) : d \in parents}
        /\ \A d : Slash(d) \in DOMAIN mFiles' => mFiles'[Slash(d)] = Names(d) \cup In(d)
    BY <1>1 DEF Slash
  <2>2. \A d : Slash(d) \notin DOMAIN mFiles' => Names(d) = {} /\ In(d) = {} /\ Names(d)' = {}
    BY <1>4, <2>1 DEF Names
  <2>3. \A d : Slash(d) \in DOMAIN mFiles' => Names(d)' = mFiles'[Slash(d)]
    BY DEF Names
  <2> QED  BY <2>1, <2>2, <2>3
<1>8. TreeClosed' /\ PathsOfTree' /\ BusyUnwatched' /\ ScansAreRight' /\ ReportIsRight'
  BY <1>1 DEF TreeClosed, PathsOfTree, BusyUnwatched, ScansAreRight, ReportIsRight, NoReport, Path
<1>9. ASSUME NEW f \in (Files \cap Scannable) \ escaped', manager = "up"
      PROVE  FollowedOf(f)'
  <2>1. EventsOf(f) = {} /\ EventsOf(f)' = {}
    BY <1>1, <1>6 DEF EventsOf, Known, BusyUnwatched
  <2>2. f \in Names(Up[f])' <=> f \in Names(Up[f]) \/ Path(f) \in report.paths
    BY <1>5, <1>7
  <2>3. Final(f)' <=> Path(f) \in added \/ (Path(f) \notin removed /\ f \in Names(Up[f])')
    BY <1>1, <2>1 DEF Final, Path
  <2>4. Final(f) <=> Path(f) \in added \/ (Path(f) \notin removed /\ f \in Names(Up[f]))
    BY <2>1 DEF Final
  <2>5. CASE f \in escaped
    BY <1>1, <1>9, <2>2, <2>3, <2>5 DEF FollowedOf
  <2>6. CASE f \notin escaped
    <3>1. FollowedOf(f)
      BY <1>9, <2>6 DEF Followed
    <3>2. CASE Path(f) \in report.paths
      <4>1. f \in disk
        BY <1>1, <1>9, <3>2 DEF ReportIsRight
      <4>2. Path(f) \in added \/ Path(f) \notin removed
        BY <2>4, <3>1, <4>1 DEF FollowedOf, Unheard
      <4> QED  BY <1>1, <2>2, <2>3, <3>2, <4>1, <4>2 DEF FollowedOf
    <3>3. CASE Path(f) \notin report.paths
      <4>1. ToBeFound(f) => ToBeFound(f)'
        BY <1>1, <3>3 DEF ToBeFound, Finds, Path, Below
      <4> QED  BY <1>1, <2>1, <2>2, <3>1, <3>3, <4>1, NoNews DEF Path
    <3> QED  BY <3>2, <3>3
  <2> QED  BY <2>5, <2>6
<1>10. Followed'
  BY <1>1, <1>9 DEF Followed, Scannable, Below
<1> QED  BY <1>6, <1>8, <1>10

\* A scan more finds no less.
LEMMA recurseDirsFinds ==
    ASSUME IInv, recurseDirs
    PROVE  /\ \A i \in DOMAIN scans' : (i \in DOMAIN scans /\ scans'[i] = scans[i]) \/ scans'[i] = NewScan
           /\ \A i \in DOMAIN scans : i \in DOMAIN scans' /\ scans'[i] = scans[i]
<1>1. scans \in Seq(Scans) /\ scans' = Append(scans, NewScan)
  BY DEF recurseDirs, IInv, TypeInv, ManagerTypes
<1>2. Len(scans) \in Nat /\ DOMAIN scans = 1..Len(scans) /\ DOMAIN scans' = 1..(Len(scans) + 1)
  BY <1>1, NewScanIsScan
<1>3. \A i \in 1..(Len(scans) + 1) : scans'[i] = IF i = Len(scans) + 1 THEN NewScan ELSE scans[i]
  BY <1>1, NewScanIsScan
<1> QED  BY <1>2, <1>3

\* FileManager takes a path that says nothing of a file, and has the tree scanned.
LEMMA recurseDirsFollows ==
    ASSUME IInv, FollowInv, recurseDirs, NEW path, path[2] \notin Files,
           UNCHANGED <<disk, events, inotify, mWatched, generation, manager, report, mFiles, escaped>>,
           \/ added' = added \ {path} /\ removed' = removed
           \/ removed' = removed \ {path} /\ added' = added
    PROVE  FollowInv'
<1> USE DEF FollowInv, HistoryInv
<1>1. TreeClosed' /\ PathsOfTree' /\ BusyUnwatched' /\ ReportIsRight'
  BY DEF TreeClosed, PathsOfTree, BusyUnwatched, ReportIsRight, Path
<1>2. EventsOfTree'
  BY DEF EventsOfTree
<1>3. ScansAreRight'
  <2>1. NewScan.paths = {}
    BY DEF NewScan
  <2> QED  BY <2>1, recurseDirsFinds DEF ScansAreRight, Path
<1>4. ASSUME NEW f \in (Files \cap Scannable) \ escaped, manager = "up"
      PROVE  FollowedOf(f)'
  <2>1. FollowedOf(f)
    BY <1>4 DEF Followed
  <2>2. EventsOf(f)' = EventsOf(f) /\ Names(Up[f])' = Names(Up[f])
    BY DEF EventsOf, Known, Names
  <2>3. Path(f) # path
    BY DEF Path
  <2>4. ToBeFound(f) => ToBeFound(f)'
    <3>1. ASSUME NEW i \in DOMAIN scans, Finds(scans[i], f)
          PROVE  ToBeFound(f)'
      <4>1. i \in DOMAIN scans' /\ scans'[i] = scans[i]
        BY recurseDirsFinds
      <4> QED  BY <3>1, <4>1 DEF ToBeFound, Finds, Path, Below
    <3> QED  BY <3>1 DEF ToBeFound, Path
  <2> QED  BY <2>1, <2>2, <2>3, <2>4, NoNews DEF Path
<1>5. Followed'
  BY <1>4 DEF Followed, Scannable, Below
<1> QED  BY <1>1, <1>2, <1>3, <1>5

LEMMA onFileAddedFollows ==
    ASSUME IInv, FollowInv, NEW path \in added, onFileAdded(path)
    PROVE  FollowInv'
<1> USE DEF FollowInv, HistoryInv
<1> DEFINE parent == parentDir(path)
<1>1. path \in EventPaths /\ parent \in Dirs /\ path[2] \in Entries \cup {""}
  BY NamedHaveParents DEF IInv, TypeInv, WatcherTypes
<1>2. added' = added \ {path} /\ removed = {} /\ UNCHANGED <<disk, events, removed, manager, report, escaped>>
  BY DEF onFileAdded
<1>3. CASE /\ Filter(path, {}) = "Directory" /\ recurseDirs
           /\ UNCHANGED <<inotify, mWatched, generation, mFiles>>
  <2>1. isDir(path)
    BY <1>3 DEF Filter
  <2>2. path[2] \notin Files
    BY <2>1, TreeAssumption DEF isDir
  <2> QED  BY <1>2, <1>3, <2>2, recurseDirsFollows
<1>4. CASE /\ ~report.busy /\ UNCHANGED scans
           /\ watch(IF Names(parent) = {} THEN {parent} ELSE {})
           /\ mFiles' = WithNames(parent, Names(parent) \cup {path[2]})
  <2> DEFINE ds == IF Names(parent) = {} THEN {parent} ELSE {}
             names == Names(parent) \cup {path[2]}
  <2>1. ds \in SUBSET Dirs /\ names \in SUBSET (Entries \cup {""})
    BY <1>1 DEF IInv, TypeInv, MapTypes, Names
  <2>2. watch(ds) /\ mFiles' = WithNames(parent, names)
    BY <1>4
  <2> HIDE DEF ds, names, parent
  <2>3. \A c : Names(c)' = IF c = parent THEN names ELSE Names(c)
    BY <1>1, <2>1, <2>2, WithNamesGives DEF IInv, TypeInv, parent
  <2>4. EventsOfTree' /\ Known' = Known
    BY <1>2, <2>1, <2>2, watchIsNoNews
  <2>5. TreeClosed' /\ PathsOfTree' /\ BusyUnwatched' /\ ScansAreRight' /\ ReportIsRight'
    BY <1>2, <1>4 DEF TreeClosed, PathsOfTree, BusyUnwatched, ScansAreRight, ReportIsRight, Path
  <2>6. ASSUME NEW f \in (Files \cap Scannable) \ escaped, manager = "up"
        PROVE  FollowedOf(f)'
    <3>1. FollowedOf(f)
      BY <2>6 DEF Followed
    <3>2. EventsOf(f)' = EventsOf(f)
      BY <1>2, <2>4 DEF EventsOf
    <3>3. CASE Path(f) = path
      <4>1. path[2] = f /\ parent = Up[f] /\ f # ""
        BY <3>3, TreeAssumption DEF Path, parentDir, parent
      <4>2. f \in Names(Up[f])'
        BY <2>3, <4>1 DEF names
      <4>3. Final(f)' <=> Final(f)
        BY <1>2, <3>2, <3>3, <4>2 DEF Final, Path
      <4> QED  BY <1>2, <3>1, <3>3, <4>3 DEF FollowedOf, Unheard
    <3>4. CASE Path(f) # path
      <4>1. path[2] # f
        BY <3>4 DEF PathsOfTree
      <4>2. f \in Names(Up[f])' <=> f \in Names(Up[f])
        BY <2>3, <4>1 DEF names
      <4>3. ToBeFound(f) => ToBeFound(f)'
        BY <1>2, <1>4 DEF ToBeFound, Finds, Path, Below
      <4> QED  BY <1>2, <3>1, <3>2, <3>4, <4>2, <4>3, NoNews DEF Path
    <3> QED  BY <3>3, <3>4
  <2>7. Followed'
    BY <1>2, <2>6 DEF Followed, Scannable, Below
  <2> QED  BY <2>4, <2>5, <2>7
<1> QED  BY <1>3, <1>4 DEF onFileAdded

\* The name goes, and the last one takes the watch with it: with what was queued for it.
LEMMA onFileRemovedFollows ==
    ASSUME IInv, FollowInv, NEW path \in removed, onFileRemoved(path)
    PROVE  FollowInv'
<1> USE DEF FollowInv, HistoryInv
<1> DEFINE parent == parentDir(path)
           left == Names(parent) \ {path[2]}
<1>1. path \in EventPaths /\ parent \in Dirs
  BY NamedHaveParents DEF IInv, TypeInv, WatcherTypes
<1>2. /\ removed' = removed \ {path} /\ ~report.busy
      /\ UNCHANGED <<disk, events, added, manager, report>>
  BY DEF onFileRemoved
<1>3. CASE /\ path \in DOMAIN mFiles /\ recurseDirs
           /\ UNCHANGED <<inotify, mWatched, generation, mFiles, escaped>>
  <2>1. path[2] \notin Files
    <3>1. PICK d \in Dirs : path = Slash(d)
      BY <1>3 DEF IInv, TypeInv, MapTypes
    <3> QED  BY <3>1, TreeAssumption DEF Slash
  <2> QED  BY <1>2, <1>3, <2>1, recurseDirsFollows
<1>4. ASSUME UNCHANGED scans, \A c : Names(c)' = IF c = parent THEN left ELSE Names(c),
             EventsOfTree', escaped \subseteq escaped',
             \A f \in Files \ escaped' : EventsOf(f)' = EventsOf(f)
      PROVE  FollowInv'
  <2>1. TreeClosed' /\ PathsOfTree' /\ BusyUnwatched' /\ ScansAreRight' /\ ReportIsRight'
    BY <1>2, <1>4 DEF TreeClosed, PathsOfTree, BusyUnwatched, ScansAreRight, ReportIsRight, Path
  <2>2. ASSUME NEW f \in (Files \cap Scannable) \ escaped', manager = "up"
        PROVE  FollowedOf(f)'
    <3>1. FollowedOf(f) /\ EventsOf(f)' = EventsOf(f)
      BY <1>4, <2>2 DEF Followed
    <3>2. CASE Path(f) = path
      <4>1. path[2] = f /\ parent = Up[f] /\ f # ""
        BY <3>2, TreeAssumption DEF Path, parentDir
      <4>2. f \notin Names(Up[f])'
        BY <1>4, <4>1
      <4>3. Final(f)' <=> Final(f)
        BY <1>2, <3>1, <3>2, <4>2 DEF Final, Path
      <4> QED  BY <1>2, <3>1, <3>2, <4>3 DEF FollowedOf, Unheard
    <3>3. CASE Path(f) # path
      <4>1. path[2] # f
        BY <3>3 DEF PathsOfTree
      <4>2. f \in Names(Up[f])' <=> f \in Names(Up[f])
        BY <1>4, <4>1
      <4>3. ToBeFound(f) => ToBeFound(f)'
        BY <1>2, <1>4 DEF ToBeFound, Finds, Path, Below
      <4> QED  BY <1>2, <3>1, <3>3, <4>2, <4>3, NoNews DEF Path
    <3> QED  BY <3>2, <3>3
  <2>3. Followed'
    BY <1>2, <1>4, <2>2 DEF Followed, Scannable, Below
  <2> QED  BY <1>4, <2>1, <2>3
<1>5. CASE /\ left = {} /\ unwatch({parent}) /\ UNCHANGED scans
           /\ escaped' = escaped \cup QueuedFor({wd \in mWatched : wd[1] = parent})
           /\ mFiles' = [k \in DOMAIN mFiles \ {Slash(parent)} |-> mFiles[k]]
  <2>1. EventsOfTree' /\ Known' = {i \in Known : events[i].wd[1] \notin {parent}}
    BY <1>2, <1>5, unwatchIsNoNews
  <2>2. \A c : Names(c)' = IF c = parent THEN left ELSE Names(c)
    <3>1. \A c : Slash(c) \in DOMAIN mFiles' <=> Slash(c) \in DOMAIN mFiles /\ c # parent
      BY <1>5, SlashIsInjective
    <3>2. \A c : Slash(c) \in DOMAIN mFiles' => mFiles'[Slash(c)] = mFiles[Slash(c)]
      BY <1>5
    <3> QED  BY <1>5, <3>1, <3>2 DEF Names
  <2>3. ASSUME NEW f \in Files \ escaped', NEW i \in EventsOf(f), i \notin EventsOf(f)'
        PROVE  FALSE
    <3>1. i \in DOMAIN events /\ events[i].wd \in mWatched /\ events[i].name = f
      BY DEF EventsOf, Known
    <3>2. events[i].wd[1] = parent
      BY <1>2, <2>1, <2>3 DEF EventsOf
    <3> QED  BY <1>5, <3>1, <3>2 DEF QueuedFor
  <2>4. \A f \in Files \ escaped' : EventsOf(f)' = EventsOf(f)
    BY <1>2, <2>1, <2>3 DEF EventsOf
  <2> QED  BY <1>4, <1>5, <2>1, <2>2, <2>4
<1>6. CASE /\ mFiles' = WithNames(parent, left) /\ UNCHANGED <<scans, mWatched, generation, escaped>>
  <2>1. left \in SUBSET (Entries \cup {""})
    BY DEF IInv, TypeInv, MapTypes, Names
  <2> HIDE DEF parent, left
  <2>2. \A c : Names(c)' = IF c = parent THEN left ELSE Names(c)
    BY <1>1, <1>6, <2>1, WithNamesGives DEF IInv, TypeInv, parent
  <2>3. EventsOfTree' /\ Known' = Known
    BY <1>2, <1>6 DEF EventsOfTree, Known
  <2>4. \A f \in Files \ escaped' : EventsOf(f)' = EventsOf(f)
    BY <1>2, <2>3 DEF EventsOf
  <2> QED  BY <1>4, <1>6, <2>2, <2>3, <2>4
<1> QED  BY <1>3, <1>5, <1>6 DEF onFileRemoved

\* However changes are batched and the slots interleave with the scans.
THEOREM FollowInvariant == Spec => []FollowInv
<1>1. Init => FollowInv
  BY InitFollows
<1>2. IInv /\ FollowInv /\ [Next]_vars => FollowInv'
  BY DiskFollows, ReadEventsFollows, FillFilesFollows, UnloadFollows, ScanDirFollows, ScanFinishedFollows,
     ScanFinishedTooLateFollows, onFileAddedFollows, onFileRemovedFollows, StutterFollows
  DEF Next, Entries
<1> QED  BY <1>1, <1>2, FileTreeInvariant, PTL DEF Spec

\* For any tree, any filters and any number of changes and scans: once no scan runs,
\* the map with what is on its way is the disk, for every file that a scan can reach
\* and no change of which escaped (FileSystemWatcher::notifyReadyRead(), FileManager).
THEOREM MapFollowsDiskHolds == Spec => []MapFollowsDisk
<1>1. FollowInv => MapFollowsDisk
  <2> SUFFICES ASSUME FollowInv, manager = "up", scans = <<>>, ~report.busy,
                      NEW f \in (Files \cap Scannable) \ escaped
               PROVE  Final(f) <=> f \in disk
    BY DEF MapFollowsDisk
  <2>1. FollowedOf(f)
    BY DEF FollowInv, Followed
  <2>2. ~ToBeFound(f)
    BY DEF ToBeFound
  <2> QED  BY <2>1, <2>2 DEF FollowedOf, Unheard
<1> QED  BY <1>1, FollowInvariant, PTL

---------------------------------------------------------------------------
(* FindFileJob::execute(): the loop over the files is a fold, which tells  *)
(* of each step how it follows from the one before.                        *)

\* A function may be defined on the subsets of a finite set by taking away one
\* element after another.
Picks(pick, S) ==
    pick \in [(SUBSET S) \ {{}} -> S] /\ \A s \in (SUBSET S) \ {{}} : pick[s] \in s
TakesAway(f, S, Acc, base, step, pick) ==
    /\ f \in [SUBSET S -> Acc] /\ f[{}] = base
    /\ \A s \in (SUBSET S) \ {{}} : f[s] = step[<<f[s \ {pick[s]}], pick[s]>>]

LEMMA RecursionOnSubsets ==
    ASSUME NEW S, IsFiniteSet(S), NEW Acc, NEW base \in Acc,
           NEW step \in [Acc \X S -> Acc], NEW pick, Picks(pick, S)
    PROVE  \E f : TakesAway(f, S, Acc, base, step, pick)
<1> DEFINE Small(n) == {s \in SUBSET S : Cardinality(s) <= n}
           Value(f, s) == IF s = {} THEN base ELSE step[<<f[s \ {pick[s]}], pick[s]>>]
           Defined(n) == \E f \in [Small(n) -> Acc] : \A s \in Small(n) : f[s] = Value(f, s)
           Missing == {n \in Nat : ~Defined(n)}
<1>0. pick \in [(SUBSET S) \ {{}} -> S] /\ \A s \in (SUBSET S) \ {{}} : pick[s] \in s
  BY DEF Picks
<1>1. \A s \in SUBSET S : /\ IsFiniteSet(s) /\ Cardinality(s) \in Nat
                          /\ Cardinality(s) <= Cardinality(S)
                          /\ Cardinality(s) = 0 <=> s = {}
  BY FS_Subset, FS_CardinalityType, FS_EmptySet
<1>2. \A s \in (SUBSET S) \ {{}} : /\ s \ {pick[s]} \in SUBSET S
                                   /\ Cardinality(s \ {pick[s]}) = Cardinality(s) - 1
  BY <1>0, <1>1, FS_RemoveElement
<1>3. Defined(0)
  <2> DEFINE f == [s \in Small(0) |-> base]
  <2>1. \A s \in Small(0) : s = {}
    <3> TAKE s \in Small(0)
    <3>1. Cardinality(s) \in Nat /\ Cardinality(s) <= 0
      BY <1>1
    <3>2. Cardinality(s) = 0
      BY <3>1
    <3> QED  BY <1>1, <3>2
  <2>2. f \in [Small(0) -> Acc] /\ \A s \in Small(0) : f[s] = Value(f, s)
    BY <2>1
  <2> QED  BY <2>2
<1>4. ASSUME NEW n \in Nat, Defined(n) PROVE Defined(n + 1)
  <2>1. PICK f \in [Small(n) -> Acc] : \A s \in Small(n) : f[s] = Value(f, s)
    BY <1>4
  <2> DEFINE g == [s \in Small(n + 1) |-> Value(f, s)]
  <2>2. \A s \in Small(n) : s \in Small(n + 1)
    <3> TAKE s \in Small(n)
    <3>1. Cardinality(s) \in Nat /\ Cardinality(s) <= n
      BY <1>1
    <3>2. Cardinality(s) <= n + 1
      BY <3>1
    <3> QED  BY <3>2
  <2>3. \A s \in Small(n + 1) : s # {} => s \ {pick[s]} \in Small(n) /\ pick[s] \in S
    <3> SUFFICES ASSUME NEW s \in Small(n + 1), s # {}
                 PROVE  s \ {pick[s]} \in Small(n) /\ pick[s] \in S
      OBVIOUS
    <3>0. pick[s] \in S
      BY <1>0
    <3>1. Cardinality(s) \in Nat /\ Cardinality(s) <= n + 1
      BY <1>1
    <3>2. s \ {pick[s]} \in SUBSET S /\ Cardinality(s \ {pick[s]}) = Cardinality(s) - 1
      BY <1>2
    <3>3. Cardinality(s) - 1 <= n
      BY <3>1
    <3> QED  BY <3>0, <3>2, <3>3
  <2>4. \A s \in Small(n + 1) : Value(f, s) \in Acc
    <3> TAKE s \in Small(n + 1)
    <3>1. CASE s = {}
      BY <3>1
    <3>2. CASE s # {}
      <4>1. f[s \ {pick[s]}] \in Acc /\ pick[s] \in S
        BY <2>3, <3>2
      <4> QED  BY <3>2, <4>1
    <3> QED  BY <3>1, <3>2
  <2>5. g \in [Small(n + 1) -> Acc]
    BY <2>4
  <2>6. \A s \in Small(n) : g[s] = f[s]
    BY <2>1, <2>2
  <2>7. \A s \in Small(n + 1) : g[s] = Value(g, s)
    <3> TAKE s \in Small(n + 1)
    <3>1. g[s] = Value(f, s)
      OBVIOUS
    <3> HIDE DEF g
    <3>2. CASE s = {}
      BY <3>1, <3>2
    <3>3. CASE s # {}
      <4>1. g[s \ {pick[s]}] = f[s \ {pick[s]}]
        BY <2>3, <2>6, <3>3
      <4> QED  BY <3>1, <4>1
    <3> QED  BY <3>2, <3>3
  <2> HIDE DEF g, Value
  <2> QED  BY <2>5, <2>7
<1> HIDE DEF Defined
<1>5. Missing = {}
  <2> SUFFICES ASSUME Missing # {} PROVE FALSE
    OBVIOUS
  <2>1. PICK m \in Missing : \A j \in Missing : m <= j
    BY LeastNumber
  <2>2. m \in Nat /\ m # 0 /\ ~Defined(m)
    BY <1>3, <2>1
  <2>3. m - 1 \in Nat /\ ~(m <= m - 1) /\ m = (m - 1) + 1
    BY <2>2
  <2>4. Defined(m - 1)
    BY <2>1, <2>3
  <2>5. Defined((m - 1) + 1)
    BY <1>4, <2>3, <2>4
  <2> QED  BY <2>2, <2>3, <2>5
<1>6. Defined(Cardinality(S))
  BY <1>5, FS_CardinalityType
<1>7. Small(Cardinality(S)) = SUBSET S
  BY <1>1
<1>8. PICK f \in [SUBSET S -> Acc] : \A s \in SUBSET S : f[s] = Value(f, s)
  <2> HIDE DEF Small, Value
  <2> QED  BY <1>6, <1>7 DEF Defined
<1>9. f[{}] = base /\ \A s \in (SUBSET S) \ {{}} : f[s] = step[<<f[s \ {pick[s]}], pick[s]>>]
  BY <1>8
<1> QED  BY <1>8, <1>9 DEF TakesAway
Seen == [foundExact : BOOLEAN, matches : SUBSET Files, written : SUBSET Files]

LEMMA VisitSees ==
    ASSUME NEW preferExact \in BOOLEAN, NEW sofar \in Seen, NEW f \in Files
    PROVE  Visit(preferExact, sofar, f) \in Seen
  BY DEF Visit, Seen

\* The loop over the files as a sequence of what it has seen.
LEMMA LoopVisits ==
    ASSUME NEW preferExact \in BOOLEAN, NEW s \in Seq(Files)
    PROVE  \E h \in [0..Len(s) -> Seen] :
              /\ h[0] = NothingYet
              /\ \A k \in 1..Len(s) : h[k] = Visit(preferExact, h[k - 1], s[k])
              /\ h[Len(s)] = FoldLeft(LAMBDA sofar, f : Visit(preferExact, sofar, f), NothingYet, s)
<1> DEFINE I == DOMAIN s
           step == [x \in Seen \X I |-> Visit(preferExact, x[1], s[x[2]])]
           pick == [p \in (SUBSET I) \ {{}} |-> Max(p)]
           Body(f) == [p \in SUBSET I |->
                        IF p = {} THEN NothingYet
                        ELSE Visit(preferExact, f[p \ {Max(p)}], s[Max(p)])]
           iter == CHOOSE f : f = Body(f)
<1>1. Len(s) \in Nat /\ I = 1..Len(s) /\ IsFiniteSet(I) /\ \A k \in I : s[k] \in Files
  BY LenProperties, ElementOfSeq, FS_Interval
<1>2. \A p \in (SUBSET I) \ {{}} : Max(p) \in p /\ \A k \in p : Max(p) >= k
  <2> TAKE p \in (SUBSET I) \ {{}}
  <2>1. \E m \in p : \A k \in p : m >= k
    BY <1>1, LastOf
  <2> QED  BY <2>1 DEF Max
<1>3. pick \in [(SUBSET I) \ {{}} -> I] /\ \A p \in (SUBSET I) \ {{}} : pick[p] \in p
  BY <1>2
<1>4. step \in [Seen \X I -> Seen]
  BY <1>1, VisitSees
<1>5. NothingYet \in Seen
  BY DEF NothingYet, Seen
<1>6. PICK g : TakesAway(g, I, Seen, NothingYet, step, pick)
  <2>1. Picks(pick, I)
    BY <1>3 DEF Picks
  <2> HIDE DEF I, step, pick, Body, iter
  <2> QED  BY <1>1, <1>4, <1>5, <2>1, RecursionOnSubsets, Zenon
<1>7. g = Body(g)
  <2>0. /\ g \in [SUBSET I -> Seen] /\ g[{}] = NothingYet
        /\ \A p \in (SUBSET I) \ {{}} : g[p] = step[<<g[p \ {pick[p]}], pick[p]>>]
    BY <1>6 DEF TakesAway
  <2>1. ASSUME NEW p \in SUBSET I
        PROVE  g[p] = IF p = {} THEN NothingYet ELSE Visit(preferExact, g[p \ {Max(p)}], s[Max(p)])
    <3>1. CASE p = {}
      BY <2>0, <3>1
    <3>2. CASE p # {}
      <4>1. pick[p] = Max(p) /\ Max(p) \in I
        BY <1>2, <3>2
      <4>2. p \ {Max(p)} \in SUBSET I
        OBVIOUS
      <4>3. <<g[p \ {Max(p)}], Max(p)>> \in Seen \X I
        BY <2>0, <4>1, <4>2
      <4>4. step[<<g[p \ {Max(p)}], Max(p)>>] = Visit(preferExact, g[p \ {Max(p)}], s[Max(p)])
        BY <4>3
      <4> QED  BY <2>0, <3>2, <4>1, <4>4
    <3> QED  BY <3>1, <3>2
  <2> QED  BY <2>0, <2>1
<1>8. iter = Body(iter)
  <2> HIDE DEF Body
  <2> QED  BY <1>7
<1>9. FoldLeft(LAMBDA sofar, f : Visit(preferExact, sofar, f), NothingYet, s) = iter[I]
  BY DEF FoldLeft, MapThenFoldSet
<1> HIDE DEF iter
<1>10. \A k \in Nat : k <= Len(s) => 1..k \in SUBSET I
  BY <1>1
<1>11. iter[1..0] = NothingYet
  <2>1. 1..0 = {}
    OBVIOUS
  <2>2. iter[{}] = Body(iter)[{}]
    BY <1>8
  <2> QED  BY <2>1, <2>2
<1>12. \A k \in 1..Len(s) : iter[1..k] = Visit(preferExact, iter[1..(k - 1)], s[k])
  <2> TAKE k \in 1..Len(s)
  <2>1. k \in Nat /\ 1..k \in SUBSET I /\ 1..k # {} /\ k \in 1..k
    <3>1. k \in Nat /\ k <= Len(s) /\ k \in 1..k
      BY <1>1
    <3> QED  BY <1>10, <3>1
  <2>2. Max(1..k) \in 1..k /\ Max(1..k) >= k
    BY <1>2, <2>1
  <2>3. Max(1..k) = k
    BY <2>1, <2>2
  <2>4. (1..k) \ {k} = 1..(k - 1)
    BY <2>1
  <2>5. iter[1..k] = Body(iter)[1..k]
    BY <1>8
  <2> QED  BY <2>1, <2>3, <2>4, <2>5
<1> DEFINE h == [k \in 0..Len(s) |-> iter[1..k]]
<1>13. h[0] = NothingYet /\ \A k \in 1..Len(s) : h[k] = Visit(preferExact, h[k - 1], s[k])
  <2>1. 0 \in 0..Len(s) /\ \A k \in 1..Len(s) : k \in 0..Len(s) /\ k - 1 \in 0..Len(s)
    BY <1>1
  <2> QED  BY <1>11, <1>12, <2>1
<1>14. h[Len(s)] = FoldLeft(LAMBDA sofar, f : Visit(preferExact, sofar, f), NothingYet, s)
  <2>1. Len(s) \in 0..Len(s) /\ 1..Len(s) = I
    BY <1>1
  <2> QED  BY <1>9, <2>1
<1>15. h \in [0..Len(s) -> Seen]
  <2> DEFINE Bad == {k \in 0..Len(s) : h[k] \notin Seen}
  <2> HIDE DEF h
  <2>1. SUFFICES ASSUME Bad # {} PROVE FALSE
    BY DEF h
  <2>2. PICK k \in Bad : \A j \in Bad : k <= j
    <3>1. Bad \in SUBSET Nat
      BY <1>1
    <3> HIDE DEF Bad
    <3> QED  BY <2>1, <3>1, LeastNumber
  <2>3. k \in Nat /\ k <= Len(s) /\ k # 0
    BY <1>1, <1>5, <1>13, <2>2
  <2>4. k - 1 \in 0..Len(s) /\ ~(k <= k - 1) /\ k \in 1..Len(s)
    BY <1>1, <2>3
  <2>5. h[k - 1] \in Seen
    BY <2>2, <2>4
  <2> QED  BY <1>1, <1>13, <2>2, <2>4, <2>5, VisitSees
<1> HIDE DEF h
<1> QED  BY <1>13, <1>14, <1>15

\* What the loop has seen and done with the first files.
Upto(s, k) == {s[j] : j \in 1..k}
LoopDid(preferExact, seen, F) ==
    IF preferExact /\ Exact \cap F # {}
    THEN seen = [foundExact |-> TRUE, matches |-> {}, written |-> Exact \cap F]
    ELSE seen = [foundExact |-> FALSE,
                 matches |-> IF preferExact THEN Containing \cap F ELSE {},
                 written |-> IF preferExact THEN {} ELSE Containing \cap F]

LEMMA VisitDoes ==
    ASSUME NEW preferExact \in BOOLEAN, NEW F \in SUBSET Files, NEW f \in Files, NEW seen,
           LoopDid(preferExact, seen, F)
    PROVE  LoopDid(preferExact, Visit(preferExact, seen, f), F \cup {f})
<1> DEFINE G == F \cup {f}
           v == Visit(preferExact, seen, f)
<1>0. f \in Exact => f \in Containing
  BY NamesAssumption
<1>1. CASE ~preferExact
  <2>1. seen = [foundExact |-> FALSE, matches |-> {}, written |-> Containing \cap F]
    BY <1>1 DEF LoopDid
  <2>2. v = [foundExact |-> FALSE, matches |-> {}, 
             written |-> (Containing \cap F) \cup (IF f \in Containing THEN {f} ELSE {})]
    BY <1>1, <2>1 DEF Visit
  <2>3. Containing \cap G = (Containing \cap F) \cup (IF f \in Containing THEN {f} ELSE {})
    OBVIOUS
  <2> QED  BY <1>1, <2>2, <2>3 DEF LoopDid
<1>2. CASE preferExact /\ Exact \cap F # {}
  <2>1. seen = [foundExact |-> TRUE, matches |-> {}, written |-> Exact \cap F]
    BY <1>2 DEF LoopDid
  <2>2. v = [foundExact |-> TRUE, matches |-> {},
             written |-> (Exact \cap F) \cup (IF f \in Exact THEN {f} ELSE {})]
    BY <1>0, <1>2, <2>1 DEF Visit
  <2>3. Exact \cap G = (Exact \cap F) \cup (IF f \in Exact THEN {f} ELSE {}) /\ Exact \cap G # {}
    BY <1>2
  <2> QED  BY <1>2, <2>2, <2>3 DEF LoopDid
<1>3. CASE preferExact /\ Exact \cap F = {} /\ f \in Exact
  <2>1. seen = [foundExact |-> FALSE, matches |-> Containing \cap F, written |-> {}]
    BY <1>3 DEF LoopDid
  <2>2. v = [foundExact |-> TRUE, matches |-> {}, written |-> {f}]
    BY <1>0, <1>3, <2>1 DEF Visit
  <2>3. Exact \cap G = {f}
    BY <1>3
  <2> QED  BY <1>3, <2>2, <2>3 DEF LoopDid
<1>4. CASE preferExact /\ Exact \cap F = {} /\ f \notin Exact
  <2>1. seen = [foundExact |-> FALSE, matches |-> Containing \cap F, written |-> {}]
    BY <1>4 DEF LoopDid
  <2>2. v = [foundExact |-> FALSE, written |-> {},
             matches |-> (Containing \cap F) \cup (IF f \in Containing THEN {f} ELSE {})]
    BY <1>4, <2>1 DEF Visit
  <2>3. /\ Exact \cap G = {}
        /\ Containing \cap G = (Containing \cap F) \cup (IF f \in Containing THEN {f} ELSE {})
    BY <1>4
  <2> QED  BY <1>4, <2>2, <2>3 DEF LoopDid
<1> QED  BY <1>1, <1>2, <1>3, <1>4

\* Whatever the order in which the set hands out the files.
LEMMA FilesInSequence ==
    /\ SetToSeq(AllFiles) \in Seq(Files)
    /\ Upto(SetToSeq(AllFiles), Len(SetToSeq(AllFiles))) = AllFiles
<1> DEFINE n == Cardinality(AllFiles)
           s == SetToSeq(AllFiles)
<1>1. AllFiles \subseteq Files /\ IsFiniteSet(AllFiles) /\ n \in Nat
  <2>1. AllFiles \subseteq Files /\ AllFiles \subseteq Dirs \cup Files
    BY DEF AllFiles
  <2> QED  BY <2>1, FiniteAssumption, FS_Subset, FS_CardinalityType
<1>2. \E f \in [1..n -> AllFiles] : IsInjective(f)
  <2>1. PICK f : f \in Bijection(1..n, AllFiles)
    BY <1>1, FS_CardinalityType DEF ExistsBijection
  <2> QED  BY <2>1 DEF Bijection, Injection, IsInjective
<1>3. s \in [1..n -> AllFiles] /\ IsInjective(s)
  BY <1>2 DEF SetToSeq
<1> HIDE DEF s
<1>4. s \in Seq(AllFiles) /\ s \in Seq(Files) /\ Len(s) = n
  BY <1>1, <1>3, SeqDef, LenProperties
<1>5. s \in Surjection(1..n, AllFiles)
  <2>1. s \in Injection(1..n, AllFiles)
    BY <1>3 DEF Injection
  <2>2. Cardinality(1..n) = n
    BY <1>1, FS_Interval
  <2> QED  BY <1>1, <2>1, <2>2, FS_Injection
<1>6. Upto(s, n) = AllFiles
  BY <1>3, <1>5 DEF Upto, Surjection
<1> QED  BY <1>4, <1>6 DEF s

LEMMA FindFileFinds ==
    ASSUME NEW preferExact \in BOOLEAN
    PROVE  FindFile(preferExact) = IF preferExact /\ Exact \cap AllFiles # {}
                                   THEN Exact \cap AllFiles ELSE Containing \cap AllFiles
<1> DEFINE s == SetToSeq(AllFiles)
           end == FoldLeft(LAMBDA sofar, f : Visit(preferExact, sofar, f), NothingYet, s)
<1>1. s \in Seq(Files) /\ Upto(s, Len(s)) = AllFiles
  BY FilesInSequence
<1>2. FindFile(preferExact) = end.written \cup end.matches
  BY DEF FindFile
<1> HIDE DEF s
<1>3. PICK h \in [0..Len(s) -> Seen] :
         /\ h[0] = NothingYet
         /\ \A k \in 1..Len(s) : h[k] = Visit(preferExact, h[k - 1], s[k])
         /\ h[Len(s)] = end
  BY <1>1, LoopVisits
<1> HIDE DEF end
<1>4. Len(s) \in Nat /\ \A k \in 1..Len(s) : s[k] \in Files
  BY <1>1, LenProperties, ElementOfSeq
<1> DEFINE Bad == {k \in 0..Len(s) : ~LoopDid(preferExact, h[k], Upto(s, k))}
<1>5. Bad = {}
  <2> SUFFICES ASSUME Bad # {} PROVE FALSE
    OBVIOUS
  <2>1. PICK k \in Bad : \A j \in Bad : k <= j
    <3>1. Bad \in SUBSET Nat
      BY <1>4
    <3> HIDE DEF Bad
    <3> QED  BY <3>1, LeastNumber
  <2>2. k # 0
    <3>1. LoopDid(preferExact, NothingYet, {})
      BY DEF LoopDid, NothingYet
    <3>2. Upto(s, 0) = {}
      BY DEF Upto
    <3> QED  BY <1>3, <2>1, <3>1, <3>2
  <2>3. k \in 1..Len(s) /\ k - 1 \in 0..Len(s) /\ ~(k <= k - 1)
    BY <1>4, <2>1, <2>2
  <2>4. LoopDid(preferExact, h[k - 1], Upto(s, k - 1))
    BY <2>1, <2>3
  <2>5. Upto(s, k) = Upto(s, k - 1) \cup {s[k]}
    <3>1. 1..k = 1..(k - 1) \cup {k}
      BY <2>3
    <3> QED  BY <3>1 DEF Upto
  <2>6. Upto(s, k - 1) \in SUBSET Files
    BY <1>4, <2>3 DEF Upto
  <2>7. LoopDid(preferExact, h[k], Upto(s, k))
    BY <1>3, <1>4, <2>3, <2>4, <2>5, <2>6, VisitDoes
  <2> QED  BY <2>1, <2>7
<1>6. LoopDid(preferExact, end, AllFiles)
  <2>1. Len(s) \in 0..Len(s)
    BY <1>4
  <2> QED  BY <1>1, <1>3, <1>5, <2>1
<1> QED  BY <1>2, <1>6 DEF LoopDid

\* find-file with FindFilePreferExact writes the exact matches if there are any, and
\* everything that contains the pattern otherwise, for any number of files and in
\* whatever order the map has them (FindFileJob::execute()).
THEOREM FindFilePrefersExactHolds == Spec => []FindFilePrefersExact
<1>1. FindFilePrefersExact
  BY FindFileFinds DEF FindFilePrefersExact
<1> QED  BY <1>1, PTL
===========================================================================

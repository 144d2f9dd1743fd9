----------------------------- MODULE FileTree -----------------------------
(***************************************************************************)
(* The file map of a project and the watches that keep it up to date: the  *)
(* FileManager, the ScanJobs it starts on the thread pool, and the         *)
(* FileSystemWatcher of the Linux build with the kernel's queue of inotify *)
(* events behind it (src/src/FileManager.cpp, ScanJob.cpp,                 *)
(* FileSystemWatcher_inotify.cpp, Path.cpp, Filter.h), and the query that  *)
(* reads the map (FindFileJob.cpp).                                        *)
(*                                                                         *)
(* A path is a pair: the directory and the name in it.  <<d, "">> is the   *)
(* directory d written with its final slash, which is how the file map     *)
(* and the watcher call it; <<Up[d], d>> is the same without the slash,    *)
(* which is how the kernel and readdir() do.                               *)
(***************************************************************************)
EXTENDS Naturals, Sequences, FiniteSets, SequencesExt

CONSTANTS Dirs, Files,     \* the names of directories and of files
          Root,            \* Project::path()
          Up,              \* the directory a file or a directory is in
          Excluded,        \* what rdm's exclude filters match
          Containing,      \* files whose path contains a find-file pattern
          Exact,           \* those of them that the pattern names exactly
          MaxChanges       \* bound: changes of the file system

ASSUME TreeAssumption ==
  /\ Root \in Dirs /\ Dirs \cap Files = {} /\ "" \notin Dirs \cup Files
  /\ Up \in [(Files \cup Dirs) \ {Root} -> Dirs]
ASSUME NamesAssumption ==
  /\ Excluded \subseteq (Files \cup Dirs) \ {Root}
  /\ Exact \subseteq Containing /\ Containing \subseteq Files
ASSUME ChangesAssumption == MaxChanges \in Nat
ASSUME FiniteAssumption == IsFiniteSet(Dirs \cup Files)

VARIABLES
  disk,       \* the files and directories there are
  changes,    \* how often that has changed
  \* the kernel; a descriptor is <<directory, n>> and is never used again
  inotify,    \* the live watches
  events,     \* the events nobody has read: descriptor, mask, name
  \* FileSystemWatcher
  mWatched,   \* mWatchedByPath and mWatchedById: a descriptor for each directory
  generation, \* the n of the next descriptor
  removed, added,  \* what notifyReadyRead() has still to tell
  \* FileManager and its ScanJobs
  manager,    \* "up", "deleted", or "undefined" once a deleted one was called
  scans,      \* the running ScanJobs
  report,     \* the result that onRecurseJobFinished() works on
  mFiles,     \* Project::mFiles: names, by directory
  \* history
  escaped     \* files with a change that no event and no scan can tell

watcherVars == <<mWatched, generation, removed, added>>
managerVars == <<manager, scans, report, mFiles>>
vars == <<disk, changes, inotify, events, watcherVars, managerVars, escaped>>

Path(n) == <<Up[n], n>>
Slash(d) == <<d, "">>
parentDir(path) == IF path[2] = "" THEN Up[path[1]] ELSE path[1]
isDir(path) == (IF path[2] = "" THEN path[1] ELSE path[2]) \in Dirs \cap disk

FilesIn(d) == {f \in Files \cap disk : Up[f] = d}
DirsIn(d) == {s \in (Dirs \ {Root}) \cap disk : Up[s] = d}

Filter(path, filters) ==
  IF path[1] \in filters \/ path[2] \in filters THEN "Filtered"
  ELSE IF isDir(path) THEN "Directory" ELSE "File"

\* mFiles.value(d); an entry that is there and empty is as good as none.
Names(d) == IF Slash(d) \in DOMAIN mFiles THEN mFiles[Slash(d)] ELSE {}
WithNames(d, names) == [k \in DOMAIN mFiles \cup {Slash(d)} |->
                          IF k = Slash(d) THEN names ELSE mFiles[k]]

Watched == {wd[1] : wd \in mWatched}
Descriptors(ds) == {<<d, generation>> : d \in ds}

NoReport == [paths |-> {}, stale |-> {}, busy |-> FALSE]
NewScan == [todo |-> <<Root>>, paths |-> {}, seen |-> {}, stale |-> {}]

\* History: the files whose events are queued for one of these descriptors.
QueuedFor(wds) == {events[e].name : e \in {i \in DOMAIN events : events[i].wd \in wds}} \cap Files

\* Project::init() has made the FileManager, and init() its first scan.
Init ==
  /\ disk \in {{Root} \cup T : T \in SUBSET ((Files \cup Dirs) \ {Root})}
  /\ \A n \in disk \ {Root} : Up[n] \in disk
  /\ changes = 0 /\ inotify = {} /\ events = <<>>
  /\ mWatched = {} /\ generation = 1 /\ removed = {} /\ added = {}
  /\ manager = "up" /\ scans = <<NewScan>> /\ report = NoReport /\ mFiles = <<>>
  /\ escaped = {}

-----------------------------------------------------------------------------
(* The file system and the kernel: a change in a directory is queued for   *)
(* its live watch, if there is one.                                         *)

Queue(d, mask, n) == SetToSeq({[wd |-> wd, mask |-> mask, name |-> n] :
                                 wd \in {w \in inotify : w[1] = d}})

\* History: a change that no watch in the tables hears of escapes; a scan that has
\* read the directory before will report what was there.
NoteChange(n) ==
  LET Old(job) == [job EXCEPT !.stale = @ \cup {n}] IN
  /\ escaped' = IF \E wd \in mWatched \cap inotify : wd[1] = Up[n]
                THEN escaped ELSE escaped \cup {n}
  /\ scans' = [i \in DOMAIN scans |-> IF Up[n] \in scans[i].seen THEN Old(scans[i]) ELSE scans[i]]
  /\ report' = IF report.busy THEN Old(report) ELSE report

Change(n) ==
  /\ changes < MaxChanges /\ manager # "undefined" /\ Up[n] \in disk
  /\ changes' = changes + 1
  /\ NoteChange(n)
  /\ UNCHANGED <<watcherVars, manager, mFiles>>

\* A file or a directory is made in, or moved into, its directory.
Create(n) ==
  /\ Change(n) /\ n \notin disk
  /\ disk' = disk \cup {n}
  /\ events' = events \o Queue(Up[n], "IN_CREATE", n)
  /\ UNCHANGED inotify

RemoveFile(f) ==
  /\ Change(f) /\ f \in disk
  /\ disk' = disk \ {f}
  /\ events' = events \o Queue(Up[f], "IN_DELETE", f)
  /\ UNCHANGED inotify

\* The kernel drops its watch of a directory that is gone.
RemoveDir(d) ==
  /\ Change(d) /\ d \in disk /\ FilesIn(d) = {} /\ DirsIn(d) = {}
  /\ disk' = disk \ {d}
  /\ events' = events \o Queue(Up[d], "IN_DELETE", d) \o Queue(d, "IN_DELETE_SELF", "")
  /\ inotify' = {wd \in inotify : wd[1] # d}

-----------------------------------------------------------------------------
(* FileSystemWatcher                                                       *)

\* watch(): nothing for a path that is in the tables or not on the disk.
watch(ds) ==
  LET new == Descriptors((ds \cap disk) \ Watched) IN
  /\ mWatched' = mWatched \cup new
  /\ inotify' = inotify \cup new
  /\ UNCHANGED generation

\* mutant of unwatch: the kernel is not told
UnwatchTables(ds) ==
  /\ mWatched' = {wd \in mWatched : wd[1] \notin ds}
  /\ UNCHANGED inotify
  /\ generation' = IF Watched \cap ds = {} THEN generation ELSE generation + 1

\* unwatch(), and with Watched for ds clear(); the kernel forgets the watches,
\* and events that are queued for them will be of an unknown descriptor.
unwatch(ds) ==
  /\ mWatched' = {wd \in mWatched : wd[1] \notin ds}
  /\ inotify' = inotify \ {wd \in mWatched : wd[1] \in ds}
  /\ generation' = IF Watched \cap ds = {} THEN generation ELSE generation + 1

\* The queued events of known descriptors, by their place in the queue, and the
\* path each one names.  Of an unknown descriptor an event would be about a file
\* of the empty path, which FileManager refuses.
Known == {i \in DOMAIN events : events[i].wd \in mWatched}
Deletions == {i \in Known : events[i].mask = "IN_DELETE"}
Named(i) == <<events[i].wd[1], events[i].name>>
NamedBy(places) == {Named(i) : i \in places}

\* mutant of Additions: a deleted path stays among the added ones
AdditionsKept == Known \ Deletions

\* A deletion takes its path out of the added ones, a later creation puts it in
\* again.  A directory that is itself deleted is, oddly, an added path.
Additions == {i \in Known \ Deletions : \A j \in Deletions : j > i => Named(j) # Named(i)}

\* notifyReadyRead(), under mMutex: everything that is queued is read at once.
ReadEvents ==
  /\ events # <<>> /\ removed = {} /\ added = {} /\ manager = "up"
  /\ removed' = NamedBy(Deletions) /\ added' = NamedBy(Additions)
  /\ events' = <<>>
  /\ UNCHANGED <<disk, changes, inotify, mWatched, generation, managerVars, escaped>>

-----------------------------------------------------------------------------
(* ScanJob::run() on a pool thread: visit() reads one directory after the  *)
(* other, the subdirectories of each when it is closed.                    *)

Visited(d, result) == {n \in FilesIn(d) \cup DirsIn(d) : Filter(Path(n), Excluded) = result}

ScanDir(i) ==
  /\ i \in DOMAIN scans /\ scans[i].todo # <<>>
  /\ LET job == scans[i]
         d   == Head(job.todo)
     IN scans' = [scans EXCEPT ![i] =
          [job EXCEPT !.todo  = SetToSeq(Visited(d, "Directory")) \o Tail(job.todo),
                      !.paths = job.paths \cup {Path(f) : f \in Visited(d, "File")},
                      !.seen  = job.seen \cup {d}]]
  /\ UNCHANGED <<disk, changes, inotify, events, watcherVars, manager, report, mFiles, escaped>>

\* FileManager::recurseDirs()
recurseDirs == scans' = Append(scans, NewScan)

\* onRecurseJobFinished(), called on the pool thread: with the lock of mFiles it
\* first clears all watches, without the watcher's mutex.
ScanFinished(i) ==
  /\ i \in DOMAIN scans /\ scans[i].todo = <<>> /\ manager = "up" /\ ~report.busy
  /\ scans' = RemoveAt(scans, i)
  /\ report' = [paths |-> scans[i].paths, stale |-> scans[i].stale, busy |-> TRUE]
  /\ unwatch(Watched)
  /\ escaped' = escaped \cup QueuedFor(mWatched)
  /\ UNCHANGED <<disk, changes, events, removed, added, manager, mFiles>>

\* The job's signal is still connected to a FileManager that unload() deleted.
ScanFinishedTooLate(i) ==
  /\ i \in DOMAIN scans /\ scans[i].todo = <<>> /\ manager = "deleted"
  /\ manager' = "undefined"
  /\ scans' = RemoveAt(scans, i)
  /\ UNCHANGED <<disk, changes, inotify, events, watcherVars, report, mFiles, escaped>>

\* Only directories that are new to mFiles are watched; nothing is taken out.
FillFiles ==
  /\ report.busy
  /\ LET parents == {parentDir(p) : p \in report.paths}
         all == [k \in DOMAIN mFiles \cup {Slash(d) : d \in parents} |->
                   Names(k[1]) \cup {p[2] : p \in {q \in report.paths : parentDir(q) = k[1]}}]
         Wrong(f) == (Path(f) \in report.paths \/ f \in Names(Up[f])) # (f \in disk)
     IN /\ watch({d \in parents : Names(d) = {}})
        /\ mFiles' = all
        /\ escaped' = {f \in escaped : Wrong(f) \/ Path(f) \in added \cup removed}
                        \cup {f \in report.stale \cap Files : Path(f) \in report.paths}
  /\ report' = NoReport
  /\ UNCHANGED <<disk, changes, events, generation, removed, added, manager, scans>>

-----------------------------------------------------------------------------
(* FileManager's slots on the event loop; both wait for the lock of mFiles. *)

onFileAdded(path) ==
  /\ path \in added /\ removed = {} /\ manager = "up"
  /\ added' = added \ {path}
  /\ \/ /\ Filter(path, {}) = "Directory"
        /\ recurseDirs
        /\ UNCHANGED <<inotify, mWatched, generation, mFiles>>
     \/ /\ Filter(path, {}) = "File" /\ ~report.busy
        /\ LET parent == parentDir(path)
           IN /\ watch(IF Names(parent) = {} THEN {parent} ELSE {})
              /\ mFiles' = WithNames(parent, Names(parent) \cup {path[2]})
        /\ UNCHANGED scans
  /\ UNCHANGED <<disk, changes, events, removed, manager, report, escaped>>

\* A path that the kernel names never ends with a slash, the keys of mFiles do.
onFileRemoved(path) ==
  /\ path \in removed /\ manager = "up" /\ ~report.busy
  /\ removed' = removed \ {path}
  /\ IF path \in DOMAIN mFiles
     THEN recurseDirs /\ UNCHANGED <<inotify, mWatched, generation, mFiles, escaped>>
     ELSE LET parent == parentDir(path)
              left == Names(parent) \ {path[2]}
          IN /\ UNCHANGED scans
             /\ IF path[2] \in Names(parent) /\ left = {}
                THEN /\ unwatch({parent})
                     /\ escaped' = escaped \cup QueuedFor({wd \in mWatched : wd[1] = parent})
                     /\ mFiles' = [k \in DOMAIN mFiles \ {Slash(parent)} |-> mFiles[k]]
                ELSE /\ mFiles' = WithNames(parent, left)
                     /\ UNCHANGED <<inotify, mWatched, generation, escaped>>
  /\ UNCHANGED <<disk, changes, events, added, manager, report>>

\* Project::unload() deletes the FileManager, and with it the watcher.
Unload ==
  /\ manager = "up" /\ removed = {} /\ added = {} /\ ~report.busy
  /\ manager' = "deleted"
  /\ mWatched' = {} /\ inotify' = {} /\ events' = <<>>
  /\ UNCHANGED <<disk, changes, generation, removed, added, scans, report, mFiles, escaped>>

Next ==
  \/ \E n \in (Files \cup Dirs) \ {Root} : Create(n)
  \/ \E f \in Files : RemoveFile(f)
  \/ \E d \in Dirs \ {Root} : RemoveDir(d)
  \/ ReadEvents \/ FillFiles \/ Unload
  \/ \E i \in DOMAIN scans : ScanDir(i) \/ ScanFinished(i) \/ ScanFinishedTooLate(i)
  \/ \E path \in added : onFileAdded(path)
  \/ \E path \in removed : onFileRemoved(path)

Spec == Init /\ [][Next]_vars
-----------------------------------------------------------------------------
(* FindFileJob::execute(): the paths it writes.  With FindFilePreferExact   *)
(* matches are kept back until the first exact one, and then forgotten.     *)

AllFiles == {f \in Files : f \in Names(Up[f])}

\* mutant of FindFile: what was kept back is written after the exact matches
FindFileKeep(preferExact) ==
  IF preferExact /\ Exact \cap AllFiles # {} THEN AllFiles \cap Containing
  ELSE Containing \cap AllFiles

Visit(preferExact, sofar, f) ==
  LET exact == preferExact /\ f \in Exact
      ok    == f \in Containing /\ (exact \/ ~sofar.foundExact)
      found == sofar.foundExact \/ exact
  IN [foundExact |-> found,
      matches |-> (IF exact /\ ~sofar.foundExact THEN {} ELSE sofar.matches)
                     \cup (IF ok /\ preferExact /\ ~found THEN {f} ELSE {}),
      written |-> sofar.written \cup (IF ok /\ ~(preferExact /\ ~found) THEN {f} ELSE {})]

NothingYet == [foundExact |-> FALSE, matches |-> {}, written |-> {}]

FindFile(preferExact) ==
  LET end == FoldLeft(LAMBDA sofar, f : Visit(preferExact, sofar, f), NothingYet,
                      SetToSeq(AllFiles))
  IN end.written \cup end.matches

-----------------------------------------------------------------------------
(* Properties                                                              *)

\* What a scan finds that has still to read d: what is below d, with nothing on the
\* way that the filters exclude.
Below(d) ==
  LET Closed(X) == \A n \in (Files \cup Dirs) \ {Root} :
                      Up[n] \in X /\ {n, Up[n]} \cap Excluded = {} => n \in X
  IN {n \in Files \cup Dirs : \A X \in SUBSET (Files \cup Dirs) : d \in X /\ Closed(X) => n \in X}

Scannable == Below(Root)

\* What notifyReadyRead() will have told of a file once the queue is read, and
\* FileManager will have made of it: the last event counts.
EventsOf(f) == {i \in Known : events[i].name = f}
Final(f) ==
  IF EventsOf(f) # {}
  THEN \E i \in EventsOf(f) : events[i].mask = "IN_CREATE" /\ \A j \in EventsOf(f) : j <= i
  ELSE Path(f) \in added \/ (Path(f) \notin removed /\ f \in Names(Up[f]))

\* The tables of the watcher: one descriptor for a directory, no live watch in the
\* kernel that the tables do not know (it could never be removed), and a watch only
\* for a directory that has an entry with names, whose end takes the watch along.
WatchTables ==
  /\ \A v, w \in mWatched : v[1] = w[1] => v = w
  /\ inotify \subseteq mWatched
  /\ \A d \in Watched : Names(d) # {}
  /\ \A k \in DOMAIN mFiles : k[2] = "" /\ mFiles[k] \subseteq Files \cup Dirs \cup {""}

\* While no scan runs, what mFiles has of a file that no filter hides and what is on
\* its way add up to the disk, however changes are batched and the slots interleave with scans -- unless a
\* change of the file escaped: its directory was not watched, its event was queued
\* for a watch that was taken away, or a scan reported what had been removed
\* (FileSystemWatcher::notifyReadyRead(), FileManager's slots).
MapFollowsDisk ==
  (manager = "up" /\ scans = <<>> /\ ~report.busy) =>
    \A f \in (Files \cap Scannable) \ escaped : Final(f) <=> f \in disk

\* find-file with FindFilePreferExact writes the exact matches if there are any and
\* everything that contains the pattern if there are none; without it always the
\* latter (FindFileJob::execute()).
FindFilePrefersExact ==
  LET known == AllFiles IN
  /\ FindFile(FALSE) = Containing \cap known
  /\ FindFile(TRUE) = IF Exact \cap known # {} THEN Exact \cap known ELSE Containing \cap known
=============================================================================

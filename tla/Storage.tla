------------------------------ MODULE Storage ------------------------------
(***************************************************************************)
(* What rdm keeps on disk and finds again when it starts: the table of     *)
(* file ids ("fileids") and one file per project, and the life of the      *)
(* projects themselves, which are made by compile commands, selected,      *)
(* unloaded, deleted, cleared and reloaded (src/src/Server.cpp,            *)
(* Project.cpp, Location.h, RTags.h).                                      *)
(*                                                                         *)
(* A project file holds nothing but ids, so it means something only        *)
(* together with the right table.  rdm may end between any two steps, and  *)
(* a file that is open for writing is then left torn.  What a project has  *)
(* is abstracted to the sources it was told about and the files its        *)
(* symbols come from, as pairs of an id and the path the id stood for;     *)
(* indexing is a job that ends well or not.                                *)
(***************************************************************************)
EXTENDS Naturals, Sequences, FiniteSets, SequencesExt

CONSTANTS
  ProjectOrder,  \* the roots of the projects in the order of mProjects
  Sources,       \* source files
  Header,        \* a file all of them include
  RootOf,        \* GccArguments::projectRoot() of each source
  MaxInputs,     \* bound: requests, deletions of files and ends of rdm
  NoPath         \* a null Path or project

Projects == ToSet(ProjectOrder)
Paths == Sources \cup {Header}
Ids == 1..Cardinality(Paths)

ASSUME RootsAssumption == RootOf \in [Sources -> Projects] /\ NoPath \notin Projects \cup Paths
ASSUME BoundsAssumption == MaxInputs \in Nat /\ Header \notin Sources
ASSUME SourcesAssumption == IsFiniteSet(Sources)
\* RTags::encodePath() writes this token for a "_": a root that has it itself would
\* come back as another (RTags.h:93).
ASSUME NamesAssumption ==
  /\ ProjectOrder \in Seq(Seq(STRING))
  /\ \A p \in Projects : \A k \in DOMAIN p : p[k] # "<underscore>"

VARIABLES
  \* the disk
  fileids,          \* the file of that name in the data directory
  files,            \* the other files there, by their encoded names
  present,          \* which sources exist
  \* Location
  sPathsToIds, sIdsToPaths, sLastId,
  \* Server
  alive,            \* is rdm running?
  mProjects, mCurrentProject, mRestoreProjects,
  project,          \* the Project objects, by their root
  saving,           \* the step of save() the event loop is in, and for whom
  \* for the properties
  told,             \* by project, the existing sources that were saved and not deleted
  idsLost,          \* has rdm started with project files and without their table?
  forgotten,        \* has it reloaded projects that it will not restore?
  inputs

diskVars == <<fileids, files, present>>
locationVars == <<sPathsToIds, sIdsToPaths, sLastId>>
serverVars == <<alive, mProjects, mCurrentProject, mRestoreProjects>>
histVars == <<told, idsLost, forgotten>>
storageVars == <<diskVars, locationVars, serverVars, project, saving, histVars, inputs>>

---------------------------------------------------------------------------
(* Files.  A path is a sequence of tokens; "<underscore>" is one of them.  *)

\* Swaps the separators only.                                      a mutant
EncodeSlashes(path) == [k \in DOMAIN path |-> IF path[k] = "/" THEN "_" ELSE path[k]]

\* RTags::encodePath() for a root without "<underscore>", and its inverse.
encodePath(path) ==
    [k \in DOMAIN path |-> CASE path[k] = "/" -> "_"
                             [] path[k] = "_" -> "<underscore>"
                             [] OTHER -> path[k]]
decodePath(name) ==
    [k \in DOMAIN name |-> CASE name[k] = "_" -> "/"
                             [] name[k] = "<underscore>" -> "_"
                             [] OTHER -> name[k]]

Names == {encodePath(p) : p \in Projects} \cup {EncodeSlashes(p) : p \in Projects}

\* A file is absent, torn (its size field is not its size) or whole.
Absent == [state |-> "absent"]
Torn == [state |-> "torn"]
Table(pathsToIds) == [state |-> "whole", pathsToIds |-> pathsToIds]
Database(r) == [state |-> "whole", sources |-> r.sources, deps |-> r.deps]

IdsOf(pairs) == {s[1] : s \in pairs}
PathsOf(pairs) == {s[2] : s \in pairs}

---------------------------------------------------------------------------
(* Location.                                                               *)

NoIds == [p \in Paths |-> 0]

NextId == sLastId + 1

\* Location::insertFile()
InsertFile(p) ==
    IF sPathsToIds[p] # 0 THEN UNCHANGED locationVars
    ELSE /\ sPathsToIds' = [sPathsToIds EXCEPT ![p] = NextId]
         /\ sIdsToPaths' = [sIdsToPaths EXCEPT ![NextId] = p]
         /\ sLastId' = NextId

\* Location::init()
LocationInit(pathsToIds) ==
    LET known == {p \in Paths : pathsToIds[p] # 0}
    IN  /\ sPathsToIds' = pathsToIds
        /\ sLastId' = Cardinality(known)
        /\ sIdsToPaths' = [i \in Ids |-> IF \E p \in known : pathsToIds[p] = i
                                         THEN CHOOSE p \in known : pathsToIds[p] = i
                                         ELSE NoPath]

---------------------------------------------------------------------------
(* Projects.                                                               *)

\* Project::Project()
NewProject == [isValid |-> FALSE, sources |-> {}, deps |-> {}, jobs |-> {}, pending |-> {},
               timer |-> FALSE]

\* Project::index() for some sources of a project: their results that wait are
\* dropped, the finish timer runs.  A source that is being indexed keeps its
\* job, which starts again.
Index(r, pairs) ==
    IF pairs = {} THEN r
    ELSE [r EXCEPT !.sources = {s \in @ : s[1] \notin IdsOf(pairs)} \cup pairs,
                   !.jobs = @ \cup pairs, !.pending = @ \ pairs, !.timer = TRUE]

\* restore() erases a source that has disappeared through it++ and then marks
\* it->first as modified: the source behind it.
NextOf(pairs, gone) ==
    {s \in pairs : \E g \in gone : /\ g[1] < s[1]
                                   /\ ~\E r \in pairs : g[1] < r[1] /\ r[1] < s[1]}

\* What restore() can make of a project: the sources that changed while rdm
\* did not watch them are indexed again, and so is any source whose id happens
\* to be read behind the end of mSources.
Restored(r, file) ==
    LET gone == {s \in file.sources : s[2] \in Sources \ present}
        kept == file.sources \ gone
        restored == [r EXCEPT !.sources = kept, !.deps = file.deps]
    IN  {Index(restored, changed \cup (NextOf(file.sources, gone) \cap kept)) :
           changed \in SUBSET kept}

\* Takes an unloaded project as it is.                              a mutant
LoadUnread(p, r) == {[r EXCEPT !.isValid = TRUE]}

\* Server::loadProject(), Project::init()
Load(p, r) ==
    LET valid == [r EXCEPT !.isValid = TRUE]
        file == files[encodePath(p)]
    IN  IF ~r.isValid /\ mRestoreProjects /\ file.state = "whole" THEN Restored(valid, file)
        ELSE {valid}

\* restore() removes a file that it refuses.
FilesAfterLoad(p, r) ==
    IF ~r.isValid /\ mRestoreProjects /\ files[encodePath(p)].state = "torn"
    THEN [files EXCEPT ![encodePath(p)] = Absent] ELSE files

\* Server::setCurrentProject()
SetCurrentProject(p) ==
    /\ mCurrentProject' = p
    /\ \E r \in Load(p, project[p]) : project' = [project EXCEPT ![p] = r]
    /\ files' = FilesAfterLoad(p, project[p])

\* Project::unload()
Unloaded(r) == [r EXCEPT !.isValid = FALSE, !.jobs = {}]

---------------------------------------------------------------------------
(* rdm starts and ends.                                                    *)

NotSaving == [step |-> 0, project |-> NoPath]
Idle == alive /\ saving = NotSaving
Input == inputs < MaxInputs /\ inputs' = inputs + 1
Request == Idle /\ Input

WholeFiles == {n \in Names : files[n].state = "whole"}

StorageInit ==
    /\ fileids = Absent /\ files = [n \in Names |-> Absent] /\ present = Sources
    /\ sPathsToIds = NoIds /\ sIdsToPaths = [i \in Ids |-> NoPath] /\ sLastId = 0
    /\ alive = FALSE /\ mProjects = {} /\ mCurrentProject = NoPath /\ mRestoreProjects = FALSE
    /\ project = [p \in Projects |-> NewProject] /\ saving = NotSaving
    /\ told = [p \in Projects |-> {}] /\ idsLost = FALSE /\ forgotten = FALSE
    /\ inputs = 0

\* Server::restoreFileIds(): a table that is not whole is left alone.
restoreFileIds(file) ==
    /\ mRestoreProjects' = (file.state = "whole")
    /\ LocationInit(IF file.state = "whole" THEN file.pathsToIds ELSE NoIds)

\* Server::reloadProjects(): a project for each file that can be read.  All
\* others are gone, and nobody's project is the current one.
ReloadProjects ==
    /\ mProjects' = {p \in Projects : \E n \in WholeFiles' : decodePath(n) = p}
    /\ project' = [p \in Projects |-> NewProject]
    /\ mCurrentProject' = NoPath

\* main() and Server::init(): clearProjects() with --clean-slate,
\* restoreFileIds(), reloadProjects().
Start(cleanSlate) ==
    /\ ~alive
    /\ alive' = TRUE
    /\ IF cleanSlate THEN fileids' = Absent /\ files' = [n \in Names |-> Absent]
                     ELSE UNCHANGED <<fileids, files>>
    /\ restoreFileIds(fileids')
    /\ ReloadProjects
    /\ told' = IF cleanSlate THEN [p \in Projects |-> {}] ELSE told
    /\ idsLost' = (~cleanSlate /\ (idsLost \/ (~mRestoreProjects' /\ WholeFiles # {})))
    /\ forgotten' = (~cleanSlate /\ forgotten)
    /\ UNCHANGED <<present, saving, inputs>>

\* rdm ends: by a shutdown query, a signal or a crash.  Nothing is saved; a
\* project file that was open for writing is lost.
Stop ==
    /\ alive /\ Input
    /\ alive' = FALSE
    /\ mProjects' = {} /\ mCurrentProject' = NoPath /\ mRestoreProjects' = FALSE
    /\ project' = [p \in Projects |-> NewProject] /\ saving' = NotSaving
    /\ sPathsToIds' = NoIds /\ sIdsToPaths' = [i \in Ids |-> NoPath] /\ sLastId' = 0
    /\ told' = [p \in Projects |-> IF files[encodePath(p)].state = "torn" THEN {} ELSE told[p]]
    /\ UNCHANGED <<diskVars, idsLost, forgotten>>

---------------------------------------------------------------------------
(* Indexing.                                                               *)

\* Server::processSourceFile()
Compile(f) ==
    LET p == RootOf[f]
        old == IF p \in mProjects THEN project[p] ELSE NewProject
    IN  /\ Request /\ f \in present
        /\ InsertFile(f)
        /\ mProjects' = mProjects \cup {p}
        /\ mCurrentProject' = IF mCurrentProject = NoPath THEN p ELSE mCurrentProject
        /\ files' = FilesAfterLoad(p, old)
        /\ \E r \in Load(p, old) :
             LET source == <<sPathsToIds'[f], f>>
             IN  project' = [project EXCEPT ![p] =
                               IF source \in r.sources THEN r ELSE Index(r, {source})]
        /\ UNCHANGED <<fileids, present, alive, mRestoreProjects, saving, histVars>>

\* A source is indexed again because something it includes has changed or
\* because a query asks for it.  The watcher does not mind an unloaded project.
Reindex(p) ==
    /\ Request /\ p \in mProjects
    /\ \E s \in project[p].sources : project' = [project EXCEPT ![p] = Index(@, {s})]
    /\ UNCHANGED <<diskVars, locationVars, serverVars, saving, histVars>>

\* A job meets the header: Location::insertFile() takes only its own lock.
VisitHeader(p) ==
    /\ alive /\ project[p].jobs # {} /\ sPathsToIds[Header] = 0
    /\ InsertFile(Header)
    /\ UNCHANGED <<diskVars, serverVars, project, saving, histVars, inputs>>

\* Project::onJobFinished(), for a job that was not aborted or that aborted
\* itself; save() has the project's mutex.
JobEnds(p, s, ok) ==
    /\ alive /\ s \in project[p].jobs
    /\ saving.project # p
    /\ ok => sPathsToIds[Header] # 0
    /\ project' = [project EXCEPT ![p].jobs = @ \ {s}, ![p].timer = TRUE,
                                  ![p].pending = IF ok THEN @ \cup {s} ELSE @]
    /\ UNCHANGED <<diskVars, locationVars, serverVars, saving, histVars, inputs>>

\* The finish timer: finish() and, when no job is left, write().
FinishTimeout(p) ==
    /\ Idle /\ p \in mProjects /\ project[p].timer
    /\ IF project[p].jobs = {}
       THEN LET headers == IF project[p].pending = {} THEN {}
                           ELSE {<<sPathsToIds[Header], Header>>}
            IN  /\ project' = [project EXCEPT ![p].timer = FALSE, ![p].pending = {},
                                 ![p].deps = @ \cup project[p].pending \cup headers]
                /\ saving' = [step |-> 1, project |-> p]
       ELSE project' = [project EXCEPT ![p].timer = FALSE] /\ saving' = saving
    /\ UNCHANGED <<diskVars, locationVars, serverVars, histVars, inputs>>

---------------------------------------------------------------------------
(* Saving: Server::saveFileIds() and the rest of Project::save().  A file  *)
(* is truncated when it is opened and has its size only at the end.        *)

FileFirst == <<"openFile", "writeFile", "openTable", "writeTable">>  \* a mutant
SaveSteps == <<"openTable", "writeTable", "openFile", "writeFile">>

AtStep(step) == saving.step # 0 /\ SaveSteps[saving.step] = step
NextStep == saving' = IF saving.step = Len(SaveSteps) THEN NotSaving
                      ELSE [saving EXCEPT !.step = @ + 1]
ofSaving == encodePath(saving.project)

OpenTable ==
    /\ AtStep("openTable")
    /\ fileids' = Torn /\ NextStep
    /\ UNCHANGED <<files, told>>

WriteTable ==
    /\ AtStep("writeTable")
    /\ fileids' = Table(sPathsToIds) /\ NextStep
    /\ UNCHANGED <<files, told>>

OpenFile ==
    /\ AtStep("openFile")
    /\ files' = [files EXCEPT ![ofSaving] = Torn] /\ NextStep
    /\ UNCHANGED <<fileids, told>>

WriteFile ==
    /\ AtStep("writeFile")
    /\ files' = [files EXCEPT ![ofSaving] = Database(project[saving.project])] /\ NextStep
    /\ told' = [told EXCEPT ![saving.project] =
                  (@ \cup PathsOf(project[saving.project].sources)) \cap present]
    /\ UNCHANGED fileids

\* A file cannot be opened: save() gives up.
SaveFails ==
    /\ AtStep("openTable") \/ AtStep("openFile")
    /\ saving' = NotSaving
    /\ UNCHANGED <<fileids, files, told>>

Save ==
    /\ alive
    /\ OpenTable \/ WriteTable \/ OpenFile \/ WriteFile \/ SaveFails
    /\ UNCHANGED <<present, locationVars, serverVars, project, idsLost, forgotten, inputs>>

---------------------------------------------------------------------------
(* Queries about projects.                                                 *)

Position(p) == CHOOSE k \in DOMAIN ProjectOrder : ProjectOrder[k] = p

\* Server::selectProject() wants exactly one match.
SelectedByMatch(matches) == IF Cardinality(matches) = 1 THEN matches ELSE {}

\* Server::project() with a number that is small enough: the loop does not end
\* at the project it has found and comes out with the last one.
SelectedByIndex(index) ==
    IF index < Cardinality(mProjects)
    THEN {p \in mProjects : \A q \in mProjects : Position(q) <= Position(p)} ELSE {}

\* Server::updateProjectForLocation(): the current project if it has the path,
\* loaded or not, otherwise the first that has it.
SelectedByPath(matches) ==
    IF mCurrentProject \in matches THEN {mCurrentProject}
    ELSE {p \in matches : \A q \in matches : Position(p) <= Position(q)}

\* Any query may change the current project.
Select(p) ==
    /\ Request /\ p # mCurrentProject
    /\ \/ \E matches \in SUBSET mProjects :
            p \in SelectedByMatch(matches) \cup SelectedByPath(matches)
       \/ \E index \in 0..Cardinality(Projects) : p \in SelectedByIndex(index)
    /\ SetCurrentProject(p)
    /\ UNCHANGED <<fileids, present, locationVars, alive, mProjects, mRestoreProjects,
                   saving, histVars>>

\* The project behind another one in mProjects, none behind the last.
Behind(p) ==
    LET later == {q \in mProjects : Position(p) < Position(q)}
    IN  {q \in later : \A r \in later : Position(q) <= Position(r)}

\* A shared pointer keeps what is deleted.                          a mutant
KeepCurrent(matches, unload) == {mCurrentProject}

\* removeProject() has moved its iterator on when it compares it with the
\* current project, and for the last project reads behind the map.  A deleted
\* project does not stay current: mCurrentProject is a weak pointer.
CurrentAfter(matches, unload) ==
    IF \/ \E p \in matches : Behind(p) = {mCurrentProject}
       \/ ~unload /\ mCurrentProject \in matches
    THEN {NoPath}
    ELSE {mCurrentProject} \cup (IF \E p \in matches : Behind(p) = {} THEN {NoPath} ELSE {})

WithoutFiles(matches) ==
    [n \in Names |-> IF \E p \in matches : n = encodePath(p) THEN Absent ELSE files[n]]

\* Server::removeProject() for those that match.
RemoveProjects(matches, unload) ==
    /\ Request /\ matches # {} /\ matches \subseteq mProjects
    /\ mCurrentProject' \in CurrentAfter(matches, unload)
    /\ project' = [p \in Projects |-> IF p \notin matches THEN project[p]
                                      ELSE IF unload THEN Unloaded(project[p]) ELSE NewProject]
    /\ IF unload THEN UNCHANGED <<files, mProjects, told>>
       ELSE /\ files' = WithoutFiles(matches)
            /\ mProjects' = mProjects \ matches
            /\ told' = [p \in Projects |-> IF p \in matches THEN {} ELSE told[p]]
    /\ UNCHANGED <<fileids, present, locationVars, alive, mRestoreProjects, saving, idsLost,
                   forgotten>>

\* Server::clearProjects(): unloads them all and empties the data directory.
ClearProjects ==
    /\ Request
    /\ project' = [p \in Projects |-> IF p \in mProjects THEN Unloaded(project[p]) ELSE project[p]]
    /\ fileids' = Absent /\ files' = [n \in Names |-> Absent]
    /\ mCurrentProject' = NoPath
    /\ told' = [p \in Projects |-> {}]
    /\ UNCHANGED <<present, locationVars, alive, mProjects, mRestoreProjects, saving, idsLost,
                   forgotten>>

\* The reload query.  What was not saved is gone; what was saved comes back
\* only if fileids was there when rdm started.
ReloadQuery ==
    /\ Request
    /\ UNCHANGED <<diskVars, locationVars, alive, mRestoreProjects, saving, told, idsLost>>
    /\ ReloadProjects
    /\ forgotten' = (forgotten \/ (~mRestoreProjects /\ WholeFiles # {}))

\* A source is deleted from the disk for good.
Disappear(f) ==
    /\ Input /\ f \in present
    /\ present' = present \ {f}
    /\ told' = [p \in Projects |-> told[p] \ {f}]
    /\ UNCHANGED <<fileids, files, locationVars, serverVars, project, saving, idsLost, forgotten>>

StorageNext ==
    \/ \E c \in BOOLEAN : Start(c)
    \/ Stop
    \/ \E f \in Sources : Compile(f) \/ Disappear(f)
    \/ \E p \in Projects : Reindex(p) \/ VisitHeader(p) \/ FinishTimeout(p) \/ Select(p)
    \/ \E p \in Projects, s \in Ids \X Sources, ok \in BOOLEAN : JobEnds(p, s, ok)
    \/ Save
    \/ \E matches \in SUBSET Projects, unload \in BOOLEAN : RemoveProjects(matches, unload)
    \/ ClearProjects \/ ReloadQuery

StorageSpec == StorageInit /\ [][StorageNext]_storageVars

---------------------------------------------------------------------------
Pairs == Ids \X Paths
Whole(n) == files[n].state = "whole"

\* Every variable has its type.
StorageTypeOK ==
    /\ fileids \in {Absent, Torn} \cup {Table(t) : t \in [Paths -> 0..Cardinality(Paths)]}
    /\ \A n \in Names : Whole(n) => files[n].sources \cup files[n].deps \subseteq Pairs
    /\ present \subseteq Sources /\ mProjects \subseteq Projects
    /\ mCurrentProject \in mProjects \cup {NoPath}
    /\ \A p \in Projects : /\ project[p].sources \cup project[p].deps \subseteq Pairs
                           /\ project[p].jobs \cup project[p].pending \subseteq Pairs
                           /\ p \notin mProjects => project[p] = NewProject
    /\ saving = NotSaving \/ (alive /\ saving.step \in DOMAIN SaveSteps /\ saving.project \in mProjects)

\* Unless rdm has once started with project files but without their table, an
\* id means today what it meant when it was stored: in every project, whatever
\* was unloaded, deleted, cleared, reloaded and restored and wherever rdm ended,
\* and in every file on disk, for the table next to it and for the running rdm.
\* A project that broke this would show one file's symbols under another's name.
IdsKeepMeaning ==
    idsLost \/
    /\ \A p \in Projects : \A s \in project[p].sources \cup project[p].deps \cup project[p].jobs :
         sIdsToPaths[s[1]] = s[2] /\ sPathsToIds[s[2]] = s[1]
    /\ \A n \in Names : Whole(n) => \A s \in files[n].sources \cup files[n].deps :
         /\ alive => sIdsToPaths[s[1]] = s[2]
         /\ fileids.state = "whole" => fileids.pathsToIds[s[2]] = s[1]

StillTold ==
    \A p \in Projects :
      /\ Whole(encodePath(p)) => told[p] \subseteq PathsOf(files[encodePath(p)].sources)
      /\ project[p].isValid => told[p] \subseteq PathsOf(project[p].sources)

\* A source that a project has saved stays one of its sources, on disk and in
\* the project once it is loaded, until it or the project is deleted, if rdm
\* started with the table of ids or with no project files: no restart, unload,
\* reload or save in between loses it.
SavedSourcesStay == idsLost \/ forgotten \/ StillTold

\* The same without conditions.  README.org:47 says of a source "you only need
\* to do this once, after that it will monitor the file for changes". Does not
\* hold (README, section 5).
ToldOnce == idsLost \/ StillTold
============================================================================

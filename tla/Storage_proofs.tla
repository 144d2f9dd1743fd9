--------------------------- MODULE Storage_proofs ---------------------------
(***************************************************************************)
(* What is kept on disk keeps its meaning, for any projects, sources and   *)
(* roots and wherever rdm ends.                                            *)
(*                                                                         *)
(* An id is safe on disk because the table is written first: while save()  *)
(* writes a project file, the table on disk already covers all that goes   *)
(* into it.  A saved source is safe because a project that has anything of *)
(* its own (it is loaded, it has sources, jobs or a timer) has at least    *)
(* the sources that were saved, so that no later save() can shorten the    *)
(* file.                                                                   *)
(***************************************************************************)
EXTENDS Storage, FiniteSetTheorems, TLAPS

PairSets == SUBSET Pairs
Tables == [Paths -> 0..Cardinality(Paths)]
TableFiles == {Absent, Torn} \cup {Table(t) : t \in Tables}
Databases == [state : {"whole"}, sources : PairSets, deps : PairSets]
ProjectStates == [isValid : BOOLEAN, sources : PairSets, deps : PairSets, jobs : PairSets,
                  pending : PairSets, timer : BOOLEAN]

---------------------------------------------------------------------------
(* Types, and what a project or rdm does not have while it is away.        *)

DiskTypes ==
    /\ fileids \in TableFiles
    /\ files \in [Names -> {Absent, Torn} \cup Databases]
    /\ present \subseteq Sources

ServerTypes ==
    /\ alive \in BOOLEAN /\ mRestoreProjects \in BOOLEAN
    /\ mProjects \subseteq Projects /\ mCurrentProject \in mProjects \cup {NoPath}
    /\ project \in [Projects -> ProjectStates]
    /\ \A p \in Projects : p \notin mProjects => project[p] = NewProject

SavingTypes ==
    \/ saving = NotSaving
    \/ alive /\ saving \in [step : DOMAIN SaveSteps, project : mProjects]

HistTypes ==
    /\ told \in [Projects -> SUBSET Sources]
    /\ idsLost \in BOOLEAN /\ forgotten \in BOOLEAN

\* A result that waits came from a job that has visited the header.
HeaderKnown == \A p \in Projects : project[p].pending # {} => sPathsToIds[Header] # 0

Down == ~alive => mProjects = {} /\ sPathsToIds = NoIds

---------------------------------------------------------------------------
(* The tables of Location.                                                 *)

Known(t) == {q \in Paths : t[q] # 0}

\* Ids are given out in order, each once.
GoodTable(t) ==
    /\ t \in Tables
    /\ \A q \in Paths : t[q] <= Cardinality(Known(t))
    /\ \A q, r \in Known(t) : t[q] = t[r] => q = r

LocInv ==
    /\ GoodTable(sPathsToIds)
    /\ sLastId = Cardinality(Known(sPathsToIds))
    /\ sIdsToPaths \in [Ids -> Paths \cup {NoPath}]
    /\ \A q \in Known(sPathsToIds) : sIdsToPaths[sPathsToIds[q]] = q
    /\ fileids.state = "whole" => GoodTable(fileids.pathsToIds)

---------------------------------------------------------------------------
(* What the ids mean.                                                      *)

\* All the pairs of a project.
PairsOf(r) == r.sources \cup r.deps \cup r.jobs \cup r.pending
StoredIn(r) == r.sources \cup r.deps

\* The table has these ids for these paths.
Covers(t, pairs) == \A s \in pairs : t[s[2]] = s[1]

MemoryMeans == \A p \in Projects : Covers(sPathsToIds, PairsOf(project[p]))
FilesMean ==
    \A n \in Names : Whole(n) =>
        /\ alive => Covers(sPathsToIds, StoredIn(files[n]))
        /\ fileids.state = "whole" => Covers(fileids.pathsToIds, StoredIn(files[n]))

\* While the project file is written, the table on disk covers it.
SavedTable ==
    saving.step \in {3, 4} =>
        /\ fileids.state = "whole"
        /\ Covers(fileids.pathsToIds, StoredIn(project[saving.project]))

IdInv == idsLost \/ (MemoryMeans /\ FilesMean /\ SavedTable)

---------------------------------------------------------------------------
(* What was saved.                                                         *)

\* What was saved is in a whole file, or in the one that is being written.
ToldIsStored ==
    \A p \in Projects : told[p] # {} =>
        \/ Whole(encodePath(p))
        \/ saving = [step |-> 4, project |-> p] /\ files[encodePath(p)] = Torn

\* A project in use, or one that will not be restored, has what was saved.
InUse(p) ==
    \/ project[p].isValid \/ project[p].timer \/ project[p].jobs # {} \/ project[p].sources # {}
    \/ saving.project = p
    \/ alive /\ ~mRestoreProjects
InUseHaveTold == \A p \in Projects : InUse(p) => told[p] \subseteq PathsOf(project[p].sources)

FilesHaveTold ==
    \A p \in Projects : Whole(encodePath(p)) =>
        told[p] \subseteq PathsOf(files[encodePath(p)].sources)

ToldPresent == \A p \in Projects : told[p] \subseteq present

ToldInv ==
    /\ ToldPresent /\ ToldIsStored
    /\ idsLost \/ forgotten \/ (InUseHaveTold /\ FilesHaveTold)

TypeInv == DiskTypes /\ ServerTypes /\ SavingTypes /\ HistTypes /\ HeaderKnown /\ Down
IInv == TypeInv /\ LocInv /\ IdInv /\ ToldInv

---------------------------------------------------------------------------
(* Names.                                                                  *)

\* Two projects never share a file, and a file's name leads back to its
\* project.
LEMMA NamesTellProjects ==
    /\ \A p \in Projects : encodePath(p) \in Names /\ decodePath(encodePath(p)) = p
    /\ \A p, q \in Projects : encodePath(p) = encodePath(q) => p = q
<1>1. ASSUME NEW p \in Projects
      PROVE  decodePath(encodePath(p)) = p
  <2>1. PICK i \in 1..Len(ProjectOrder) : p = ProjectOrder[i]
    BY DEF Projects, ToSet
  <2>2. p \in Seq(STRING)
    BY <2>1, NamesAssumption
  <2>3. p = [k \in DOMAIN p |-> p[k]]
    BY <2>2
  <2>4. DOMAIN encodePath(p) = DOMAIN p
    BY DEF encodePath
  <2>5. ASSUME NEW k \in DOMAIN p
        PROVE  decodePath(encodePath(p))[k] = p[k]
    <3>1. p[k] # "<underscore>"
      BY <2>5, NamesAssumption
    <3>2. decodePath(encodePath(p))[k] = CASE encodePath(p)[k] = "_" -> "/"
                                           [] encodePath(p)[k] = "<underscore>" -> "_"
                                           [] OTHER -> encodePath(p)[k]
      BY <2>4, <2>5 DEF decodePath
    <3>3. encodePath(p)[k] = CASE p[k] = "/" -> "_"
                               [] p[k] = "_" -> "<underscore>"
                               [] OTHER -> p[k]
      BY <2>5 DEF encodePath
    <3>4. CASE p[k] = "/"
      BY <3>2, <3>3, <3>4
    <3>5. CASE p[k] = "_"
      BY <3>2, <3>3, <3>5
    <3>6. CASE p[k] # "/" /\ p[k] # "_"
      BY <3>1, <3>2, <3>3, <3>6
    <3> QED  BY <3>4, <3>5, <3>6
  <2>6. decodePath(encodePath(p)) = [k \in DOMAIN p |-> decodePath(encodePath(p))[k]]
    BY <2>4 DEF decodePath
  <2> QED  BY <2>3, <2>5, <2>6
<1>2. \A p \in Projects : encodePath(p) \in Names
  BY DEF Names
<1> QED  BY <1>1, <1>2

LEMMA NoPathIsNone == NoPath \notin Projects /\ NoPath \notin Paths
  BY RootsAssumption

LEMMA Steps ==
    /\ DOMAIN SaveSteps = 1..4 /\ Len(SaveSteps) = 4
    /\ SaveSteps[1] = "openTable" /\ SaveSteps[2] = "writeTable"
    /\ SaveSteps[3] = "openFile" /\ SaveSteps[4] = "writeFile"
  BY DEF SaveSteps

---------------------------------------------------------------------------
(* The tables of Location.                                                 *)

LEMMA PathsAreFinite == IsFiniteSet(Paths) /\ Cardinality(Paths) \in Nat
<1>1. IsFiniteSet(Sources \cup {Header})
  BY SourcesAssumption, FS_AddElement
<1> QED  BY <1>1, FS_CardinalityType DEF Paths

LEMMA KnownIsFinite ==
    ASSUME NEW t
    PROVE  /\ IsFiniteSet(Known(t)) /\ Cardinality(Known(t)) \in Nat
           /\ Cardinality(Known(t)) <= Cardinality(Paths)
<1>1. Known(t) \subseteq Paths
  BY DEF Known
<1> QED  BY <1>1, PathsAreFinite, FS_Subset, FS_CardinalityType

LEMMA NoIdsIsGood == GoodTable(NoIds) /\ Cardinality(Known(NoIds)) = 0
<1>1. Known(NoIds) = {}
  BY DEF Known, NoIds
<1>2. Cardinality(Known(NoIds)) = 0
  BY <1>1, FS_EmptySet
<1> QED  BY <1>1, <1>2, PathsAreFinite DEF GoodTable, Tables, NoIds, Known

\* The next id is new, and it is an id.
LEMMA NextIsGood ==
    ASSUME NEW t, GoodTable(t), NEW p \in Paths, t[p] = 0,
           NEW n, n = Cardinality(Known(t)) + 1,
           NEW u, u = [t EXCEPT ![p] = n]
    PROVE  GoodTable(u) /\ n \in Ids /\ Cardinality(Known(u)) = n
<1>0. t \in Tables
  BY DEF GoodTable
<1>1. Known(u) = Known(t) \cup {p} /\ p \notin Known(t)
  <2>1. n # 0
    BY KnownIsFinite
  <2>2. \A q \in Paths : u[q] = IF q = p THEN n ELSE t[q]
    BY <1>0 DEF Tables
  <2> QED  BY <2>1, <2>2 DEF Known
<1>2. Cardinality(Known(u)) = n
  BY <1>1, KnownIsFinite, FS_AddElement
<1>3. n \in 1..Cardinality(Paths)
  BY <1>2, KnownIsFinite, PathsAreFinite
<1>4. u \in Tables
  BY <1>0, <1>3, PathsAreFinite DEF Tables
<1>5. \A q \in Paths : t[q] <= n - 1 /\ t[q] \in Nat
  <2>1. \A q \in Paths : t[q] \in 0..Cardinality(Paths)
    BY <1>0 DEF Tables
  <2> QED  BY <2>1, KnownIsFinite, PathsAreFinite DEF GoodTable
<1>6. \A q \in Paths : u[q] = IF q = p THEN n ELSE t[q]
  BY <1>0 DEF Tables
<1>7. \A q \in Paths : u[q] <= Cardinality(Known(u))
  BY <1>2, <1>3, <1>5, <1>6
<1>8. \A q, r \in Known(u) : u[q] = u[r] => q = r
  <2>1. \A q \in Known(t) : q \in Paths /\ t[q] # n
    BY <1>3, <1>5 DEF Known
  <2>2. \A q \in Known(u) : q = p \/ q \in Known(t)
    BY <1>1
  <2>3. \A q, r \in Known(t) : t[q] = t[r] => q = r
    BY DEF GoodTable
  <2> QED  BY <1>1, <1>6, <2>1, <2>2, <2>3
<1> QED  BY <1>2, <1>3, <1>4, <1>7, <1>8 DEF GoodTable, Ids

\* What an id is for does not change.
Grows == \A q \in Paths : sPathsToIds[q] # 0 => sPathsToIds'[q] = sPathsToIds[q]

LEMMA InsertKeeps ==
    ASSUME LocInv, NEW p \in Paths, InsertFile(p), UNCHANGED fileids
    PROVE  LocInv' /\ Grows /\ sPathsToIds'[p] \in Ids
<1>0. /\ sPathsToIds \in Tables
      /\ \A q \in Paths : sPathsToIds[q] \in 0..Cardinality(Paths)
  BY DEF LocInv, GoodTable, Tables
<1>1. CASE sPathsToIds[p] # 0
  <2>1. UNCHANGED locationVars
    BY <1>1 DEF InsertFile
  <2>2. sPathsToIds[p] \in Ids
    BY <1>0, <1>1, PathsAreFinite DEF Ids
  <2> QED  BY <2>1, <2>2 DEF LocInv, locationVars, Grows
<1>2. CASE sPathsToIds[p] = 0
  <2> DEFINE n == Cardinality(Known(sPathsToIds)) + 1
             t == [sPathsToIds EXCEPT ![p] = n]
  <2>1. /\ sPathsToIds' = t
        /\ sIdsToPaths' = [sIdsToPaths EXCEPT ![n] = p]
        /\ sLastId' = n
    BY <1>2 DEF InsertFile, NextId, LocInv
  <2>2. GoodTable(t) /\ n \in Ids /\ Cardinality(Known(t)) = n
    BY <1>2, NextIsGood DEF LocInv
  <2>3. \A q \in Paths : t[q] = IF q = p THEN n ELSE sPathsToIds[q]
    BY <1>0 DEF Tables
  <2>4. \A q \in Known(sPathsToIds) : sPathsToIds[q] # n /\ sPathsToIds[q] \in Ids
    BY <1>0, KnownIsFinite, PathsAreFinite DEF LocInv, GoodTable, Known, Ids
  <2>5. \A q \in Known(t) : q \in Paths /\ (q # p => q \in Known(sPathsToIds))
    BY <2>3 DEF Known
  <2>6. sIdsToPaths' \in [Ids -> Paths \cup {NoPath}]
    BY <2>1, <2>2 DEF LocInv
  <2>7. \A i \in Ids : sIdsToPaths'[i] = IF i = n THEN p ELSE sIdsToPaths[i]
    BY <2>1 DEF LocInv
  <2>8. \A q \in Known(t) : sIdsToPaths'[t[q]] = q
    <3> SUFFICES ASSUME NEW q \in Known(t)
                 PROVE  sIdsToPaths'[t[q]] = q
      OBVIOUS
    <3>1. CASE q = p
      BY <2>2, <2>3, <2>7, <3>1
    <3>2. CASE q # p
      <4>1. q \in Known(sPathsToIds) /\ t[q] = sPathsToIds[q]
        BY <2>3, <2>5, <3>2
      <4> QED  BY <2>4, <2>7, <4>1 DEF LocInv
    <3> QED  BY <3>1, <3>2
  <2>9. Grows
    BY <1>2, <2>1, <2>3 DEF Grows
  <2>10. sPathsToIds'[p] \in Ids
    BY <2>1, <2>2, <2>3
  <2>11. fileids'.state = "whole" => GoodTable(fileids'.pathsToIds)
    BY DEF LocInv
  <2> HIDE DEF n, t
  <2> QED  BY <2>1, <2>2, <2>6, <2>8, <2>9, <2>10, <2>11 DEF LocInv
<1> QED  BY <1>1, <1>2

\* Ids that are read from a file are the ids it was written with.
LEMMA LocationInitKeeps ==
    ASSUME NEW t, GoodTable(t), LocationInit(t),
           fileids'.state = "whole" => GoodTable(fileids'.pathsToIds)
    PROVE  LocInv' /\ sPathsToIds' = t
<1>1. /\ sPathsToIds' = t
      /\ sLastId' = Cardinality(Known(t))
      /\ sIdsToPaths' = [i \in Ids |-> IF \E p \in Known(t) : t[p] = i
                                       THEN CHOOSE p \in Known(t) : t[p] = i
                                       ELSE NoPath]
  BY DEF LocationInit, Known
<1>2. sIdsToPaths' \in [Ids -> Paths \cup {NoPath}]
  <2>1. \A i \in Ids : (\E p \in Known(t) : t[p] = i) =>
          (CHOOSE p \in Known(t) : t[p] = i) \in Paths
    BY DEF Known
  <2> QED  BY <1>1, <2>1
<1>3. \A q \in Known(t) : sIdsToPaths'[t[q]] = q
  <2> SUFFICES ASSUME NEW q \in Known(t)
               PROVE  sIdsToPaths'[t[q]] = q
    OBVIOUS
  <2>1. t[q] \in Ids
    <3>1. t[q] \in 0..Cardinality(Paths) /\ t[q] # 0
      BY DEF GoodTable, Tables, Known
    <3> QED  BY <3>1, PathsAreFinite DEF Ids
  <2>2. sIdsToPaths'[t[q]] = CHOOSE p \in Known(t) : t[p] = t[q]
    BY <1>1, <2>1
  <2>3. \A p \in Known(t) : t[p] = t[q] => p = q
    BY DEF GoodTable
  <2> QED  BY <2>2, <2>3
<1> QED  BY <1>1, <1>2, <1>3 DEF LocInv

---------------------------------------------------------------------------
(* Files and projects.                                                     *)

LEMMA FileStates ==
    /\ Absent.state = "absent" /\ Torn.state = "torn"
    /\ \A t : Table(t).state = "whole" /\ Table(t).pathsToIds = t
    /\ \A r : /\ Database(r).state = "whole"
              /\ Database(r).sources = r.sources /\ Database(r).deps = r.deps
    /\ \A r \in ProjectStates : Database(r) \in Databases
  BY DEF Absent, Torn, Table, Database, Databases, ProjectStates

LEMMA WholeFilesHaveTypes ==
    ASSUME DiskTypes
    PROVE  /\ \A n \in Names : Whole(n) => files[n] \in Databases
           /\ \A n \in Names : Whole(n) => files[n].sources \subseteq Pairs /\ files[n].deps \subseteq Pairs
           /\ fileids.state = "whole" => fileids.pathsToIds \in Tables
<1>1. \A n \in Names : files[n] \in {Absent, Torn} \cup Databases
  BY DEF DiskTypes
<1>2. \A n \in Names : Whole(n) => files[n] \in Databases
  BY <1>1, FileStates DEF Whole
<1>3. \A d \in Databases : d.sources \subseteq Pairs /\ d.deps \subseteq Pairs
  BY DEF Databases, PairSets
<1>4. fileids.state = "whole" => fileids.pathsToIds \in Tables
  BY FileStates DEF DiskTypes, TableFiles
<1> QED  BY <1>2, <1>3, <1>4

LEMMA NewProjects ==
    /\ NewProject \in ProjectStates /\ PairsOf(NewProject) = {}
    /\ NewProject.sources = {} /\ NewProject.deps = {} /\ NewProject.jobs = {}
    /\ NewProject.pending = {} /\ NewProject.isValid = FALSE /\ NewProject.timer = FALSE
  BY DEF NewProject, ProjectStates, PairSets, PairsOf

\* Pairs that one table covers are told apart by their ids.
LEMMA CoveredPairs ==
    ASSUME NEW t, GoodTable(t), NEW a \in Pairs, NEW b \in Pairs,
           t[a[2]] = a[1], t[b[2]] = b[1], a[1] = b[1]
    PROVE  a = b
<1>1. /\ a = <<a[1], a[2]>> /\ a[1] \in Ids /\ a[2] \in Paths
      /\ b = <<b[1], b[2]>> /\ b[1] \in Ids /\ b[2] \in Paths
  BY DEF Pairs
<1>2. a[1] # 0
  BY <1>1, PathsAreFinite DEF Ids
<1>3. a[2] \in Known(t) /\ b[2] \in Known(t)
  BY <1>1, <1>2 DEF Known
<1>4. a[2] = b[2]
  BY <1>3 DEF GoodTable
<1> QED  BY <1>1, <1>4

\* index() takes the sources it is given and loses none.
LEMMA IndexKeeps ==
    ASSUME NEW r \in ProjectStates, NEW pairs \in PairSets
    PROVE  /\ Index(r, pairs) \in ProjectStates
           /\ PairsOf(Index(r, pairs)) \subseteq PairsOf(r) \cup pairs
           /\ Index(r, pairs).pending \subseteq r.pending
           /\ Index(r, pairs).deps = r.deps
           /\ \A t : GoodTable(t) /\ Covers(t, r.sources \cup pairs) =>
                PathsOf(r.sources) \subseteq PathsOf(Index(r, pairs).sources)
<1>1. CASE pairs = {}
  <2>1. Index(r, pairs) = r
    BY <1>1 DEF Index
  <2> QED  BY <1>1, <2>1
<1>2. CASE pairs # {}
  <2> DEFINE kept == {s \in r.sources : s[1] \notin IdsOf(pairs)}
             x == Index(r, pairs)
  <2>1. /\ x.sources = kept \cup pairs /\ x.jobs = r.jobs \cup pairs
        /\ x.pending = r.pending \ pairs /\ x.deps = r.deps
        /\ x \in ProjectStates
    BY <1>2 DEF Index, ProjectStates, PairSets
  <2>2. ASSUME NEW t, GoodTable(t), Covers(t, r.sources \cup pairs), NEW s \in r.sources
        PROVE  s \in x.sources
    <3>1. CASE s[1] \in IdsOf(pairs)
      <4>1. PICK u \in pairs : u[1] = s[1]
        BY <3>1 DEF IdsOf
      <4>2. s \in Pairs /\ u \in Pairs
        BY DEF ProjectStates, PairSets
      <4>3. t[s[2]] = s[1] /\ t[u[2]] = u[1]
        BY <2>2 DEF Covers
      <4>4. s = u
        BY <2>2, <4>1, <4>2, <4>3, CoveredPairs
      <4> QED  BY <2>1, <4>4
    <3>2. CASE s[1] \notin IdsOf(pairs)
      BY <2>1, <3>2
    <3> QED  BY <3>1, <3>2
  <2>3. PairsOf(x) \subseteq PairsOf(r) \cup pairs
    BY <2>1 DEF PairsOf
  <2> HIDE DEF x, kept
  <2>4. ASSUME NEW t, GoodTable(t), Covers(t, r.sources \cup pairs)
        PROVE  PathsOf(r.sources) \subseteq PathsOf(x.sources)
    BY <2>2, <2>4 DEF PathsOf
  <2>5. x.pending \subseteq r.pending
    BY <2>1
  <2> QED  BY <2>1, <2>3, <2>4, <2>5 DEF x
<1> QED  BY <1>1, <1>2

\* restore() finds in the file what is still there.
LEMMA RestoredKeeps ==
    ASSUME NEW r \in ProjectStates, NEW file \in Databases, NEW x \in Restored(r, file)
    PROVE  /\ x \in ProjectStates
           /\ PairsOf(x) \subseteq PairsOf(r) \cup StoredIn(file)
           /\ x.pending \subseteq r.pending
           /\ \A t : GoodTable(t) /\ Covers(t, StoredIn(file)) =>
                \A q \in PathsOf(file.sources) : q \in present => q \in PathsOf(x.sources)
<1> DEFINE gone == {s \in file.sources : s[2] \in Sources \ present}
           kept == file.sources \ gone
           restored == [r EXCEPT !.sources = kept, !.deps = file.deps]
<1>1. PICK changed \in SUBSET kept :
        x = Index(restored, changed \cup (NextOf(file.sources, gone) \cap kept))
  BY DEF Restored
<1> DEFINE pairs == changed \cup (NextOf(file.sources, gone) \cap kept)
<1>2. file.sources \in PairSets /\ file.deps \in PairSets
  BY DEF Databases
<1>3. kept \subseteq file.sources /\ pairs \subseteq kept
  OBVIOUS
<1>4. kept \in PairSets /\ pairs \in PairSets
  BY <1>2, <1>3 DEF PairSets
<1>5. /\ restored \in ProjectStates
      /\ restored.sources = kept /\ restored.deps = file.deps
      /\ restored.jobs = r.jobs /\ restored.pending = r.pending
  <2> HIDE DEF kept
  <2> QED  BY <1>2, <1>4 DEF ProjectStates
<1>6. \A q \in PathsOf(file.sources) : q \in present => q \in PathsOf(kept)
  BY DEF PathsOf
<1>7. x = Index(restored, pairs)
  BY <1>1
<1> HIDE DEF kept, pairs, restored, gone
<1>8. /\ x \in ProjectStates
      /\ PairsOf(x) \subseteq PairsOf(restored) \cup pairs
      /\ x.pending \subseteq restored.pending
      /\ \A t : GoodTable(t) /\ Covers(t, restored.sources \cup pairs) =>
           PathsOf(restored.sources) \subseteq PathsOf(x.sources)
  BY <1>4, <1>5, <1>7, IndexKeeps
<1>9. PairsOf(restored) \cup pairs \subseteq PairsOf(r) \cup StoredIn(file)
  BY <1>3, <1>5 DEF PairsOf, StoredIn
<1>10. restored.sources \cup pairs \subseteq StoredIn(file)
  BY <1>3, <1>5 DEF StoredIn
<1>11. \A t : Covers(t, StoredIn(file)) => Covers(t, restored.sources \cup pairs)
  BY <1>10 DEF Covers
<1>12. ASSUME NEW t, GoodTable(t), Covers(t, StoredIn(file)),
              NEW q \in PathsOf(file.sources), q \in present
       PROVE  q \in PathsOf(x.sources)
  <2>1. PathsOf(restored.sources) \subseteq PathsOf(x.sources)
    BY <1>8, <1>11, <1>12
  <2> QED  BY <1>5, <1>6, <1>12, <2>1
<1>13. PairsOf(x) \subseteq PairsOf(r) \cup StoredIn(file)
  BY <1>8, <1>9
<1>14. x.pending \subseteq r.pending
  BY <1>5, <1>8
<1> QED  BY <1>8, <1>12, <1>13, <1>14

\* What a load can bring into a project.
OnDisk(p) == IF Whole(encodePath(p)) THEN StoredIn(files[encodePath(p)]) ELSE {}

LEMMA OnDiskPairs ==
    ASSUME DiskTypes, NEW p \in Projects
    PROVE  OnDisk(p) \subseteq Pairs
  BY NamesTellProjects, WholeFilesHaveTypes DEF OnDisk, StoredIn

\* A load keeps what the project has, and what is on disk and still exists.
LEMMA LoadKeeps ==
    ASSUME DiskTypes, NEW p \in Projects, NEW r \in ProjectStates, NEW x \in Load(p, r)
    PROVE  /\ x \in ProjectStates
           /\ PairsOf(x) \subseteq PairsOf(r) \cup OnDisk(p)
           /\ x.pending \subseteq r.pending
           /\ \A t, S :
                /\ GoodTable(t) /\ Covers(t, OnDisk(p)) /\ S \subseteq present
                /\ Whole(encodePath(p)) => S \subseteq PathsOf(files[encodePath(p)].sources)
                /\ r.isValid \/ ~mRestoreProjects \/ ~Whole(encodePath(p)) => S \subseteq PathsOf(r.sources)
                => S \subseteq PathsOf(x.sources)
<1> DEFINE valid == [r EXCEPT !.isValid = TRUE]
           file == files[encodePath(p)]
           restores == ~r.isValid /\ mRestoreProjects /\ file.state = "whole"
<1>1. /\ valid \in ProjectStates /\ PairsOf(valid) = PairsOf(r)
      /\ valid.sources = r.sources /\ valid.pending = r.pending
  BY DEF ProjectStates, PairsOf
<1>2. x \in IF restores THEN Restored(valid, file) ELSE {valid}
  BY DEF Load
<1>3. CASE restores
  <2>1. Whole(encodePath(p)) /\ encodePath(p) \in Names
    BY <1>3, NamesTellProjects DEF Whole
  <2>2. file \in Databases /\ OnDisk(p) = StoredIn(file)
    BY <2>1, WholeFilesHaveTypes DEF OnDisk
  <2>3. x \in Restored(valid, file)
    BY <1>2, <1>3
  <2> HIDE DEF file, valid, restores
  <2>4. /\ x \in ProjectStates
        /\ PairsOf(x) \subseteq PairsOf(valid) \cup StoredIn(file)
        /\ x.pending \subseteq valid.pending
        /\ \A t : GoodTable(t) /\ Covers(t, StoredIn(file)) =>
             \A q \in PathsOf(file.sources) : q \in present => q \in PathsOf(x.sources)
    BY <1>1, <2>2, <2>3, RestoredKeeps
  <2>5. ASSUME NEW t, NEW S, GoodTable(t), Covers(t, OnDisk(p)), S \subseteq present,
               S \subseteq PathsOf(file.sources)
        PROVE  S \subseteq PathsOf(x.sources)
    BY <2>2, <2>4, <2>5
  <2> QED  BY <1>1, <2>1, <2>2, <2>4, <2>5 DEF file
<1>4. CASE ~restores
  <2>1. x = valid
    BY <1>2, <1>4
  <2>2. r.isValid \/ ~mRestoreProjects \/ ~Whole(encodePath(p))
    BY <1>4 DEF Whole
  <2> HIDE DEF valid, restores, file
  <2> QED  BY <1>1, <2>1, <2>2
<1> QED  BY <1>3, <1>4

\* A load touches no whole file.
LEMMA FilesAfterLoadKeeps ==
    ASSUME DiskTypes, NEW p \in Projects, NEW r, NEW fs, fs = FilesAfterLoad(p, r)
    PROVE  /\ fs \in [Names -> {Absent, Torn} \cup Databases]
           /\ \A n \in Names : fs[n].state = "whole" <=> Whole(n)
           /\ \A n \in Names : Whole(n) => fs[n] = files[n]
<1>0. encodePath(p) \in Names
  BY NamesTellProjects
<1>1. CASE ~r.isValid /\ mRestoreProjects /\ files[encodePath(p)].state = "torn"
  <2>1. fs = [files EXCEPT ![encodePath(p)] = Absent]
    BY <1>1 DEF FilesAfterLoad
  <2>2. \A n \in Names : fs[n] = IF n = encodePath(p) THEN Absent ELSE files[n]
    BY <2>1 DEF DiskTypes
  <2>3. fs \in [Names -> {Absent, Torn} \cup Databases]
    BY <2>1 DEF DiskTypes
  <2> QED  BY <1>1, <2>2, <2>3, FileStates DEF Whole
<1>2. CASE ~(~r.isValid /\ mRestoreProjects /\ files[encodePath(p)].state = "torn")
  <2>1. fs = files
    BY <1>2 DEF FilesAfterLoad
  <2> QED  BY <2>1 DEF Whole, DiskTypes
<1> QED  BY <1>1, <1>2

---------------------------------------------------------------------------
(* What each action does to the projects.                                  *)

\* One project changes, and gets at most these pairs.
Becomes(p, x, pairs) ==
    /\ project' = [project EXCEPT ![p] = x]
    /\ x \in ProjectStates
    /\ PairsOf(x) \subseteq PairsOf(project[p]) \cup pairs

LEMMA BecomesElsewhere ==
    ASSUME ServerTypes, NEW p \in Projects, NEW x, NEW pairs, Becomes(p, x, pairs)
    PROVE  /\ project' \in [Projects -> ProjectStates]
           /\ project'[p] = x
           /\ \A q \in Projects : q # p => project'[q] = project[q]
  BY DEF Becomes, ServerTypes

LEMMA CompileDoes ==
    ASSUME TypeInv, LocInv, NEW f \in Sources, Compile(f)
    PROVE  LET p == RootOf[f]
               source == <<sPathsToIds'[f], f>>
           IN  /\ p \in Projects /\ source \in Pairs
               /\ LocInv' /\ Grows /\ sPathsToIds'[f] \in Ids
               /\ files' = FilesAfterLoad(p, project[p])
               /\ \E x, r : /\ Becomes(p, x, OnDisk(p) \cup {source})
                            /\ x.pending \subseteq project[p].pending
                            /\ r \in Load(p, project[p])
                            /\ x = IF source \in r.sources THEN r ELSE Index(r, {source})
<1> DEFINE p == RootOf[f]
           source == <<sPathsToIds'[f], f>>
<1>1. p \in Projects /\ f \in Paths
  BY RootsAssumption DEF Paths
<1>2. (IF p \in mProjects THEN project[p] ELSE NewProject) = project[p]
  BY <1>1 DEF TypeInv, ServerTypes
<1>3. /\ InsertFile(f) /\ UNCHANGED fileids
      /\ files' = FilesAfterLoad(p, project[p])
      /\ \E r \in Load(p, project[p]) :
           project' = [project EXCEPT ![p] = IF source \in r.sources THEN r
                                             ELSE Index(r, {source})]
  BY <1>2 DEF Compile
<1>4. LocInv' /\ Grows /\ sPathsToIds'[f] \in Ids
  BY <1>1, <1>3, InsertKeeps
<1>5. source \in Pairs
  BY <1>1, <1>4 DEF Pairs
<1> HIDE DEF p, source
<1>6. PICK r \in Load(p, project[p]) :
        project' = [project EXCEPT ![p] = IF source \in r.sources THEN r ELSE Index(r, {source})]
  BY <1>3
<1>7. project[p] \in ProjectStates /\ DiskTypes
  BY <1>1 DEF TypeInv, ServerTypes
<1>8. /\ r \in ProjectStates
      /\ PairsOf(r) \subseteq PairsOf(project[p]) \cup OnDisk(p)
      /\ r.pending \subseteq project[p].pending
  BY <1>1, <1>7, LoadKeeps
<1>9. /\ Index(r, {source}) \in ProjectStates
      /\ PairsOf(Index(r, {source})) \subseteq PairsOf(r) \cup {source}
      /\ Index(r, {source}).pending \subseteq r.pending
  <2>1. {source} \in PairSets
    BY <1>5 DEF PairSets
  <2> QED  BY <1>8, <2>1, IndexKeeps
<1> DEFINE x == IF source \in r.sources THEN r ELSE Index(r, {source})
<1>10. Becomes(p, x, OnDisk(p) \cup {source}) /\ x.pending \subseteq project[p].pending
  BY <1>6, <1>8, <1>9 DEF Becomes
<1> QED  BY <1>1, <1>3, <1>4, <1>5, <1>10 DEF p, source

LEMMA ReindexDoes ==
    ASSUME TypeInv, NEW p \in Projects, Reindex(p)
    PROVE  \E s \in project[p].sources :
             /\ Becomes(p, Index(project[p], {s}), {})
             /\ Index(project[p], {s}).pending \subseteq project[p].pending
<1>1. PICK s \in project[p].sources : project' = [project EXCEPT ![p] = Index(project[p], {s})]
  BY DEF Reindex, TypeInv, ServerTypes
<1>2. project[p] \in ProjectStates
  BY DEF TypeInv, ServerTypes
<1>3. {s} \in PairSets /\ s \in PairsOf(project[p])
  BY <1>2 DEF ProjectStates, PairSets, PairsOf
<1>4. /\ Index(project[p], {s}) \in ProjectStates
      /\ PairsOf(Index(project[p], {s})) \subseteq PairsOf(project[p]) \cup {s}
      /\ Index(project[p], {s}).pending \subseteq project[p].pending
  BY <1>2, <1>3, IndexKeeps
<1> QED  BY <1>1, <1>3, <1>4 DEF Becomes

LEMMA SelectDoes ==
    ASSUME TypeInv, NEW p \in Projects, Select(p)
    PROVE  /\ mCurrentProject' = p /\ p \in mProjects
           /\ files' = FilesAfterLoad(p, project[p])
           /\ \E x \in Load(p, project[p]) :
                Becomes(p, x, OnDisk(p)) /\ x.pending \subseteq project[p].pending
<1>1. SetCurrentProject(p)
  BY DEF Select
<1>2. PICK x \in Load(p, project[p]) : project' = [project EXCEPT ![p] = x]
  BY <1>1 DEF SetCurrentProject
<1>3. project[p] \in ProjectStates /\ DiskTypes
  BY DEF TypeInv, ServerTypes
<1>4. /\ x \in ProjectStates
      /\ PairsOf(x) \subseteq PairsOf(project[p]) \cup OnDisk(p)
      /\ x.pending \subseteq project[p].pending
  BY <1>3, LoadKeeps
<1>5. p \in mProjects
  <2>1. CASE \E matches \in SUBSET mProjects : p \in SelectedByMatch(matches) \cup SelectedByPath(matches)
    BY <2>1 DEF SelectedByMatch, SelectedByPath
  <2>2. CASE \E index \in 0..Cardinality(Projects) : p \in SelectedByIndex(index)
    BY <2>2 DEF SelectedByIndex
  <2> QED  BY <2>1, <2>2 DEF Select
<1> QED  BY <1>1, <1>2, <1>4, <1>5 DEF Becomes, SetCurrentProject

LEMMA JobEndsDoes ==
    ASSUME TypeInv, NEW p \in Projects, NEW s, NEW ok \in BOOLEAN, JobEnds(p, s, ok)
    PROVE  \E x : /\ Becomes(p, x, {})
                  /\ x.sources = project[p].sources /\ x.deps = project[p].deps
                  /\ x.isValid = project[p].isValid /\ project[p].jobs # {}
                  /\ x.pending # {} => project[p].pending # {} \/ sPathsToIds[Header] # 0
<1> DEFINE x == [project[p] EXCEPT !.jobs = @ \ {s}, !.timer = TRUE,
                                   !.pending = IF ok THEN @ \cup {s} ELSE @]
<1>1. project' = [project EXCEPT ![p] = x] /\ s \in project[p].jobs
  BY DEF JobEnds, TypeInv, ServerTypes
<1>2. project[p] \in ProjectStates
  BY DEF TypeInv, ServerTypes
<1>3. s \in Pairs
  BY <1>1, <1>2 DEF ProjectStates, PairSets
<1>4. /\ x \in ProjectStates
      /\ x.sources = project[p].sources /\ x.deps = project[p].deps
      /\ x.isValid = project[p].isValid
      /\ x.jobs = project[p].jobs \ {s}
      /\ x.pending = IF ok THEN project[p].pending \cup {s} ELSE project[p].pending
  BY <1>2, <1>3 DEF ProjectStates, PairSets
<1>5. ok => sPathsToIds[Header] # 0
  BY DEF JobEnds
<1> HIDE DEF x
<1>6. PairsOf(x) \subseteq PairsOf(project[p])
  BY <1>1, <1>4 DEF PairsOf
<1> QED  BY <1>1, <1>4, <1>5, <1>6 DEF Becomes

\* write() adds to the dependencies what has come in, and the header it has
\* visited.
LEMMA FinishTimeoutDoes ==
    ASSUME TypeInv, LocInv, NEW p \in Projects, FinishTimeout(p)
    PROVE  /\ project[p].timer /\ p \in mProjects /\ saving = NotSaving /\ alive
           /\ saving' \in {saving, [step |-> 1, project |-> p]}
           /\ \E x, headers :
                /\ Becomes(p, x, headers) /\ headers \subseteq Pairs
                /\ headers \subseteq {<<sPathsToIds[Header], Header>>}
                /\ x.sources = project[p].sources /\ x.pending \subseteq project[p].pending
<1>0. /\ project[p] \in ProjectStates
      /\ project[p].timer /\ p \in mProjects /\ saving = NotSaving /\ alive
  BY DEF FinishTimeout, Idle, TypeInv, ServerTypes
<1>1. CASE project[p].jobs = {}
  <2> DEFINE headers == IF project[p].pending = {} THEN {} ELSE {<<sPathsToIds[Header], Header>>}
             x == [project[p] EXCEPT !.timer = FALSE, !.pending = {},
                                     !.deps = @ \cup project[p].pending \cup headers]
  <2>1. headers \subseteq Pairs /\ headers \subseteq {<<sPathsToIds[Header], Header>>}
    <3>1. CASE project[p].pending # {}
      <4>1. sPathsToIds[Header] # 0
        BY <3>1 DEF TypeInv, HeaderKnown
      <4>2. sPathsToIds[Header] \in 0..Cardinality(Paths) /\ Header \in Paths
        BY DEF LocInv, GoodTable, Tables, Paths
      <4>3. sPathsToIds[Header] \in Ids
        BY <4>1, <4>2, PathsAreFinite DEF Ids
      <4> QED  BY <4>2, <4>3 DEF Pairs
    <3>2. CASE project[p].pending = {}
      BY <3>2
    <3> QED  BY <3>1, <3>2
  <2>2. /\ project' = [project EXCEPT ![p] = x]
        /\ saving' = [step |-> 1, project |-> p]
    BY <1>1 DEF FinishTimeout, TypeInv, ServerTypes
  <2> HIDE DEF headers
  <2>3. /\ x \in ProjectStates
        /\ x.sources = project[p].sources /\ x.pending = {} /\ x.jobs = project[p].jobs
        /\ x.deps = project[p].deps \cup project[p].pending \cup headers
    BY <1>0, <2>1 DEF ProjectStates, PairSets
  <2> HIDE DEF x
  <2>4. PairsOf(x) \subseteq PairsOf(project[p]) \cup headers
    BY <2>3 DEF PairsOf
  <2> QED  BY <1>0, <2>1, <2>2, <2>3, <2>4 DEF Becomes
<1>2. CASE project[p].jobs # {}
  <2> DEFINE x == [project[p] EXCEPT !.timer = FALSE]
  <2>1. project' = [project EXCEPT ![p] = x] /\ saving' = saving
    BY <1>2 DEF FinishTimeout, TypeInv, ServerTypes
  <2>2. /\ x \in ProjectStates
        /\ x.sources = project[p].sources /\ x.pending = project[p].pending
        /\ x.jobs = project[p].jobs /\ x.deps = project[p].deps
    BY <1>0 DEF ProjectStates
  <2> HIDE DEF x
  <2>3. Becomes(p, x, {}) /\ {} \subseteq Pairs
    BY <2>1, <2>2 DEF Becomes, PairsOf
  <2> QED  BY <1>0, <2>1, <2>2, <2>3
<1> QED  BY <1>1, <1>2

LEMMA UnloadedKeeps ==
    ASSUME NEW r \in ProjectStates
    PROVE  /\ Unloaded(r) \in ProjectStates
           /\ PairsOf(Unloaded(r)) \subseteq PairsOf(r)
           /\ Unloaded(r).sources = r.sources /\ Unloaded(r).pending = r.pending
           /\ Unloaded(r).jobs = {} /\ Unloaded(r).isValid = FALSE
           /\ Unloaded(r).timer = r.timer
  BY DEF Unloaded, ProjectStates, PairSets, PairsOf

---------------------------------------------------------------------------
(* Types.                                                                  *)

\* One project of the server has changed.
LEMMA OneProjectChanges ==
    ASSUME TypeInv, NEW p \in Projects, NEW x, NEW pairs, Becomes(p, x, pairs),
           p \in mProjects', mProjects' \subseteq Projects, mProjects \subseteq mProjects',
           mCurrentProject' \in mProjects' \cup {NoPath},
           UNCHANGED <<alive, mRestoreProjects>>
    PROVE  /\ ServerTypes'
           /\ (x.pending # {} => sPathsToIds'[Header] # 0) /\ Grows => HeaderKnown'
<1>1. /\ project' \in [Projects -> ProjectStates]
      /\ project'[p] = x
      /\ \A q \in Projects : q # p => project'[q] = project[q]
  BY BecomesElsewhere DEF TypeInv
<1>2. ServerTypes'
  BY <1>1 DEF ServerTypes, TypeInv
<1>3. ASSUME x.pending # {} => sPathsToIds'[Header] # 0, Grows
      PROVE  HeaderKnown'
  BY <1>1, <1>3 DEF HeaderKnown, TypeInv, Grows, Paths
<1> QED  BY <1>2, <1>3

\* When save() is not at work it goes on not being.
LEMMA StaysIdle ==
    ASSUME saving = NotSaving, UNCHANGED saving
    PROVE  SavingTypes'
  BY DEF SavingTypes

LEMMA NothingInGrows ==
    ASSUME UNCHANGED locationVars
    PROVE  Grows
  BY DEF Grows, locationVars

LEMMA StartTypes ==
    ASSUME TypeInv, LocInv, NEW c \in BOOLEAN, Start(c)
    PROVE  TypeInv' /\ LocInv'
<1>1. DiskTypes' /\ (fileids'.state = "whole" => fileids' = fileids /\ ~c)
  BY FileStates DEF Start, TypeInv, DiskTypes, TableFiles
<1>2. fileids'.state = "whole" => GoodTable(fileids'.pathsToIds)
  BY <1>1 DEF LocInv
<1>3. GoodTable(IF fileids'.state = "whole" THEN fileids'.pathsToIds ELSE NoIds)
  BY <1>2, NoIdsIsGood
<1>4. /\ LocationInit(IF fileids'.state = "whole" THEN fileids'.pathsToIds ELSE NoIds)
      /\ mRestoreProjects' = (fileids'.state = "whole")
  BY DEF Start, restoreFileIds
<1>5. LocInv'
  BY <1>2, <1>3, <1>4, LocationInitKeeps
<1>6. ServerTypes' /\ HeaderKnown'
  <2>1. /\ mProjects' \subseteq Projects /\ mCurrentProject' = NoPath
        /\ project' = [p \in Projects |-> NewProject] /\ alive' = TRUE
    BY DEF Start, ReloadProjects
  <2> QED  BY <1>4, <2>1, NewProjects DEF ServerTypes, HeaderKnown
<1>7. SavingTypes' /\ Down'
  BY StaysIdle DEF Start, SavingTypes, TypeInv, Down
<1>8. HistTypes'
  BY DEF Start, HistTypes, TypeInv
<1> QED  BY <1>1, <1>5, <1>6, <1>7, <1>8 DEF TypeInv

LEMMA StopTypes ==
    ASSUME TypeInv, LocInv, Stop
    PROVE  TypeInv' /\ LocInv'
<1>1. /\ alive' = FALSE /\ mProjects' = {} /\ mCurrentProject' = NoPath
      /\ mRestoreProjects' = FALSE /\ project' = [p \in Projects |-> NewProject]
      /\ saving' = NotSaving /\ sPathsToIds' = NoIds
      /\ sIdsToPaths' = [i \in Ids |-> NoPath] /\ sLastId' = 0
      /\ fileids' = fileids /\ files' = files /\ present' = present
      /\ idsLost' = idsLost /\ forgotten' = forgotten
  BY DEF Stop, diskVars
<1>2. DiskTypes' /\ ServerTypes' /\ SavingTypes' /\ HeaderKnown' /\ Down'
  BY <1>1, NewProjects DEF TypeInv, DiskTypes, ServerTypes, SavingTypes, HeaderKnown, Down
<1>3. HistTypes'
  <2>1. told' \in [Projects -> SUBSET Sources]
    BY DEF Stop, TypeInv, HistTypes
  <2> QED  BY <1>1, <2>1 DEF TypeInv, HistTypes
<1>4. LocInv'
  <2>1. Known(NoIds) = {}
    BY DEF Known, NoIds
  <2>2. sIdsToPaths' \in [Ids -> Paths \cup {NoPath}]
    BY <1>1
  <2> QED  BY <1>1, <2>1, <2>2, NoIdsIsGood DEF LocInv
<1> QED  BY <1>2, <1>3, <1>4 DEF TypeInv

LEMMA CompileTypes ==
    ASSUME TypeInv, LocInv, NEW f \in Sources, Compile(f)
    PROVE  TypeInv' /\ LocInv'
<1> DEFINE p == RootOf[f]
           source == <<sPathsToIds'[f], f>>
<1>1. /\ p \in Projects /\ LocInv' /\ Grows
      /\ files' = FilesAfterLoad(p, project[p])
  BY CompileDoes
<1>2. PICK x : Becomes(p, x, OnDisk(p) \cup {source}) /\ x.pending \subseteq project[p].pending
  BY CompileDoes
<1>3. /\ mProjects' = mProjects \cup {p}
      /\ mCurrentProject' = IF mCurrentProject = NoPath THEN p ELSE mCurrentProject
      /\ UNCHANGED <<fileids, present, alive, mRestoreProjects, saving, histVars>>
      /\ alive /\ saving = NotSaving
  BY DEF Compile, Request, Idle
<1> HIDE DEF p, source
<1>4. ServerTypes' /\ HeaderKnown'
  <2>1. x.pending # {} => sPathsToIds'[Header] # 0
    BY <1>1, <1>2 DEF TypeInv, HeaderKnown, Grows, Paths
  <2>2. /\ mProjects' \subseteq Projects /\ mProjects \subseteq mProjects'
        /\ mCurrentProject' \in mProjects' \cup {NoPath}
    BY <1>1, <1>3 DEF TypeInv, ServerTypes
  <2> QED  BY <1>1, <1>2, <1>3, <2>1, <2>2, OneProjectChanges
<1>5. DiskTypes'
  BY <1>1, <1>3, FilesAfterLoadKeeps DEF TypeInv, DiskTypes
<1>6. SavingTypes' /\ HistTypes' /\ Down'
  BY <1>3, StaysIdle DEF TypeInv, HistTypes, histVars, Down
<1> QED  BY <1>1, <1>4, <1>5, <1>6 DEF TypeInv

LEMMA SelectTypes ==
    ASSUME TypeInv, NEW p \in Projects, Select(p)
    PROVE  TypeInv'
<1>1. mCurrentProject' = p /\ p \in mProjects /\ files' = FilesAfterLoad(p, project[p])
  BY SelectDoes
<1>2. PICK x : Becomes(p, x, OnDisk(p)) /\ x.pending \subseteq project[p].pending
  BY SelectDoes
<1>3. /\ UNCHANGED <<fileids, present, locationVars, alive, mProjects, mRestoreProjects,
                     saving, histVars>>
      /\ alive /\ saving = NotSaving
  BY DEF Select, Request, Idle
<1>4. ServerTypes' /\ HeaderKnown'
  <2>1. (x.pending # {} => sPathsToIds'[Header] # 0) /\ Grows
    BY <1>2, <1>3, NothingInGrows DEF TypeInv, HeaderKnown, locationVars
  <2>2. mProjects' \subseteq Projects
    BY <1>3 DEF TypeInv, ServerTypes
  <2> QED  BY <1>1, <1>2, <1>3, <2>1, <2>2, OneProjectChanges
<1>5. DiskTypes'
  BY <1>1, <1>3, FilesAfterLoadKeeps DEF TypeInv, DiskTypes
<1>6. SavingTypes' /\ HistTypes' /\ Down'
  BY <1>3, StaysIdle DEF TypeInv, HistTypes, histVars, Down
<1> QED  BY <1>4, <1>5, <1>6 DEF TypeInv

\* The actions that change one project and nothing on disk.
LEMMA InMemoryTypes ==
    ASSUME TypeInv, NEW p \in mProjects, NEW x, NEW pairs, Becomes(p, x, pairs),
           x.pending # {} => sPathsToIds[Header] # 0, alive,
           UNCHANGED <<diskVars, locationVars, serverVars, histVars>>,
           SavingTypes'
    PROVE  TypeInv'
<1>1. p \in Projects
  BY DEF TypeInv, ServerTypes
<1>2. ServerTypes' /\ HeaderKnown'
  <2>1. (x.pending # {} => sPathsToIds'[Header] # 0) /\ Grows
    BY NothingInGrows DEF locationVars
  <2>2. /\ p \in mProjects' /\ mProjects' \subseteq Projects /\ mProjects \subseteq mProjects'
        /\ mCurrentProject' \in mProjects' \cup {NoPath}
        /\ UNCHANGED <<alive, mRestoreProjects>>
    BY DEF TypeInv, ServerTypes, serverVars
  <2> QED  BY <1>1, <2>1, <2>2, OneProjectChanges
<1>3. DiskTypes' /\ HistTypes' /\ Down'
  BY DEF TypeInv, DiskTypes, HistTypes, Down, diskVars, histVars, serverVars, locationVars
<1> QED  BY <1>2, <1>3 DEF TypeInv

LEMMA ProjectActionsTypes ==
    ASSUME TypeInv, LocInv, NEW p \in Projects,
           \/ Reindex(p) \/ FinishTimeout(p)
           \/ \E s \in Ids \X Sources, ok \in BOOLEAN : JobEnds(p, s, ok)
    PROVE  TypeInv'
<1>0. project[p].pending # {} => sPathsToIds[Header] # 0
  BY DEF TypeInv, HeaderKnown
<1>1. CASE Reindex(p)
  <2>1. PICK x : Becomes(p, x, {}) /\ x.pending \subseteq project[p].pending
    BY <1>1, ReindexDoes
  <2>2. /\ p \in mProjects /\ alive
        /\ UNCHANGED <<diskVars, locationVars, serverVars, saving, histVars>>
        /\ saving = NotSaving
    BY <1>1 DEF Reindex, Request, Idle
  <2>3. SavingTypes'
    BY <2>2, StaysIdle
  <2> QED  BY <1>0, <2>1, <2>2, <2>3, InMemoryTypes
<1>2. CASE FinishTimeout(p)
  <2>1. /\ p \in mProjects /\ saving = NotSaving /\ alive
        /\ saving' \in {saving, [step |-> 1, project |-> p]}
    BY <1>2, FinishTimeoutDoes
  <2>2. PICK x, headers : Becomes(p, x, headers) /\ x.pending \subseteq project[p].pending
    BY <1>2, FinishTimeoutDoes
  <2>3. UNCHANGED <<diskVars, locationVars, serverVars, histVars>>
    BY <1>2 DEF FinishTimeout
  <2>4. SavingTypes'
    <3>1. UNCHANGED <<alive, mProjects>>
      BY <2>3 DEF serverVars
    <3> QED  BY <2>1, <3>1, Steps DEF SavingTypes
  <2> QED  BY <1>0, <2>1, <2>2, <2>3, <2>4, InMemoryTypes
<1>3. ASSUME NEW s, NEW ok \in BOOLEAN, JobEnds(p, s, ok)
      PROVE  TypeInv'
  <2>1. PICK x : /\ Becomes(p, x, {}) /\ project[p].jobs # {}
                 /\ x.pending # {} => project[p].pending # {} \/ sPathsToIds[Header] # 0
    BY <1>3, JobEndsDoes
  <2>2. alive /\ UNCHANGED <<diskVars, locationVars, serverVars, saving, histVars>>
    BY <1>3 DEF JobEnds
  <2>3. p \in mProjects
    BY <2>1, NewProjects DEF TypeInv, ServerTypes
  <2>4. SavingTypes'
    BY <2>2 DEF SavingTypes, TypeInv, serverVars
  <2> QED  BY <1>0, <2>1, <2>2, <2>3, <2>4, InMemoryTypes
<1> QED  BY <1>1, <1>2, <1>3

LEMMA VisitHeaderTypes ==
    ASSUME TypeInv, LocInv, NEW p \in Projects, VisitHeader(p)
    PROVE  TypeInv' /\ LocInv' /\ Grows
<1>1. /\ InsertFile(Header) /\ alive
      /\ UNCHANGED <<diskVars, serverVars, project, saving, histVars, inputs>>
      /\ Header \in Paths
  BY DEF VisitHeader, Paths
<1>2. LocInv' /\ Grows
  BY <1>1, InsertKeeps DEF diskVars
<1>3. HeaderKnown'
  BY <1>1, <1>2 DEF HeaderKnown, TypeInv, Grows
<1>4. DiskTypes' /\ ServerTypes' /\ SavingTypes' /\ HistTypes' /\ Down'
  BY <1>1 DEF TypeInv, DiskTypes, ServerTypes, SavingTypes, HistTypes, Down,
              diskVars, serverVars, histVars
<1> QED  BY <1>2, <1>3, <1>4 DEF TypeInv

\* The steps of save(), by their number.
SavingOf(p, k) == saving = [step |-> k, project |-> p]
Written(p) == files' = [files EXCEPT ![encodePath(p)] = Database(project[p])]

LEMMA SaveDoes ==
    ASSUME TypeInv, Save
    PROVE  /\ alive
           /\ UNCHANGED <<present, locationVars, serverVars, project, idsLost, forgotten>>
           /\ \E p \in mProjects :
                \/ /\ SavingOf(p, 1) /\ SavingOf(p, 2)'
                   /\ fileids' = Torn /\ UNCHANGED <<files, told>>
                \/ /\ SavingOf(p, 2) /\ SavingOf(p, 3)'
                   /\ fileids' = Table(sPathsToIds) /\ UNCHANGED <<files, told>>
                \/ /\ SavingOf(p, 3) /\ SavingOf(p, 4)'
                   /\ files' = [files EXCEPT ![encodePath(p)] = Torn] /\ UNCHANGED <<fileids, told>>
                \/ /\ SavingOf(p, 4) /\ saving' = NotSaving
                   /\ Written(p) /\ UNCHANGED fileids
                   /\ told' = [told EXCEPT ![p] = (@ \cup PathsOf(project[p].sources)) \cap present]
                \/ /\ SavingOf(p, 1) \/ SavingOf(p, 3)
                   /\ saving' = NotSaving /\ UNCHANGED <<fileids, files, told>>
<1>1. alive /\ UNCHANGED <<present, locationVars, serverVars, project, idsLost, forgotten>>
  BY DEF Save
<1>2. \E step : AtStep(step)
  BY DEF Save, OpenTable, WriteTable, OpenFile, WriteFile, SaveFails
<1>3. saving.step # 0
  BY <1>2 DEF AtStep
<1>4. saving \in [step : 1..4, project : mProjects]
  BY <1>3, Steps DEF SavingTypes, NotSaving, TypeInv
<1>5. PICK p \in mProjects, k \in 1..4 : SavingOf(p, k)
  BY <1>4 DEF SavingOf
<1>6. saving.step = k /\ saving.project = p /\ ofSaving = encodePath(p)
  BY <1>5 DEF SavingOf, ofSaving
<1>7. \A step : AtStep(step) => SaveSteps[k] = step
  BY <1>6 DEF AtStep
<1>8. NextStep => IF k = 4 THEN saving' = NotSaving ELSE SavingOf(p, k + 1)'
  BY <1>5, <1>6, Steps DEF NextStep, SavingOf
<1>9. CASE OpenTable
  <2>1. k = 1
    BY <1>7, <1>9, Steps DEF OpenTable
  <2> QED  BY <1>1, <1>5, <1>8, <1>9, <2>1 DEF OpenTable
<1>10. CASE WriteTable
  <2>1. k = 2
    BY <1>7, <1>10, Steps DEF WriteTable
  <2> QED  BY <1>1, <1>5, <1>8, <1>10, <2>1 DEF WriteTable
<1>11. CASE OpenFile
  <2>1. k = 3
    BY <1>7, <1>11, Steps DEF OpenFile
  <2>2. SavingOf(p, 3) /\ SavingOf(p, 4)'
    BY <1>5, <1>8, <1>11, <2>1 DEF OpenFile
  <2>3. files' = [files EXCEPT ![encodePath(p)] = Torn] /\ UNCHANGED <<fileids, told>>
    BY <1>6, <1>11 DEF OpenFile
  <2> QED  BY <1>1, <2>2, <2>3
<1>12. CASE WriteFile
  <2>1. k = 4
    BY <1>7, <1>12, Steps DEF WriteFile
  <2>2. told' = [told EXCEPT ![p] = (@ \cup PathsOf(project[p].sources)) \cap present]
    BY <1>6, <1>12 DEF WriteFile
  <2> QED  BY <1>1, <1>5, <1>6, <1>8, <1>12, <2>1, <2>2 DEF WriteFile, Written
<1>13. CASE SaveFails
  <2>1. k = 1 \/ k = 3
    BY <1>7, <1>13, Steps DEF SaveFails
  <2> QED  BY <1>1, <1>5, <1>13, <2>1 DEF SaveFails
<1> QED  BY <1>9, <1>10, <1>11, <1>12, <1>13 DEF Save

LEMMA SaveTypes ==
    ASSUME TypeInv, LocInv, Save
    PROVE  TypeInv' /\ LocInv'
<1>1. alive /\ UNCHANGED <<present, locationVars, serverVars, project, idsLost, forgotten>>
  BY SaveDoes
<1>2. ServerTypes' /\ HeaderKnown' /\ Down'
  BY <1>1 DEF TypeInv, ServerTypes, HeaderKnown, Down, serverVars, locationVars
<1>3. SavingTypes'
  <2>1. \/ saving' = NotSaving
        \/ \E p \in mProjects, k \in 2..4 : SavingOf(p, k)'
    BY SaveDoes
  <2> QED  BY <1>1, <2>1, Steps DEF SavingTypes, SavingOf, serverVars
<1>4. HistTypes'
  <2>1. told' \in [Projects -> SUBSET Sources]
    <3>1. UNCHANGED told \/ \E p \in mProjects :
            told' = [told EXCEPT ![p] = (@ \cup PathsOf(project[p].sources)) \cap present]
      BY SaveDoes
    <3> QED  BY <3>1 DEF TypeInv, HistTypes, DiskTypes, ServerTypes
  <2> QED  BY <1>1, <2>1 DEF TypeInv, HistTypes
<1>5. DiskTypes'
  <2>1. fileids' \in TableFiles
    <3>1. fileids' \in {fileids, Torn, Table(sPathsToIds)}
      BY SaveDoes
    <3> QED  BY <3>1 DEF TableFiles, TypeInv, DiskTypes, LocInv, GoodTable
  <2>2. files' \in [Names -> {Absent, Torn} \cup Databases]
    <3>1. \/ UNCHANGED files
          \/ \E p \in mProjects : files' = [files EXCEPT ![encodePath(p)] = Torn]
          \/ \E p \in mProjects : Written(p)
      BY SaveDoes
    <3>2. \A p \in mProjects : p \in Projects /\ project[p] \in ProjectStates
      BY DEF TypeInv, ServerTypes
    <3> QED  BY <3>1, <3>2, FileStates DEF Written, TypeInv, DiskTypes
  <2> QED  BY <1>1, <2>1, <2>2 DEF TypeInv, DiskTypes
<1>6. LocInv'
  <2>1. fileids' \in {fileids, Torn, Table(sPathsToIds)}
    BY SaveDoes
  <2>2. fileids'.state = "whole" => GoodTable(fileids'.pathsToIds)
    BY <2>1, FileStates DEF LocInv
  <2> QED  BY <1>1, <2>2 DEF LocInv, locationVars
<1> QED  BY <1>2, <1>3, <1>4, <1>5, <1>6 DEF TypeInv

\* What removeProject() leaves of each project.
LEMMA RemoveProjectsDoes ==
    ASSUME TypeInv, NEW matches \in SUBSET Projects, NEW unload \in BOOLEAN,
           RemoveProjects(matches, unload)
    PROVE  /\ project' \in [Projects -> ProjectStates]
           /\ \A p \in Projects :
                /\ p \notin matches => project'[p] = project[p]
                /\ p \in matches /\ unload => project'[p] = Unloaded(project[p])
                /\ p \in matches /\ ~unload => project'[p] = NewProject
                /\ PairsOf(project'[p]) \subseteq PairsOf(project[p])
                /\ project'[p].pending \subseteq project[p].pending
<1>1. project' = [p \in Projects |-> IF p \notin matches THEN project[p]
                                     ELSE IF unload THEN Unloaded(project[p]) ELSE NewProject]
  BY DEF RemoveProjects
<1>2. \A p \in Projects : project[p] \in ProjectStates
  BY DEF TypeInv, ServerTypes
<1> QED  BY <1>1, <1>2, UnloadedKeeps, NewProjects

LEMMA RemoveProjectsTypes ==
    ASSUME TypeInv, NEW matches \in SUBSET Projects, NEW unload \in BOOLEAN,
           RemoveProjects(matches, unload)
    PROVE  TypeInv'
<1>1. /\ alive /\ saving = NotSaving /\ matches \subseteq mProjects
      /\ mCurrentProject' \in CurrentAfter(matches, unload)
      /\ UNCHANGED <<fileids, present, locationVars, alive, mRestoreProjects, saving, idsLost,
                     forgotten>>
  BY DEF RemoveProjects, Request, Idle
<1>2. /\ unload => UNCHANGED <<files, mProjects, told>>
      /\ ~unload => /\ files' = WithoutFiles(matches) /\ mProjects' = mProjects \ matches
                    /\ told' = [p \in Projects |-> IF p \in matches THEN {} ELSE told[p]]
  BY DEF RemoveProjects
<1>3. ServerTypes'
  <2>1. mCurrentProject' \in mProjects' \cup {NoPath}
    BY <1>1, <1>2 DEF CurrentAfter, TypeInv, ServerTypes
  <2>2. \A p \in Projects : p \notin mProjects' => project'[p] = NewProject
    <3>1. CASE unload
      <4>1. \A p \in Projects : p \notin mProjects => p \notin matches /\ project[p] = NewProject
        BY <1>1 DEF TypeInv, ServerTypes
      <4>2. \A p \in Projects : p \notin matches => project'[p] = project[p]
        BY RemoveProjectsDoes
      <4>3. mProjects' = mProjects
        BY <1>2, <3>1
      <4> QED  BY <4>1, <4>2, <4>3
    <3>2. CASE ~unload
      <4>1. \A p \in Projects : p \notin mProjects => project[p] = NewProject
        BY DEF TypeInv, ServerTypes
      <4>2. \A p \in Projects : /\ p \notin matches => project'[p] = project[p]
                                /\ p \in matches => project'[p] = NewProject
        BY <3>2, RemoveProjectsDoes
      <4>3. mProjects' = mProjects \ matches
        BY <1>2, <3>2
      <4> QED  BY <4>1, <4>2, <4>3
    <3> QED  BY <3>1, <3>2
  <2>3. mProjects' \subseteq Projects
    BY <1>2 DEF TypeInv, ServerTypes
  <2> QED  BY <1>1, <2>1, <2>2, <2>3, RemoveProjectsDoes DEF TypeInv, ServerTypes
<1>4. HeaderKnown'
  BY <1>1, RemoveProjectsDoes DEF TypeInv, HeaderKnown, locationVars
<1>5. DiskTypes'
  <2>1. files' \in [Names -> {Absent, Torn} \cup Databases]
    BY <1>2 DEF WithoutFiles, TypeInv, DiskTypes
  <2> QED  BY <1>1, <2>1 DEF TypeInv, DiskTypes
<1>6. HistTypes'
  <2>1. told' \in [Projects -> SUBSET Sources]
    BY <1>2 DEF TypeInv, HistTypes
  <2> QED  BY <1>1, <2>1 DEF TypeInv, HistTypes
<1>7. SavingTypes' /\ Down'
  BY <1>1, StaysIdle DEF TypeInv, Down
<1> QED  BY <1>3, <1>4, <1>5, <1>6, <1>7 DEF TypeInv

LEMMA ClearProjectsDoes ==
    ASSUME TypeInv, ClearProjects
    PROVE  /\ project' \in [Projects -> ProjectStates]
           /\ \A p \in Projects :
                /\ p \notin mProjects => project'[p] = project[p]
                /\ PairsOf(project'[p]) \subseteq PairsOf(project[p])
                /\ project'[p].pending = project[p].pending
<1>1. project' = [p \in Projects |-> IF p \in mProjects THEN Unloaded(project[p]) ELSE project[p]]
  BY DEF ClearProjects
<1>2. \A p \in Projects : project[p] \in ProjectStates
  BY DEF TypeInv, ServerTypes
<1> QED  BY <1>1, <1>2, UnloadedKeeps

LEMMA ClearProjectsTypes ==
    ASSUME TypeInv, LocInv, ClearProjects
    PROVE  TypeInv' /\ LocInv'
<1>1. /\ alive /\ saving = NotSaving
      /\ fileids' = Absent /\ files' = [n \in Names |-> Absent] /\ mCurrentProject' = NoPath
      /\ told' = [p \in Projects |-> {}]
      /\ UNCHANGED <<present, locationVars, alive, mProjects, mRestoreProjects, saving, idsLost,
                     forgotten>>
  BY DEF ClearProjects, Request, Idle
<1>2. ServerTypes' /\ HeaderKnown'
  BY <1>1, ClearProjectsDoes DEF TypeInv, ServerTypes, HeaderKnown, locationVars
<1>3. DiskTypes' /\ HistTypes' /\ Down'
  BY <1>1 DEF TypeInv, DiskTypes, TableFiles, HistTypes, Down
<1>4. SavingTypes'
  BY <1>1, StaysIdle
<1>5. LocInv'
  BY <1>1, FileStates DEF LocInv, locationVars
<1> QED  BY <1>2, <1>3, <1>4, <1>5 DEF TypeInv

LEMMA ReloadQueryTypes ==
    ASSUME TypeInv, ReloadQuery
    PROVE  TypeInv'
<1>1. /\ alive /\ saving = NotSaving
      /\ UNCHANGED <<diskVars, locationVars, alive, mRestoreProjects, saving, told, idsLost>>
      /\ mProjects' \subseteq Projects /\ mCurrentProject' = NoPath
      /\ project' = [p \in Projects |-> NewProject]
      /\ forgotten' \in BOOLEAN
  BY DEF ReloadQuery, ReloadProjects, Request, Idle, TypeInv, HistTypes
<1>2. ServerTypes' /\ HeaderKnown'
  BY <1>1, NewProjects DEF TypeInv, ServerTypes, HeaderKnown
<1>3. DiskTypes' /\ HistTypes' /\ Down'
  BY <1>1 DEF TypeInv, DiskTypes, HistTypes, Down, diskVars
<1>4. SavingTypes'
  BY <1>1, StaysIdle
<1> QED  BY <1>2, <1>3, <1>4 DEF TypeInv

LEMMA DisappearTypes ==
    ASSUME TypeInv, NEW f \in Sources, Disappear(f)
    PROVE  TypeInv'
<1>1. /\ present' = present \ {f} /\ told' = [p \in Projects |-> told[p] \ {f}]
      /\ UNCHANGED <<fileids, files, locationVars, serverVars, project, saving, idsLost, forgotten>>
  BY DEF Disappear
<1>2. DiskTypes' /\ HistTypes'
  BY <1>1 DEF TypeInv, DiskTypes, HistTypes
<1>3. ServerTypes' /\ SavingTypes' /\ HeaderKnown' /\ Down'
  BY <1>1 DEF TypeInv, ServerTypes, SavingTypes, HeaderKnown, Down, serverVars, locationVars
<1> QED  BY <1>2, <1>3 DEF TypeInv

\* The actions that leave Location and the table on disk alone.
LEMMA LocUnchanged ==
    ASSUME LocInv, UNCHANGED <<fileids, locationVars>>
    PROVE  LocInv'
  BY DEF LocInv, locationVars

LEMMA StutterTypes ==
    ASSUME TypeInv, LocInv, UNCHANGED storageVars
    PROVE  TypeInv' /\ LocInv'
<1>1. UNCHANGED <<diskVars, locationVars, serverVars, project, saving, histVars>>
  BY DEF storageVars
<1>2. TypeInv'
  BY <1>1 DEF TypeInv, DiskTypes, ServerTypes, SavingTypes, HistTypes, HeaderKnown, Down,
              diskVars, locationVars, serverVars, histVars
<1>3. LocInv'
  BY <1>1, LocUnchanged DEF diskVars
<1> QED  BY <1>2, <1>3

LEMMA TypeStep ==
    ASSUME TypeInv, LocInv, [StorageNext]_storageVars
    PROVE  TypeInv' /\ LocInv'
<1>1. ASSUME NEW p \in Projects,
             \/ Reindex(p) \/ FinishTimeout(p) \/ Select(p)
             \/ \E s \in Ids \X Sources, ok \in BOOLEAN : JobEnds(p, s, ok)
      PROVE  TypeInv' /\ LocInv'
  <2>1. UNCHANGED <<fileids, locationVars>>
    BY <1>1 DEF Reindex, FinishTimeout, Select, JobEnds, diskVars
  <2> QED  BY <1>1, <2>1, ProjectActionsTypes, SelectTypes, LocUnchanged
<1>2. ASSUME NEW f \in Sources, Disappear(f)
      PROVE  TypeInv' /\ LocInv'
  BY <1>2, DisappearTypes, LocUnchanged DEF Disappear
<1>3. ASSUME NEW matches \in SUBSET Projects, NEW unload \in BOOLEAN,
             RemoveProjects(matches, unload)
      PROVE  TypeInv' /\ LocInv'
  BY <1>3, RemoveProjectsTypes, LocUnchanged DEF RemoveProjects
<1>4. CASE ReloadQuery
  BY <1>4, ReloadQueryTypes, LocUnchanged DEF ReloadQuery, diskVars
<1> QED
  BY <1>1, <1>2, <1>3, <1>4, StartTypes, StopTypes, CompileTypes, VisitHeaderTypes, SaveTypes,
     ClearProjectsTypes, StutterTypes
  DEF StorageNext

---------------------------------------------------------------------------
(* Ids keep their meaning.                                                 *)

LEMMA PairsHaveTypes ==
    ASSUME TypeInv, NEW p \in Projects
    PROVE  /\ PairsOf(project[p]) \subseteq Pairs
           /\ StoredIn(project[p]) \subseteq PairsOf(project[p])
           /\ project[p].sources \subseteq Pairs
<1>1. project[p] \in ProjectStates
  BY DEF TypeInv, ServerTypes
<1> QED  BY <1>1 DEF ProjectStates, PairSets, PairsOf, StoredIn

LEMMA GrowsCovers ==
    ASSUME Grows, NEW pairs \in SUBSET Pairs, Covers(sPathsToIds, pairs)
    PROVE  Covers(sPathsToIds', pairs)
<1> SUFFICES ASSUME NEW s \in pairs
             PROVE  sPathsToIds'[s[2]] = s[1]
  BY DEF Covers
<1>1. s[1] \in Ids /\ s[2] \in Paths
  BY DEF Pairs
<1>2. s[1] # 0
  BY <1>1, PathsAreFinite DEF Ids
<1> QED  BY <1>1, <1>2 DEF Covers, Grows

LEMMA MemoryKept ==
    ASSUME TypeInv, MemoryMeans, Grows, NEW pairs, Covers(sPathsToIds', pairs),
           \A p \in Projects : PairsOf(project'[p]) \subseteq PairsOf(project[p]) \cup pairs
    PROVE  MemoryMeans'
<1>1. \A p \in Projects : Covers(sPathsToIds', PairsOf(project[p]))
  BY PairsHaveTypes, GrowsCovers DEF MemoryMeans
<1> QED  BY <1>1 DEF MemoryMeans, Covers

LEMMA FilesKept ==
    ASSUME TypeInv, FilesMean, Grows, UNCHANGED <<fileids, alive>>,
           \A n \in Names : files'[n].state = "whole" => Whole(n) /\ files'[n] = files[n]
    PROVE  FilesMean'
<1> SUFFICES ASSUME NEW n \in Names, Whole(n)'
             PROVE  /\ alive' => Covers(sPathsToIds', StoredIn(files'[n]))
                    /\ fileids'.state = "whole" => Covers(fileids'.pathsToIds, StoredIn(files'[n]))
  BY DEF FilesMean
<1>1. Whole(n) /\ files'[n] = files[n]
  BY DEF Whole
<1>2. StoredIn(files[n]) \subseteq Pairs
  BY <1>1, WholeFilesHaveTypes DEF StoredIn, TypeInv
<1> QED  BY <1>1, <1>2, GrowsCovers DEF FilesMean

LEMMA OnDiskIsCovered ==
    ASSUME TypeInv, FilesMean, alive, NEW p \in Projects
    PROVE  Covers(sPathsToIds, OnDisk(p))
<1>1. encodePath(p) \in Names
  BY NamesTellProjects
<1> QED  BY <1>1 DEF OnDisk, FilesMean, Covers

LEMMA NotSavingStep ==
    ASSUME saving = NotSaving
    PROVE  saving.step = 0 /\ saving.project = NoPath
  BY DEF NotSaving

\* Nothing is saved after the step.
LEMMA SavedTableIdle ==
    ASSUME saving' = NotSaving
    PROVE  SavedTable'
  BY DEF SavedTable, NotSaving

\* One project changes in memory.
LEMMA BecomesMeans ==
    ASSUME TypeInv, MemoryMeans, Grows, NEW p \in Projects, NEW x, NEW pairs,
           Becomes(p, x, pairs), Covers(sPathsToIds', pairs)
    PROVE  MemoryMeans'
<1>1. \A q \in Projects : PairsOf(project'[q]) \subseteq PairsOf(project[q]) \cup pairs
  BY BecomesElsewhere DEF Becomes, TypeInv
<1> QED  BY <1>1, MemoryKept

LEMMA StartMeans ==
    ASSUME TypeInv, LocInv, IdInv, NEW c \in BOOLEAN, Start(c)
    PROVE  IdInv'
<1> SUFFICES ASSUME ~idsLost'
             PROVE  MemoryMeans' /\ FilesMean' /\ SavedTable'
  BY DEF IdInv
<1>1. /\ ~alive /\ alive' = TRUE /\ saving' = saving
      /\ project' = [p \in Projects |-> NewProject]
      /\ mRestoreProjects' = (fileids'.state = "whole")
      /\ LocationInit(IF fileids'.state = "whole" THEN fileids'.pathsToIds ELSE NoIds)
      /\ idsLost' = (~c /\ (idsLost \/ (~mRestoreProjects' /\ WholeFiles # {})))
  BY DEF Start, restoreFileIds, ReloadProjects
<1>2. MemoryMeans'
  BY <1>1, NewProjects DEF MemoryMeans, Covers
<1>3. SavedTable'
  BY <1>1, SavedTableIdle DEF SavingTypes, TypeInv
<1>4. CASE c
  <2>1. \A n \in Names : ~Whole(n)'
    BY <1>4, FileStates DEF Start, Whole
  <2> QED  BY <1>2, <1>3, <2>1 DEF FilesMean
<1>5. CASE ~c
  <2>1. ~idsLost /\ (fileids'.state = "whole" \/ WholeFiles = {})
    BY <1>1, <1>5
  <2>2. fileids' = fileids /\ files' = files
    BY <1>5 DEF Start
  <2>3. fileids'.state = "whole" => sPathsToIds' = fileids.pathsToIds
    BY <1>1, <2>2 DEF LocationInit
  <2>4. FilesMean'
    <3> SUFFICES ASSUME NEW n \in Names, Whole(n)'
                 PROVE  /\ Covers(sPathsToIds', StoredIn(files'[n]))
                        /\ Covers(fileids'.pathsToIds, StoredIn(files'[n]))
      BY DEF FilesMean
    <3>1. Whole(n)
      BY <2>2 DEF Whole
    <3>2. fileids.state = "whole"
      BY <2>1, <2>2, <3>1 DEF WholeFiles, Whole
    <3>3. Covers(fileids.pathsToIds, StoredIn(files[n]))
      BY <2>1, <3>1, <3>2 DEF IdInv, FilesMean
    <3> QED  BY <2>2, <2>3, <3>2, <3>3
  <2> QED  BY <1>2, <1>3, <2>4
<1> QED  BY <1>4, <1>5

LEMMA StopMeans ==
    ASSUME TypeInv, IdInv, ~idsLost, Stop
    PROVE  MemoryMeans' /\ FilesMean' /\ SavedTable'
<1>1. /\ alive' = FALSE /\ project' = [p \in Projects |-> NewProject] /\ saving' = NotSaving
      /\ fileids' = fileids /\ files' = files
  BY DEF Stop, diskVars
<1>2. MemoryMeans' /\ SavedTable'
  BY <1>1, NewProjects, SavedTableIdle DEF MemoryMeans, Covers
<1>3. FilesMean'
  BY <1>1 DEF IdInv, FilesMean, Whole
<1> QED  BY <1>2, <1>3

LEMMA CompileMeans ==
    ASSUME TypeInv, LocInv, IdInv, ~idsLost, NEW f \in Sources, Compile(f)
    PROVE  MemoryMeans' /\ FilesMean' /\ SavedTable'
<1> DEFINE p == RootOf[f]
           source == <<sPathsToIds'[f], f>>
<1>1. /\ p \in Projects /\ Grows /\ files' = FilesAfterLoad(p, project[p])
      /\ \E x : Becomes(p, x, OnDisk(p) \cup {source})
  BY CompileDoes
<1>2. PICK x : Becomes(p, x, OnDisk(p) \cup {source})
  BY <1>1
<1>3. /\ UNCHANGED <<fileids, alive, saving>> /\ alive /\ saving = NotSaving
  BY DEF Compile, Request, Idle
<1>4. Covers(sPathsToIds', {source})
  BY DEF Covers
<1> HIDE DEF p, source
<1>5. Covers(sPathsToIds', OnDisk(p))
  BY <1>1, <1>3, OnDiskIsCovered, OnDiskPairs, GrowsCovers DEF IdInv, TypeInv
<1>6. Covers(sPathsToIds', OnDisk(p) \cup {source})
  BY <1>4, <1>5 DEF Covers
<1>7. MemoryMeans'
  BY <1>1, <1>2, <1>6, BecomesMeans DEF IdInv
<1>8. FilesMean'
  BY <1>1, <1>3, FilesAfterLoadKeeps, FilesKept DEF IdInv, TypeInv
<1> QED  BY <1>3, <1>7, <1>8, SavedTableIdle

LEMMA SelectMeans ==
    ASSUME TypeInv, LocInv, IdInv, ~idsLost, NEW p \in Projects, Select(p)
    PROVE  MemoryMeans' /\ FilesMean' /\ SavedTable'
<1>1. files' = FilesAfterLoad(p, project[p])
  BY SelectDoes
<1>2. PICK x : Becomes(p, x, OnDisk(p))
  BY SelectDoes
<1>3. UNCHANGED <<fileids, locationVars, alive, saving>> /\ alive /\ saving = NotSaving
  BY DEF Select, Request, Idle
<1>4. Grows
  BY <1>3, NothingInGrows
<1>5. Covers(sPathsToIds', OnDisk(p))
  BY <1>3, <1>4, OnDiskIsCovered, OnDiskPairs, GrowsCovers DEF IdInv, TypeInv
<1>6. MemoryMeans'
  BY <1>2, <1>4, <1>5, BecomesMeans DEF IdInv
<1>7. FilesMean'
  BY <1>1, <1>3, <1>4, FilesAfterLoadKeeps, FilesKept DEF IdInv, TypeInv
<1> QED  BY <1>3, <1>6, <1>7, SavedTableIdle

\* A project that is saved keeps what it stores while the table is safe.
LEMMA SavedTableKept ==
    ASSUME SavedTable, UNCHANGED <<fileids, saving>>,
           saving.step \in {3, 4} => StoredIn(project'[saving.project]) = StoredIn(project[saving.project])
    PROVE  SavedTable'
  BY DEF SavedTable

LEMMA ProjectActionsMean ==
    ASSUME TypeInv, LocInv, IdInv, ~idsLost, NEW p \in Projects,
           \/ Reindex(p) \/ FinishTimeout(p) \/ VisitHeader(p)
           \/ \E s \in Ids \X Sources, ok \in BOOLEAN : JobEnds(p, s, ok)
    PROVE  MemoryMeans' /\ FilesMean' /\ SavedTable'
<1>0. UNCHANGED <<fileids, files, alive>>
  BY DEF Reindex, FinishTimeout, VisitHeader, JobEnds, diskVars, serverVars
<1>1. Grows
  BY NothingInGrows, VisitHeaderTypes DEF Reindex, FinishTimeout, JobEnds
<1>2. FilesMean'
  BY <1>0, <1>1, FilesKept DEF IdInv, Whole
<1>3. CASE Reindex(p)
  <2>1. PICK x : Becomes(p, x, {})
    BY <1>3, ReindexDoes
  <2>2. Covers(sPathsToIds', {})
    BY DEF Covers
  <2>3. MemoryMeans'
    BY <1>1, <2>1, <2>2, BecomesMeans DEF IdInv
  <2>4. saving' = NotSaving
    BY <1>3 DEF Reindex, Request, Idle
  <2> QED  BY <1>2, <2>3, <2>4, SavedTableIdle
<1>4. CASE FinishTimeout(p)
  <2>1. PICK x, headers : /\ Becomes(p, x, headers)
                          /\ headers \subseteq {<<sPathsToIds[Header], Header>>}
    BY <1>4, FinishTimeoutDoes
  <2>2. UNCHANGED locationVars
    BY <1>4 DEF FinishTimeout
  <2>3. Covers(sPathsToIds', headers)
    BY <2>1, <2>2 DEF Covers, locationVars
  <2>4. MemoryMeans'
    BY <1>1, <2>1, <2>3, BecomesMeans DEF IdInv
  <2>5. SavedTable'
    <3>1. saving' \in {NotSaving, [step |-> 1, project |-> p]}
      BY <1>4, FinishTimeoutDoes
    <3>2. saving'.step \notin {3, 4}
      BY <3>1 DEF NotSaving
    <3> QED  BY <3>2 DEF SavedTable
  <2> QED  BY <1>2, <2>4, <2>5
<1>5. CASE VisitHeader(p)
  <2>1. UNCHANGED <<project, saving>>
    BY <1>5 DEF VisitHeader
  <2>2. Covers(sPathsToIds', {})
    BY DEF Covers
  <2>3. \A q \in Projects : PairsOf(project'[q]) \subseteq PairsOf(project[q]) \cup {}
    BY <2>1
  <2>4. MemoryMeans'
    BY <1>1, <2>2, <2>3, MemoryKept DEF IdInv
  <2> QED  BY <1>0, <1>2, <2>1, <2>4, SavedTableKept DEF IdInv
<1>6. ASSUME NEW s, NEW ok \in BOOLEAN, JobEnds(p, s, ok)
      PROVE  MemoryMeans' /\ SavedTable'
  <2>1. PICK x : /\ Becomes(p, x, {})
                 /\ x.sources = project[p].sources /\ x.deps = project[p].deps
    BY <1>6, JobEndsDoes
  <2>2. Covers(sPathsToIds', {})
    BY DEF Covers
  <2>3. MemoryMeans'
    BY <1>1, <2>1, <2>2, BecomesMeans DEF IdInv
  <2>4. UNCHANGED saving
    BY <1>6 DEF JobEnds
  <2>5. \A q \in Projects : StoredIn(project'[q]) = StoredIn(project[q])
    BY <2>1, BecomesElsewhere DEF StoredIn, TypeInv
  <2>6. saving.step \in {3, 4} => saving.project \in Projects
    BY NotSavingStep DEF TypeInv, SavingTypes, ServerTypes
  <2> QED  BY <1>0, <2>3, <2>4, <2>5, <2>6, SavedTableKept DEF IdInv
<1> QED  BY <1>2, <1>3, <1>4, <1>5, <1>6

\* The table is on disk before what needs it.
LEMMA SaveMeans ==
    ASSUME TypeInv, LocInv, IdInv, ~idsLost, Save
    PROVE  MemoryMeans' /\ FilesMean' /\ SavedTable'
<1>1. alive /\ UNCHANGED <<present, locationVars, serverVars, project>>
  BY SaveDoes
<1>2. /\ MemoryMeans' /\ MemoryMeans /\ FilesMean /\ SavedTable /\ Grows /\ UNCHANGED alive
      /\ sPathsToIds' = sPathsToIds
  BY <1>1, NothingInGrows DEF IdInv, MemoryMeans, locationVars, serverVars
<1>3. PICK p \in mProjects :
        \/ /\ SavingOf(p, 1) /\ SavingOf(p, 2)'
           /\ fileids' = Torn /\ UNCHANGED files
        \/ /\ SavingOf(p, 2) /\ SavingOf(p, 3)'
           /\ fileids' = Table(sPathsToIds) /\ UNCHANGED files
        \/ /\ SavingOf(p, 3) /\ SavingOf(p, 4)'
           /\ files' = [files EXCEPT ![encodePath(p)] = Torn] /\ UNCHANGED fileids
        \/ /\ SavingOf(p, 4) /\ saving' = NotSaving
           /\ Written(p) /\ UNCHANGED fileids
        \/ saving' = NotSaving /\ UNCHANGED <<fileids, files>>
  BY SaveDoes
<1>4. p \in Projects /\ encodePath(p) \in Names
  BY NamesTellProjects DEF TypeInv, ServerTypes
<1>5. /\ StoredIn(project[p]) \subseteq PairsOf(project[p])
      /\ Covers(sPathsToIds, StoredIn(project[p]))
  BY <1>2, <1>4, PairsHaveTypes DEF MemoryMeans, Covers
<1>6. CASE SavingOf(p, 2)' /\ fileids' = Torn /\ UNCHANGED files
  <2>1. SavedTable'
    BY <1>6 DEF SavedTable, SavingOf
  <2>2. FilesMean'
    BY <1>2, <1>6, FileStates DEF FilesMean, Whole
  <2> QED  BY <1>2, <2>1, <2>2
<1>7. CASE SavingOf(p, 3)' /\ fileids' = Table(sPathsToIds) /\ UNCHANGED files
  <2>1. fileids'.state = "whole" /\ fileids'.pathsToIds = sPathsToIds
    BY <1>7, FileStates
  <2>2. SavedTable'
    <3>1. saving'.project = p
      BY <1>7 DEF SavingOf
    <3> QED  BY <1>1, <1>5, <2>1, <3>1 DEF SavedTable
  <2>3. FilesMean'
    BY <1>1, <1>2, <1>7, <2>1 DEF FilesMean, Whole
  <2> QED  BY <1>2, <2>2, <2>3
<1>8. CASE /\ SavingOf(p, 3) /\ SavingOf(p, 4)'
           /\ files' = [files EXCEPT ![encodePath(p)] = Torn] /\ UNCHANGED fileids
  <2>1. \A n \in Names : files'[n] = IF n = encodePath(p) THEN Torn ELSE files[n]
    BY <1>8 DEF TypeInv, DiskTypes
  <2>2. \A n \in Names : files'[n].state = "whole" => Whole(n) /\ files'[n] = files[n]
    BY <2>1, FileStates DEF Whole
  <2>3. FilesMean'
    BY <1>2, <1>8, <2>2, FilesKept
  <2>4. SavedTable'
    BY <1>1, <1>2, <1>8 DEF SavedTable, SavingOf
  <2> QED  BY <1>2, <2>3, <2>4
<1>9. CASE SavingOf(p, 4) /\ saving' = NotSaving /\ Written(p) /\ UNCHANGED fileids
  <2>1. \A n \in Names : files'[n] = IF n = encodePath(p) THEN Database(project[p]) ELSE files[n]
    BY <1>9 DEF Written, TypeInv, DiskTypes
  <2>2. fileids.state = "whole" /\ Covers(fileids.pathsToIds, StoredIn(project[p]))
    BY <1>2, <1>9 DEF SavedTable, SavingOf
  <2>3. StoredIn(Database(project[p])) = StoredIn(project[p])
    BY FileStates DEF StoredIn
  <2>4. FilesMean'
    <3> SUFFICES ASSUME NEW n \in Names, Whole(n)'
                 PROVE  /\ Covers(sPathsToIds, StoredIn(files'[n]))
                        /\ Covers(fileids.pathsToIds, StoredIn(files'[n]))
      BY <1>2, <1>9 DEF FilesMean
    <3>1. CASE n = encodePath(p)
      BY <1>5, <2>1, <2>2, <2>3, <3>1
    <3>2. CASE n # encodePath(p)
      <4>1. files'[n] = files[n] /\ Whole(n)
        BY <2>1, <3>2 DEF Whole
      <4> QED  BY <1>1, <1>2, <2>2, <4>1 DEF FilesMean
    <3> QED  BY <3>1, <3>2
  <2> QED  BY <1>2, <1>9, <2>4, SavedTableIdle
<1>10. CASE saving' = NotSaving /\ UNCHANGED <<fileids, files>>
  BY <1>2, <1>10, SavedTableIdle DEF FilesMean, Whole
<1> QED  BY <1>3, <1>6, <1>7, <1>8, <1>9, <1>10

\* Unloading, deleting, clearing, reloading, and the end of a source.
LEMMA OtherActionsMean ==
    ASSUME TypeInv, LocInv, IdInv, ~idsLost,
           \/ \E matches \in SUBSET Projects, unload \in BOOLEAN : RemoveProjects(matches, unload)
           \/ ClearProjects \/ ReloadQuery
           \/ \E f \in Sources : Disappear(f)
           \/ UNCHANGED storageVars
    PROVE  MemoryMeans' /\ FilesMean' /\ SavedTable'
<1>0. UNCHANGED <<locationVars, alive, saving>>
  BY DEF RemoveProjects, ClearProjects, ReloadQuery, Disappear, storageVars, serverVars
<1>1. Grows /\ Covers(sPathsToIds', {}) /\ MemoryMeans /\ FilesMean /\ SavedTable
  BY <1>0, NothingInGrows DEF Covers, IdInv
<1>2. ASSUME NEW matches \in SUBSET Projects, NEW unload \in BOOLEAN,
             RemoveProjects(matches, unload)
      PROVE  MemoryMeans' /\ FilesMean' /\ SavedTable'
  <2>1. \A q \in Projects : PairsOf(project'[q]) \subseteq PairsOf(project[q]) \cup {}
    BY <1>2, RemoveProjectsDoes
  <2>2. MemoryMeans'
    BY <1>1, <2>1, MemoryKept
  <2>3. UNCHANGED fileids /\ (UNCHANGED files \/ files' = WithoutFiles(matches))
    BY <1>2 DEF RemoveProjects
  <2>4. \A n \in Names : files'[n].state = "whole" => Whole(n) /\ files'[n] = files[n]
    BY <2>3, FileStates DEF WithoutFiles, Whole
  <2>5. FilesMean'
    BY <1>0, <1>1, <2>3, <2>4, FilesKept
  <2>6. saving' = NotSaving
    BY <1>2 DEF RemoveProjects, Request, Idle
  <2> QED  BY <2>2, <2>5, <2>6, SavedTableIdle
<1>3. CASE ClearProjects
  <2>1. \A q \in Projects : PairsOf(project'[q]) \subseteq PairsOf(project[q]) \cup {}
    BY <1>3, ClearProjectsDoes
  <2>2. MemoryMeans'
    BY <1>1, <2>1, MemoryKept
  <2>3. FilesMean'
    BY <1>3, FileStates DEF ClearProjects, FilesMean, Whole
  <2>4. saving' = NotSaving
    BY <1>3 DEF ClearProjects, Request, Idle
  <2> QED  BY <2>2, <2>3, <2>4, SavedTableIdle
<1>4. CASE ReloadQuery
  <2>1. MemoryMeans'
    BY <1>4, NewProjects DEF ReloadQuery, ReloadProjects, MemoryMeans, Covers
  <2>2. FilesMean'
    BY <1>0, <1>1, <1>4, FilesKept DEF ReloadQuery, diskVars, Whole
  <2>3. saving' = NotSaving
    BY <1>4 DEF ReloadQuery, Request, Idle
  <2> QED  BY <2>1, <2>2, <2>3, SavedTableIdle
<1>5. CASE (\E f \in Sources : Disappear(f)) \/ UNCHANGED storageVars
  <2>1. UNCHANGED <<fileids, files, project>>
    BY <1>5 DEF Disappear, storageVars, diskVars
  <2>2. MemoryMeans' /\ FilesMean'
    BY <1>0, <1>1, <2>1 DEF MemoryMeans, FilesMean, Whole, locationVars
  <2> QED  BY <1>0, <1>1, <2>1, <2>2, SavedTableKept
<1> QED  BY <1>2, <1>3, <1>4, <1>5

LEMMA IdStep ==
    ASSUME TypeInv, LocInv, IdInv, [StorageNext]_storageVars
    PROVE  IdInv'
<1>1. ASSUME NEW c \in BOOLEAN, Start(c)
      PROVE  IdInv'
  BY <1>1, StartMeans
<1>2. CASE ~\E c \in BOOLEAN : Start(c)
  <2>1. idsLost' = idsLost
    BY <1>2
    DEF StorageNext, Stop, Compile, Disappear, Reindex, VisitHeader, FinishTimeout, Select, JobEnds,
        Save, RemoveProjects, ClearProjects, ReloadQuery, storageVars, histVars
  <2>2. CASE ~idsLost
    BY <1>2, <2>1, <2>2, StopMeans, CompileMeans, SelectMeans, ProjectActionsMean, SaveMeans,
       OtherActionsMean
    DEF StorageNext, IdInv
  <2> QED  BY <2>1, <2>2 DEF IdInv
<1> QED  BY <1>1, <1>2

---------------------------------------------------------------------------
(* What was saved stays.                                                   *)

\* The step changes nothing that was told, and no whole file.
ToldKept ==
    /\ UNCHANGED <<told, present, idsLost, forgotten>>
    /\ \A n \in Names : files'[n].state = "whole" <=> Whole(n)
    /\ \A n \in Names : Whole(n) => files'[n] = files[n]

LEMMA ToldIsWhole ==
    ASSUME ToldInv, saving # NotSaving => saving.step # 4, NEW p \in Projects, told[p] # {}
    PROVE  Whole(encodePath(p))
  BY DEF ToldInv, ToldIsStored, NotSaving

LEMMA ToldAfter ==
    ASSUME ToldInv, ToldKept,
           \/ saving = NotSaving
           \/ UNCHANGED <<saving, files>>,
           ~idsLost /\ ~forgotten => InUseHaveTold'
    PROVE  ToldInv'
<1>1. \A p \in Projects : encodePath(p) \in Names
  BY NamesTellProjects
<1>2. ToldPresent'
  BY DEF ToldInv, ToldPresent, ToldKept
<1>3. ToldIsStored'
  <2>1. CASE saving = NotSaving
    <3>1. \A p \in Projects : told[p] # {} => Whole(encodePath(p))
      BY <2>1, ToldIsWhole
    <3> QED  BY <1>1, <3>1 DEF ToldKept, ToldIsStored, Whole
  <2>2. CASE UNCHANGED <<saving, files>>
    BY <2>2 DEF ToldInv, ToldIsStored, ToldKept, Whole
  <2> QED  BY <2>1, <2>2
<1>4. ASSUME ~idsLost, ~forgotten
      PROVE  FilesHaveTold'
  BY <1>1, <1>4 DEF ToldInv, ToldKept, FilesHaveTold, Whole
<1> QED  BY <1>2, <1>3, <1>4 DEF ToldInv, ToldKept

\* Only this project changes, and it has what was saved.
LEMMA OthersHaveTold ==
    ASSUME TypeInv, InUseHaveTold, NEW p \in Projects, NEW x, NEW pairs, Becomes(p, x, pairs),
           told[p] \subseteq PathsOf(x.sources),
           UNCHANGED <<told, alive, mRestoreProjects>>,
           \A q \in Projects : q # p => (saving'.project = q => saving.project = q)
    PROVE  InUseHaveTold'
<1> SUFFICES ASSUME NEW q \in Projects, InUse(q)'
             PROVE  told'[q] \subseteq PathsOf(project'[q].sources)
  BY DEF InUseHaveTold
<1>1. CASE q = p
  BY <1>1, BecomesElsewhere DEF TypeInv
<1>2. CASE q # p
  <2>1. project'[q] = project[q]
    BY <1>2, BecomesElsewhere DEF TypeInv
  <2>2. InUse(q)
    BY <1>2, <2>1 DEF InUse
  <2> QED  BY <2>1, <2>2 DEF InUseHaveTold
<1> QED  BY <1>1, <1>2

\* A project that is loaded has what was saved, and ids that the table knows.
LEMMA LoadHasTold ==
    ASSUME TypeInv, LocInv', Grows, IdInv, ToldInv, ~idsLost, ~forgotten,
           alive, saving = NotSaving, NEW p \in Projects, NEW r \in Load(p, project[p])
    PROVE  /\ r \in ProjectStates
           /\ told[p] \subseteq PathsOf(r.sources)
           /\ Covers(sPathsToIds', r.sources)
<1>1. InUseHaveTold /\ FilesHaveTold /\ ToldPresent /\ MemoryMeans /\ FilesMean
  BY DEF ToldInv, IdInv
<1>2. project[p] \in ProjectStates /\ DiskTypes
  BY DEF TypeInv, ServerTypes
<1>3. Covers(sPathsToIds', OnDisk(p))
  BY <1>1, <1>2, OnDiskIsCovered, OnDiskPairs, GrowsCovers
<1>4. Covers(sPathsToIds', PairsOf(project[p]))
  BY <1>1, PairsHaveTypes, GrowsCovers DEF MemoryMeans
<1>5. /\ r \in ProjectStates
      /\ PairsOf(r) \subseteq PairsOf(project[p]) \cup OnDisk(p)
      /\ \A t, S :
           /\ GoodTable(t) /\ Covers(t, OnDisk(p)) /\ S \subseteq present
           /\ Whole(encodePath(p)) => S \subseteq PathsOf(files[encodePath(p)].sources)
           /\ project[p].isValid \/ ~mRestoreProjects \/ ~Whole(encodePath(p)) =>
                S \subseteq PathsOf(project[p].sources)
           => S \subseteq PathsOf(r.sources)
  BY <1>2, LoadKeeps
<1>6. GoodTable(sPathsToIds')
  BY DEF LocInv
<1>7. told[p] \subseteq present
  BY <1>1 DEF ToldPresent
<1>8. Whole(encodePath(p)) => told[p] \subseteq PathsOf(files[encodePath(p)].sources)
  BY <1>1 DEF FilesHaveTold
<1>9. project[p].isValid \/ ~mRestoreProjects \/ ~Whole(encodePath(p)) =>
        told[p] \subseteq PathsOf(project[p].sources)
  <2>1. CASE project[p].isValid \/ ~mRestoreProjects
    BY <1>1, <2>1 DEF InUse, InUseHaveTold
  <2>2. CASE ~Whole(encodePath(p))
    <3>1. told[p] = {}
      BY <2>2, ToldIsWhole
    <3> QED  BY <3>1
  <2> QED  BY <2>1, <2>2
<1>10. told[p] \subseteq PathsOf(r.sources)
  BY <1>3, <1>5, <1>6, <1>7, <1>8, <1>9
<1>11. Covers(sPathsToIds', r.sources)
  <2>1. r.sources \subseteq PairsOf(project[p]) \cup OnDisk(p)
    BY <1>5 DEF PairsOf
  <2> QED  BY <1>3, <1>4, <2>1 DEF Covers
<1> QED  BY <1>5, <1>10, <1>11

LEMMA StartTold ==
    ASSUME TypeInv, ToldInv, NEW c \in BOOLEAN, Start(c)
    PROVE  ToldInv'
<1>1. /\ ~alive /\ saving = NotSaving /\ saving' = saving /\ present' = present
      /\ project' = [p \in Projects |-> NewProject]
      /\ idsLost' = (~c /\ (idsLost \/ (~mRestoreProjects' /\ WholeFiles # {})))
      /\ forgotten' = (~c /\ forgotten)
  BY DEF Start, ReloadProjects, TypeInv, SavingTypes
<1>2. CASE c
  <2>1. \A p \in Projects : told'[p] = {}
    BY <1>2 DEF Start
  <2>2. \A n \in Names : ~Whole(n)'
    BY <1>2, FileStates DEF Start, Whole
  <2> QED  BY <2>1, <2>2, NamesTellProjects
           DEF ToldInv, ToldPresent, ToldIsStored, InUseHaveTold, FilesHaveTold
<1>3. CASE ~c
  <2>1. files' = files /\ told' = told
    BY <1>3 DEF Start
  <2>2. ToldPresent' /\ ToldIsStored'
    BY <1>1, <2>1 DEF ToldInv, ToldPresent, ToldIsStored, Whole
  <2>3. ASSUME ~idsLost', ~forgotten'
        PROVE  InUseHaveTold' /\ FilesHaveTold'
    <3>1. ~idsLost /\ ~forgotten /\ (mRestoreProjects' \/ WholeFiles = {})
      BY <1>1, <1>3, <2>3
    <3>2. FilesHaveTold'
      BY <2>1, <3>1 DEF ToldInv, FilesHaveTold, Whole
    <3>3. ASSUME NEW p \in Projects, InUse(p)'
          PROVE  told'[p] = {}
      <4>1. ~mRestoreProjects'
        BY <1>1, <3>3, NewProjects, NotSavingStep, NoPathIsNone DEF InUse
      <4>2. ~Whole(encodePath(p))
        BY <3>1, <4>1, NamesTellProjects DEF WholeFiles, Whole
      <4> QED  BY <1>1, <2>1, <4>2, ToldIsWhole
    <3>4. InUseHaveTold'
      BY <3>3 DEF InUseHaveTold
    <3> QED  BY <3>2, <3>4
  <2> QED  BY <2>2, <2>3 DEF ToldInv
<1> QED  BY <1>2, <1>3

\* The end of rdm tears the file that is being written.
LEMMA StopTold ==
    ASSUME TypeInv, ToldInv, Stop
    PROVE  ToldInv'
<1>1. /\ alive' = FALSE /\ saving' = NotSaving
      /\ project' = [p \in Projects |-> NewProject]
      /\ told' = [p \in Projects |-> IF files[encodePath(p)].state = "torn" THEN {} ELSE told[p]]
      /\ UNCHANGED <<files, present, idsLost, forgotten>>
  BY DEF Stop, diskVars
<1>2. \A p \in Projects : told'[p] \subseteq told[p]
  BY <1>1
<1>3. ToldPresent'
  BY <1>1, <1>2 DEF ToldInv, ToldPresent
<1>4. ToldIsStored'
  <2>1. ASSUME NEW p \in Projects, told'[p] # {}
        PROVE  Whole(encodePath(p))
    <3>1. files[encodePath(p)].state # "torn" /\ told[p] # {}
      BY <1>1, <2>1
    <3> QED  BY <3>1, FileStates DEF ToldInv, ToldIsStored
  <2> QED  BY <1>1, <2>1 DEF ToldIsStored, Whole
<1>5. InUseHaveTold'
  BY <1>1, NewProjects, NoPathIsNone DEF InUseHaveTold, InUse, NotSaving
<1>6. FilesHaveTold => FilesHaveTold'
  BY <1>1, <1>2 DEF FilesHaveTold, Whole
<1> QED  BY <1>1, <1>3, <1>4, <1>5, <1>6 DEF ToldInv

LEMMA CompileTold ==
    ASSUME TypeInv, LocInv, IdInv, ToldInv, NEW f \in Sources, Compile(f)
    PROVE  ToldInv'
<1> DEFINE p == RootOf[f]
           source == <<sPathsToIds'[f], f>>
<1>1. /\ p \in Projects /\ source \in Pairs /\ LocInv' /\ Grows
      /\ files' = FilesAfterLoad(p, project[p])
      /\ \E x, r : /\ Becomes(p, x, OnDisk(p) \cup {source})
                   /\ r \in Load(p, project[p])
                   /\ x = IF source \in r.sources THEN r ELSE Index(r, {source})
  BY CompileDoes
<1>2. PICK x, r : /\ Becomes(p, x, OnDisk(p) \cup {source})
                  /\ r \in Load(p, project[p])
                  /\ x = IF source \in r.sources THEN r ELSE Index(r, {source})
  BY <1>1
<1>3. /\ UNCHANGED <<present, alive, mRestoreProjects, saving, told, idsLost, forgotten>>
      /\ alive /\ saving = NotSaving
  BY DEF Compile, Request, Idle, histVars
<1>4. Covers(sPathsToIds', {source})
  BY DEF Covers
<1> HIDE DEF p, source
<1>5. ToldKept
  BY <1>1, <1>3, FilesAfterLoadKeeps DEF ToldKept, TypeInv
<1>6. ASSUME ~idsLost, ~forgotten
      PROVE  InUseHaveTold'
  <2>1. /\ r \in ProjectStates /\ told[p] \subseteq PathsOf(r.sources)
        /\ Covers(sPathsToIds', r.sources)
    BY <1>1, <1>2, <1>3, <1>6, LoadHasTold
  <2>2. Covers(sPathsToIds', r.sources \cup {source})
    BY <1>4, <2>1 DEF Covers
  <2>3. {source} \in PairSets /\ GoodTable(sPathsToIds')
    BY <1>1 DEF PairSets, LocInv
  <2>4. PathsOf(r.sources) \subseteq PathsOf(Index(r, {source}).sources)
    BY <2>1, <2>2, <2>3, IndexKeeps
  <2>5. told[p] \subseteq PathsOf(x.sources)
    BY <1>2, <2>1, <2>4
  <2> QED  BY <1>1, <1>2, <1>3, <1>6, <2>5, OthersHaveTold DEF ToldInv
<1> QED  BY <1>3, <1>5, <1>6, ToldAfter

LEMMA SelectTold ==
    ASSUME TypeInv, LocInv, IdInv, ToldInv, NEW p \in Projects, Select(p)
    PROVE  ToldInv'
<1>1. files' = FilesAfterLoad(p, project[p])
  BY SelectDoes
<1>2. PICK x \in Load(p, project[p]) : Becomes(p, x, OnDisk(p))
  BY SelectDoes
<1>3. /\ UNCHANGED <<fileids, present, locationVars, alive, mRestoreProjects, saving, told, idsLost,
                     forgotten>>
      /\ alive /\ saving = NotSaving
  BY DEF Select, Request, Idle, histVars
<1>4. LocInv' /\ Grows
  BY <1>3, LocUnchanged, NothingInGrows
<1>5. ToldKept
  BY <1>1, <1>3, FilesAfterLoadKeeps DEF ToldKept, TypeInv
<1>6. ASSUME ~idsLost, ~forgotten
      PROVE  InUseHaveTold'
  <2>1. told[p] \subseteq PathsOf(x.sources)
    BY <1>2, <1>3, <1>4, <1>6, LoadHasTold
  <2> QED  BY <1>2, <1>3, <1>6, <2>1, OthersHaveTold DEF ToldInv
<1> QED  BY <1>3, <1>5, <1>6, ToldAfter

LEMMA ReindexTold ==
    ASSUME TypeInv, LocInv, IdInv, ToldInv, NEW p \in Projects, Reindex(p)
    PROVE  ToldInv'
<1>1. PICK s \in project[p].sources : Becomes(p, Index(project[p], {s}), {})
  BY ReindexDoes
<1>2. /\ UNCHANGED <<diskVars, locationVars, serverVars, saving, histVars>>
      /\ saving = NotSaving
  BY DEF Reindex, Request, Idle
<1>3. ToldKept
  BY <1>2 DEF ToldKept, diskVars, histVars, Whole
<1>4. ASSUME ~idsLost, ~forgotten
      PROVE  InUseHaveTold'
  <2>1. project[p] \in ProjectStates
    BY DEF TypeInv, ServerTypes
  <2>2. {s} \in PairSets /\ GoodTable(sPathsToIds)
    BY PairsHaveTypes DEF PairSets, LocInv
  <2>3. Covers(sPathsToIds, project[p].sources \cup {s})
    BY <1>4, PairsHaveTypes DEF IdInv, MemoryMeans, Covers, PairsOf
  <2>4. PathsOf(project[p].sources) \subseteq PathsOf(Index(project[p], {s}).sources)
    BY <2>1, <2>2, <2>3, IndexKeeps
  <2>5. told[p] \subseteq PathsOf(project[p].sources)
    BY <1>4 DEF ToldInv, InUseHaveTold, InUse
  <2>6. told[p] \subseteq PathsOf(Index(project[p], {s}).sources)
    BY <2>4, <2>5
  <2> QED  BY <1>1, <1>2, <1>4, <2>6, OthersHaveTold DEF ToldInv, histVars, serverVars
<1> QED  BY <1>2, <1>3, <1>4, ToldAfter

LEMMA JobEndsTold ==
    ASSUME TypeInv, ToldInv, NEW p \in Projects, NEW s, NEW ok \in BOOLEAN, JobEnds(p, s, ok)
    PROVE  ToldInv'
<1>1. PICK x : /\ Becomes(p, x, {}) /\ x.sources = project[p].sources
               /\ project[p].jobs # {}
  BY JobEndsDoes
<1>2. UNCHANGED <<diskVars, locationVars, serverVars, saving, histVars>>
  BY DEF JobEnds
<1>3. ToldKept
  BY <1>2 DEF ToldKept, diskVars, histVars, Whole
<1>4. ASSUME ~idsLost, ~forgotten
      PROVE  InUseHaveTold'
  <2>1. told[p] \subseteq PathsOf(x.sources)
    BY <1>1, <1>4 DEF ToldInv, InUseHaveTold, InUse
  <2> QED  BY <1>1, <1>2, <1>4, <2>1, OthersHaveTold DEF ToldInv, histVars, serverVars
<1> QED  BY <1>2, <1>3, <1>4, ToldAfter DEF diskVars

LEMMA FinishTimeoutTold ==
    ASSUME TypeInv, LocInv, ToldInv, NEW p \in Projects, FinishTimeout(p)
    PROVE  ToldInv'
<1>1. /\ project[p].timer /\ saving = NotSaving
      /\ saving' \in {saving, [step |-> 1, project |-> p]}
  BY FinishTimeoutDoes
<1>2. PICK x, headers : Becomes(p, x, headers) /\ x.sources = project[p].sources
  BY FinishTimeoutDoes
<1>3. UNCHANGED <<diskVars, locationVars, serverVars, histVars>>
  BY DEF FinishTimeout
<1>4. ToldKept
  BY <1>3 DEF ToldKept, diskVars, histVars, Whole
<1>5. ASSUME ~idsLost, ~forgotten
      PROVE  InUseHaveTold'
  <2>1. told[p] \subseteq PathsOf(x.sources)
    BY <1>1, <1>2, <1>5 DEF ToldInv, InUseHaveTold, InUse
  <2>2. \A q \in Projects : q # p => (saving'.project = q => saving.project = q)
    BY <1>1
  <2> QED  BY <1>2, <1>3, <1>5, <2>1, <2>2, OthersHaveTold DEF ToldInv, histVars, serverVars
<1> QED  BY <1>1, <1>4, <1>5, ToldAfter

\* save() writes at least what was saved before.
LEMMA SaveTold ==
    ASSUME TypeInv, ToldInv, Save
    PROVE  ToldInv'
<1>1. UNCHANGED <<present, alive, mRestoreProjects, project, idsLost, forgotten>>
  BY SaveDoes DEF serverVars
<1>2. PICK p \in mProjects :
        \/ (\E k \in 1..2 : SavingOf(p, k) /\ SavingOf(p, k + 1)') /\ UNCHANGED <<files, told>>
        \/ /\ SavingOf(p, 3) /\ SavingOf(p, 4)'
           /\ files' = [files EXCEPT ![encodePath(p)] = Torn] /\ UNCHANGED told
        \/ /\ SavingOf(p, 4) /\ saving' = NotSaving /\ Written(p)
           /\ told' = [told EXCEPT ![p] = (@ \cup PathsOf(project[p].sources)) \cap present]
        \/ /\ SavingOf(p, 1) \/ SavingOf(p, 3)
           /\ saving' = NotSaving /\ UNCHANGED <<files, told>>
  BY SaveDoes
<1>3. p \in Projects /\ encodePath(p) \in Names
  BY NamesTellProjects DEF TypeInv, ServerTypes
<1>4. saving.project = p /\ \A q \in Projects : saving'.project = q => q = p
  BY <1>2, NoPathIsNone DEF SavingOf, NotSaving
<1>5. \A q \in Projects : InUse(q)' => InUse(q)
  BY <1>1, <1>4 DEF InUse
<1>6. \A q \in Projects : q # p => encodePath(q) # encodePath(p) /\ encodePath(q) \in Names
  BY <1>3, NamesTellProjects
<1>7. CASE UNCHANGED <<files, told>> /\ saving.step # 4
  <2>1. ToldPresent' /\ (InUseHaveTold => InUseHaveTold') /\ (FilesHaveTold => FilesHaveTold')
    BY <1>1, <1>5, <1>7 DEF ToldInv, ToldPresent, InUseHaveTold, FilesHaveTold, Whole
  <2>2. ToldIsStored'
    BY <1>7, ToldIsWhole DEF ToldIsStored, Whole
  <2> QED  BY <1>1, <2>1, <2>2 DEF ToldInv
<1>8. CASE /\ SavingOf(p, 3) /\ SavingOf(p, 4)'
           /\ files' = [files EXCEPT ![encodePath(p)] = Torn] /\ UNCHANGED told
  <2>1. \A n \in Names : files'[n] = IF n = encodePath(p) THEN Torn ELSE files[n]
    BY <1>8 DEF TypeInv, DiskTypes
  <2>2. ToldIsStored'
    <3> SUFFICES ASSUME NEW q \in Projects, told[q] # {}
                 PROVE  \/ Whole(encodePath(q))'
                        \/ saving' = [step |-> 4, project |-> q] /\ files'[encodePath(q)] = Torn
      BY <1>8 DEF ToldIsStored
    <3>1. CASE q = p
      BY <1>3, <1>8, <2>1, <3>1 DEF SavingOf
    <3>2. CASE q # p
      <4>1. saving.step # 4
        BY <1>8 DEF SavingOf
      <4> QED  BY <1>6, <2>1, <3>2, <4>1, ToldIsWhole DEF Whole
    <3> QED  BY <3>1, <3>2
  <2>3. FilesHaveTold => FilesHaveTold'
    <3>1. \A q \in Projects : Whole(encodePath(q))' =>
            Whole(encodePath(q)) /\ files'[encodePath(q)] = files[encodePath(q)]
      BY <1>3, <1>6, <2>1, FileStates DEF Whole
    <3> QED  BY <1>8, <3>1 DEF FilesHaveTold
  <2>4. ToldPresent' /\ (InUseHaveTold => InUseHaveTold')
    BY <1>1, <1>5, <1>8 DEF ToldInv, ToldPresent, InUseHaveTold
  <2> QED  BY <1>1, <2>2, <2>3, <2>4 DEF ToldInv
<1>9. CASE /\ SavingOf(p, 4) /\ saving' = NotSaving /\ Written(p)
           /\ told' = [told EXCEPT ![p] = (@ \cup PathsOf(project[p].sources)) \cap present]
  <2>1. \A n \in Names : files'[n] = IF n = encodePath(p) THEN Database(project[p]) ELSE files[n]
    BY <1>9 DEF Written, TypeInv, DiskTypes
  <2>2. /\ told'[p] = (told[p] \cup PathsOf(project[p].sources)) \cap present
        /\ \A q \in Projects : q # p => told'[q] = told[q]
    BY <1>3, <1>9 DEF TypeInv, HistTypes
  <2>3. Whole(encodePath(p))' /\ files'[encodePath(p)].sources = project[p].sources
    BY <1>3, <2>1, FileStates DEF Whole
  <2>4. \A q \in Projects : q # p => files'[encodePath(q)] = files[encodePath(q)]
    BY <1>6, <2>1
  <2>5. ToldPresent'
    BY <1>1, <2>2 DEF ToldInv, ToldPresent
  <2>6. ToldIsStored'
    <3> SUFFICES ASSUME NEW q \in Projects, q # p, told[q] # {}
                 PROVE  Whole(encodePath(q))
      BY <2>2, <2>3, <2>4 DEF ToldIsStored, Whole
    <3>1. saving # [step |-> 4, project |-> q]
      BY <1>4
    <3> QED  BY <3>1 DEF ToldInv, ToldIsStored
  <2>7. ASSUME InUseHaveTold, FilesHaveTold
        PROVE  InUseHaveTold' /\ FilesHaveTold'
    <3>1. told'[p] \subseteq PathsOf(project[p].sources)
      BY <1>3, <1>4, <2>2, <2>7 DEF InUseHaveTold, InUse
    <3>2. InUseHaveTold'
      BY <1>1, <1>5, <2>2, <2>7, <3>1 DEF InUseHaveTold
    <3>3. FilesHaveTold'
      BY <2>2, <2>3, <2>4, <2>7, <3>1 DEF FilesHaveTold, Whole
    <3> QED  BY <3>2, <3>3
  <2> QED  BY <1>1, <2>5, <2>6, <2>7 DEF ToldInv
<1>10. \A k : k # 4 /\ SavingOf(p, k) => saving.step # 4
  BY DEF SavingOf
<1> QED  BY <1>2, <1>7, <1>8, <1>9, <1>10

LEMMA RemoveProjectsTold ==
    ASSUME TypeInv, ToldInv, NEW matches \in SUBSET Projects, NEW unload \in BOOLEAN,
           RemoveProjects(matches, unload)
    PROVE  ToldInv'
<1>1. /\ saving = NotSaving
      /\ UNCHANGED <<present, alive, mRestoreProjects, saving, idsLost, forgotten>>
  BY DEF RemoveProjects, Request, Idle
<1>2. \A p \in Projects : p \notin matches => project'[p] = project[p]
  BY RemoveProjectsDoes
<1>3. CASE unload
  <2>1. UNCHANGED <<files, told>>
    BY <1>3 DEF RemoveProjects
  <2>2. ToldKept
    BY <1>1, <2>1 DEF ToldKept, Whole
  <2>3. ASSUME NEW p \in Projects
        PROVE  /\ project'[p].sources = project[p].sources
               /\ InUse(p)' => InUse(p)
    <3>1. CASE p \in matches
      <4>1. project'[p] = Unloaded(project[p])
        BY <1>3, <3>1, RemoveProjectsDoes
      <4>2. project[p] \in ProjectStates
        BY DEF TypeInv, ServerTypes
      <4> QED  BY <1>1, <4>1, <4>2, UnloadedKeeps DEF InUse
    <3>2. CASE p \notin matches
      BY <1>1, <1>2, <3>2 DEF InUse
    <3> QED  BY <3>1, <3>2
  <2>4. InUseHaveTold => InUseHaveTold'
    BY <2>1, <2>3 DEF InUseHaveTold
  <2> QED  BY <1>1, <2>2, <2>4, ToldAfter DEF ToldInv
<1>4. CASE ~unload
  <2>1. /\ files' = WithoutFiles(matches)
        /\ told' = [p \in Projects |-> IF p \in matches THEN {} ELSE told[p]]
    BY <1>4 DEF RemoveProjects
  <2>2. ASSUME NEW p \in Projects, p \notin matches
        PROVE  files'[encodePath(p)] = files[encodePath(p)]
    <3>1. ~\E q \in matches : encodePath(p) = encodePath(q)
      BY <2>2, NamesTellProjects
    <3> QED  BY <2>1, <3>1, NamesTellProjects DEF WithoutFiles
  <2>3. ToldPresent'
    BY <1>1, <2>1 DEF ToldInv, ToldPresent
  <2>4. ToldIsStored'
    <3>1. \A p \in Projects : told[p] # {} => Whole(encodePath(p))
      BY <1>1, ToldIsWhole
    <3> QED  BY <2>1, <2>2, <3>1 DEF ToldIsStored, Whole
  <2>5. InUseHaveTold => InUseHaveTold'
    <3>1. \A p \in Projects : p \notin matches /\ InUse(p)' => InUse(p)
      BY <1>1, <1>2 DEF InUse
    <3> QED  BY <1>2, <2>1, <3>1 DEF InUseHaveTold
  <2>6. FilesHaveTold => FilesHaveTold'
    BY <2>1, <2>2 DEF FilesHaveTold, Whole
  <2> QED  BY <1>1, <2>3, <2>4, <2>5, <2>6 DEF ToldInv
<1> QED  BY <1>3, <1>4

LEMMA ClearProjectsTold ==
    ASSUME ClearProjects
    PROVE  ToldInv'
<1>1. \A p \in Projects : told'[p] = {}
  BY DEF ClearProjects
<1> QED  BY <1>1 DEF ToldInv, ToldPresent, ToldIsStored, InUseHaveTold, FilesHaveTold

LEMMA ReloadQueryTold ==
    ASSUME TypeInv, ToldInv, ReloadQuery
    PROVE  ToldInv'
<1>1. /\ saving = NotSaving
      /\ UNCHANGED <<files, present, alive, mRestoreProjects, saving, told, idsLost>>
      /\ project' = [p \in Projects |-> NewProject]
      /\ forgotten' = (forgotten \/ (~mRestoreProjects /\ WholeFiles # {}))
  BY DEF ReloadQuery, ReloadProjects, Request, Idle, diskVars
<1>2. ToldPresent' /\ ToldIsStored' /\ (FilesHaveTold => FilesHaveTold')
  BY <1>1 DEF ToldInv, ToldPresent, ToldIsStored, FilesHaveTold, Whole
<1>3. ASSUME ~forgotten', NEW p \in Projects, InUse(p)'
      PROVE  told'[p] = {}
  <2>1. ~mRestoreProjects
    BY <1>1, <1>3, NewProjects, NotSavingStep, NoPathIsNone DEF InUse
  <2>2. ~Whole(encodePath(p))
    BY <1>1, <1>3, <2>1, NamesTellProjects DEF WholeFiles, Whole
  <2> QED  BY <1>1, <2>2, ToldIsWhole
<1>4. ~forgotten' => InUseHaveTold'
  BY <1>3 DEF InUseHaveTold
<1> QED  BY <1>1, <1>2, <1>4 DEF ToldInv

LEMMA DisappearTold ==
    ASSUME ToldInv, NEW f \in Sources, Disappear(f)
    PROVE  ToldInv'
<1>1. /\ present' = present \ {f} /\ told' = [p \in Projects |-> told[p] \ {f}]
      /\ UNCHANGED <<files, alive, mRestoreProjects, project, saving, idsLost, forgotten>>
  BY DEF Disappear, serverVars
<1>2. ToldPresent' /\ ToldIsStored'
  BY <1>1 DEF ToldInv, ToldPresent, ToldIsStored, Whole
<1>3. InUseHaveTold => InUseHaveTold'
  BY <1>1 DEF InUseHaveTold, InUse
<1>4. FilesHaveTold => FilesHaveTold'
  BY <1>1 DEF FilesHaveTold, Whole
<1> QED  BY <1>1, <1>2, <1>3, <1>4 DEF ToldInv

\* Nothing that matters here changes.
LEMMA QuietTold ==
    ASSUME ToldInv,
           UNCHANGED <<told, present, files, idsLost, forgotten, project, saving, alive,
                       mRestoreProjects>>
    PROVE  ToldInv'
  BY DEF ToldInv, ToldPresent, ToldIsStored, InUseHaveTold, InUse, FilesHaveTold, Whole

LEMMA ToldStep ==
    ASSUME TypeInv, LocInv, IdInv, ToldInv, [StorageNext]_storageVars
    PROVE  ToldInv'
<1>1. ASSUME NEW p \in Projects, VisitHeader(p)
      PROVE  ToldInv'
  BY <1>1, QuietTold DEF VisitHeader, diskVars, serverVars, histVars
<1>2. CASE UNCHANGED storageVars
  BY <1>2, QuietTold DEF storageVars, diskVars, serverVars, histVars
<1> QED
  BY <1>1, <1>2, StartTold, StopTold, CompileTold, SelectTold, ReindexTold, JobEndsTold,
     FinishTimeoutTold, SaveTold, RemoveProjectsTold, ClearProjectsTold, ReloadQueryTold,
     DisappearTold
  DEF StorageNext

---------------------------------------------------------------------------
(* The theorems.                                                           *)

LEMMA InitIsGood ==
    ASSUME StorageInit
    PROVE  IInv
<1>1. /\ fileids = Absent /\ files = [n \in Names |-> Absent] /\ present = Sources
      /\ sPathsToIds = NoIds /\ sIdsToPaths = [i \in Ids |-> NoPath] /\ sLastId = 0
      /\ alive = FALSE /\ mProjects = {} /\ mCurrentProject = NoPath /\ mRestoreProjects = FALSE
      /\ project = [p \in Projects |-> NewProject] /\ saving = NotSaving
      /\ told = [p \in Projects |-> {}] /\ idsLost = FALSE /\ forgotten = FALSE
  BY DEF StorageInit
<1>2. TypeInv
  BY <1>1, NewProjects DEF TypeInv, DiskTypes, TableFiles, ServerTypes, SavingTypes, HistTypes,
                           HeaderKnown, Down
<1>3. LocInv
  <2>1. Known(NoIds) = {}
    BY DEF Known, NoIds
  <2>2. sIdsToPaths \in [Ids -> Paths \cup {NoPath}]
    BY <1>1
  <2> QED  BY <1>1, <2>1, <2>2, NoIdsIsGood, FileStates DEF LocInv
<1>4. IdInv
  BY <1>1, NewProjects, FileStates
  DEF IdInv, MemoryMeans, FilesMean, SavedTable, Covers, Whole, NotSaving
<1>5. ToldInv
  BY <1>1 DEF ToldInv, ToldPresent, ToldIsStored, InUseHaveTold, FilesHaveTold
<1> QED  BY <1>2, <1>3, <1>4, <1>5 DEF IInv

\* What is in memory, on disk and remembered of them agree in every state, wherever
\* rdm ended (Project::save, Server::saveFileIds, Server::restoreFileIds).
THEOREM StorageInvariant == StorageSpec => []IInv
<1>1. StorageInit => IInv
  BY InitIsGood
<1>2. IInv /\ [StorageNext]_storageVars => IInv'
  BY TypeStep, IdStep, ToldStep DEF IInv
<1> QED  BY <1>1, <1>2, PTL DEF StorageSpec

\* Every variable of the persistence has its type, saving goes on only for a
\* project of a running rdm, and what is not in mProjects has nothing.
THEOREM StorageTypeCorrect == StorageSpec => []StorageTypeOK
<1>1. IInv => StorageTypeOK
  <2> SUFFICES ASSUME IInv
               PROVE  StorageTypeOK
    OBVIOUS
  <2>1. fileids \in {Absent, Torn} \cup {Table(t) : t \in [Paths -> 0..Cardinality(Paths)]}
    BY DEF IInv, TypeInv, DiskTypes, TableFiles, Tables
  <2>2. \A n \in Names : Whole(n) => files[n].sources \cup files[n].deps \subseteq Pairs
    BY WholeFilesHaveTypes DEF IInv, TypeInv
  <2>3. /\ present \subseteq Sources /\ mProjects \subseteq Projects
        /\ mCurrentProject \in mProjects \cup {NoPath}
    BY DEF IInv, TypeInv, DiskTypes, ServerTypes
  <2>4. ASSUME NEW p \in Projects
        PROVE  /\ project[p].sources \cup project[p].deps \subseteq Pairs
               /\ project[p].jobs \cup project[p].pending \subseteq Pairs
               /\ p \notin mProjects => project[p] = NewProject
    <3>1. project[p] \in ProjectStates
      BY DEF IInv, TypeInv, ServerTypes
    <3> QED  BY <3>1 DEF ProjectStates, PairSets, IInv, TypeInv, ServerTypes
  <2>5. saving = NotSaving \/ (alive /\ saving.step \in DOMAIN SaveSteps /\ saving.project \in mProjects)
    BY DEF IInv, TypeInv, SavingTypes
  <2> QED  BY <2>1, <2>2, <2>3, <2>4, <2>5 DEF StorageTypeOK
<1> QED  BY <1>1, StorageInvariant, PTL

\* For any projects and sources, and whatever was unloaded, deleted, cleared or
\* reloaded and wherever rdm ended in save(): an id means what it meant when it
\* was stored, in memory and on disk, unless rdm once started with project
\* files and without their table.
THEOREM IdsKeepMeaningHolds == StorageSpec => []IdsKeepMeaning
<1>1. ASSUME LocInv, NEW s \in Pairs, sPathsToIds[s[2]] = s[1]
      PROVE  sIdsToPaths[s[1]] = s[2]
  <2>1. s[1] \in Ids /\ s[2] \in Paths
    BY DEF Pairs
  <2>2. s[2] \in Known(sPathsToIds)
    BY <1>1, <2>1, PathsAreFinite DEF Known, Ids
  <2> QED  BY <1>1, <2>2 DEF LocInv
<1>2. IInv => IdsKeepMeaning
  <2> SUFFICES ASSUME IInv, ~idsLost
               PROVE  /\ \A p \in Projects :
                           \A s \in project[p].sources \cup project[p].deps \cup project[p].jobs :
                             sIdsToPaths[s[1]] = s[2] /\ sPathsToIds[s[2]] = s[1]
                      /\ \A n \in Names : Whole(n) => \A s \in files[n].sources \cup files[n].deps :
                           /\ alive => sIdsToPaths[s[1]] = s[2]
                           /\ fileids.state = "whole" => fileids.pathsToIds[s[2]] = s[1]
    BY DEF IdsKeepMeaning
  <2>1. LocInv /\ MemoryMeans /\ FilesMean /\ TypeInv
    BY DEF IInv, IdInv
  <2>2. ASSUME NEW p \in Projects,
               NEW s \in project[p].sources \cup project[p].deps \cup project[p].jobs
        PROVE  sIdsToPaths[s[1]] = s[2] /\ sPathsToIds[s[2]] = s[1]
    <3>1. s \in PairsOf(project[p])
      BY DEF PairsOf
    <3>2. s \in Pairs /\ sPathsToIds[s[2]] = s[1]
      BY <2>1, <3>1, PairsHaveTypes DEF MemoryMeans, Covers
    <3> QED  BY <1>1, <2>1, <3>2
  <2>3. ASSUME NEW n \in Names, Whole(n), NEW s \in files[n].sources \cup files[n].deps
        PROVE  /\ alive => sIdsToPaths[s[1]] = s[2]
               /\ fileids.state = "whole" => fileids.pathsToIds[s[2]] = s[1]
    <3>1. s \in StoredIn(files[n]) /\ s \in Pairs
      BY <2>1, <2>3, WholeFilesHaveTypes DEF StoredIn, TypeInv
    <3>2. /\ alive => sPathsToIds[s[2]] = s[1]
          /\ fileids.state = "whole" => fileids.pathsToIds[s[2]] = s[1]
      BY <2>1, <2>3, <3>1 DEF FilesMean, Covers
    <3> QED  BY <1>1, <2>1, <3>1, <3>2
  <2> QED  BY <2>2, <2>3
<1> QED  BY <1>2, StorageInvariant, PTL

\* For any projects and sources: a source that was saved stays one of its
\* project's sources, on disk and once it is loaded, until it or the project is
\* deleted, unless rdm started or reloaded with project files it cannot read.
THEOREM SavedSourcesStayHolds == StorageSpec => []SavedSourcesStay
<1>1. IInv => SavedSourcesStay
  BY DEF IInv, ToldInv, InUseHaveTold, InUse, FilesHaveTold, SavedSourcesStay, StillTold
<1> QED  BY <1>1, StorageInvariant, PTL

=============================================================================

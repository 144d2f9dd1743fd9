------------------------------ MODULE Symbols ------------------------------
(***************************************************************************)
(* The symbol database: what an IndexerJob records about the cursors that  *)
(* clang shows it (src/src/IndexerJob.cpp), how a project merges the       *)
(* results of several jobs, and how it forgets what came from files that   *)
(* have changed before it indexes them again (Project.cpp, RTags.cpp,      *)
(* CursorInfo.h).                                                          *)
(*                                                                         *)
(* The program text is a sequence of cursors for each file; clang itself   *)
(* is the operator Declaration, which finds what a name stands for in a    *)
(* translation unit.  Names of symbols, types and the wording of symbol    *)
(* names in a CursorInfo are left out.  A round of indexing is one step:   *)
(* the files are claimed in any way the jobs may share them, all jobs end  *)
(* well and write() merges them (Project.tla is about jobs that are cut    *)
(* short).                                                                 *)
(***************************************************************************)
EXTENDS Integers, Sequences, FiniteSets, SequencesExt

CONSTANTS
  Units,       \* the source files, as file ids
  Headers,     \* the headers, as file ids
  Inclusions,  \* Inclusions[u]: the files clang enters for unit u, in order,
               \* each with the files on its include stack (u itself last)
  Texts        \* Texts[f]: what may be written in file f

Files == Units \cup Headers

\* A cursor has an offset, the length of its spelling (0: none), a kind, an
\* extent and
\*   - as a declaration a usr, its qualified name, whether it is a definition,
\*     the usrs it overrides and that of its class;
\*   - as a reference the usr it refers to.
ASSUME FilesAssumption == Files \subseteq Nat \ {0} /\ Units \cap Headers = {}
ASSUME InclusionsAssumption ==
    \A u \in Units : \A i \in DOMAIN Inclusions[u] :
      Inclusions[u][i].file \in Files /\ Inclusions[u][i].stack \subseteq Files

VARIABLES
  text,        \* what is written in each file now
  mSources,    \* the units the project was told about
  mModifiedFiles,  \* files that have changed since the last round
  mVisitedFiles, mDependencies,
  mSymbols, mSymbolNames, mUsr

symbolsVars == <<text, mSources, mModifiedFiles, mVisitedFiles, mDependencies, mSymbols,
                 mSymbolNames, mUsr>>

---------------------------------------------------------------------------
(* Kinds of cursors.                                                       *)

Functions_ == {"FunctionDecl", "CXXMethod"}
Classes == {"ClassDecl", "StructDecl"}
Tors == {"Constructor", "Destructor"}

isCursor(kind) == kind \in Functions_ \cup Classes \cup Tors \cup {"VarDecl", "FieldDecl"}
isReference(kind) == kind \in {"DeclRefExpr", "MemberRefExpr", "CallExpr", "TypeRef"}
isClass(info) == info.kind \in Classes

cursorRank(kind) ==
    CASE kind = "Constructor" -> 1
      [] kind \in Classes -> 0
      [] kind \in {"FieldDecl", "VarDecl"} -> 3
      [] OTHER -> 2

---------------------------------------------------------------------------
(* Locations and maps.                                                     *)

NoLocation == <<0, 0>>

\* Location::operator<(): the greater file id comes first.
Less(l, k) == l[1] > k[1] \/ (l[1] = k[1] /\ l[2] < k[2])

\* CursorInfo::CursorInfo()
NoInfo == [symbolLength |-> 0, kind |-> "Invalid", definition |-> FALSE, extent |-> <<-1, -1>>,
           targets |-> {}, references |-> {}]

\* map[key] of a Map, which makes the entry if there is none.
At(map, key, empty) == IF key \in DOMAIN map THEN map[key] ELSE empty
Put(map, key, value) == (key :> value) @@ map
Insert(map, key, values) == Put(map, key, At(map, key, {}) \cup values)
Drop(map, keys) == [k \in DOMAIN map \ keys |-> map[k]]

InfoAt(map, l) == At(map, l, NoInfo)
AddReferences(map, l, ls) == Put(map, l, [InfoAt(map, l) EXCEPT !.references = @ \cup ls])
AddTargets(map, l, ls) == Put(map, l, [InfoAt(map, l) EXCEPT !.targets = @ \cup ls])

\* RTags::findCursorInfo(): the entry at a location, or the one before it in
\* the same file if its name reaches that far.  (Before the first entry of the
\* map the code moves its iterator off the map, which is undefined; here it
\* finds nothing.)
findCursorInfo(map, l) ==
    LET before == {k \in DOMAIN map : Less(k, l)}
        last == CHOOSE k \in before : \A j \in before : j = k \/ Less(j, k)
    IN  IF l \in DOMAIN map THEN l
        ELSE IF before # {} /\ last[1] = l[1] /\ map[last].symbolLength > l[2] - last[2] THEN last
        ELSE NoLocation

\* CursorInfo::targetInfos(): a target without an entry has an empty one.
targetInfos(map, info) == [l \in info.targets |-> InfoAt(map, findCursorInfo(map, l))]

\* CursorInfo::bestTarget(): the location; of those with the best rank the last
\* definition or, if there is none, the first.
bestTarget(map, info) ==
    LET infos == targetInfos(map, info)
        best == {l \in DOMAIN infos : \A k \in DOMAIN infos :
                   cursorRank(infos[k].kind) <= cursorRank(infos[l].kind)}
        definitions == {l \in best : infos[l].definition}
    IN  IF best = {} THEN NoLocation
        ELSE IF definitions # {}
             THEN CHOOSE l \in definitions : \A k \in definitions : k = l \/ Less(k, l)
             ELSE CHOOSE l \in best : \A k \in best : k = l \/ Less(l, k)

---------------------------------------------------------------------------
(* What clang sees in a unit.                                              *)

FilesOf(u) == {Inclusions[u][i].file : i \in DOMAIN Inclusions[u]}

\* The cursors of a unit with their locations, in the order of the visit.
Cursors(u) ==
    FlattenSeq([i \in DOMAIN Inclusions[u] |->
      LET f == Inclusions[u][i].file
      IN  [k \in DOMAIN text[f] |-> [at |-> <<f, text[f][k].offset>>, cursor |-> text[f][k]]]])

Locations(u) == {c.at : c \in ToSet(Cursors(u))}

\* clang_getCursorReferenced(): the first declaration of what is referred to;
\* a sequence of at most one.
Declaration(u, usr) ==
    LET found == SelectSeq(Cursors(u), LAMBDA c : isCursor(c.cursor.kind) /\ c.cursor.usr = usr)
    IN  SubSeq(found, 1, IF found = <<>> THEN 0 ELSE 1)

\* clang_getOverriddenCursors(): the methods and what they directly override, as
\* pairs of locations.
Overridden(u) ==
    LET all == ToSet(Cursors(u))
        Above(c) == {d.at : d \in UNION {ToSet(Declaration(u, o)) : o \in c.overrides}}
    IN  UNION {{<<c.at, l>> : l \in Above(c.cursor)} :
                 c \in {d \in all : d.cursor.kind = "CXXMethod"}}

---------------------------------------------------------------------------
(* An IndexerJob.  Its result has the symbols, names, usrs, references and *)
(* dependencies it found.                                                  *)

NoData == [symbols |-> <<>>, symbolNames |-> <<>>, usrMap |-> <<>>, references |-> <<>>,
           dependencies |-> <<>>]

\* IndexerJob::addNamePermutations(): every suffix of the qualified name, for a
\* function with and without its parameters.
NamePermutations(c) ==
    {[name |-> SubSeq(c.name, i, Len(c.name)), parameters |-> p] :
       i \in DOMAIN c.name, p \in (IF c.kind \in Functions_ \cup Tors THEN {TRUE, FALSE} ELSE {FALSE})}

AddNames(names, l, new) ==
    [n \in DOMAIN names \cup new |-> At(names, n, {}) \cup (IF n \in new THEN {l} ELSE {})]

\* All that a method overrides, directly or not, with itself.
Overrides(steps, methods) ==
    LET reached[n \in 0..Cardinality(steps), k \in methods] ==
            IF n = 0 THEN {k}
            ELSE reached[n - 1, k] \cup {s[2] : s \in {t \in steps : t[1] \in reached[n - 1, k]}}
    IN  [k \in methods |-> reached[Cardinality(steps), k]]

AddOverridden(symbols, l, steps, all) ==
    LET Below(k) == {s[1] : s \in {t \in steps : t[2] = k /\ t[1] \in all[l]}}
    IN  FoldSet(LAMBDA k, m : AddReferences(m, k, Below(k) \cup (all[k] \ {k})), symbols, all[l])

\* IndexerJob::addOverriddenCursors(): each overridden method learns what
\* directly overrides it, and the overriding ones learn all they override.
addOverriddenCursors(u, symbols, l) ==
    AddOverridden(symbols, l, Overridden(u), Overrides(Overridden(u), Locations(u)))

\* The length a cursor without a name has.
AnonymousLength(kind) ==
    CASE kind = "ClassDecl" -> 5 [] kind = "StructDecl" -> 6 [] OTHER -> 0

\* A constructor or destructor and its class refer to each other.
Related(u, symbols, c, l, class) ==
    CASE c.kind \in Tors /\ class # <<>> ->
           AddReferences(AddReferences(symbols, class[1].at, {l}), l, {class[1].at})
      [] c.kind = "CXXMethod" -> addOverriddenCursors(u, symbols, l)
      [] OTHER -> symbols

\* IndexerJob::handleCursor(); it fails for other cursors without a name.
handleCursor(u, data, c, l) ==
    LET info == InfoAt(data.symbols, l)
        length == IF c.length # 0 THEN c.length ELSE AnonymousLength(c.kind)
        symbols == Put(data.symbols, l,
                       [info EXCEPT !.symbolLength = length, !.extent = c.extent,
                                    !.definition = c.definition, !.kind = c.kind])
    IN  IF info.symbolLength # 0 /\ isCursor(info.kind) THEN data
        ELSE IF length = 0 THEN [data EXCEPT !.symbols = Drop(@, {l})]
        ELSE [data EXCEPT !.symbols = Related(u, symbols, c, l, Declaration(u, c.class)),
                          !.symbolNames = IF c.length = 0 THEN @
                                          ELSE AddNames(@, l, NamePermutations(c)),
                          !.usrMap = Insert(@, c.usr, {l})]

\* What l says of itself: that of the last reference to the best target.
Decided(symbols, c, l, d) ==
    LET info == symbols[l]
        better == [info EXCEPT !.symbolLength = symbols[d.at].symbolLength, !.kind = c.kind,
                               !.definition = FALSE, !.extent = c.extent]
        decides == /\ ~isCursor(info.kind)
                   /\ \/ info.symbolLength = 0
                      \/ InfoAt(symbols, findCursorInfo(symbols, bestTarget(symbols, info))).kind
                           = d.cursor.kind
    IN  IF decides THEN Put(symbols, l, better) ELSE symbols

AddReference(known, c, l, d) ==
    IF InfoAt(known.symbols, d.at).symbolLength = 0
    THEN [known EXCEPT !.symbols = Drop(@, {d.at})]
    ELSE [known EXCEPT
            !.symbols = Decided(AddTargets(AddReferences(@, d.at, {l}), l, {d.at}), c, l, d),
            !.references = Insert(@, l, {d.at})]

\* IndexerJob::handleReference() of the declaration d.
handleReference(u, data, c, l, d) ==
    IF \/ c.kind = "CallExpr" /\ d.cursor.kind \in Functions_
       \/ d.cursor.kind = "Constructor" /\ d.cursor.implicit
    THEN data
    ELSE AddReference(IF InfoAt(data.symbols, d.at).symbolLength # 0 THEN data
                      ELSE handleCursor(u, data, d.cursor, d.at), c, l, d)

\* IndexerJob::handleInclude()
handleInclude(data, c, l) ==
    [data EXCEPT
       !.symbols = Put(@, l, [InfoAt(@, l) EXCEPT !.targets = @ \cup {<<c.includes, 0>>}, !.kind = c.kind,
                                                  !.definition = FALSE, !.symbolLength = c.length]),
       !.symbolNames = AddNames(@, l, {[name |-> <<"#include", ToString(c.includes)>>, parameters |-> FALSE]})]

\* IndexerJob::inclusionVisitor(), for every file of the unit.
inclusionVisitor(data, inclusion) ==
    LET f == inclusion.file
    IN  [data EXCEPT !.symbolNames = AddNames(@, <<f, 0>>, {[name |-> <<ToString(f)>>, parameters |-> FALSE]}),
                     !.dependencies = Insert(@, f, IF inclusion.stack = {} THEN {f}
                                                   ELSE inclusion.stack)]

\* IndexerJob::indexVisitor() passes over what is in files of other jobs.
indexVisitor(u, claimed, data, c) ==
    LET referenced == Declaration(u, c.cursor.ref)
    IN  CASE c.at[1] \notin claimed -> data
          [] isCursor(c.cursor.kind) -> handleCursor(u, data, c.cursor, c.at)
          [] c.cursor.kind = "InclusionDirective" -> handleInclude(data, c.cursor, c.at)
          [] isReference(c.cursor.kind) /\ referenced # <<>> ->
               handleReference(u, data, c.cursor, c.at, referenced[1])
          [] OTHER -> data

\* IndexerJob::visit()
Visit(u, claimed) ==
    FoldLeft(LAMBDA data, c : indexVisitor(u, claimed, data, c),
             FoldLeft(inclusionVisitor, NoData, Inclusions[u]), Cursors(u))

---------------------------------------------------------------------------
(* The project merges results ...                                          *)

\* CursorInfo::unite()
unite(info, other) ==
    LET named == IF info.symbolLength = 0 /\ other.symbolLength # 0
                 THEN [info EXCEPT !.symbolLength = other.symbolLength, !.kind = other.kind,
                                   !.definition = other.definition]
                 ELSE info
    IN  [named EXCEPT !.targets = @ \cup other.targets, !.references = @ \cup other.references,
                      !.extent = IF @ = NoInfo.extent THEN other.extent ELSE @]

writeCursors(symbols, current) ==
    [l \in DOMAIN symbols \cup DOMAIN current |->
       IF l \notin DOMAIN current THEN symbols[l]
       ELSE IF l \in DOMAIN symbols THEN unite(current[l], symbols[l]) ELSE current[l]]

\* Joins with nothing.                                              a mutant
JoinNone(symbols, locations) == symbols

\* The declarations and definitions of a symbol become each other's targets.
joinCursors(symbols, locations) ==
    [l \in DOMAIN symbols |-> IF l \in locations
                              THEN [symbols[l] EXCEPT !.targets = @ \cup (locations \ {l})]
                              ELSE symbols[l]]

\* writeUsr(): the symbols whose usr has got a new location are joined.
JoinUsrs(symbols, usrMap, current) ==
    FoldSet(LAMBDA usr, m : IF At(current, usr, {}) \cup usrMap[usr] = At(current, usr, {}) THEN m
                            ELSE joinCursors(m, At(current, usr, {}) \cup usrMap[usr]),
            symbols, DOMAIN usrMap)

Merge(map, current) ==
    [k \in DOMAIN map \cup DOMAIN current |-> At(map, k, {}) \cup At(current, k, {})]

writeReferences(references, symbols) ==
    FoldSet(LAMBDA l, m : FoldSet(LAMBDA d, n : AddReferences(n, d, {l}), m, references[l]),
            symbols, DOMAIN references)

\* The body of the loop in Project::write().
WriteData(database, data) ==
    [symbols |-> writeReferences(data.references,
                   JoinUsrs(writeCursors(data.symbols, database.symbols), data.usrMap, database.usrMap)),
     symbolNames |-> Merge(data.symbolNames, database.symbolNames),
     usrMap |-> Merge(data.usrMap, database.usrMap)]

---------------------------------------------------------------------------
(* ... and forgets what came from files that have changed.                 *)

In(files, ls) == {l \in ls : l[1] \in files}

\* Forgets the entries in the files, not what points to them.        a mutant
DirtyEntries(symbols, dirty) == Drop(symbols, In(dirty, DOMAIN symbols))

\* RTags::dirtySymbols(), CursorInfo::dirty()
dirtySymbols(symbols, dirty) ==
    [l \in DOMAIN symbols \ In(dirty, DOMAIN symbols) |->
       [symbols[l] EXCEPT !.targets = @ \ In(dirty, @), !.references = @ \ In(dirty, @)]]

\* RTags::dirtySymbolNames(), RTags::dirtyUsr()
dirtySets(map, dirty) ==
    LET left == [k \in DOMAIN map |-> map[k] \ In(dirty, map[k])]
    IN  Drop(left, {k \in DOMAIN left : left[k] = {}})

Forget(dirty) ==
    [symbols |-> dirtySymbols(mSymbols, dirty), symbolNames |-> dirtySets(mSymbolNames, dirty),
     usrMap |-> dirtySets(mUsr, dirty)]

---------------------------------------------------------------------------
NoDatabase == [symbols |-> <<>>, symbolNames |-> <<>>, usrMap |-> <<>>]

\* How jobs for some units may share the files that nobody has visited.
Claims(units, visited) ==
    LET new == UNION {FilesOf(u) : u \in units} \ visited
    IN  {claim \in [new -> units] : \A f \in new : f \in FilesOf(claim[f])}

Results(units, claim) == [u \in units |-> Visit(u, {f \in DOMAIN claim : claim[f] = u})]

\* Project::write() merges in the order of the file ids.
Written(database, results) ==
    FoldLeft(WriteData, database,
             [i \in DOMAIN SetToSortSeq(DOMAIN results, <) |->
                results[SetToSortSeq(DOMAIN results, <)[i]]])

AddDependencies(results) ==
    [f \in Files |-> At(mDependencies, f, {}) \cup
                     UNION {At(results[u].dependencies, f, {}) : u \in DOMAIN results}]

\* What write() leaves.
Store(results, database) ==
    /\ mSymbols' = database.symbols /\ mSymbolNames' = database.symbolNames
    /\ mUsr' = database.usrMap
    /\ mDependencies' = AddDependencies(results)

\* A round of indexing: the jobs, then write().
IndexAll(units, visited, database) ==
    \E claim \in Claims(units, visited) : \E results \in {Results(units, claim)} :
      /\ Store(results, Written(database, results))
      /\ mVisitedFiles' = visited \cup DOMAIN claim

Known == UNION {FilesOf(u) : u \in mSources}

\* A compile request for a new source.
Compile(u) ==
    /\ u \notin mSources
    /\ mSources' = mSources \cup {u}
    /\ IndexAll({u}, mVisitedFiles, [symbols |-> mSymbols, symbolNames |-> mSymbolNames, usrMap |-> mUsr])
    /\ UNCHANGED <<text, mModifiedFiles>>

\* The source itself only.                                          a mutant
OnlyModified(modified) == modified

\* The files to forget and index again.
DirtyFiles(modified) == modified \cup UNION {mDependencies[f] : f \in modified}

OnFilesModifiedTimeout ==
    /\ mModifiedFiles # {}
    /\ mModifiedFiles' = {}
    /\ LET dirty == DirtyFiles(mModifiedFiles)
       IN  IndexAll(dirty \cap mSources, mVisitedFiles \ dirty, Forget(dirty))
    /\ UNCHANGED <<text, mSources>>

\* A file is saved with another text; a project that knows it hears of it.
Edit(f, new) ==
    /\ new # text[f]
    /\ text' = [text EXCEPT ![f] = new]
    /\ mModifiedFiles' = mModifiedFiles \cup ({f} \cap Known)
    /\ UNCHANGED <<mSources, mVisitedFiles, mDependencies, mSymbols, mSymbolNames, mUsr>>

SymbolsInit ==
    /\ text \in [Files -> UNION {Texts[f] : f \in Files}] /\ \A f \in Files : text[f] \in Texts[f]
    /\ mSources = {} /\ mModifiedFiles = {} /\ mVisitedFiles = {}
    /\ mDependencies = [f \in Files |-> {}]
    /\ mSymbols = <<>> /\ mSymbolNames = <<>> /\ mUsr = <<>>

SymbolsNext ==
    \/ \E u \in Units : Compile(u)
    \/ OnFilesModifiedTimeout
    \/ \E f \in Files : \E new \in Texts[f] : Edit(f, new)

SymbolsSpec == SymbolsInit /\ [][SymbolsNext]_symbolsVars
============================================================================

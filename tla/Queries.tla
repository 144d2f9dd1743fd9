------------------------------ MODULE Queries ------------------------------
(***************************************************************************)
(* What rc's queries about symbols answer from the database, and what they *)
(* should answer: FollowLocationJob, ReferencesJob, CursorInfoJob and      *)
(* FindSymbolsJob (src/src/), with the walks of CursorInfo.cpp over        *)
(* targets and references.                                                 *)
(***************************************************************************)
EXTENDS Symbols

Found(l) == InfoAt(mSymbols, findCursorInfo(mSymbols, l))
BestTarget(info) == bestTarget(mSymbols, info)

\* CursorInfo::targetInfos() and referenceInfos() without what is not found.
Infos(ls) == {l \in ls : findCursorInfo(mSymbols, l) # NoLocation}

\* Stops at the first declaration.                                  a mutant
FollowOnce(l) == BestTarget(Found(l))

\* FollowLocationJob::execute()
FollowLocation(l) ==
    LET info == Found(l)
        first == BestTarget(info)
        target == Found(first)
        goOn == /\ info.kind # target.kind /\ ~target.definition /\ target.targets # {}
                /\ target.kind \in Classes \cup Functions_ \cup Tors
    IN  IF isClass(info) /\ info.definition THEN NoLocation
        ELSE IF first # NoLocation /\ goOn THEN BestTarget(target) ELSE first

---------------------------------------------------------------------------
(* CursorInfo::allReferences()                                             *)

IsOfClass(info) == isClass(info) \/ info.kind \in Tors

\* allImpl(), the locations only: the walk adds an entry before its neighbours
\* and leaves out those it has met.  Whether it goes on from a neighbour hangs
\* on the neighbour's kind; a class adds its references without going on.
RECURSIVE allImpl(_, _, _, _)
allImpl(l, out, mode, kind) ==
    LET info == Found(l)
        GoesOn(k) == IF mode = "VirtualRefs" THEN Found(k).kind = kind ELSE IsOfClass(Found(k))
        Walk(k, o) == IF GoesOn(k) THEN allImpl(k, o, mode, kind) ELSE o
        Visit1(k, o) == IF mode = "VirtualRefs" /\ ~GoesOn(k) THEN o \cup {k}
                        ELSE Walk(k, IF mode = "ClassRefs" /\ isClass(info) THEN o \cup {k} ELSE o)
    IN  IF l \in out THEN out
        ELSE FoldSet(Visit1, FoldSet(Walk, out \cup {l}, info.targets), Infos(info.references))

allReferences(l) ==
    allImpl(l, {}, IF IsOfClass(Found(l)) THEN "ClassRefs" ELSE "VirtualRefs", Found(l).kind)

\* Does not look for what overrides a method.                       a mutant
TargetsOnly(l) == {l} \cup {k \in Found(l).targets : Found(k).kind = Found(l).kind}

\* CursorInfo::virtuals()
virtuals(l) ==
    {l} \cup {k \in (IF Found(l).kind = "CXXMethod" THEN allReferences(l) ELSE Found(l).targets) :
                Found(k).kind = Found(l).kind}

\* CursorInfo::callers()
callers(l) ==
    {k \in Infos(UNION {Found(v).references : v \in virtuals(l)}) :
       \/ isReference(Found(k).kind)
       \/ Found(l).kind = "Constructor" /\ Found(k).kind \in {"VarDecl", "FieldDecl"}}

---------------------------------------------------------------------------
(* ReferencesJob::execute(), for one location.                             *)

Start(l) == IF isReference(Found(l).kind) THEN BestTarget(Found(l)) ELSE findCursorInfo(mSymbols, l)

\* What a class rename leaves alone: it names a constructor but not the class.
NamesConstructorOnly(l) ==
    LET kinds == {Found(t).kind : t \in Found(l).targets}
    IN  "Constructor" \in kinds /\ kinds \cap Classes = {} /\ kinds # {Found(l).kind}

References(l) == callers(Start(l))
Renamed(l) ==
    IF IsOfClass(Found(Start(l)))
    THEN {k \in allReferences(Start(l)) : ~NamesConstructorOnly(k)}
    ELSE allReferences(Start(l))

\* The order they are written in: sorted, and but for a rename, from the one
\* behind the location that was asked about.
Listed(references, asked) ==
    LET sorted == SetToSortSeq(references, Less)
        count == Len(sorted)
        startIndex == IF count # 1 /\ asked \in references
                      THEN CHOOSE k \in 1..count : sorted[k] = asked ELSE 0
    IN  [i \in 1..count |-> sorted[((startIndex + i - 1) % count) + 1]]

\* RTags::isContainer()
isContainer(kind) == kind \in Functions_ \cup Classes \cup Tors

\* CursorInfoJob::execute(): the definitions around a location that has an
\* entry, searched from the entry to the beginning of the file.
Containers(l) ==
    {k \in DOMAIN mSymbols :
       /\ k[1] = l[1] /\ Less(k, findCursorInfo(mSymbols, l))
       /\ mSymbols[k].definition /\ isContainer(mSymbols[k].kind)
       /\ mSymbols[k].extent[1] <= l[2] /\ l[2] <= mSymbols[k].extent[2]}

\* FindSymbolsJob::execute(): RTags::SortedCursor puts definitions first.
FindSymbols(name) == At(mSymbolNames, name, {})
SortedBefore(l, k) ==
    LET Rank(j) == (IF Found(j).definition THEN 100 ELSE 0) +
                   (CASE Found(j).kind \in {"VarDecl", "FieldDecl"} -> 2
                      [] Found(j).kind \in Functions_ \cup {"Constructor"} -> 5
                      [] Found(j).kind \in Classes -> 10
                      [] OTHER -> 1)
    IN  Rank(l) > Rank(k) \/ (Rank(l) = Rank(k) /\ Less(l, k))

---------------------------------------------------------------------------
(* The text the project knows, and what it says.                           *)

Occurrences ==
    UNION {{c \in ToSet(Cursors(u)) : isCursor(c.cursor.kind) \/ Declaration(u, c.cursor.ref) # <<>>} :
             u \in mSources}
Declared(c) == isCursor(c.cursor.kind)
Refers(c) == isReference(c.cursor.kind) /\ c.cursor.kind # "CallExpr"

\* A method and those that override it or that it overrides, are one family.
Family(usr) ==
    LET pairs == UNION {{<<c.cursor.usr, o>> : o \in c.cursor.overrides} :
                          c \in {d \in Occurrences : Declared(d)}}
        step(us) == us \cup {p[1] : p \in {q \in pairs : q[2] \in us}}
                       \cup {p[2] : p \in {q \in pairs : q[1] \in us}}
        family[n \in 0..Cardinality(pairs)] == IF n = 0 THEN {usr} ELSE step(family[n - 1])
    IN  family[Cardinality(pairs)]

UsrOf(c) == IF Declared(c) THEN c.cursor.usr ELSE c.cursor.ref
ReferencesTo(usr) == {c.at : c \in {d \in Occurrences : Refers(d) /\ d.cursor.ref \in Family(usr)}}
DeclarationsOf(usr) == {c.at : c \in {d \in Occurrences : Declared(d) /\ d.cursor.usr \in Family(usr)}}
TorsOf(usr) == {c.at : c \in {d \in Occurrences : d.cursor.kind \in Tors /\ d.cursor.class = usr}}

Settled == mModifiedFiles = {}

\* Once nothing is left to index: however the project came by its database,
\* through compile requests and edits in any order and with the headers shared
\* in any way between the jobs, it is the one that indexing everything at once
\* would make.
DatabaseIsCurrent ==
    Settled => \A claim \in Claims(mSources, {}) :
      Written(NoDatabase, Results(mSources, claim)) =
        [symbols |-> mSymbols, symbolNames |-> mSymbolNames, usrMap |-> mUsr]

\* Whatever was edited, once it is indexed a question about a function, method
\* or class, asked at any of its occurrences, is answered with all references
\* to it in the text of today and nothing else, each once and the one that was
\* asked about last, and a rename changes all its occurrences (for a class also
\* its constructors and destructors).
QueriesFindAll ==
    Settled => \A c \in Occurrences :
      (Declared(c) /\ c.cursor.kind \notin Tors \cup {"VarDecl"}) \/ Refers(c) =>
        /\ LET listed == Listed(References(c.at), findCursorInfo(mSymbols, c.at))
           IN  /\ ToSet(listed) = ReferencesTo(UsrOf(c)) /\ IsInjective(listed)
               /\ c.at \in ToSet(listed) => Last(listed) = c.at
        /\ Renamed(c.at) = ReferencesTo(UsrOf(c)) \cup DeclarationsOf(UsrOf(c)) \cup TorsOf(UsrOf(c))

\* A reference leads to the definition of what it refers to, if the project
\* has one, and is found in the function around it; a name leads to all its
\* declarations, the definition first.
LookupsAgreeWithText ==
    Settled =>
    \A c \in Occurrences, d \in {e \in Occurrences : Declared(e) /\ e.cursor.definition} :
      /\ Refers(c) /\ c.cursor.ref = d.cursor.usr => FollowLocation(c.at) = d.at
      /\ d.at[1] = c.at[1] /\ d.cursor.extent[1] < c.at[2] /\ c.at[2] <= d.cursor.extent[2]
           => d.at \in Containers(c.at)
      /\ \A n \in NamePermutations(d.cursor) :
           /\ d.at \in FindSymbols(n)
           /\ \A l \in FindSymbols(n) : ~Found(l).definition => SortedBefore(d.at, l)
============================================================================

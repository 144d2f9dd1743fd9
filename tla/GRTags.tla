------------------------------- MODULE GRTags -------------------------------
(***************************************************************************)
(* grtags (GRTags.cpp): each run of the program opens the database, looks  *)
(* for sources that are new or younger than their last parse, parses them  *)
(* and merges what it found, while the sources are edited, removed and     *)
(* moved.  The database keeps the time of the last parse of a file, in     *)
(* seconds, and that is all that tells whether its symbols are current.    *)
(***************************************************************************)
EXTENDS GRParser

CONSTANTS
    Paths,          \* the sources' paths
    Programs,       \* the texts a source can have, a sequence
    MaxNow,         \* bound: the clock stops
    MaxChanges      \* bound: how often the user edits, deletes or moves

ASSUME BoundsAssumption == MaxNow \in Nat /\ MaxChanges \in Nat

Texts == DOMAIN Programs
Unread == 0                     \* what is read of a file that has gone
Found == [t \in Texts \cup {Unread} |-> IF t = Unread THEN {} ELSE parse(Tokens(Programs[t]))]
Expected == [t \in Texts \cup {Unread} |->
               IF t = Unread THEN {} ELSE Declared(Programs[t], 0, <<>>)]

VARIABLES
    now,            \* the clock, in seconds
    changes,        \* what counts for MaxChanges
    disk,           \* [path -> [text, mtime, since]] of the sources that exist
    db,             \* [paths: [path -> id], files: [id -> time], symbols: {[id, entry]}]
    run,            \* the running grtags, or what became of the last one
    reading         \* history: id -> the [path, text, at] that a run last read and saved

vars == <<now, changes, disk, db, run, reading>>

Nobody == <<>>                  \* an empty function
Killed == [at |-> "killed"]
Done(r) == [at |-> "done", started |-> r.started]
Running == run.at \notin {"killed", "done"}
Exists(p) == p \in DOMAIN disk
Of(id, entries) == {[id |-> id, entry |-> e] : e \in entries}
NameOf(e) == <<e.tilde, e.name>>
Names == UNION {{NameOf(e) : e \in Found[t] \cup Expected[t]} : t \in Texts}
Biggest(S) == IF S = {} THEN 0 ELSE CHOOSE n \in S : \A k \in S : k <= n
Ids(paths) == {paths[p] : p \in DOMAIN paths}
Put(f, k, v) == [x \in DOMAIN f \cup {k} |-> IF x = k THEN v ELSE f[x]]
Only(f, S) == [x \in DOMAIN f \cap S |-> f[x]]

Init ==
    /\ now = 1 /\ changes = 0 /\ disk = Nobody /\ run = Killed /\ reading = Nobody
    /\ db = [paths |-> Nobody, files |-> Nobody, symbols |-> {}]

-----------------------------------------------------------------------------
(* The user. *)

Change == changes < MaxChanges /\ changes' = changes + 1

Edit(p, t) ==
    /\ Change /\ (Exists(p) => disk[p].text # t)
    /\ disk' = Put(disk, p, [text |-> t, mtime |-> now, since |-> now])
    /\ UNCHANGED <<now, db, run, reading>>

Delete(p) ==
    /\ Exists(p) /\ Change
    /\ disk' = Only(disk, Paths \ {p})
    /\ UNCHANGED <<now, db, run, reading>>

(* mv: the time of the last modification goes with the file. *)
Move(p, q) ==
    /\ Exists(p) /\ p # q /\ Change
    /\ disk' = Only(Put(disk, q, [disk[p] EXCEPT !.since = now]), Paths \ {p})
    /\ UNCHANGED <<now, db, run, reading>>

Tick ==
    /\ now < MaxNow
    /\ now' = now + 1
    /\ UNCHANGED <<changes, disk, db, run, reading>>

-----------------------------------------------------------------------------
(* A run. *)

(* load() for a new database: the old one is removed. *)
removeDirectory == db' = [paths |-> Nobody, files |-> Nobody, symbols |-> {}]

LoadCreate ==
    /\ ~Running
    /\ removeDirectory /\ reading' = Nobody
    /\ run' = [at |-> "visit", mode |-> "Create", started |-> now, mFiles |-> Nobody,
               mDirty |-> {}, mPending |-> <<>>, mSymbols |-> {}, paths |-> Nobody,
               left |-> Paths, read |-> Nobody]
    /\ UNCHANGED <<now, changes, disk>>

(* load() for an update.  The times come before the paths in the order of the  *)
(* keys: all are taken and all are dirty when the paths of files that are gone *)
(* are found and deleted.                                                     *)
LoadUpdate ==
    /\ ~Running
    /\ LET paths == Only(db.paths, DOMAIN disk)
       IN /\ db' = [db EXCEPT !.paths = paths]
          /\ run' = [at |-> "visit", mode |-> "Update", started |-> now, mFiles |-> db.files,
                     mDirty |-> DOMAIN db.files \cup Ids(Only(db.paths, Paths \ DOMAIN disk)),
                     mPending |-> <<>>, mSymbols |-> {}, paths |-> paths, left |-> Paths, read |-> Nobody]
    /\ UNCHANGED <<now, changes, disk, reading>>

(* Location::insertFile() *)
insertFile(paths, p) ==
    IF p \in DOMAIN paths THEN paths ELSE Put(paths, p, Biggest(Ids(paths)) + 1)

VisitIgnoresTime(p) ==                     \* mutant: a file that was parsed before is current
    /\ run.at = "visit" /\ p \in run.left /\ Exists(p)
    /\ LET paths == insertFile(run.paths, p)
           id == paths[p]
           current == id \in DOMAIN run.mFiles
       IN run' = [run EXCEPT !.paths = paths, !.left = @ \ {p},
                             !.mPending = IF current THEN @ ELSE Append(@, p),
                             !.mDirty = IF current THEN @ \ {id} ELSE @]
    /\ UNCHANGED <<now, changes, disk, db, reading>>

(* visit(): a file that has an id with a time, its own or that of a file that  *)
(* is gone, is stale when it is younger.                                      *)
Visit(p) ==
    /\ run.at = "visit" /\ p \in run.left /\ Exists(p)
    /\ LET paths == insertFile(run.paths, p)
           id == paths[p]
           current == id \in DOMAIN run.mFiles /\ run.mFiles[id] >= disk[p].mtime
       IN run' = [run EXCEPT !.paths = paths, !.left = @ \ {p},
                             !.mPending = IF current THEN @ ELSE Append(@, p),
                             !.mDirty = IF current THEN @ \ {id} ELSE @]
    /\ UNCHANGED <<now, changes, disk, db, reading>>

(* A path where nothing is when the walk comes by. *)
PassBy(p) ==
    /\ run.at = "visit" /\ p \in run.left /\ ~Exists(p)
    /\ run' = [run EXCEPT !.left = @ \ {p}]
    /\ UNCHANGED <<now, changes, disk, db, reading>>

VisitEnd ==
    /\ run.at = "visit" /\ run.left = {}
    /\ run' = IF run.mPending = <<>> THEN Done(run) ELSE [run EXCEPT !.at = "parse"]
    /\ UNCHANGED <<now, changes, disk, db, reading>>

(* parseFiles(): the file is read ... *)
Parse ==
    /\ run.at = "parse" /\ run.mPending # <<>>
    /\ LET p == Head(run.mPending)
           id == run.paths[p]
           text == IF Exists(p) THEN disk[p].text ELSE Unread
       IN run' = [run EXCEPT !.at = "stamp",
                             !.read = Put(@, id, [path |-> p, text |-> text, at |-> now]),
                             !.mSymbols = @ \cup Of(id, Found[text])]
    /\ UNCHANGED <<now, changes, disk, db, reading>>

(* ... and, once parsed, gets the time. *)
Stamp ==
    /\ run.at = "stamp"
    /\ run' = [run EXCEPT !.at = "parse", !.mPending = Tail(@),
                          !.mFiles = Put(@, run.paths[Head(run.mPending)], now)]
    /\ UNCHANGED <<now, changes, disk, db, reading>>

MergeKeepsDirty(old, new, dirty) == old \cup new      \* mutant: old entries of dirty files stay

(* save(): what a dirty file had and has no longer goes; one of two entries at *)
(* a place goes with the name.                                                *)
Merge(old, new, dirty) ==
    LET kept == {s \in old : s.id \in dirty => s \in new}
        SamePlace(s, r) == s.id = r.id /\ s.entry.at = r.entry.at /\ s.entry.name = r.entry.name
                           /\ s.entry.tilde = r.entry.tilde
    IN kept \cup {s \in new : ~\E r \in kept : SamePlace(s, r)}

save ==
    /\ run.at = "parse" /\ run.mPending = <<>>
    /\ db' = [paths |-> [p \in DOMAIN db.paths \cup DOMAIN run.paths |->
                            IF p \in DOMAIN run.paths THEN run.paths[p] ELSE db.paths[p]],
              files |-> [id \in DOMAIN db.files \cup DOMAIN run.mFiles |->
                            IF id \in DOMAIN run.mFiles THEN run.mFiles[id] ELSE db.files[id]],
              symbols |-> IF run.mode = "Update" THEN Merge(db.symbols, run.mSymbols, run.mDirty)
                                                 ELSE run.mSymbols]
    /\ reading' = [id \in DOMAIN reading \cup DOMAIN run.read |->
                    IF id \in DOMAIN run.read THEN run.read[id] ELSE reading[id]]
    /\ run' = Done(run)
    /\ UNCHANGED <<now, changes, disk>>

(* The program is interrupted; the database is written in one batch. *)
Kill ==
    /\ Running
    /\ run' = Killed
    /\ UNCHANGED <<now, changes, disk, db, reading>>

User == \E p \in Paths : \/ Delete(p) \/ \E t \in Texts : Edit(p, t)
                         \/ \E q \in Paths : Move(p, q)
Run == \/ LoadCreate \/ LoadUpdate \/ VisitEnd \/ Parse \/ Stamp \/ save
       \/ \E p \in Paths : Visit(p) \/ PassBy(p)

Next == User \/ Tick \/ Run \/ Kill
Spec == Init /\ [][Next]_vars

-----------------------------------------------------------------------------
(* A query: the places of a name.  FindSymbols leaves out the references,      *)
(* FindReferences everything else.                                            *)
Shown(mode, ref) == mode = "FindAll" \/ ref = (mode = "FindReferences")

findSymbols(mode, name) ==
    {[id |-> s.id, at |-> s.entry.at] :
        s \in {x \in db.symbols : NameOf(x.entry) = name /\ Shown(mode, x.entry.ref)}}

SymbolsOf(id) == {s \in db.symbols : s.id = id}

(* The symbols of a file are those of one text of it, the one that was read    *)
(* last, or none: two readings never mix (GRTags.cpp save).                   *)
OneReadingOfAFile ==
    /\ \A s \in db.symbols : s.id \in DOMAIN reading
    /\ \A id \in DOMAIN reading : SymbolsOf(id) \in {{}, Of(id, Expected[reading[id].text])}

(* What the database's times cannot tell: the file was moved there, or changed *)
(* between the reading and the time stamp of its last parse, or has the id of  *)
(* a file that is gone.                                                       *)
Hidden(p) ==
    \/ disk[p].mtime # disk[p].since
    \/ p \in DOMAIN db.paths /\ db.paths[p] \in DOMAIN reading
       /\ LET id == db.paths[p]
          IN disk[p].since \in reading[id].at .. db.files[id] \/ reading[id].path # p
    \/ p \notin DOMAIN db.paths /\ DOMAIN db.files \ Ids(db.paths) # {}

(* After an update or a creation that ran to its end, every source that has    *)
(* not been touched since its start is found with what it declares and calls,  *)
(* at their places -- unless its change is hidden from its time (GRTags.cpp    *)
(* visit, parseFiles, load; GRParser.cpp).                                    *)
UpdateIsComplete ==
    run.at = "done" =>
        \A p \in DOMAIN disk :
            disk[p].since < run.started /\ ~Hidden(p) =>
                /\ p \in DOMAIN db.paths
                /\ \A name \in Names, mode \in {"FindSymbols", "FindReferences"} :
                     {f.at : f \in {g \in findSymbols(mode, name) : g.id = db.paths[p]}}
                       = {e.at : e \in {x \in Expected[disk[p].text] :
                                          NameOf(x) = name /\ Shown(mode, x.ref)}}
=============================================================================

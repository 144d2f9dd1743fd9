---------------------------- MODULE CalmProject ---------------------------
(***************************************************************************)
(* A project in a calm world: files change, and reindexing is asked for,   *)
(* while the project rests; a compile command may come at any time until   *)
(* the source has been indexed, and again while its job runs (which aborts *)
(* the job; no job moves while the request for its source is on the way).  *)
(* Changed files are reported before the 200 ms timer fires, and nobody    *)
(* unloads the project.                                                    *)
(*                                                                         *)
(* Outside of it a file can be read by two jobs and a claim be orphaned    *)
(* (README, section 5).                                                    *)
(***************************************************************************)
EXTENDS Project

CalmRequest(f, c) ==
    /\ fsEvents = {} /\ ~mModifiedFilesTimer
    /\ ~Requested(f) \/ (mJobs[f] # None /\ Started(mJobs[f]))
    /\ ProcessSourceFile(f, c)

CalmTurn(j) == loop = "compile" => request.file # jobFile[j]

CalmEdit(xs) == Quiet /\ Edit(xs)

CalmReindex(xs) == Quiet /\ Reindex(xs)

CalmLoopStep ==
    \/ IndexRequest \/ FinishedTimeout \/ FinishProject \/ Save
    \/ \E x \in Files : OnFileModified(x)
    \/ fsEvents = {} /\ OnFilesModifiedTimeout
    \/ \E f \in Sources : ReindexSource(f)
    \/ EndReindex

CalmNext ==
    \/ \E j \in Jobs : CalmTurn(j) /\ JobStep(j)
    \/ CalmLoopStep
    \/ \E f \in Sources, c \in Args : CalmRequest(f, c)
    \/ \E xs \in SUBSET Files : CalmEdit(xs) \/ CalmReindex(xs)

CalmSpec == Init /\ [][CalmNext]_vars
===========================================================================

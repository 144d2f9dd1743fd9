--------------------------- MODULE MCProjectCalm --------------------------
(* The calm project with two sources and a header, so many requests, edits  *)
(* and reindexings, all changes in watched directories, so that the project *)
(* hears of them, and parsing that makes a unit.                            *)
EXTENDS MCProject, CalmProject

CalmJobs == {j1, j2}

\* The sources are alike and so are the arguments: let f1 and a be the first.
MCCalmRequest(f, c) ==
    /\ done.requests < MaxRequests
    /\ done.requests = 0 => f = f1 /\ c = a
    /\ CalmRequest(f, c)
    /\ done' = [done EXCEPT !.requests = @ + 1]

MCCalmJobStep(j) == CalmTurn(j) /\ BoundedJobStep(j) /\ UNCHANGED done

MCCalmEdit(xs) ==
    /\ done.edits < MaxEdits
    /\ \A x \in xs : Dir[x] \in mWatchedPaths
    /\ CalmEdit(xs)
    /\ done' = [done EXCEPT !.edits = @ + 1]

MCCalmReindex ==
    /\ done.reindexes < MaxReindexes
    /\ CalmReindex(Files)
    /\ done' = [done EXCEPT !.reindexes = @ + 1]

MCCalmNext ==
    \/ \E j \in Jobs : MCCalmJobStep(j)
    \/ CalmLoopStep /\ UNCHANGED done
    \/ \E f \in Sources, c \in Args : MCCalmRequest(f, c)
    \/ \E xs \in SUBSET Files \ {{}} : MCCalmEdit(xs)
    \/ MCCalmReindex

mcvars == <<vars, done>>

MCCalmFairness ==
    /\ \A j \in Jobs : WF_mcvars(MCCalmJobStep(j))
    /\ WF_mcvars(IndexRequest /\ UNCHANGED done)
    /\ WF_mcvars(FinishedTimeout /\ UNCHANGED done)
    /\ WF_mcvars(FinishProject /\ UNCHANGED done)
    /\ WF_mcvars(Save /\ UNCHANGED done)
    /\ WF_mcvars((\E x \in Files : OnFileModified(x)) /\ UNCHANGED done)
    /\ WF_mcvars(fsEvents = {} /\ OnFilesModifiedTimeout /\ UNCHANGED done)
    /\ WF_mcvars((\E f \in Sources : ReindexSource(f)) /\ UNCHANGED done)
    /\ WF_mcvars(EndReindex /\ UNCHANGED done)

MCCalmSpec == MCInit /\ [][MCCalmNext]_mcvars /\ MCCalmFairness
===========================================================================

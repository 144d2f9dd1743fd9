---------------------------- MODULE MCProject -----------------------------
(* Two sources that include one header, edited, compiled again, reindexed   *)
(* and unloaded at any moment, a bounded number of times.                   *)
EXTENDS Project, TLC

CONSTANTS f1, f2, h, d1, d2, a, b, j1, j2, j3,
          MaxRequests, MaxEdits, MaxReindexes, MaxUnloads, MaxInputs, MCOutcomes

MCSources == {f1, f2}
MCHeaders == {h}
MCIncludes == [f \in MCSources |-> {h}]
MCDirs == {d1, d2}
MCDir == [x \in MCSources \cup MCHeaders |-> IF x = h THEN d2 ELSE d1]
MCArgs == {a, b}
MCJobs == {j1, j2, j3}

\* What the outside world has done so far.
VARIABLE done
NothingDone == [requests |-> 0, edits |-> 0, reindexes |-> 0, unloads |-> 0]

MCInit == Init /\ done = NothingDone

BoundedJobStep(j) ==
    \/ Execute(j) \/ (\E o \in MCOutcomes : Parse(j, o)) \/ (\E x \in Files : Visit(j, x))
    \/ EndVisit(j) \/ Finish(j) \/ StartPending(j)

Inputs == done.requests + done.edits + done.reindexes + done.unloads

Request == \E f \in Sources, c \in Args :
    /\ done.requests < MaxRequests /\ ProcessSourceFile(f, c)
    /\ done' = [done EXCEPT !.requests = @ + 1]
ReindexAll == /\ done.reindexes < MaxReindexes /\ Reindex(Files)
              /\ done' = [done EXCEPT !.reindexes = @ + 1]
UnloadProject == /\ done.unloads < MaxUnloads /\ Unload
                 /\ done' = [done EXCEPT !.unloads = @ + 1]
EditOne == \E x \in Files :
    /\ done.edits < MaxEdits /\ Edit({x})
    /\ done' = [done EXCEPT !.edits = @ + 1]

MCNext ==
    \/ (\E j \in Jobs : BoundedJobStep(j)) /\ UNCHANGED done
    \/ LoopStep /\ UNCHANGED done
    \/ Inputs < MaxInputs /\ (Request \/ ReindexAll \/ UnloadProject \/ EditOne)

MCSpec == MCInit /\ [][MCNext]_<<vars, done>>

Symmetry == Permutations(MCJobs) \cup Permutations(MCArgs)
===========================================================================

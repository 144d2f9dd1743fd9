-------------------------- MODULE MCSymbolLocks --------------------------
(* A bounded amount of work, and an event pipe that is never full: what     *)
(* can go wrong when it is full is the run of MCSymbolPipe.cfg.             *)
EXTENDS SymbolLocks, FiniteSetsExt

CONSTANTS MaxStarts    \* bound: how many activities begin

VARIABLE started

ASSUME StartsAssumption == MaxStarts \in Nat

mcvars == <<vars, started>>

Puts(ops) == Cardinality({i \in DOMAIN ops : ops[i].op = "put"})

\* The bytes that are in the pipe or will be, whatever the threads do.
PipeDemand == pipe + MapThenSumSet(LAMBDA t : Puts(program[t]), Threads)

MCInit == Init /\ started = 0

MCBegin(t) ==
    /\ started < MaxStarts /\ Begin(t)
    /\ PipeDemand' <= PipeSize
    /\ started' = started + 1

MCStep(t) == Step(t) /\ UNCHANGED started
MCTurnToPipe == TurnToPipe /\ UNCHANGED started
MCWakeSpuriously(t) == WakeSpuriously(t) /\ UNCHANGED started

MCNext ==
    MCTurnToPipe \/ \E t \in Threads : MCBegin(t) \/ MCStep(t) \/ MCWakeSpuriously(t)

MCFairness == WF_mcvars(MCTurnToPipe) /\ \A t \in Threads : WF_mcvars(MCStep(t))

MCSpec == MCInit /\ [][MCNext]_mcvars /\ MCFairness
===========================================================================

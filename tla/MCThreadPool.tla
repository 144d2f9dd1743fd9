--------------------------- MODULE MCThreadPool ---------------------------
(* A pool of at most two workers, which the owner grows, shrinks and        *)
(* destroys while three jobs are started, with the two priorities           *)
(* IndexerJob::priority() has (Makefile = 1, Dirty = 2).                    *)
EXTENDS ThreadPool, TLC

CONSTANTS w1, w2, j1, j2, j3

MCWorkers == {w1, w2}
MCJobs == {j1, j2, j3}
MCPriorities == 1..2
===========================================================================

---------------------------- MODULE SharedLock ----------------------------
(* What a read-write lock promises: many readers, or one writer alone.      *)

CONSTANTS Threads, Locks

VARIABLE holds        \* how each thread holds each lock

Holdings == {"none", "Read", "Write"}

Init == holds = [l \in Locks |-> [t \in Threads |-> "none"]]

Compatible(l, t, type) ==
    \A u \in Threads \ {t} :
        IF type = "Read" THEN holds[l][u] # "Write" ELSE holds[l][u] = "none"

Grant(l, t, type) ==
    /\ holds[l][t] = "none"
    /\ Compatible(l, t, type)
    /\ holds' = [holds EXCEPT ![l][t] = type]

Release(l, t) ==
    /\ holds[l][t] # "none"
    /\ holds' = [holds EXCEPT ![l][t] = "none"]

Next ==
    \E l \in Locks, t \in Threads :
        Release(l, t) \/ \E type \in {"Read", "Write"} : Grant(l, t, type)

Spec == Init /\ [][Next]_holds
===========================================================================

----------------------------- MODULE PermitPool -----------------------------
(***************************************************************************)
(* What a semaphore of permits promises (state.active_requests and         *)
(* state.active_connections in src/app.rs): of the jobs that ask, at most  *)
(* Size are at work at any time, a job works once, and one that has left   *)
(* never works again.  Nothing waits: a job that finds no permit is        *)
(* refused, and that is not a step of the pool.                            *)
(***************************************************************************)
EXTENDS Naturals, FiniteSets

CONSTANTS Jobs, Size

VARIABLES working,  \* the jobs at work
          left      \* the jobs that have stopped

Init == working = {} /\ left = {}

Enter(j) ==
    /\ j \notin working \cup left
    /\ Cardinality(working) < Size
    /\ working' = working \cup {j}
    /\ UNCHANGED left

Leave(j) ==
    /\ j \in working
    /\ working' = working \ {j}
    /\ left' = left \cup {j}

Next == \E j \in Jobs : Enter(j) \/ Leave(j)

PoolSpec == Init /\ [][Next]_<<working, left>>
=============================================================================

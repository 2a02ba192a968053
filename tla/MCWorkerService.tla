--------------------------- MODULE MCWorkerService ---------------------------
(* WorkerService on a small host that two Cores share.                       *)
EXTENDS WorkerService, TLC

CONSTANTS i1, i2, t1, t2, coreA, coreB

MCTwoCores == (t1 :> coreA) @@ (t2 :> coreB)
\* Nothing tells the two lease inodes apart, nor the two Cores with their threads.
MCSymmetry ==
  Permutations({i1, i2})
    \cup {(t1 :> t2) @@ (t2 :> t1) @@ (coreA :> coreB) @@ (coreB :> coreA)}
=============================================================================

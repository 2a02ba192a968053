--------------------------- MODULE MCRequestLocks ---------------------------
(***************************************************************************)
(* Instances of RequestLocks for TLC.                                      *)
(***************************************************************************)
EXTENDS RequestLocks, TLC

CONSTANTS t1, t2, t3, i1, i2

\* Two threads of one process.
OneProcess == t1 :> i1 @@ t2 :> i1

\* The same, and a replica that serves one request at a time.
WithReplica == OneProcess @@ t3 :> i2
=============================================================================

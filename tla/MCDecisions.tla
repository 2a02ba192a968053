----------------------------- MODULE MCDecisions -----------------------------
(***************************************************************************)
(* Pipeline with two threads of one instance that decide about several     *)
(* jobs, with and without approval, while they expire under a clock that   *)
(* jumps both ways and the service may come back without its worker.       *)
(***************************************************************************)
EXTENDS Pipeline, TLC

CONSTANTS r1, r2, i1, b1, b2, p1, p2

OneInstance == r1 :> i1 @@ r2 :> i1

\* Bound of the exploration: one job, or jobs without approval, are followed to a
\* full chain; where an approval-bound job is among several, the chain is short.
JobMix ==
  \/ Cardinality(used) <= 1
  \/ used \subseteq Jobs \ Bound
  \/ Len(chain) <= 3

\* The threads are interchangeable, and so are the jobs of a kind.
Symmetry ==
  {f @@ g @@ h : f \in Permutations(Bound), g \in Permutations(Jobs \ Bound),
                 h \in Permutations(Requests)}
=============================================================================

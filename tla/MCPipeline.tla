----------------------------- MODULE MCPipeline -----------------------------
(***************************************************************************)
(* Instances of Pipeline for TLC.                                          *)
(***************************************************************************)
EXTENDS PipelineRefinement, TLC

CONSTANTS r1, r2, i1, i2

\* Two service instances on one database, a thread each.
Replicas == r1 :> i1 @@ r2 :> i2

\* Tokens are interchangeable, and so are the replicas when an instance
\* and its thread are exchanged together.
Exchange == r1 :> r2 @@ r2 :> r1 @@ i1 :> i2 @@ i2 :> i1
Keep == r1 :> r1 @@ r2 :> r2 @@ i1 :> i1 @@ i2 :> i2
TokenSymmetry == {p @@ t : p \in {Keep, Exchange}, t \in Permutations(Tokens)}
=============================================================================

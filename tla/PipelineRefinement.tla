------------------------- MODULE PipelineRefinement -------------------------
(***************************************************************************)
(* The durable pipeline implements JobLifecycle: threads, instances,       *)
(* retries, lost answers and crashes are invisible at the level of a job.  *)
(***************************************************************************)
EXTENDS Pipeline

ConsentOf(j) ==
  LET states == {approval[k].state : k \in {o \in Tokens : approval[o].job = j}}
  IN CASE "CONSUMED" \in states -> "spent"
       [] "CONSUMED" \notin states /\ "GRANTED" \in states -> "given"
       [] OTHER -> "none"

StagesUpTo(n) == {<<chain[i].action, chain[i].job>> : i \in {m \in DOMAIN chain : m <= n}}

Lifecycle == INSTANCE JobLifecycle WITH
  state <- [j \in Jobs |-> job[j].state],
  consent <- [j \in Jobs |-> ConsentOf(j)],
  recorded <- StagesUpTo(Len(chain)),
  witnessed <- StagesUpTo(anchored),
  effect <- effects

\* Every step of the pipeline is a step of the job's lifecycle or invisible:
\* whichever instance acts, a stage follows only stages the anchor holds, a
\* consent is spent once, and work is done at most once.
ImplementsLifecycle == Lifecycle!Spec
=============================================================================

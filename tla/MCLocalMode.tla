----------------------------- MODULE MCLocalMode -----------------------------
(***************************************************************************)
(* LocalMode twice, with parts of its constants, so that its invariants    *)
(* are checked on both: requests that race over one job id, with expiring  *)
(* grants and a failing anchor; and three jobs with a queue of one.        *)
(***************************************************************************)
EXTENDS LocalMode, TLC

CONSTANTS t1, t2, j1, j2, j3, bob, op

VARIABLE scenario

\* The values of the constants that are sets.
AllThreads == {t1, t2}
AllJobs == {j1, j2, j3}
AllSubjects == {bob, op}
AllBound == {bob}
AllApprovers == {op}

Race == INSTANCE LocalMode WITH MaxHandoffs <- 2

Full == INSTANCE LocalMode WITH
  Subjects <- {bob}, MaxJobs <- 1, MaxGrants <- 1, MaxFailures <- 0

\* Every handoff is for the same job id.
OneJob == \A i, k \in DOMAIN handoffs' : handoffs'[i].job = handoffs'[k].job

ScenarioInit == scenario \in {"race", "full"} /\ Init

ScenarioNext ==
  /\ UNCHANGED scenario
  /\ \/ scenario = "race" /\ Race!Next /\ OneJob
     \/ scenario = "full" /\ Full!Next

ScenarioSpec == ScenarioInit /\ [][ScenarioNext]_<<scenario, vars>>

\* Threads are interchangeable, and so are the three jobs.
Symmetry == Permutations({t1, t2}) \cup Permutations({j1, j2, j3})
=============================================================================

---------------------------- MODULE JobLifecycle ----------------------------
(***************************************************************************)
(* What the pipeline promises about a job, without threads, transactions,  *)
(* tokens, clocks or locks: a job is admitted once, with the operator's    *)
(* consent if it needs one, its effect happens at most once and only after *)
(* an outside witness holds the decision to dispatch it, and a job that    *)
(* has been refused or completed stays so.                                 *)
(***************************************************************************)
EXTENDS Naturals

CONSTANTS Jobs, Bound

VARIABLES
  state,     \* what the durable ledger says of each job
  consent,   \* "none", "given" or "spent"
  recorded,  \* stages on the audit chain, as <<action, job>>
  witnessed, \* those of them the external anchor holds
  effect     \* how often the work of a job was done

vars == <<state, consent, recorded, witnessed, effect>>

Init ==
  /\ state = [j \in Jobs |-> "NONE"]
  /\ consent = [j \in Jobs |-> "none"]
  /\ recorded = {}
  /\ witnessed = {}
  /\ effect = [j \in Jobs |-> 0]

\* A decision changes the ledger and writes its evidence in one step.
Decide(action, j, from, to) ==
  /\ state[j] = from
  /\ state' = [state EXCEPT ![j] = to]
  /\ recorded' = recorded \cup {<<action, j>>}
  /\ UNCHANGED <<witnessed, effect>>

Issue(j) ==
  /\ j \notin Bound
  /\ recorded' = recorded \cup {<<"HANDOFF_ISSUED", j>>}
  /\ UNCHANGED <<state, consent, witnessed, effect>>

Queue(j) ==
  /\ j \in Bound
  /\ Decide("HANDOFF_ISSUED", j, "NONE", "PENDING_APPROVAL")
  /\ UNCHANGED consent

Consent(j) ==
  /\ Decide("APPROVAL_GRANTED", j, "PENDING_APPROVAL", "PENDING_APPROVAL")
  /\ consent' = [consent EXCEPT ![j] = "given"]

\* Nothing is admitted whose issuance, and grant, is not already witnessed.
Admit(j) ==
  /\ <<"HANDOFF_ISSUED", j>> \in witnessed
  /\ IF j \in Bound
       THEN /\ consent[j] = "given"
            /\ <<"APPROVAL_GRANTED", j>> \in witnessed
            /\ consent' = [consent EXCEPT ![j] = "spent"]
            /\ Decide("HANDOFF_ADMITTED", j, "PENDING_APPROVAL", "RESERVED")
       ELSE /\ Decide("HANDOFF_ADMITTED", j, "NONE", "RESERVED")
            /\ UNCHANGED consent

Dispatch(j) ==
  /\ <<"HANDOFF_ADMITTED", j>> \in witnessed
  /\ Decide("EXECUTION_DISPATCHED", j, "RESERVED", "EXECUTION_COMMITTED")
  /\ UNCHANGED consent

Effect(j) ==
  /\ <<"EXECUTION_DISPATCHED", j>> \in witnessed
  /\ state[j] = "EXECUTION_COMMITTED"
  /\ effect[j] = 0
  /\ effect' = [effect EXCEPT ![j] = 1]
  /\ UNCHANGED <<state, consent, recorded, witnessed>>

Complete(j) ==
  /\ <<"EXECUTION_DISPATCHED", j>> \in witnessed
  /\ Decide("RESULT_ACCEPTED", j, "EXECUTION_COMMITTED", "COMPLETED")
  /\ UNCHANGED consent

Refuse(j) ==
  /\ Decide("HANDOFF_REJECTED", j, "PENDING_APPROVAL", "REFUSED")
  /\ UNCHANGED consent

Note(action, j) ==
  /\ recorded' = recorded \cup {<<action, j>>}
  /\ UNCHANGED <<state, consent, witnessed, effect>>

\* The anchor holds whole prefixes of the chain and never forgets.
Witness ==
  /\ witnessed' = recorded
  /\ UNCHANGED <<state, consent, recorded, effect>>

Next ==
  \/ Witness
  \/ \E j \in Jobs :
       \/ Issue(j) \/ Queue(j) \/ Consent(j) \/ Admit(j) \/ Dispatch(j)
       \/ Effect(j) \/ Complete(j) \/ Refuse(j)
       \/ Note("HANDOFF_REJECTED", j) \/ Note("RESULT_REJECTED", j)

Spec == Init /\ [][Next]_vars
=============================================================================

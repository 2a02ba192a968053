--------------------------- MODULE PipelineProof ----------------------------
(***************************************************************************)
(* Proofs about Pipeline for any number of jobs, threads, instances and    *)
(* tokens, any clock readings and any bounds.  The first part is about     *)
(* types, evidence and stores.  The second part shows that tables, audit   *)
(* chain and anchor agree in every reachable state, so that every start    *)
(* accepts what the service itself has written, and that the pipeline      *)
(* implements the lifecycle of a job.                                      *)
(***************************************************************************)
EXTENDS PipelineRefinement, FiniteSetTheorems, TLAPS

-----------------------------------------------------------------------------
(***************************************************************************)
(* Type correctness.                                                       *)
(***************************************************************************)

USE SetsAssumption, TimeAssumption

\* Appending an event keeps the chain a sequence of events.
LEMMA AppendType ==
  ASSUME TypeOK, NEW a \in Actions, NEW j \in Jobs, NEW at \in Nat,
         NEW w \in Reasons, NEW k \in Tokens \cup {NoToken}
  PROVE  Append(chain, Event(a, j, at, w, k)) \in Seq(EventType)
BY DEF TypeOK, Event, EventType

\* What a busy thread holds.
LEMMA BusyType ==
  ASSUME TypeOK, NEW r \in Requests, req[r].pc # "idle"
  PROVE  /\ req[r] \in RequestType /\ req[r].job \in Jobs /\ req[r].issued \in Nat
         /\ req[r].token \in Tokens \cup {NoToken} /\ req[r].why \in Reasons
         /\ req[r].pc # "avail" => req[r].at \in Times /\ req[r].at \in Nat
         /\ req[r].pc = "grantAck" => req[r].token \in Tokens
BY DEF TypeOK, RequestType

\* A busy thread that has read the clock may go to any step ...
LEMMA GotoType ==
  ASSUME TypeOK, NEW r \in Requests, req[r].pc \notin {"idle", "avail"},
         NEW pc \in PCs \ {"grantAck"}, Goto(r, pc)
  PROVE  req' \in [Requests -> RequestType]
<1> DEFINE q == [req[r] EXCEPT !.pc = pc]
<1>1. q \in RequestType
  BY BusyType DEF RequestType
<1> QED BY <1>1 DEF TypeOK, Goto

\* ... with a refusal at a clock reading ...
LEMMA RefusedType ==
  ASSUME TypeOK, NEW r \in Requests, req[r].pc # "idle",
         NEW pc \in PCs \ {"grantAck"}, NEW why \in Reasons, NEW at \in Times, Refused(r, pc, why, at)
  PROVE  req' \in [Requests -> RequestType]
<1> DEFINE q == [req[r] EXCEPT !.pc = pc, !.why = why, !.at = at]
<1>1. q \in RequestType
  BY BusyType DEF RequestType
<1> QED BY <1>1 DEF TypeOK, Refused

LEMMA NoRequestType == NoRequest \in RequestType
BY DEF NoRequest, RequestType, PCs, Reasons

\* ... or end.
LEMMA EndType ==
  ASSUME TypeOK, NEW r \in Requests, End(r)
  PROVE  req' \in [Requests -> RequestType]
BY NoRequestType DEF TypeOK, End

\* A row whose state moves stays a row.
LEMMA MovedType ==
  ASSUME TypeOK, NEW j \in Jobs, NEW s \in JobStates, NEW at \in Nat, Moved(j, s, at)
  PROVE  job' \in [Jobs -> RowType]
<1> DEFINE x == [job[j] EXCEPT !.state = s, !.updated = at]
<1>1. job[j] \in RowType
  BY DEF TypeOK
<1>2. x \in RowType
  BY <1>1 DEF RowType
<1> QED BY <1>2 DEF TypeOK, Moved

LEMMA InitType == Init => TypeOK
BY NoRequestType DEF Init, TypeOK, NoRow, NoGrant, RowType, GrantType, JobStates

LEMMA StepType == TypeOK /\ [Next]_vars => TypeOK'
<1> SUFFICES ASSUME TypeOK, [Next]_vars PROVE TypeOK'
  OBVIOUS
<1> USE DEF dbVars
<1>1. ASSUME NEW r \in Requests, NEW j \in Jobs, NEW issued \in Times, NEW at \in Times,
             Submit(r, j, issued, at) PROVE TypeOK'
  <2>1. req' \in [Requests -> RequestType]
    <3> DEFINE q == [NoRequest EXCEPT !.pc = IF j \in Bound THEN "add" ELSE "issue",
                       !.job = j, !.at = IF j \in Bound THEN at ELSE issued, !.issued = issued]
    <3>1. q \in RequestType
      BY <1>1 DEF RequestType, PCs, RecorderPcs, Reasons, NoRequest
    <3>2. req' = [req EXCEPT ![r] = q]
      BY <1>1 DEF Submit
    <3> HIDE DEF q
    <3> QED
      BY <3>1, <3>2 DEF TypeOK
  <2> QED BY <1>1, <2>1 DEF Submit, TypeOK
<1>2. ASSUME NEW r \in Requests, NEW j \in Jobs, NEW now \in Times, Approve(r, j, now) PROVE TypeOK'
  <2>1. req' \in [Requests -> RequestType]
    <3> DEFINE live == now < job[j].expires
               q == [NoRequest EXCEPT !.pc = IF live THEN "grant" ELSE "refuse",
                       !.why = IF live THEN "NONE" ELSE "PENDING_APPROVAL_EXPIRED",
                       !.job = j, !.at = now, !.issued = job[j].created]
    <3>1. q \in RequestType
      <4>1. job[j].created \in Nat
        BY DEF TypeOK, RowType
      <4> HIDE DEF live
      <4> QED
        BY <1>2, <4>1 DEF RequestType, PCs, RecorderPcs, Reasons, TerminalRefusals, NoRequest
    <3>2. req' = [req EXCEPT ![r] = q]
      BY <1>2 DEF Approve
    <3> HIDE DEF q
    <3> QED
      BY <3>1, <3>2 DEF TypeOK
  <2> QED BY <1>2, <2>1 DEF Approve, TypeOK
<1>3. ASSUME NEW r \in Requests, NEW j \in Jobs, NEW k \in granted \cup {NoToken},
             Complete(r, j, k) PROVE TypeOK'
  <2>1. req' \in [Requests -> RequestType]
    <3> DEFINE q == [NoRequest EXCEPT !.pc = "avail", !.job = j, !.token = k,
                                      !.issued = job[j].created]
    <3>1. q \in RequestType
      <4>1. job[j].created \in Nat /\ k \in Tokens \cup {NoToken}
        BY <1>3 DEF TypeOK, RowType
      <4> QED
        BY <1>3, <4>1 DEF RequestType, PCs, RecorderPcs, Reasons, NoRequest
    <3>2. req' = [req EXCEPT ![r] = q]
      BY <1>3 DEF Complete
    <3> HIDE DEF q
    <3> QED
      BY <3>1, <3>2 DEF TypeOK
  <2> QED BY <1>3, <2>1 DEF Complete, TypeOK
<1>4. ASSUME NEW r \in Requests, Issue(r) PROVE TypeOK'
  <2>1. req[r].pc \notin {"idle", "avail"} /\ req' \in [Requests -> RequestType]
    BY <1>4, GotoType DEF Issue, Record, PCs, AckPcs
  <2>2. chain' \in Seq(EventType)
    BY <1>4, <2>1, BusyType, AppendType DEF Issue, Record, Commit, Actions, Reasons
  <2> QED BY <1>4, <2>1, <2>2, BusyType DEF Issue, Record, Commit, TypeOK
<1>5. ASSUME NEW r \in Requests, AddPending(r) PROVE TypeOK'
  <2>1. req[r].pc \notin {"idle", "avail"} /\ req' \in [Requests -> RequestType]
    BY <1>5, GotoType DEF AddPending, Record, PCs, AckPcs
  <2>2. chain' \in Seq(EventType)
    BY <1>5, <2>1, BusyType, AppendType DEF AddPending, Record, Commit, Actions, Reasons
  <2>3. job' \in [Jobs -> RowType]
    <3> DEFINE x == [state |-> "PENDING_APPROVAL", created |-> req[r].issued, reserved |-> 0,
                      updated |-> req[r].at, expires |-> req[r].issued + HandoffTTL]
    <3>1. x \in RowType
      BY <2>1, BusyType DEF RowType, JobStates
    <3> QED BY <1>5, <3>1 DEF AddPending, TypeOK
  <2> QED BY <1>5, <2>1, <2>2, <2>3, BusyType DEF AddPending, Record, Commit, TypeOK
<1>6. ASSUME NEW r \in Requests, NEW k \in Tokens, Grant(r, k) PROVE TypeOK'
  <2>1. req[r].pc \notin {"idle", "avail"} /\ req' \in [Requests -> RequestType]
    <3> DEFINE q == [req[r] EXCEPT !.pc = "grantAck", !.token = k]
    <3>1. req[r].pc = "grant" /\ q \in RequestType
      BY <1>6, BusyType DEF Grant, RequestType, PCs, AckPcs
    <3> QED BY <1>6, <3>1 DEF Grant, TypeOK
  <2>2. chain' \in Seq(EventType)
    BY <1>6, <2>1, BusyType, AppendType DEF Grant, Commit, Actions, Reasons
  <2>3. approval' \in [Tokens -> GrantType]
    <3>1. job[req[r].job].expires \in Nat /\ req[r].job \in Jobs /\ req[r].at \in Nat
      BY <2>1, BusyType DEF TypeOK, RowType
    <3> DEFINE e == IF req[r].at + ApprovalTTL < job[req[r].job].expires
                    THEN req[r].at + ApprovalTTL ELSE job[req[r].job].expires
               x == [state |-> "GRANTED", job |-> req[r].job, issued |-> req[r].at,
                     expires |-> e, changed |-> req[r].at]
    <3>2. x \in GrantType
      BY <3>1 DEF GrantType
    <3> QED BY <1>6, <3>2 DEF Grant, TypeOK
  <2> QED BY <1>6, <2>1, <2>2, <2>3 DEF Grant, Commit, TypeOK
<1>7. ASSUME NEW r \in Requests, NEW now \in Times, Preflight(r, now) PROVE TypeOK'
  <2>1. req' \in [Requests -> RequestType]
    BY <1>7, RefusedType, BusyType DEF Preflight, PCs, RecorderPcs, Reasons, TerminalRefusals,
       NotedRefusals
  <2> QED BY <1>7, <2>1 DEF Preflight, TypeOK
<1>8. ASSUME NEW r \in Requests, AdmitPlain(r) PROVE TypeOK'
  <2>1. req[r].pc \notin {"idle", "avail"} /\ req' \in [Requests -> RequestType]
    BY <1>8, GotoType DEF AdmitPlain, Record, PCs, AckPcs
  <2>2. chain' \in Seq(EventType)
    BY <1>8, <2>1, BusyType, AppendType DEF AdmitPlain, Record, Commit, Actions, Reasons
  <2>3. job' \in [Jobs -> RowType]
    <3> DEFINE x == [state |-> "RESERVED", created |-> req[r].at, reserved |-> req[r].at,
                      updated |-> req[r].at, expires |-> req[r].issued + HandoffTTL]
    <3>1. x \in RowType
      BY <2>1, BusyType DEF RowType, JobStates
    <3> QED BY <1>8, <3>1 DEF AdmitPlain, TypeOK
  <2> QED BY <1>8, <2>1, <2>2, <2>3, BusyType DEF AdmitPlain, Record, Commit, TypeOK
<1>9. ASSUME NEW r \in Requests, AdmitBound(r) PROVE TypeOK'
  <2>1. req[r].pc \notin {"idle", "avail"} /\ req' \in [Requests -> RequestType]
    BY <1>9, GotoType DEF AdmitBound, Record, PCs, AckPcs
  <2>2. chain' \in Seq(EventType)
    BY <1>9, <2>1, BusyType, AppendType DEF AdmitBound, Record, Commit, Actions, Reasons
  <2>3. req[r].job \in Jobs /\ req[r].at \in Nat /\ req[r].token \in Tokens
    BY <1>9, <2>1, BusyType DEF AdmitBound, Consumable
  <2>4. job' \in [Jobs -> RowType]
    <3> DEFINE x == [job[req[r].job] EXCEPT !.state = "RESERVED", !.reserved = req[r].at,
                                            !.updated = req[r].at]
    <3>1. job[req[r].job] \in RowType
      BY <2>3 DEF TypeOK
    <3>2. x \in RowType
      BY <2>3, <3>1 DEF RowType, JobStates
    <3> QED BY <1>9, <3>2 DEF AdmitBound, TypeOK
  <2>5. approval' \in [Tokens -> GrantType]
    <3> DEFINE x == [approval[req[r].token] EXCEPT !.state = "CONSUMED", !.changed = req[r].at]
    <3>1. approval[req[r].token] \in GrantType
      BY <2>3 DEF TypeOK
    <3>2. x \in GrantType
      BY <2>3, <3>1 DEF GrantType
    <3> QED BY <1>9, <3>2 DEF AdmitBound, TypeOK
  <2> QED BY <1>9, <2>1, <2>2, <2>3, <2>4, <2>5 DEF AdmitBound, Record, Commit, TypeOK
<1>10. ASSUME NEW r \in Requests, AdmitRefused(r) PROVE TypeOK'
  <2>1. req' \in [Requests -> RequestType]
    BY <1>10, RefusedType, BusyType DEF AdmitRefused, PCs, RecorderPcs, Reasons, TerminalRefusals,
       NotedRefusals
  <2> QED BY <1>10, <2>1 DEF AdmitRefused, Released, TypeOK
<1>11. ASSUME NEW r \in Requests, Dispatch(r) PROVE TypeOK'
  <2>1. req[r].pc \notin {"idle", "avail"} /\ req' \in [Requests -> RequestType]
    BY <1>11, GotoType DEF Dispatch, Record, PCs, AckPcs
  <2>2. chain' \in Seq(EventType)
    BY <1>11, <2>1, BusyType, AppendType DEF Dispatch, Record, Commit, Actions, Reasons
  <2>3. job' \in [Jobs -> RowType]
    BY <1>11, <2>1, BusyType, MovedType DEF Dispatch, JobStates
  <2> QED BY <1>11, <2>1, <2>2, <2>3, BusyType DEF Dispatch, Record, Commit, TypeOK
<1>12. ASSUME NEW r \in Requests, Work(r) PROVE TypeOK'
  <2>1. req' \in [Requests -> RequestType] /\ req[r].job \in Jobs
    BY <1>12, GotoType, BusyType DEF Work, PCs, RecorderPcs
  <2> QED BY <1>12, <2>1 DEF Work, TypeOK
<1>13. ASSUME NEW r \in Requests, Signed(r) PROVE TypeOK'
  <2>1. req' \in [Requests -> RequestType] /\ req[r].job \in Jobs
    BY <1>13, GotoType, BusyType DEF Signed, PCs, RecorderPcs
  <2> QED BY <1>13, <2>1 DEF Signed, TypeOK
<1>14. ASSUME NEW r \in Requests, Unsigned(r) PROVE TypeOK'
  <2>1. req' \in [Requests -> RequestType]
    BY <1>14, RefusedType, BusyType DEF Unsigned, PCs, RecorderPcs, Reasons, TerminalRefusals,
       NotedRefusals
  <2> QED BY <1>14, <2>1 DEF Unsigned, TypeOK
<1>15. ASSUME NEW r \in Requests, NEW now \in Times, Accept(r, now) PROVE TypeOK'
  <2>1. req[r].pc \notin {"idle", "avail"} /\ req' \in [Requests -> RequestType]
    BY <1>15, GotoType DEF Accept, Record, PCs, AckPcs
  <2>2. chain' \in Seq(EventType)
    BY <1>15, <2>1, BusyType, AppendType DEF Accept, Record, Commit, Actions, Reasons
  <2>3. job' \in [Jobs -> RowType]
    BY <1>15, <2>1, BusyType, MovedType DEF Accept, JobStates
  <2> QED BY <1>15, <2>1, <2>2, <2>3, BusyType DEF Accept, Record, Commit, TypeOK
<1>16. ASSUME NEW r \in Requests, NEW now \in Times, Reject(r, now) PROVE TypeOK'
  <2>1. req' \in [Requests -> RequestType]
    BY <1>16, RefusedType, BusyType DEF Reject, PCs, RecorderPcs, Reasons, TerminalRefusals,
       NotedRefusals
  <2> QED BY <1>16, <2>1 DEF Reject, Released, TypeOK
<1>17. ASSUME NEW r \in Requests, Note(r) PROVE TypeOK'
  <2>1. req[r].pc \notin {"idle", "avail"} /\ req' \in [Requests -> RequestType]
    BY <1>17, GotoType DEF Note, Record, PCs, AckPcs
  <2>2. chain' \in Seq(EventType)
    BY <1>17, <2>1, BusyType, AppendType DEF Note, Record, Commit, Actions, Reasons
  <2> QED BY <1>17, <2>1, <2>2, BusyType DEF Note, Record, Commit, TypeOK
<1>18. ASSUME NEW r \in Requests, Refuse(r) PROVE TypeOK'
  <2>1. req[r].pc \notin {"idle", "avail"} /\ req' \in [Requests -> RequestType]
    BY <1>18, GotoType DEF Refuse, Record, PCs, AckPcs
  <2>2. chain' \in Seq(EventType)
    BY <1>18, <2>1, BusyType, AppendType DEF Refuse, Record, Commit, Actions, Reasons
  <2>3. job' \in [Jobs -> RowType]
    BY <1>18, <2>1, BusyType, MovedType DEF Refuse, JobStates
  <2> QED BY <1>18, <2>1, <2>2, <2>3, BusyType DEF Refuse, Record, Commit, TypeOK
<1>19. ASSUME NEW r \in Requests, Ack(r) PROVE TypeOK'
  <2>1. req[r].pc \in AckPcs /\ req[r].pc \notin {"idle", "avail"}
    BY <1>19 DEF Ack, AckPcs
  <2>2. req' \in [Requests -> RequestType]
    BY <1>19, <2>1, GotoType, EndType DEF Ack, AfterAck, PCs, RecorderPcs
  <2>3. granted' \in SUBSET Tokens
    <3>1. CASE req[r].pc = "grantAck"
      BY <1>19, <3>1, <2>1, BusyType DEF Ack, TypeOK
    <3>2. CASE req[r].pc # "grantAck"
      BY <1>19, <3>2 DEF Ack, TypeOK
    <3> QED BY <3>1, <3>2
  <2>4. told' \in SUBSET ({"PENDING_APPROVAL", "ACCEPTED"} \X Jobs)
    BY <1>19, <2>1, BusyType DEF Ack, TypeOK
  <2> QED BY <1>19, <2>2, <2>3, <2>4 DEF Ack, AnchorAll, TypeOK
<1>20. ASSUME NEW r \in Requests, AckFail(r) PROVE TypeOK'
  <2>1. req' \in [Requests -> RequestType]
    BY <1>20, EndType DEF AckFail, Abandon
  <2> QED BY <1>20, <2>1 DEF AckFail, TypeOK
<1>21. ASSUME NEW r \in Requests, Recover(r) PROVE TypeOK'
  BY <1>21 DEF Recover, AnchorAll, TypeOK
<1>22. ASSUME NEW r \in Requests, RecoverFail(r) PROVE TypeOK'
  <2>1. req' \in [Requests -> RequestType]
    BY <1>22, EndType DEF RecoverFail
  <2> QED BY <1>22, <2>1 DEF RecoverFail, TypeOK
<1>23. ASSUME NEW r \in Requests, DbFail(r) PROVE TypeOK'
  <2>1. req' \in [Requests -> RequestType]
    BY <1>23, EndType DEF DbFail
  <2> QED BY <1>23, <2>1 DEF DbFail, TypeOK
<1>24. ASSUME NEW i \in Instances, Crash(i) PROVE TypeOK'
  <2>1. req' \in [Requests -> RequestType]
    BY <1>24, NoRequestType DEF Crash, TypeOK
  <2> QED BY <1>24, <2>1 DEF Crash, TypeOK
<1>25. ASSUME NEW i \in Instances, NEW mode \in Modes, Start(i, mode) PROVE TypeOK'
  BY <1>25 DEF Start, AnchorAll, TypeOK
<1>26. CASE UNCHANGED vars
  BY <1>26 DEF vars, TypeOK
<1> QED
  BY <1>1, <1>2, <1>3, <1>4, <1>5, <1>6, <1>7, <1>8, <1>9, <1>10, <1>11, <1>12, <1>13, <1>14, <1>15, <1>16, <1>17, <1>18, <1>19, <1>20, <1>21, <1>22, <1>23, <1>24, <1>25, <1>26 DEF Next, Arrive, Step

\* Whatever the threads do, fail to do or crash in, the stores stay well formed.
THEOREM Typing == Spec => []TypeOK
BY InitType, StepType, PTL DEF Spec

-----------------------------------------------------------------------------
(***************************************************************************)
(* At most one effect, with its evidence.                                  *)
(***************************************************************************)

\* The chain only grows and the anchor only advances to what the chain holds.
Growth == /\ chain' = chain \/ \E e : chain' = Append(chain, e) /\ e \in EventType
          /\ anchored' \in {anchored, Len(chain)}

\* A spent token stays spent.
ConsentKept == \A k \in Tokens : approval[k].state = "CONSUMED" => approval'[k] = approval[k]

\* Evidence is never lost.
LEMMA EvidenceKept ==
  ASSUME TypeOK, AnchorBehind, Growth, NEW a, NEW j
  PROVE  /\ AnchorBehind'
         /\ Witnessed(a, j) => Witnessed(a, j)'
         /\ Recorded(a, j, Len(chain)) => Recorded(a, j, Len(chain))'
<1>1. chain \in Seq(EventType) /\ anchored \in Nat
  BY DEF TypeOK
<1>2. /\ Len(chain) \in Nat /\ Len(chain') \in Nat /\ Len(chain) <= Len(chain')
      /\ \A i \in 1..Len(chain) : i \in 1..Len(chain') /\ chain'[i] = chain[i]
  <2>1. CASE chain' = chain
    BY <1>1, <2>1
  <2>2. CASE \E e : chain' = Append(chain, e) /\ e \in EventType
    <3>1. PICK e \in EventType : chain' = Append(chain, e)
      BY <2>2
    <3> QED BY <1>1, <3>1
  <2> QED BY <2>1, <2>2 DEF Growth
<1>3. anchored' \in {anchored, Len(chain)} /\ anchored <= Len(chain)
  BY DEF Growth, AnchorBehind
<1>4. AnchorBehind'
  BY <1>1, <1>2, <1>3 DEF AnchorBehind
<1>5. ASSUME Recorded(a, j, Len(chain)) PROVE Recorded(a, j, Len(chain))'
  BY <1>2, <1>5 DEF Recorded
<1>6. ASSUME Witnessed(a, j) PROVE Witnessed(a, j)'
  BY <1>1, <1>2, <1>3, <1>6 DEF Witnessed, Recorded
<1> QED BY <1>4, <1>5, <1>6

LEMMA ConsentKeptConsents ==
  ASSUME ConsentKept, NEW j, Consented(j)
  PROVE  Consented(j)'
BY DEF ConsentKept, Consented

\* A step that leaves ledger and effects alone, and turns no thread into a
\* carrier, preserves the invariant.
LEMMA Quiet ==
  ASSUME IInv, TypeOK', Growth, ConsentKept, job' = job, effects' = effects,
         \A s \in Requests : req'[s] = req[s] \/ req'[s].pc \notin CarrierPcs
  PROVE  IInv'
<1>1. AnchorBehind'
  BY EvidenceKept DEF IInv
<1>2. Stages'
  <2> SUFFICES ASSUME NEW s \in Requests PROVE Stage(s)'
    BY DEF Stages
  <2>1. CASE req'[s] = req[s]
    BY <2>1, EvidenceKept DEF IInv, Stages, Stage
  <2>2. CASE req'[s].pc \notin CarrierPcs
    BY <2>2 DEF Stage, CarrierPcs
  <2> QED BY <2>1, <2>2
<1>3. SoleCarrier'
  BY DEF IInv, SoleCarrier
<1>4. EffectsRemembered'
  BY EvidenceKept DEF IInv, EffectsRemembered, Remembered
<1>5. ConsentSpent'
  BY ConsentKeptConsents DEF IInv, ConsentSpent
<1> QED BY <1>1, <1>2, <1>3, <1>4, <1>5 DEF IInv

\* A job no thread carries: it is not admitted yet, and has had no effect.
LEMMA Uncarried ==
  ASSUME IInv, NEW j \in Jobs, job[j].state \in {"NONE", "PENDING_APPROVAL"}
  PROVE  /\ effects[j] = 0
         /\ \A s \in Requests : req[s].pc \in CarrierPcs => req[s].job # j
<1>1. effects[j] = 0
  <2>1. effects[j] \in Nat
    BY DEF IInv, TypeOK
  <2>2. effects[j] <= 1 /\ effects[j] # 1
    BY DEF IInv, EffectsRemembered, Remembered, Executing
  <2> QED BY <2>1, <2>2
<1>2. ASSUME NEW s \in Requests, req[s].pc \in CarrierPcs PROVE req[s].job # j
  BY <1>2 DEF IInv, Stages, Stage, CarrierPcs
<1> QED BY <1>1, <1>2

\* A step of thread r that moves job j, which no other thread carries, leaves
\* the stages of all the others as they were.
LEMMA OthersKept ==
  ASSUME IInv, Growth, NEW r \in Requests, NEW j \in Jobs,
         \A s \in Requests \ {r} : req'[s] = req[s] /\ (req[s].pc \in CarrierPcs => req[s].job # j),
         \A i \in Jobs \ {j} : job'[i] = job[i] /\ effects'[i] = effects[i]
  PROVE  /\ \A s \in Requests \ {r} : Stage(s)'
         /\ \A i \in Jobs \ {j} : Remembered(i)'
<1>1. ASSUME NEW s \in Requests \ {r} PROVE Stage(s)'
  <2>1. CASE req[s].pc \in CarrierPcs
    <3>1. req[s].job \in Jobs \ {j}
      BY <2>1, BusyType DEF IInv, CarrierPcs
    <3> QED BY <3>1, EvidenceKept DEF IInv, Stages, Stage
  <2>2. CASE req[s].pc \notin CarrierPcs
    BY <2>2 DEF Stage, CarrierPcs
  <2> QED BY <2>1, <2>2
<1>2. ASSUME NEW i \in Jobs \ {j} PROVE Remembered(i)'
  BY <1>2, EvidenceKept DEF IInv, EffectsRemembered, Remembered
<1> QED BY <1>1, <1>2

\* When, moreover, r comes to a proper stage of its own and the ledger accounts
\* for j, the invariant is preserved.
LEMMA Carried ==
  ASSUME IInv, TypeOK', Growth, ConsentKept, NEW r \in Requests, NEW j \in Jobs,
         \A s \in Requests \ {r} : req'[s] = req[s] /\ (req[s].pc \in CarrierPcs => req[s].job # j),
         \A i \in Jobs \ {j} : job'[i] = job[i] /\ effects'[i] = effects[i],
         req'[r].job = j \/ req'[r].pc \notin CarrierPcs,
         Stage(r)', Remembered(j)',
         j \in Bound /\ job'[j].state \in Admitted => Consented(j)'
  PROVE  IInv'
<1>1. AnchorBehind'
  BY EvidenceKept DEF IInv
<1>2. Stages'
  BY OthersKept DEF Stages
<1>3. SoleCarrier'
  BY DEF IInv, SoleCarrier
<1>4. EffectsRemembered'
  BY OthersKept DEF EffectsRemembered
<1>5. ConsentSpent'
  BY ConsentKeptConsents DEF IInv, ConsentSpent
<1> QED BY <1>1, <1>2, <1>3, <1>4, <1>5 DEF IInv

\* The events of the pipeline are events.
LEMMA EventTyped ==
  ASSUME NEW a \in Actions, NEW j \in Jobs, NEW at \in Nat, NEW w \in Reasons,
         NEW k \in Tokens \cup {NoToken}
  PROVE  Event(a, j, at, w, k) \in EventType
BY DEF Event, EventType

\* A refusal carries no job on.
LEMMA RefusedCarriesNothing ==
  ASSUME req \in [Requests -> RequestType], NEW r \in Requests, NEW pc, NEW why, NEW at,
         Refused(r, pc, why, at), pc \notin CarrierPcs
  PROVE  \A s \in Requests : req'[s] = req[s] \/ req'[s].pc \notin CarrierPcs
<1>1. req'[r].pc = pc /\ \A s \in Requests \ {r} : req'[s] = req[s]
  BY DEF Refused, RequestType
<1> QED BY <1>1

\* The job a carrier carries is carried by no other thread.
LEMMA Alone ==
  ASSUME IInv, NEW r \in Requests, req[r].pc \in CarrierPcs
  PROVE  /\ req[r].job \in Jobs
         /\ \A s \in Requests \ {r} : req[s].pc \in CarrierPcs => req[s].job # req[r].job
<1>1. req[r].job \in Jobs
  BY BusyType DEF IInv, CarrierPcs
<1> QED BY <1>1 DEF IInv, SoleCarrier

LEMMA InitIInv == Init => IInv
<1> SUFFICES ASSUME Init PROVE IInv
  OBVIOUS
<1>1. TypeOK
  BY InitType
<1>2. AnchorBehind
  BY DEF Init, AnchorBehind
<1>3. Stages /\ SoleCarrier
  BY DEF Init, Stages, Stage, SoleCarrier, NoRequest, CarrierPcs
<1>4. EffectsRemembered
  BY DEF Init, EffectsRemembered, Remembered
<1>5. ConsentSpent
  BY DEF Init, ConsentSpent, NoRow, Admitted
<1> QED BY <1>1, <1>2, <1>3, <1>4, <1>5 DEF IInv

LEMMA StepIInv == IInv /\ [Next]_vars => IInv'
<1> SUFFICES ASSUME IInv, [Next]_vars PROVE IInv'
  OBVIOUS
<1> USE DEF dbVars
<1>t. TypeOK /\ TypeOK' /\ req \in [Requests -> RequestType]
  BY StepType DEF IInv, TypeOK
<1>1. ASSUME NEW r \in Requests, NEW j \in Jobs, NEW issued \in Times, NEW at \in Times,
             Submit(r, j, issued, at) PROVE IInv'
  <2>1. Growth /\ ConsentKept
    BY <1>1, <1>t DEF Submit, Growth, ConsentKept, AnchorAll
  <2>2. \A s \in Requests : req'[s] = req[s] \/ req'[s].pc \notin CarrierPcs
    BY <1>1, <1>t DEF Submit, CarrierPcs, NoRequest
  <2> QED BY <1>1, <1>t, <2>1, <2>2, Quiet DEF Submit
<1>2. ASSUME NEW r \in Requests, NEW j \in Jobs, NEW now \in Times, Approve(r, j, now) PROVE IInv'
  <2>1. Growth /\ ConsentKept
    BY <1>2, <1>t DEF Approve, Growth, ConsentKept, AnchorAll
  <2>2. \A s \in Requests : req'[s] = req[s] \/ req'[s].pc \notin CarrierPcs
    BY <1>2, <1>t DEF Approve, CarrierPcs, NoRequest
  <2> QED BY <1>2, <1>t, <2>1, <2>2, Quiet DEF Approve
<1>3. ASSUME NEW r \in Requests, NEW j \in Jobs, NEW k \in granted \cup {NoToken},
             Complete(r, j, k) PROVE IInv'
  <2>1. Growth /\ ConsentKept
    BY <1>3, <1>t DEF Complete, Growth, ConsentKept, AnchorAll
  <2>2. \A s \in Requests : req'[s] = req[s] \/ req'[s].pc \notin CarrierPcs
    BY <1>3, <1>t DEF Complete, CarrierPcs, NoRequest
  <2> QED BY <1>3, <1>t, <2>1, <2>2, Quiet DEF Complete
<1>4. ASSUME NEW r \in Requests, Issue(r) PROVE IInv'
  <2>1. req[r].pc = "issue" /\ req[r].job \in Jobs /\ req[r].at \in Nat
    BY <1>4, <1>t, BusyType DEF Issue
  <2>2. Growth
    <3>1. PICK e \in EventType : Commit(r, e)
      BY <1>4, <1>t, <2>1, BusyType, EventTyped DEF Issue, Record, Actions, Reasons
    <3> QED BY <1>4, <3>1 DEF Issue, Commit, Growth
  <2>3. ConsentKept
    BY <1>4 DEF Issue, ConsentKept
  <2>4. \A s \in Requests : req'[s] = req[s] \/ req'[s].pc \notin CarrierPcs
    BY <1>4, <1>t DEF Issue, Record, Goto, CarrierPcs
  <2> QED BY <1>4, <1>t, <2>2, <2>3, <2>4, Quiet DEF Issue
<1>5. ASSUME NEW r \in Requests, NEW k \in Tokens, Grant(r, k) PROVE IInv'
  <2>1. req[r].pc = "grant" /\ req[r].job \in Jobs /\ req[r].at \in Nat
    BY <1>5, <1>t, BusyType DEF Grant
  <2>2. Growth
    <3>1. PICK e \in EventType : Commit(r, e)
      BY <1>5, <1>t, <2>1, BusyType, EventTyped DEF Grant, Record, Actions, Reasons
    <3> QED BY <1>5, <3>1 DEF Grant, Commit, Growth
  <2>3. ConsentKept
    BY <1>5 DEF Grant, ConsentKept
  <2>4. \A s \in Requests : req'[s] = req[s] \/ req'[s].pc \notin CarrierPcs
    BY <1>5, <1>t DEF Grant, Record, Goto, CarrierPcs
  <2> QED BY <1>5, <1>t, <2>2, <2>3, <2>4, Quiet DEF Grant
<1>6. ASSUME NEW r \in Requests, Note(r) PROVE IInv'
  <2>1. req[r].pc = "note" /\ req[r].job \in Jobs /\ req[r].at \in Nat
    BY <1>6, <1>t, BusyType DEF Note
  <2>2. Growth
    <3>1. PICK e \in EventType : Commit(r, e)
      BY <1>6, <1>t, <2>1, BusyType, EventTyped DEF Note, Record, Actions, Reasons
    <3> QED BY <1>6, <3>1 DEF Note, Commit, Growth
  <2>3. ConsentKept
    BY <1>6 DEF Note, ConsentKept
  <2>4. \A s \in Requests : req'[s] = req[s] \/ req'[s].pc \notin CarrierPcs
    BY <1>6, <1>t DEF Note, Record, Goto, CarrierPcs
  <2> QED BY <1>6, <1>t, <2>2, <2>3, <2>4, Quiet DEF Note
<1>7. ASSUME NEW r \in Requests, NEW now \in Times, Preflight(r, now) PROVE IInv'
  <2>1. Growth /\ ConsentKept
    BY <1>7, <1>t DEF Preflight, Growth, ConsentKept, AnchorAll
  <2>2. \A s \in Requests : req'[s] = req[s] \/ req'[s].pc \notin CarrierPcs
    <3>1. PICK pc \in {"refuse", "note", "admit"}, why \in Reasons : Refused(r, pc, why, now)
      BY <1>7 DEF Preflight, Reasons, TerminalRefusals, NotedRefusals
    <3>2. pc \notin CarrierPcs
      BY DEF CarrierPcs
    <3> QED BY <1>t, <3>1, <3>2, RefusedCarriesNothing
  <2> QED BY <1>7, <1>t, <2>1, <2>2, Quiet DEF Preflight
<1>8. ASSUME NEW r \in Requests, AdmitRefused(r) PROVE IInv'
  <2>1. Growth /\ ConsentKept
    BY <1>8, <1>t DEF AdmitRefused, Growth, ConsentKept, AnchorAll
  <2>2. \A s \in Requests : req'[s] = req[s] \/ req'[s].pc \notin CarrierPcs
    <3>1. PICK pc \in {"refuse", "note"}, why \in Reasons : Refused(r, pc, why, req[r].at)
      BY <1>8 DEF AdmitRefused, Reasons, TerminalRefusals, NotedRefusals
    <3>2. pc \notin CarrierPcs
      BY DEF CarrierPcs
    <3> QED BY <1>t, <3>1, <3>2, RefusedCarriesNothing
  <2> QED BY <1>8, <1>t, <2>1, <2>2, Quiet DEF AdmitRefused
<1>9. ASSUME NEW r \in Requests, Unsigned(r) PROVE IInv'
  <2>1. Growth /\ ConsentKept
    BY <1>9, <1>t DEF Unsigned, Growth, ConsentKept, AnchorAll
  <2>2. \A s \in Requests : req'[s] = req[s] \/ req'[s].pc \notin CarrierPcs
    BY <1>9, <1>t, RefusedCarriesNothing DEF Unsigned, CarrierPcs
  <2> QED BY <1>9, <1>t, <2>1, <2>2, Quiet DEF Unsigned
<1>10. ASSUME NEW r \in Requests, NEW now \in Times, Reject(r, now) PROVE IInv'
  <2>1. Growth /\ ConsentKept
    BY <1>10, <1>t DEF Reject, Growth, ConsentKept, AnchorAll
  <2>2. \A s \in Requests : req'[s] = req[s] \/ req'[s].pc \notin CarrierPcs
    BY <1>10, <1>t, RefusedCarriesNothing DEF Reject, CarrierPcs
  <2> QED BY <1>10, <1>t, <2>1, <2>2, Quiet DEF Reject
<1>11. ASSUME NEW r \in Requests, AckFail(r) PROVE IInv'
  <2>1. Growth /\ ConsentKept
    BY <1>11, <1>t DEF AckFail, Growth, ConsentKept, AnchorAll
  <2>2. \A s \in Requests : req'[s] = req[s] \/ req'[s].pc \notin CarrierPcs
    BY <1>11, <1>t DEF AckFail, CarrierPcs, Abandon, End, NoRequest
  <2> QED BY <1>11, <1>t, <2>1, <2>2, Quiet DEF AckFail
<1>12. ASSUME NEW r \in Requests, Recover(r) PROVE IInv'
  <2>1. Growth /\ ConsentKept
    BY <1>12, <1>t DEF Recover, Growth, ConsentKept, AnchorAll
  <2>2. \A s \in Requests : req'[s] = req[s] \/ req'[s].pc \notin CarrierPcs
    BY <1>12, <1>t DEF Recover, CarrierPcs
  <2> QED BY <1>12, <1>t, <2>1, <2>2, Quiet DEF Recover
<1>13. ASSUME NEW r \in Requests, RecoverFail(r) PROVE IInv'
  <2>1. Growth /\ ConsentKept
    BY <1>13, <1>t DEF RecoverFail, Growth, ConsentKept, AnchorAll
  <2>2. \A s \in Requests : req'[s] = req[s] \/ req'[s].pc \notin CarrierPcs
    BY <1>13, <1>t DEF RecoverFail, CarrierPcs, End, NoRequest
  <2> QED BY <1>13, <1>t, <2>1, <2>2, Quiet DEF RecoverFail
<1>14. ASSUME NEW r \in Requests, DbFail(r) PROVE IInv'
  <2>1. Growth /\ ConsentKept
    BY <1>14, <1>t DEF DbFail, Growth, ConsentKept, AnchorAll
  <2>2. \A s \in Requests : req'[s] = req[s] \/ req'[s].pc \notin CarrierPcs
    BY <1>14, <1>t DEF DbFail, CarrierPcs, End, NoRequest
  <2> QED BY <1>14, <1>t, <2>1, <2>2, Quiet DEF DbFail
<1>15. ASSUME NEW i \in Instances, Crash(i) PROVE IInv'
  <2>1. Growth /\ ConsentKept
    BY <1>15, <1>t DEF Crash, Growth, ConsentKept, AnchorAll
  <2>2. \A s \in Requests : req'[s] = req[s] \/ req'[s].pc \notin CarrierPcs
    BY <1>15, <1>t DEF Crash, CarrierPcs, NoRequest
  <2> QED BY <1>15, <1>t, <2>1, <2>2, Quiet DEF Crash
<1>16. ASSUME NEW i \in Instances, NEW mode \in Modes, Start(i, mode) PROVE IInv'
  <2>1. Growth /\ ConsentKept
    BY <1>16, <1>t DEF Start, Growth, ConsentKept, AnchorAll
  <2>2. \A s \in Requests : req'[s] = req[s] \/ req'[s].pc \notin CarrierPcs
    BY <1>16, <1>t DEF Start, CarrierPcs
  <2> QED BY <1>16, <1>t, <2>1, <2>2, Quiet DEF Start
<1>17. ASSUME NEW r \in Requests, AddPending(r) PROVE IInv'
  <2>1. req[r].pc = "add" /\ req[r].job \in Jobs /\ req[r].at \in Nat
    BY <1>17, <1>t, BusyType DEF AddPending
  <2>2. Growth
    <3>1. PICK e \in EventType : Commit(r, e)
      BY <1>17, <1>t, <2>1, BusyType, EventTyped DEF AddPending, Record, Actions, Reasons, TerminalRefusals, NotedRefusals
    <3> QED BY <1>17, <3>1 DEF AddPending, Commit, Growth
  <2>j. PICK j \in Jobs : j = req[r].job
    BY <2>1
  <2>3. ConsentKept
    BY <2>j, <1>17 DEF AddPending, ConsentKept
  <2>4. /\ effects[j] = 0
        /\ \A s \in Requests : req[s].pc \in CarrierPcs => req[s].job # j
    BY <2>j, <1>17, <2>1, Uncarried DEF AddPending, Waiting
  <2>5. req'[r].pc = "addAck" /\ \A s \in Requests \ {r} : req'[s] = req[s]
    BY <2>j, <1>17, <1>t DEF AddPending, Record, Goto
  <2>6. job'[j].state = "PENDING_APPROVAL" /\ \A i \in Jobs \ {j} : job'[i] = job[i]
    BY <2>j, <1>17, <1>t, <2>1 DEF AddPending, TypeOK, RowType
  <2>7. effects' = effects
    BY <2>j, <1>17 DEF AddPending
  <2>8. Stage(r)' /\ req'[r].pc \notin CarrierPcs
    BY <2>j, <2>5 DEF Stage, CarrierPcs
  <2>9. Remembered(j)' /\ job'[j].state \notin Admitted
    BY <2>j, <2>4, <2>6, <2>7 DEF Remembered, Admitted
  <2> QED BY <2>j, <1>t, <2>1, <2>2, <2>3, <2>4, <2>5, <2>6, <2>7, <2>8, <2>9, Carried
<1>18. ASSUME NEW r \in Requests, Refuse(r) PROVE IInv'
  <2>1. req[r].pc = "refuse" /\ req[r].job \in Jobs /\ req[r].at \in Nat
    BY <1>18, <1>t, BusyType DEF Refuse
  <2>2. Growth
    <3>1. PICK e \in EventType : Commit(r, e)
      BY <1>18, <1>t, <2>1, BusyType, EventTyped DEF Refuse, Record, Actions, Reasons, TerminalRefusals, NotedRefusals
    <3> QED BY <1>18, <3>1 DEF Refuse, Commit, Growth
  <2>j. PICK j \in Jobs : j = req[r].job
    BY <2>1
  <2>3. ConsentKept
    BY <2>j, <1>18 DEF Refuse, ConsentKept
  <2>4. /\ effects[j] = 0
        /\ \A s \in Requests : req[s].pc \in CarrierPcs => req[s].job # j
    BY <2>j, <1>18, <2>1, Uncarried DEF Refuse, Waiting
  <2>5. req'[r].pc = "refuseAck" /\ \A s \in Requests \ {r} : req'[s] = req[s]
    BY <2>j, <1>18, <1>t DEF Refuse, Record, Goto
  <2>6. job'[j].state = "REFUSED" /\ \A i \in Jobs \ {j} : job'[i] = job[i]
    <3>1. job' = [job EXCEPT ![j] = [@ EXCEPT !.state = "REFUSED", !.updated = req[r].at]]
      BY <2>j, <1>18 DEF Refuse, Moved
    <3> QED
      BY <1>t, <2>1, <3>1 DEF TypeOK, RowType
  <2>7. effects' = effects
    BY <2>j, <1>18 DEF Refuse
  <2>8. Stage(r)' /\ req'[r].pc \notin CarrierPcs
    BY <2>j, <2>5 DEF Stage, CarrierPcs
  <2>9. Remembered(j)' /\ job'[j].state \notin Admitted
    BY <2>j, <2>4, <2>6, <2>7 DEF Remembered, Admitted
  <2> QED BY <2>j, <1>t, <2>1, <2>2, <2>3, <2>4, <2>5, <2>6, <2>7, <2>8, <2>9, Carried
<1>19. ASSUME NEW r \in Requests, AdmitPlain(r) PROVE IInv'
  <2>1. req[r].pc = "admit" /\ req[r].job \in Jobs /\ req[r].at \in Nat
    BY <1>19, <1>t, BusyType DEF AdmitPlain
  <2>2. Growth
    <3>1. PICK e \in EventType : Commit(r, e)
      BY <1>19, <1>t, <2>1, BusyType, EventTyped DEF AdmitPlain, Record, Actions, Reasons
    <3> QED BY <1>19, <3>1 DEF AdmitPlain, Commit, Growth
  <2>j. PICK j \in Jobs : j = req[r].job
    BY <2>1
  <2>3. ConsentKept
    BY <2>j, <1>19 DEF AdmitPlain, Consumable, ConsentKept
  <2>4. /\ effects[j] = 0
        /\ \A s \in Requests : req[s].pc \in CarrierPcs => req[s].job # j
    BY <2>j, <1>19, <2>1, Uncarried DEF AdmitPlain, Consumable, Waiting
  <2>5. /\ req'[r].pc = "admitAck" /\ req'[r].job = j
        /\ \A s \in Requests \ {r} : req'[s] = req[s]
    BY <2>j, <1>19, <1>t DEF AdmitPlain, Record, Goto, RequestType
  <2>6. job'[j].state = "RESERVED" /\ \A i \in Jobs \ {j} : job'[i] = job[i]
    BY <2>j, <1>19, <1>t, <2>1 DEF AdmitPlain, TypeOK, RowType
  <2>7. effects' = effects
    BY <2>j, <1>19 DEF AdmitPlain
  <2>8. Stage(r)'
    BY <2>j, <2>5, <2>6 DEF Stage
  <2>9. Remembered(j)'
    BY <2>j, <2>4, <2>7 DEF Remembered
  <2>10. j \in Bound => Consented(j)'
    BY <2>j, <1>19 DEF AdmitPlain
  <2> QED BY <2>j, <1>t, <2>1, <2>2, <2>3, <2>4, <2>5, <2>6, <2>7, <2>8, <2>9, <2>10, Carried
<1>20. ASSUME NEW r \in Requests, AdmitBound(r) PROVE IInv'
  <2>1. req[r].pc = "admit" /\ req[r].job \in Jobs /\ req[r].at \in Nat
    BY <1>20, <1>t, BusyType DEF AdmitBound
  <2>2. Growth
    <3>1. PICK e \in EventType : Commit(r, e)
      BY <1>20, <1>t, <2>1, BusyType, EventTyped DEF AdmitBound, Record, Actions, Reasons
    <3> QED BY <1>20, <3>1 DEF AdmitBound, Commit, Growth
  <2>j. PICK j \in Jobs : j = req[r].job
    BY <2>1
  <2>3. ConsentKept
    BY <2>j, <1>20 DEF AdmitBound, Consumable, ConsentKept
  <2>4. /\ effects[j] = 0
        /\ \A s \in Requests : req[s].pc \in CarrierPcs => req[s].job # j
    BY <2>j, <1>20, <2>1, Uncarried DEF AdmitBound, Consumable, Waiting
  <2>5. /\ req'[r].pc = "admitAck" /\ req'[r].job = j
        /\ \A s \in Requests \ {r} : req'[s] = req[s]
    BY <2>j, <1>20, <1>t DEF AdmitBound, Record, Goto, RequestType
  <2>6. job'[j].state = "RESERVED" /\ \A i \in Jobs \ {j} : job'[i] = job[i]
    BY <2>j, <1>20, <1>t, <2>1 DEF AdmitBound, TypeOK, RowType
  <2>7. effects' = effects
    BY <2>j, <1>20 DEF AdmitBound
  <2>8. Stage(r)'
    BY <2>j, <2>5, <2>6 DEF Stage
  <2>9. Remembered(j)'
    BY <2>j, <2>4, <2>7 DEF Remembered
  <2>10. j \in Bound => Consented(j)'
    <3>1. req[r].token \in Tokens /\ approval[req[r].token].job = j
      BY <2>j, <1>20 DEF AdmitBound, Consumable
    <3>2. approval'[req[r].token].state = "CONSUMED" /\ approval'[req[r].token].job = j
      BY <2>j, <1>20, <1>t, <3>1 DEF AdmitBound, TypeOK, GrantType
    <3> QED BY <2>j, <3>1, <3>2 DEF Consented
  <2> QED BY <2>j, <1>t, <2>1, <2>2, <2>3, <2>4, <2>5, <2>6, <2>7, <2>8, <2>9, <2>10, Carried
<1>21. ASSUME NEW r \in Requests, Dispatch(r) PROVE IInv'
  <2>1. req[r].pc = "dispatch" /\ req[r].job \in Jobs /\ req[r].at \in Nat
    BY <1>21, <1>t, BusyType DEF Dispatch
  <2>2. Growth
    <3>1. PICK e \in EventType : Commit(r, e)
      BY <1>21, <1>t, <2>1, BusyType, EventTyped DEF Dispatch, Record, Actions, Reasons
    <3> QED BY <1>21, <3>1 DEF Dispatch, Commit, Growth
  <2>j. PICK j \in Jobs : j = req[r].job
    BY <2>1
  <2>3. ConsentKept
    BY <2>j, <1>21 DEF Dispatch, ConsentKept
  <2>4. \A s \in Requests \ {r} : req[s].pc \in CarrierPcs => req[s].job # j
    BY <2>j, <2>1, Alone DEF CarrierPcs
  <2>5. /\ req'[r].pc = "dispatchAck" /\ req'[r].job = j
        /\ \A s \in Requests \ {r} : req'[s] = req[s]
    BY <2>j, <1>21, <1>t DEF Dispatch, Record, Goto, RequestType
  <2>6. job'[j].state = "EXECUTION_COMMITTED" /\ \A i \in Jobs \ {j} : job'[i] = job[i]
    BY <2>j, <1>21, <1>t, <2>1 DEF Dispatch, Moved, TypeOK, RowType
  <2>7. effects' = effects
    BY <2>j, <1>21 DEF Dispatch
  <2>8. Stage(r)'
    <3>1. effects[j] = 0
      <4>1. job[j].state = "RESERVED"
        BY <2>j, <1>21 DEF Dispatch
      <4>2. effects[j] \in Nat
        BY <1>t, <2>j DEF TypeOK
      <4>3. effects[j] <= 1 /\ effects[j] # 1
        BY <2>j, <4>1 DEF IInv, EffectsRemembered, Remembered, Executing
      <4> QED BY <4>2, <4>3
    <3>2. Recorded("EXECUTION_DISPATCHED", j, Len(chain))'
      <4> DEFINE e == Event("EXECUTION_DISPATCHED", j, req[r].at, "SATISFIED", NoToken)
      <4>1. chain \in Seq(EventType) /\ e \in EventType /\ chain' = Append(chain, e)
        BY <2>j, <1>21, <1>t, <2>1, EventTyped DEF Dispatch, Record, Commit, TypeOK, Actions, Reasons
      <4>2. /\ Len(chain) + 1 \in 1..Len(chain') /\ Len(chain) + 1 <= Len(chain')
            /\ chain'[Len(chain) + 1] = e
        BY <2>j, <4>1
      <4>3. e.action = "EXECUTION_DISPATCHED" /\ e.job = j
        BY DEF Event
      <4> QED BY <2>j, <4>2, <4>3 DEF Recorded
    <3> QED BY <2>j, <2>5, <2>6, <2>7, <3>1, <3>2 DEF Stage
  <2>9. Remembered(j)'
    BY <2>j, <2>1, <2>2, <2>6, <2>7, EvidenceKept DEF IInv, EffectsRemembered, Remembered, Executing
  <2>10. j \in Bound => Consented(j)'
    BY <2>j, <2>1, <2>3, ConsentKeptConsents DEF IInv, ConsentSpent, Stages, Stage, Admitted
  <2> QED BY <2>j, <1>t, <2>1, <2>2, <2>3, <2>4, <2>5, <2>6, <2>7, <2>8, <2>9, <2>10, Carried
<1>22. ASSUME NEW r \in Requests, NEW now \in Times, Accept(r, now) PROVE IInv'
  <2>1. req[r].pc = "accept" /\ req[r].job \in Jobs /\ req[r].at \in Nat
    BY <1>22, <1>t, BusyType DEF Accept
  <2>2. Growth
    <3>1. PICK e \in EventType : Commit(r, e)
      BY <1>22, <1>t, <2>1, BusyType, EventTyped DEF Accept, Record, Actions, Reasons
    <3> QED BY <1>22, <3>1 DEF Accept, Commit, Growth
  <2>j. PICK j \in Jobs : j = req[r].job
    BY <2>1
  <2>3. ConsentKept
    BY <2>j, <1>22 DEF Accept, ConsentKept
  <2>4. \A s \in Requests \ {r} : req[s].pc \in CarrierPcs => req[s].job # j
    BY <2>j, <2>1, Alone DEF CarrierPcs
  <2>5. /\ req'[r].pc = "acceptAck" /\ req'[r].job = j
        /\ \A s \in Requests \ {r} : req'[s] = req[s]
    BY <2>j, <1>22, <1>t DEF Accept, Record, Goto, RequestType
  <2>6. job'[j].state = "COMPLETED" /\ \A i \in Jobs \ {j} : job'[i] = job[i]
    <3>1. PICK at \in Times :
            job' = [job EXCEPT ![j] = [@ EXCEPT !.state = "COMPLETED", !.updated = at]]
      BY <2>j, <1>22 DEF Accept, Moved
    <3> QED
      BY <1>t, <2>1, <3>1 DEF TypeOK, RowType
  <2>7. effects' = effects
    BY <2>j, <1>22 DEF Accept
  <2>8. Stage(r)'
    BY <2>j, <2>5, <2>6 DEF Stage
  <2>9. Remembered(j)'
    BY <2>j, <2>1, <2>2, <2>6, <2>7, EvidenceKept DEF IInv, EffectsRemembered, Remembered, Executing
  <2>10. j \in Bound => Consented(j)'
    BY <2>j, <2>1, <2>3, ConsentKeptConsents DEF IInv, ConsentSpent, Stages, Stage, Admitted
  <2> QED BY <2>j, <1>t, <2>1, <2>2, <2>3, <2>4, <2>5, <2>6, <2>7, <2>8, <2>9, <2>10, Carried
<1>23. ASSUME NEW r \in Requests, Work(r) PROVE IInv'
  <2>1. req[r].pc = "work" /\ req[r].job \in Jobs /\ req[r].at \in Nat
    BY <1>23, <1>t, BusyType DEF Work
  <2>2. Growth
    BY <1>23 DEF Work, Growth
  <2>j. PICK j \in Jobs : j = req[r].job
    BY <2>1
  <2>3. ConsentKept
    BY <2>j, <1>23 DEF Work, ConsentKept
  <2>4. \A s \in Requests \ {r} : req[s].pc \in CarrierPcs => req[s].job # j
    BY <2>j, <2>1, Alone DEF CarrierPcs
  <2>5. /\ req'[r].pc = "working" /\ req'[r].job = j
        /\ \A s \in Requests \ {r} : req'[s] = req[s]
    BY <2>j, <1>23, <1>t DEF Work, Record, Goto, RequestType
  <2>6. job' = job
    BY <2>j, <1>23 DEF Work
  <2>7. effects'[j] = 1 /\ \A i \in Jobs \ {j} : effects'[i] = effects[i]
    <3>1. effects[j] = 0 /\ effects \in [Jobs -> Nat]
      BY <2>j, <1>t, <2>1 DEF IInv, Stages, Stage, TypeOK
    <3> QED BY <2>j, <1>23, <2>1, <3>1 DEF Work
  <2>8. Stage(r)'
    BY <2>j, <2>1, <2>5, <2>6 DEF IInv, Stages, Stage
  <2>9. Remembered(j)'
    BY <2>j, <2>1, <2>2, <2>6, <2>7, EvidenceKept DEF IInv, Stages, Stage, Remembered, Executing
  <2>10. j \in Bound => Consented(j)'
    BY <2>j, <2>1, <2>3, ConsentKeptConsents DEF IInv, ConsentSpent, Stages, Stage, Admitted
  <2> QED BY <2>j, <1>t, <2>1, <2>2, <2>3, <2>4, <2>5, <2>6, <2>7, <2>8, <2>9, <2>10, Carried
<1>24. ASSUME NEW r \in Requests, Signed(r) PROVE IInv'
  <2>1. req[r].pc \in {"work", "working"}
    BY <1>24 DEF Signed
  <2>2. Growth /\ ConsentKept
    BY <1>24 DEF Signed, Growth, ConsentKept
  <2>j. PICK j \in Jobs : j = req[r].job
    BY <1>t, <2>1, BusyType DEF AckPcs
  <2>3. j \in Jobs /\ \A s \in Requests \ {r} : req[s].pc \in CarrierPcs => req[s].job # j
    BY <2>j, <2>1, Alone DEF CarrierPcs
  <2>4. /\ req'[r].pc = "accept" /\ req'[r].job = j
        /\ \A s \in Requests \ {r} : req'[s] = req[s]
    BY <2>j, <1>24, <1>t DEF Signed, Goto, RequestType
  <2>5. job' = job /\ effects' = effects
    BY <2>j, <1>24 DEF Signed
  <2>6. Stage(r)'
    BY <2>j, <2>1, <2>4, <2>5 DEF IInv, Stages, Stage
  <2>7. Remembered(j)'
    BY <2>j, <2>2, <2>3, <2>5, EvidenceKept DEF IInv, EffectsRemembered, Remembered
  <2>8. j \in Bound => Consented(j)'
    BY <2>j, <2>1, <2>2, ConsentKeptConsents DEF IInv, ConsentSpent, Stages, Stage, Admitted
  <2> QED BY <2>j, <1>t, <2>2, <2>3, <2>4, <2>5, <2>6, <2>7, <2>8, Carried
<1>25. ASSUME NEW r \in Requests, Ack(r) PROVE IInv'
  <2>1. req[r].pc \in AckPcs /\ req[r].pc # "idle"
    BY <1>25 DEF Ack, AckPcs
  <2>2. Growth /\ ConsentKept /\ job' = job /\ effects' = effects
    BY <1>25 DEF Ack, AnchorAll, Growth, ConsentKept
  <2>j. PICK j \in Jobs : j = req[r].job
    BY <1>t, <2>1, BusyType DEF AckPcs
  <2>3. CASE req[r].pc \notin {"admitAck", "dispatchAck"}
    <3>1. \A s \in Requests : req'[s] = req[s] \/ req'[s].pc \notin CarrierPcs
      <4>1. CASE req[r].pc = "issueAck"
        BY <1>25, <1>t, <4>1 DEF Ack, AfterAck, Goto, CarrierPcs, RequestType
      <4>2. CASE req[r].pc # "issueAck"
        <5>1. End(r)
          BY <1>25, <2>3, <4>2 DEF Ack, AfterAck
        <5> QED BY <1>t, <5>1 DEF End, NoRequest, CarrierPcs
      <4> QED BY <4>1, <4>2
    <3> QED BY <2>j, <1>t, <2>2, <3>1, Quiet
  <2>4. CASE req[r].pc \in {"admitAck", "dispatchAck"}
    <3>1. j \in Jobs /\ \A s \in Requests \ {r} : req[s].pc \in CarrierPcs => req[s].job # j
      BY <2>j, <2>4, Alone DEF CarrierPcs
    <3>2. /\ req'[r].pc = (IF req[r].pc = "admitAck" THEN "dispatch" ELSE "work")
          /\ req'[r].job = j
          /\ \A s \in Requests \ {r} : req'[s] = req[s]
      BY <2>j, <1>25, <1>t, <2>4 DEF Ack, AfterAck, Goto, RequestType
    <3>3. Stage(r)'
      <4>1. CASE req[r].pc = "admitAck"
        BY <2>j, <2>2, <3>2, <4>1 DEF IInv, Stages, Stage
      <4>2. CASE req[r].pc = "dispatchAck"
        <5>1. Witnessed("EXECUTION_DISPATCHED", j)'
          BY <2>j, <1>25, <4>2 DEF Ack, AnchorAll, IInv, Stages, Stage, Witnessed, Recorded
        <5> QED BY <2>j, <2>2, <3>2, <4>2, <5>1 DEF IInv, Stages, Stage
      <4> QED BY <2>j, <2>4, <4>1, <4>2
    <3>4. Remembered(j)'
      BY <2>j, <2>2, <3>1, EvidenceKept DEF IInv, EffectsRemembered, Remembered
    <3>5. j \in Bound => Consented(j)'
      BY <2>j, <2>2, <2>4, ConsentKeptConsents DEF IInv, ConsentSpent, Stages, Stage, Admitted
    <3> QED BY <2>j, <1>t, <2>2, <3>1, <3>2, <3>3, <3>4, <3>5, Carried
  <2> QED BY <2>j, <2>3, <2>4
<1>26. CASE UNCHANGED vars
  <2>1. Growth /\ ConsentKept
    BY <1>26 DEF vars, Growth, ConsentKept
  <2> QED BY <1>26, <1>t, <2>1, Quiet DEF vars
<1> QED
  BY <1>1, <1>2, <1>3, <1>4, <1>5, <1>6, <1>7, <1>8, <1>9, <1>10, <1>11, <1>12, <1>13, <1>14, <1>15, <1>16, <1>17, <1>18, <1>19, <1>20, <1>21, <1>22, <1>23, <1>24, <1>25, <1>26 DEF Next, Arrive, Step

\* The strengthened invariant holds throughout.
THEOREM Inductive == Spec => []IInv
BY InitIInv, StepIInv, PTL DEF Spec

\* For any number of instances, threads and retries, any crash and any loss of
\* the anchor's answers: the work of a job is done at most once, after the
\* anchor holds its dispatch and, where required, a token of its own is spent.
THEOREM AtMostOneEvidencedEffect == Spec => []EffectEvidence
<1>1. IInv => EffectEvidence
  BY DEF IInv, EffectsRemembered, Remembered, ConsentSpent, EffectEvidence, Executing, Admitted
<1> QED BY <1>1, Inductive, PTL

\* Only its carrier moves a reserved or committed job or does its work.
LEMMA StepOrphans == TypeOK /\ [Next]_vars => [OrphansUntouched]_vars
<1> SUFFICES ASSUME TypeOK, Next, NEW j \in Jobs, Orphan(j)
             PROVE  job'[j] = job[j] /\ effects'[j] = effects[j]
  BY DEF OrphansUntouched
<1> USE DEF dbVars
<1>t. job \in [Jobs -> RowType] /\ effects \in [Jobs -> Nat]
  BY DEF TypeOK
<1>1. ASSUME NEW r \in Requests, Arrive(r) PROVE job' = job /\ effects' = effects
  BY <1>1 DEF Arrive, Submit, Approve, Complete
<1>2. ASSUME NEW i \in Instances, Crash(i) \/ \E mode \in Modes : Start(i, mode)
      PROVE  job' = job /\ effects' = effects
  BY <1>2 DEF Crash, Start
<1>3. ASSUME NEW r \in Requests, Step(r)
      PROVE  job'[j] = job[j] /\ effects'[j] = effects[j]
  <2>1. req[r].job = j => req[r].pc \notin CarrierPcs
    BY DEF Orphan, Carries
  <2>2. job[j].state \notin {"NONE", "PENDING_APPROVAL"}
    BY DEF Orphan
  <2>3. CASE AddPending(r)
    BY <1>t, <2>2, <2>3 DEF AddPending
  <2>4. CASE AdmitPlain(r)
    BY <1>t, <2>2, <2>4 DEF AdmitPlain
  <2>5. CASE AdmitBound(r)
    BY <1>t, <2>2, <2>5 DEF AdmitBound, Consumable, Waiting
  <2>6. CASE Refuse(r)
    BY <1>t, <2>2, <2>6 DEF Refuse, Waiting, Moved
  <2>7. CASE Dispatch(r)
    BY <1>t, <2>1, <2>7 DEF Dispatch, Moved, CarrierPcs
  <2>8. CASE Work(r)
    BY <1>t, <2>1, <2>8 DEF Work, CarrierPcs
  <2>9. CASE \E now \in Times : Accept(r, now)
    BY <1>t, <2>1, <2>9 DEF Accept, Moved, CarrierPcs
  <2>10. CASE Issue(r) \/ (\E k \in Tokens : Grant(r, k)) \/ Note(r)
    BY <2>10 DEF Issue, Grant, Note
  <2>11. CASE (\E now \in Times : Preflight(r, now) \/ Reject(r, now)) \/ AdmitRefused(r)
    BY <2>11 DEF Preflight, Reject, AdmitRefused
  <2>12. CASE Signed(r) \/ Unsigned(r) \/ Ack(r) \/ AckFail(r)
    BY <2>12 DEF Signed, Unsigned, Ack, AckFail
  <2>13. CASE Recover(r) \/ RecoverFail(r) \/ DbFail(r)
    BY <2>13 DEF Recover, RecoverFail, DbFail
  <2> QED
    BY <1>3, <2>3, <2>4, <2>5, <2>6, <2>7, <2>8, <2>9, <2>10, <2>11, <2>12, <2>13 DEF Step
<1> QED BY <1>1, <1>2, <1>3 DEF Next

\* A job whose thread is gone between reservation and acceptance stays burned,
\* whatever the other instances do and however often the service restarts.
THEOREM OrphansStayBurned == Spec => OrphanNeverRuns
BY Typing, StepOrphans, PTL DEF Spec, OrphanNeverRuns

HIDE TimeAssumption
HIDE SetsAssumption

-----------------------------------------------------------------------------
(***************************************************************************)
(* The inductive invariant, beside IInv.                                   *)
(***************************************************************************)

\* What an event says of a job or of a token is what the tables hold.
Backed(e) ==
  /\ e.action = "HANDOFF_ISSUED" /\ e.reason = "PENDING_APPROVAL" => job[e.job].state # "NONE"
  /\ e.action = "APPROVAL_GRANTED" =>
       /\ e.token \in Tokens /\ approval[e.token].state # "NONE"
       /\ e.at = approval[e.token].issued /\ e.job = approval[e.token].job
  /\ e.action = "HANDOFF_ADMITTED" =>
       /\ job[e.job].state \in Admitted /\ e.at = job[e.job].reserved
       /\ e.token # NoToken => /\ e.token \in Tokens /\ approval[e.token].state = "CONSUMED"
                               /\ e.at = approval[e.token].changed
                               /\ e.job = approval[e.token].job
  /\ e.action = "EXECUTION_DISPATCHED" =>
       job[e.job].state \in Executing /\ e.at = job[e.job].reserved
  /\ e.action = "RESULT_ACCEPTED" => accepted[e.job] # 0 /\ e.at = accepted[e.job]
  /\ e.reason \in TerminalRefusals =>
       /\ e.action = "HANDOFF_REJECTED"
       /\ job[e.job].state = "REFUSED" /\ e.at = job[e.job].updated
ChainBacked == \A i \in 1..Len(chain) : Backed(chain[i])

\* Events of which a job, or a token, has one at most.
OncePerJob == {"HANDOFF_ISSUED", "HANDOFF_ADMITTED", "EXECUTION_DISPATCHED", "RESULT_ACCEPTED"}
Same(e, f) ==
  \/ e.job = f.job /\ e.action = f.action /\ e.action \in OncePerJob
  \/ e.job = f.job /\ e.reason \in TerminalRefusals /\ f.reason \in TerminalRefusals
  \/ e.token = f.token /\ e.action = "APPROVAL_GRANTED" /\ f.action = "APPROVAL_GRANTED"
NoneTwice == \A i, n \in 1..Len(chain) : Same(chain[i], chain[n]) => i = n

\* What the tables hold of a job or of a token is on the chain.
Refusal(j) == \E i \in 1..Len(chain) : chain[i].job = j /\ chain[i].reason \in TerminalRefusals
Of(action, k) == \E i \in 1..Len(chain) : chain[i].action = action /\ chain[i].token = k
RowTold(j) ==
  /\ job[j].state # "NONE" => Recorded("HANDOFF_ISSUED", j, Len(chain))
  /\ job[j].state \in Admitted => Recorded("HANDOFF_ADMITTED", j, Len(chain))
  /\ job[j].state \in Executing => Recorded("EXECUTION_DISPATCHED", j, Len(chain))
  /\ accepted[j] # 0 => Recorded("RESULT_ACCEPTED", j, Len(chain))
  /\ job[j].state = "REFUSED" => Refusal(j)
GrantTold(k) ==
  /\ approval[k].state # "NONE" => Of("APPROVAL_GRANTED", k)
  /\ approval[k].state = "CONSUMED" => Of("HANDOFF_ADMITTED", k)
ChainTells == (\A j \in Jobs : RowTold(j)) /\ (\A k \in Tokens : GrantTold(k))

\* The times of a row and of a grant are in order.
RowSound(j) ==
  /\ job[j].state # "NONE" =>
       /\ j \in used
       /\ 1 <= job[j].created /\ job[j].created <= job[j].updated
       /\ job[j].created < job[j].expires
       /\ \/ job[j].reserved = 0
          \/ job[j].created <= job[j].reserved /\ job[j].reserved <= job[j].updated
       /\ j \in Bound => job[j].expires = job[j].created + HandoffTTL
  /\ job[j].state = "PENDING_APPROVAL" => j \in Bound /\ job[j].reserved = 0
  /\ j \in pending <=> job[j].state = "PENDING_APPROVAL"
  /\ accepted[j] # 0 <=> job[j].state = "COMPLETED"
  /\ job[j].state = "COMPLETED" =>
       /\ job[j].reserved <= accepted[j] /\ accepted[j] < job[j].expires
       /\ job[j].updated = accepted[j]
RowsSound == \A j \in Jobs : RowSound(j)

GrantSound(k) ==
  approval[k].state # "NONE" =>
    /\ approval[k].job \in Jobs /\ job[approval[k].job].state # "NONE"
    /\ approval[k].issued < approval[k].expires
    /\ approval[k].expires <= job[approval[k].job].expires
    /\ approval[k].issued <= approval[k].changed
    /\ approval[k].state = "CONSUMED" =>
         /\ approval[k].changed < approval[k].expires
         /\ job[approval[k].job].state \in Admitted
         /\ job[approval[k].job].reserved = approval[k].changed
GrantsSound == \A k \in Tokens : GrantSound(k)

\* A second grant of a job begins when the first has expired.
GrantsApart ==
  \A k, o \in Tokens :
    k # o /\ approval[k].job = approval[o].job /\ approval[k].state = "GRANTED"
          /\ approval[o].state = "GRANTED" =>
      \/ approval[k].expires <= approval[o].issued
      \/ approval[o].expires <= approval[k].issued

\* What a thread has read, or written itself, still holds when it acts on it.
Knows(r) ==
  LET q == req[r]
      j == req[r].job
  IN /\ q.pc # "idle" => j \in used
     /\ q.pc \in {"issue", "add"} =>
          job[j].state = "NONE" /\ \A i \in 1..Len(chain) : chain[i].job # j
     /\ q.pc = "add" => 1 <= q.issued /\ j \in Bound
     /\ q.pc \in {"issue", "issueAck"} => j \notin Bound
     /\ q.pc = "issueAck" => Recorded("HANDOFF_ISSUED", j, Len(chain))
     /\ q.pc = "addAck" => job[j].state # "NONE"
     /\ q.pc \in {"avail", "admit"} /\ j \notin Bound => Witnessed("HANDOFF_ISSUED", j)
     /\ q.pc \in {"avail", "admit"} /\ j \in Bound =>
          /\ job[j].state # "NONE" /\ q.issued = job[j].created
          /\ q.token \in granted \cup {NoToken}
     /\ q.pc = "grant" =>
          job[j].state # "NONE" /\ job[j].created <= q.at /\ q.at < job[j].expires
     /\ q.pc = "grantAck" => approval[q.token].state # "NONE"
     /\ q.pc \in {"admitAck", "dispatch", "dispatchAck", "work", "working", "accept"} =>
          q.at = job[j].reserved /\ q.issued + HandoffTTL = job[j].expires
     /\ q.pc = "dispatch" => Witnessed("HANDOFF_ADMITTED", j)
     /\ q.pc \in {"work", "working", "accept"} => Witnessed("EXECUTION_DISPATCHED", j)
     /\ q.pc = "note" => q.why \in NotedRefusals
     /\ q.pc = "refuse" => q.why \in TerminalRefusals
ThreadsKnow == \A r \in Requests : Knows(r)

\* A job that is being issued is nobody else's.
FreshAlone ==
  \A r, s \in Requests :
    r # s /\ req[r].pc \in {"issue", "add"} /\ req[s].pc # "idle" => req[r].job # req[s].job

\* The chain speaks of drawn jobs; a token that was handed out is on the anchored part.
UsedOnly == \A i \in 1..Len(chain) : chain[i].job \in used
GrantWitnessed(k) ==
  \E i \in 1..Len(chain) :
    i <= anchored /\ chain[i].action = "APPROVAL_GRANTED" /\ chain[i].token = k
GrantsWitnessed == \A k \in granted : GrantWitnessed(k)

\* Tables and chain.
TablesInv ==
  /\ ChainBacked /\ NoneTwice /\ ChainTells
  /\ RowsSound /\ GrantsSound /\ GrantsApart /\ ChainOrder /\ UsedOnly
HistoryInv == TablesInv /\ ThreadsKnow /\ FreshAlone /\ GrantsWitnessed /\ ReplyEvidence

-----------------------------------------------------------------------------
(***************************************************************************)
(* How the tables move.                                                    *)
(***************************************************************************)

\* A row is created once; its identity, its reservation and its end stay.
RowGoes(j) ==
  /\ job[j].state # "NONE" => /\ job'[j].state # "NONE" /\ job'[j].created = job[j].created
                              /\ job'[j].expires = job[j].expires
  /\ job[j].state \in Admitted => /\ job'[j].state \in Admitted
                                  /\ job'[j].reserved = job[j].reserved
  /\ job[j].state \in Executing => job'[j].state \in Executing
  /\ job[j].state = "REFUSED" => job'[j] = job[j]
  /\ accepted[j] # 0 => accepted'[j] = accepted[j]

\* A grant is written once and spent once.
GrantGoes(k) ==
  /\ approval[k].state # "NONE" =>
       /\ approval'[k].state # "NONE" /\ approval'[k].job = approval[k].job
       /\ approval'[k].issued = approval[k].issued /\ approval'[k].expires = approval[k].expires
  /\ approval[k].state = "CONSUMED" => approval'[k] = approval[k]

Advances == (\A j \in Jobs : RowGoes(j)) /\ (\A k \in Tokens : GrantGoes(k))

\* A row and a grant that are left alone.
LEMMA StillGoes ==
  /\ \A j \in Jobs : job'[j] = job[j] /\ accepted'[j] = accepted[j] => RowGoes(j)
  /\ \A k \in Tokens : approval'[k] = approval[k] => GrantGoes(k)
BY DEF RowGoes, GrantGoes

\* A row whose state moves along the lifecycle.
LEMMA MovedGoes ==
  ASSUME TypeOK, NEW j \in Jobs, NEW s \in JobStates, NEW at, Moved(j, s, at),
         \/ job[j].state = "RESERVED" /\ s = "EXECUTION_COMMITTED"
         \/ job[j].state = "EXECUTION_COMMITTED" /\ s = "COMPLETED"
         \/ job[j].state = "PENDING_APPROVAL" /\ s = "REFUSED",
         accepted[j] # 0 => accepted'[j] = accepted[j]
  PROVE  /\ RowGoes(j) /\ \A i \in Jobs \ {j} : job'[i] = job[i]
         /\ job'[j].state = s /\ job'[j].updated = at /\ job'[j].created = job[j].created
         /\ job'[j].reserved = job[j].reserved /\ job'[j].expires = job[j].expires
<1>1. job[j] \in RowType /\ job \in [Jobs -> RowType]
  BY DEF TypeOK
<1>2. job'[j] = [job[j] EXCEPT !.state = s, !.updated = at]
      /\ \A i \in Jobs \ {j} : job'[i] = job[i]
  BY <1>1 DEF Moved
<1>3. /\ job'[j].state = s /\ job'[j].updated = at /\ job'[j].created = job[j].created
      /\ job'[j].reserved = job[j].reserved /\ job'[j].expires = job[j].expires
  BY <1>1, <1>2 DEF RowType
<1>4. RowGoes(j)
  BY <1>3 DEF RowGoes, Admitted, Executing
<1> QED
  BY <1>2, <1>3, <1>4

\* Every step moves every row and every grant forward or not at all.
LEMMA StepAdvances ==
  ASSUME TypeOK, [Next]_vars
  PROVE  Advances
<1> USE DEF dbVars
<1>t. /\ job \in [Jobs -> RowType] /\ approval \in [Tokens -> GrantType]
      /\ accepted \in [Jobs -> Times \cup {0}]
  BY DEF TypeOK
<1>1. ASSUME UNCHANGED <<job, approval, accepted>> PROVE Advances
  BY <1>1, StillGoes DEF Advances
<1>2. ASSUME NEW r \in Requests, Arrive(r) PROVE Advances
  BY <1>1, <1>2 DEF Arrive, Submit, Approve, Complete
<1>3. ASSUME NEW i \in Instances, Crash(i) \/ \E mode \in Modes : Start(i, mode)
      PROVE  Advances
  BY <1>1, <1>3 DEF Crash, Start
<1>4. ASSUME NEW r \in Requests, Step(r) PROVE Advances
  <2>j. req[r].pc # "idle" => req[r].job \in Jobs
    BY BusyType
  <2>1. CASE AddPending(r) \/ AdmitPlain(r)
    <3>1. PICK j \in Jobs : j = req[r].job
      BY <2>1, <2>j DEF AddPending, AdmitPlain
    <3>2. /\ job[j].state = "NONE" /\ \A i \in Jobs \ {j} : job'[i] = job[i]
          /\ UNCHANGED <<approval, accepted>>
      BY <1>t, <2>1, <3>1 DEF AddPending, AdmitPlain
    <3>3. RowGoes(j)
      BY <3>2 DEF RowGoes, Admitted, Executing
    <3> QED
      BY <3>2, <3>3, StillGoes DEF Advances
  <2>2. CASE AdmitBound(r)
    <3>1. PICK j \in Jobs, k \in Tokens : j = req[r].job /\ k = req[r].token
      BY <2>2, <2>j DEF AdmitBound, Consumable
    <3>2. /\ job[j].state = "PENDING_APPROVAL" /\ approval[k].state = "GRANTED"
          /\ UNCHANGED accepted
          /\ job' = [job EXCEPT ![j] = [@ EXCEPT !.state = "RESERVED", !.reserved = req[r].at,
                                                 !.updated = req[r].at]]
          /\ approval' = [approval EXCEPT ![k] = [@ EXCEPT !.state = "CONSUMED",
                                                           !.changed = req[r].at]]
      BY <2>2, <3>1 DEF AdmitBound, Consumable, Waiting
    <3>3. /\ job'[j].state = "RESERVED" /\ job'[j].created = job[j].created
          /\ job'[j].expires = job[j].expires /\ \A i \in Jobs \ {j} : job'[i] = job[i]
      BY <1>t, <3>2 DEF RowType
    <3>4. /\ approval'[k].state = "CONSUMED" /\ approval'[k].job = approval[k].job
          /\ approval'[k].issued = approval[k].issued
          /\ approval'[k].expires = approval[k].expires
          /\ \A o \in Tokens \ {k} : approval'[o] = approval[o]
      BY <1>t, <3>2 DEF GrantType
    <3>5. RowGoes(j)
      BY <3>2, <3>3 DEF RowGoes, Admitted, Executing
    <3>6. GrantGoes(k)
      BY <3>2, <3>4 DEF GrantGoes
    <3> QED
      BY <3>2, <3>3, <3>4, <3>5, <3>6, StillGoes DEF Advances
  <2>3. ASSUME NEW k \in Tokens, Grant(r, k) PROVE Advances
    <3>1. /\ approval[k].state = "NONE" /\ UNCHANGED <<job, accepted>>
          /\ \A o \in Tokens \ {k} : approval'[o] = approval[o]
      BY <1>t, <2>3 DEF Grant
    <3>2. GrantGoes(k)
      BY <3>1 DEF GrantGoes
    <3> QED
      BY <3>1, <3>2, StillGoes DEF Advances
  <2>4. CASE Dispatch(r) \/ Refuse(r)
    <3>1. PICK j \in Jobs : j = req[r].job
      BY <2>4, <2>j DEF Dispatch, Refuse
    <3>2. /\ UNCHANGED <<approval, accepted>>
          /\ \/ job[j].state = "RESERVED" /\ Moved(j, "EXECUTION_COMMITTED", req[r].at)
             \/ job[j].state = "PENDING_APPROVAL" /\ Moved(j, "REFUSED", req[r].at)
      BY <2>4, <3>1 DEF Dispatch, Refuse, Waiting
    <3>3. RowGoes(j) /\ \A i \in Jobs \ {j} : job'[i] = job[i]
      BY <3>2, MovedGoes DEF JobStates
    <3> QED
      BY <3>2, <3>3, StillGoes DEF Advances
  <2>5. ASSUME NEW now \in Times, Accept(r, now) PROVE Advances
    <3>1. PICK j \in Jobs : j = req[r].job
      BY <2>5, <2>j DEF Accept
    <3>2. /\ UNCHANGED approval /\ accepted[j] = 0
          /\ \A i \in Jobs \ {j} : accepted'[i] = accepted[i]
          /\ job[j].state = "EXECUTION_COMMITTED" /\ Moved(j, "COMPLETED", now)
      BY <1>t, <2>5, <3>1 DEF Accept
    <3>3. RowGoes(j) /\ \A i \in Jobs \ {j} : job'[i] = job[i]
      BY <3>2, MovedGoes DEF JobStates
    <3> QED
      BY <3>2, <3>3, StillGoes DEF Advances
  <2>6. CASE \/ Issue(r) \/ Note(r) \/ AdmitRefused(r) \/ Work(r) \/ Signed(r) \/ Unsigned(r)
             \/ Ack(r) \/ AckFail(r) \/ Recover(r) \/ RecoverFail(r) \/ DbFail(r)
             \/ \E now \in Times : Preflight(r, now) \/ Reject(r, now)
    <3>1. UNCHANGED <<job, approval, accepted>>
      BY <2>6 DEF Issue, Note, AdmitRefused, Work, Signed, Unsigned, Ack, AckFail, Recover,
                  RecoverFail, DbFail, Preflight, Reject
    <3> QED
      BY <1>1, <3>1
  <2> QED
    BY <1>4, <2>1, <2>2, <2>3, <2>4, <2>5, <2>6 DEF Step
<1>5. CASE UNCHANGED vars
  BY <1>1, <1>5 DEF vars
<1> QED
  BY <1>2, <1>3, <1>4, <1>5 DEF Next

\* What backs an event goes on backing it.
LEMMA BackedKept ==
  ASSUME Advances, NEW e \in EventType, Backed(e)
  PROVE  Backed(e)'
<1>1. e.job \in Jobs
  BY DEF EventType
<1>2. RowGoes(e.job) /\ (e.token \in Tokens => GrantGoes(e.token))
  BY <1>1 DEF Advances
<1>3. e.reason \in TerminalRefusals =>
        /\ e.action = "HANDOFF_REJECTED"
        /\ job'[e.job].state = "REFUSED" /\ e.at = job'[e.job].updated
  BY <1>2 DEF Backed, RowGoes
<1>4. e.action = "APPROVAL_GRANTED" =>
        /\ e.token \in Tokens /\ approval'[e.token].state # "NONE"
        /\ e.at = approval'[e.token].issued /\ e.job = approval'[e.token].job
  BY <1>2 DEF Backed, GrantGoes
<1>5. e.action = "HANDOFF_ADMITTED" =>
        /\ job'[e.job].state \in Admitted /\ e.at = job'[e.job].reserved
        /\ e.token # NoToken => /\ e.token \in Tokens /\ approval'[e.token].state = "CONSUMED"
                                /\ e.at = approval'[e.token].changed
                                /\ e.job = approval'[e.token].job
  <2>1. /\ e.action = "HANDOFF_ADMITTED" /\ e.token # NoToken =>
             e.token \in Tokens /\ approval'[e.token] = approval[e.token]
    BY <1>2 DEF Backed, GrantGoes
  <2> QED
    BY <1>2, <2>1 DEF Backed, RowGoes
<1>6. /\ e.action = "EXECUTION_DISPATCHED" =>
           job'[e.job].state \in Executing /\ e.at = job'[e.job].reserved
      /\ e.action = "RESULT_ACCEPTED" => accepted'[e.job] # 0 /\ e.at = accepted'[e.job]
      /\ e.action = "HANDOFF_ISSUED" /\ e.reason = "PENDING_APPROVAL" =>
           job'[e.job].state # "NONE"
  BY <1>2 DEF Backed, RowGoes, Executing, Admitted
<1> QED
  BY <1>3, <1>4, <1>5, <1>6 DEF Backed

\* A sound grant stays sound while it is left alone.
LEMMA GrantKept ==
  ASSUME Advances, NEW k \in Tokens, GrantSound(k), approval'[k] = approval[k]
  PROVE  GrantSound(k)'
BY DEF Advances, GrantSound, RowGoes

-----------------------------------------------------------------------------
(***************************************************************************)
(* A transaction that appends an event.                                    *)
(***************************************************************************)

\* The chain after an append.
LEMMA ChainGrows ==
  ASSUME TypeOK, NEW e \in EventType, chain' = Append(chain, e)
  PROVE  /\ Len(chain) \in Nat /\ Len(chain') = Len(chain) + 1 /\ chain'[Len(chain) + 1] = e
         /\ Len(chain) + 1 \in 1..Len(chain')
         /\ \A i \in 1..Len(chain) : /\ i \in 1..Len(chain') /\ chain'[i] = chain[i]
                                     /\ chain[i] \in EventType
         /\ \A i \in 1..Len(chain') : i \in 1..Len(chain) \/ i = Len(chain) + 1
<1>1. chain \in Seq(EventType) /\ Len(chain) \in Nat
  BY DEF TypeOK
<1>2. Len(chain') = Len(chain) + 1 /\ chain'[Len(chain) + 1] = e
  BY <1>1
<1>3. \A i \in 1..Len(chain) : chain'[i] = chain[i] /\ chain[i] \in EventType
  BY <1>1
<1> QED
  BY <1>1, <1>2, <1>3

\* What the chain tells it goes on telling.
LEMMA ToldOn ==
  ASSUME TypeOK, NEW e \in EventType, chain' = Append(chain, e)
  PROVE  /\ \A a, j : Recorded(a, j, Len(chain)) => Recorded(a, j, Len(chain))'
         /\ \A j : Refusal(j) => Refusal(j)'
         /\ \A a, k : Of(a, k) => Of(a, k)'
         /\ Recorded(e.action, e.job, Len(chain))' /\ Of(e.action, e.token)'
         /\ e.reason \in TerminalRefusals => Refusal(e.job)'
<1>1. ASSUME NEW a, NEW j, Recorded(a, j, Len(chain)) PROVE Recorded(a, j, Len(chain))'
  BY <1>1, ChainGrows DEF Recorded
<1>2. ASSUME NEW j, Refusal(j) PROVE Refusal(j)'
  BY <1>2, ChainGrows DEF Refusal
<1>3. ASSUME NEW a, NEW k, Of(a, k) PROVE Of(a, k)'
  BY <1>3, ChainGrows DEF Of
<1>4. Recorded(e.action, e.job, Len(chain))' /\ Of(e.action, e.token)'
  BY ChainGrows DEF Recorded, Of
<1>5. e.reason \in TerminalRefusals => Refusal(e.job)'
  BY ChainGrows DEF Refusal
<1> QED
  BY <1>1, <1>2, <1>3, <1>4, <1>5

LEMMA BackedOn ==
  ASSUME TypeOK, ChainBacked, Advances, NEW e \in EventType, chain' = Append(chain, e),
         Backed(e)'
  PROVE  ChainBacked'
<1>1. ASSUME NEW i \in 1..Len(chain'), NEW f, f = chain'[i] PROVE Backed(f)'
  <2>1. CASE i \in 1..Len(chain)
    BY <1>1, <2>1, ChainGrows, BackedKept DEF ChainBacked
  <2>2. CASE i = Len(chain) + 1
    BY <1>1, <2>2, ChainGrows
  <2> QED
    BY <1>1, <2>1, <2>2, ChainGrows
<1> QED
  BY <1>1 DEF ChainBacked, Backed

LEMMA NoneTwiceOn ==
  ASSUME TypeOK, NoneTwice, NEW e \in EventType, chain' = Append(chain, e),
         \A i \in 1..Len(chain) : ~Same(chain[i], e)
  PROVE  NoneTwice'
<1>1. \A f, g : Same(f, g) => Same(g, f)
  BY DEF Same
<1>2. ASSUME NEW i \in 1..Len(chain'), NEW n \in 1..Len(chain'), Same(chain'[i], chain'[n])
      PROVE  i = n
  <2>1. CASE i \in 1..Len(chain) /\ n \in 1..Len(chain)
    BY <1>2, <2>1, ChainGrows DEF NoneTwice
  <2>2. CASE i \in 1..Len(chain) /\ n = Len(chain) + 1
    BY <1>2, <2>2, ChainGrows
  <2>3. CASE i = Len(chain) + 1 /\ n \in 1..Len(chain)
    BY <1>1, <1>2, <2>3, ChainGrows
  <2> QED
    BY <1>2, <2>1, <2>2, <2>3, ChainGrows
<1> QED
  BY <1>2 DEF NoneTwice

\* ChainOrder, position by position.
Ordered(i) ==
  chain[i].action \in DOMAIN Precursor =>
    /\ \E m \in 1..(i - 1) :
         chain[m].job = chain[i].job /\ chain[m].action = Precursor[chain[i].action]
    /\ chain[i].action = "HANDOFF_ADMITTED" /\ chain[i].job \in Bound =>
         \E m \in 1..(i - 1) : /\ chain[m].job = chain[i].job
                               /\ chain[m].action = "APPROVAL_GRANTED"
                               /\ chain[m].token = chain[i].token
    /\ \A m \in 1..(i - 1) :
         chain[m].job = chain[i].job => chain[m].reason \notin TerminalRefusals

LEMMA OrderPointwise ==
  ASSUME TypeOK
  PROVE  ChainOrder <=> \A i \in 1..Len(chain) : Ordered(i)
<1>1. DOMAIN chain = 1..Len(chain)
  BY DEF TypeOK
<1> QED
  BY <1>1 DEF ChainOrder, Ordered

LEMMA OrderOn ==
  ASSUME TypeOK, TypeOK', ChainOrder, NEW e \in EventType, chain' = Append(chain, e),
         e.action \in DOMAIN Precursor =>
           /\ Recorded(Precursor[e.action], e.job, Len(chain))
           /\ e.action = "HANDOFF_ADMITTED" /\ e.job \in Bound =>
                \E m \in 1..Len(chain) : /\ chain[m].job = e.job
                                         /\ chain[m].action = "APPROVAL_GRANTED"
                                         /\ chain[m].token = e.token
           /\ ~Refusal(e.job)
  PROVE  ChainOrder'
<1>1. ASSUME NEW i \in 1..Len(chain') PROVE Ordered(i)'
  <2>1. CASE i \in 1..Len(chain)
    <3>1. /\ 1..(i - 1) \subseteq 1..Len(chain) /\ chain'[i] = chain[i]
          /\ \A m \in 1..(i - 1) : chain'[m] = chain[m]
      BY <2>1, ChainGrows
    <3>2. Ordered(i)
      BY <2>1, OrderPointwise
    <3> QED
      BY <3>1, <3>2 DEF Ordered
  <2>2. CASE i = Len(chain) + 1
    <3>1. /\ 1..(i - 1) = 1..Len(chain) /\ chain'[i] = e
          /\ \A m \in 1..(i - 1) : chain'[m] = chain[m]
      BY <2>2, ChainGrows
    <3> QED
      BY <3>1 DEF Ordered, Recorded, Refusal
  <2> QED
    BY <1>1, <2>1, <2>2, ChainGrows
<1>2. DOMAIN chain' = 1..Len(chain')
  BY DEF TypeOK
<1> QED
  BY ONLY <1>1, <1>2 DEF ChainOrder, Ordered

\* A transaction that writes the row of one job, or grants, and appends one event.
LEMMA TablesOn ==
  ASSUME TypeOK, TypeOK', TablesInv, Advances, NEW e \in EventType, chain' = Append(chain, e),
         NEW j \in Jobs, e.job = j, j \in used, used' = used,
         \A i \in Jobs \ {j} : /\ job'[i] = job[i] /\ accepted'[i] = accepted[i]
                               /\ i \in pending' <=> i \in pending,
         \A k \in Tokens : approval'[k] = approval[k] \/ (GrantTold(k)' /\ GrantSound(k)'),
         Backed(e)', \A i \in 1..Len(chain) : ~Same(chain[i], e),
         RowTold(j)', RowSound(j)', GrantsApart',
         e.action \in DOMAIN Precursor =>
           /\ Recorded(Precursor[e.action], e.job, Len(chain))
           /\ e.action = "HANDOFF_ADMITTED" /\ e.job \in Bound =>
                \E m \in 1..Len(chain) : /\ chain[m].job = e.job
                                         /\ chain[m].action = "APPROVAL_GRANTED"
                                         /\ chain[m].token = e.token
           /\ ~Refusal(e.job)
  PROVE  TablesInv'
<1>1. ChainBacked' /\ NoneTwice' /\ ChainOrder'
  BY BackedOn, NoneTwiceOn, OrderOn DEF TablesInv
<1>2. ASSUME NEW i \in Jobs, i # j PROVE RowTold(i)' /\ RowSound(i)'
  <2>1. job'[i] = job[i] /\ accepted'[i] = accepted[i] /\ (i \in pending' <=> i \in pending)
    BY <1>2
  <2>2. RowTold(i) /\ RowSound(i)
    BY DEF TablesInv, ChainTells, RowsSound
  <2>3. RowTold(i)'
    BY <2>1, <2>2, ToldOn DEF RowTold
  <2>4. RowSound(i)'
    BY <2>1, <2>2 DEF RowSound
  <2> QED
    BY <2>3, <2>4
<1>3. ASSUME NEW k \in Tokens PROVE GrantTold(k)' /\ GrantSound(k)'
  <2>1. CASE approval'[k] = approval[k]
    <3>1. GrantTold(k) /\ GrantSound(k)
      BY DEF TablesInv, ChainTells, GrantsSound
    <3> QED
      BY <2>1, <3>1, ToldOn, GrantKept DEF GrantTold
  <2> QED
    BY <2>1
<1>4. UsedOnly'
  BY ChainGrows DEF TablesInv, UsedOnly
<1>5. ChainTells' /\ RowsSound' /\ GrantsSound'
  BY <1>2, <1>3 DEF ChainTells, RowsSound, GrantsSound
<1> QED
  BY <1>1, <1>4, <1>5 DEF TablesInv

\* The stages of ChainOrder.
LEMMA Precursors ==
  /\ DOMAIN Precursor = {"APPROVAL_GRANTED", "HANDOFF_ADMITTED", "EXECUTION_DISPATCHED",
                         "RESULT_ACCEPTED"}
  /\ Precursor["APPROVAL_GRANTED"] = "HANDOFF_ISSUED"
  /\ Precursor["HANDOFF_ADMITTED"] = "HANDOFF_ISSUED"
  /\ Precursor["EXECUTION_DISPATCHED"] = "HANDOFF_ADMITTED"
  /\ Precursor["RESULT_ACCEPTED"] = "EXECUTION_DISPATCHED"
BY DEF Precursor

\* An event the tables do not know yet is not on the chain.
LEMMA UnlikeOld ==
  ASSUME ChainBacked, NEW e \in EventType,
         e.action = "HANDOFF_ISSUED" => \A i \in 1..Len(chain) : chain[i].job # e.job,
         e.action = "HANDOFF_ADMITTED" => job[e.job].state \notin Admitted,
         e.action = "EXECUTION_DISPATCHED" => job[e.job].state \notin Executing,
         e.action = "RESULT_ACCEPTED" => accepted[e.job] = 0,
         e.action = "APPROVAL_GRANTED" => approval[e.token].state = "NONE",
         e.reason \in TerminalRefusals => job[e.job].state # "REFUSED"
  PROVE  \A i \in 1..Len(chain) : ~Same(chain[i], e)
<1>1. ASSUME NEW i \in 1..Len(chain), NEW f, f = chain[i], Same(f, e) PROVE FALSE
  <2>1. Backed(f)
    BY <1>1 DEF ChainBacked
  <2>2. CASE f.job = e.job /\ f.action = e.action /\ f.action \in OncePerJob
    BY <1>1, <2>1, <2>2 DEF Backed, OncePerJob
  <2>3. CASE f.job = e.job /\ f.reason \in TerminalRefusals /\ e.reason \in TerminalRefusals
    BY <2>1, <2>3 DEF Backed
  <2>4. CASE f.token = e.token /\ f.action = "APPROVAL_GRANTED" /\ e.action = "APPROVAL_GRANTED"
    BY <2>1, <2>4 DEF Backed
  <2> QED
    BY <1>1, <2>2, <2>3, <2>4 DEF Same
<1> QED
  BY <1>1

\* A job that is not refused has no terminal refusal on the chain.
LEMMA NotRefused ==
  ASSUME ChainBacked, NEW j, job[j].state # "REFUSED"
  PROVE  ~Refusal(j)
BY DEF ChainBacked, Refusal, Backed

\* The words of the events.
LEMMA Words ==
  /\ "HANDOFF_ISSUED" \in Actions /\ "APPROVAL_GRANTED" \in Actions
  /\ "HANDOFF_ADMITTED" \in Actions /\ "EXECUTION_DISPATCHED" \in Actions
  /\ "RESULT_ACCEPTED" \in Actions /\ "HANDOFF_REJECTED" \in Actions
  /\ "RESULT_REJECTED" \in Actions
  /\ "SATISFIED" \in Reasons /\ "PENDING_APPROVAL" \in Reasons
  /\ "OPERATOR_APPROVED" \in Reasons /\ "RESULT_VERIFIED" \in Reasons
  /\ NoToken \in Tokens \cup {NoToken}
BY DEF Actions, Reasons

\* The event a step appends.
LEMMA Appended ==
  ASSUME TypeOK, NEW r \in Requests, NEW a \in Actions, NEW j \in Jobs, NEW at \in Nat,
         NEW w \in Reasons, NEW k \in Tokens \cup {NoToken}, Commit(r, Event(a, j, at, w, k))
  PROVE  \E e \in EventType : /\ chain' = Append(chain, e) /\ e.action = a /\ e.job = j
                              /\ e.at = at /\ e.reason = w /\ e.token = k
<1>1. Event(a, j, at, w, k) \in EventType
  BY EventTyped
<1> QED
  BY <1>1 DEF Commit, Event

\* A clock reading is a number.
LEMMA Readings == \A x \in Times \cup {0} : x \in Nat /\ (x \in Times => 1 <= x)
BY TimeAssumption

\* What a step finds in the row of its job.
LEMMA RowTypes ==
  ASSUME TypeOK, NEW j \in Jobs
  PROVE  /\ job[j] \in RowType /\ job[j].state \in JobStates /\ job[j].created \in Nat
         /\ job[j].reserved \in Nat /\ job[j].updated \in Nat /\ job[j].expires \in Nat
         /\ accepted[j] \in Nat
<1>1. job[j] \in RowType
  BY DEF TypeOK
<1>2. accepted[j] \in Times \cup {0}
  BY DEF TypeOK
<1>3. accepted[j] \in Nat
  BY <1>2, Readings
<1> QED
  BY <1>1, <1>3 DEF RowType

\* Steps that record an event and leave the tables alone.
LEMMA NotedTables ==
  ASSUME TypeOK, TypeOK', TablesInv, Advances, NEW e \in EventType, chain' = Append(chain, e),
         UNCHANGED <<job, pending, approval, accepted, used>>, e.job \in used, e.job \in Jobs,
         \/ /\ e.action = "HANDOFF_ISSUED" /\ e.reason = "SATISFIED"
            /\ \A i \in 1..Len(chain) : chain[i].job # e.job
         \/ e.action \in {"HANDOFF_REJECTED", "RESULT_REJECTED"} /\ e.reason \in NotedRefusals
  PROVE  TablesInv'
<1>1. e.reason \notin TerminalRefusals /\ e.reason # "PENDING_APPROVAL"
  BY DEF TerminalRefusals, NotedRefusals
<1>2. Backed(e)'
  BY <1>1 DEF Backed
<1>3. \A i \in 1..Len(chain) : ~Same(chain[i], e)
  BY <1>1, UnlikeOld DEF TablesInv
<1>4. RowTold(e.job)'
  <2>1. RowTold(e.job)
    BY DEF TablesInv, ChainTells
  <2> QED
    BY <2>1, ToldOn DEF RowTold
<1>5. RowSound(e.job)'
  BY DEF TablesInv, RowsSound, RowSound
<1>6. GrantsApart'
  BY DEF TablesInv, GrantsApart
<1>7. e.action \notin DOMAIN Precursor
  BY Precursors
<1> QED
  BY <1>2, <1>3, <1>4, <1>5, <1>6, <1>7, TablesOn

LEMMA IssueTables ==
  ASSUME TypeOK, TypeOK', HistoryInv, Advances, NEW r \in Requests, Issue(r)
  PROVE  TablesInv'
<1>1. PICK j \in Jobs : j = req[r].job
  BY BusyType DEF Issue
<1>2. Knows(r) /\ req[r].pc = "issue" /\ req[r].issued \in Nat /\ TablesInv
  BY BusyType DEF HistoryInv, ThreadsKnow, Issue
<1>3. PICK e \in EventType : /\ chain' = Append(chain, e) /\ e.action = "HANDOFF_ISSUED"
                             /\ e.job = j /\ e.reason = "SATISFIED"
  <2>1. Commit(r, Event("HANDOFF_ISSUED", j, req[r].issued, "SATISFIED", NoToken))
    BY <1>1 DEF Issue, Record
  <2> QED
    BY <1>2, <2>1, Appended, Words
<1>4. UNCHANGED <<job, pending, approval, accepted, used>>
  BY DEF Issue
<1>5. j \in used /\ \A i \in 1..Len(chain) : chain[i].job # j
  BY <1>1, <1>2 DEF Knows
<1> QED
  BY <1>2, <1>3, <1>4, <1>5, NotedTables

LEMMA NoteTables ==
  ASSUME TypeOK, TypeOK', HistoryInv, Advances, NEW r \in Requests, Note(r)
  PROVE  TablesInv'
<1>1. PICK j \in Jobs : j = req[r].job
  BY BusyType DEF Note
<1>2. /\ Knows(r) /\ req[r].pc = "note" /\ req[r].at \in Nat /\ req[r].why \in Reasons
      /\ TablesInv
  BY BusyType DEF HistoryInv, ThreadsKnow, Note
<1>3. req[r].why \in NotedRefusals /\ j \in used
  BY <1>1, <1>2 DEF Knows
<1>4. PICK e \in EventType : /\ chain' = Append(chain, e) /\ e.job = j /\ e.reason = req[r].why
                             /\ e.action \in {"HANDOFF_REJECTED", "RESULT_REJECTED"}
  <2>1. PICK a \in {"HANDOFF_REJECTED", "RESULT_REJECTED"} :
               Commit(r, Event(a, j, req[r].at, req[r].why, NoToken))
    BY <1>1 DEF Note, Record
  <2> QED
    BY <1>2, <2>1, Appended, Words
<1>5. UNCHANGED <<job, pending, approval, accepted, used>>
  BY DEF Note
<1> QED
  BY <1>2, <1>3, <1>4, <1>5, NotedTables

\* PostgresPendingJobs.add.
LEMMA AddTables ==
  ASSUME TypeOK, TypeOK', HistoryInv, Advances, NEW r \in Requests, AddPending(r)
  PROVE  TablesInv'
<1>1. PICK j \in Jobs : j = req[r].job
  BY BusyType DEF AddPending
<1>2. PICK issued \in Nat, now \in Nat : issued = req[r].issued /\ now = req[r].at
  BY BusyType DEF AddPending
<1>3. /\ Knows(r) /\ req[r].pc = "add" /\ TablesInv /\ RowSound(j)
      /\ job \in [Jobs -> RowType] /\ accepted \in [Jobs -> Times \cup {0}]
  BY DEF HistoryInv, ThreadsKnow, AddPending, TablesInv, RowsSound, TypeOK
<1>4. PICK e \in EventType : /\ chain' = Append(chain, e) /\ e.action = "HANDOFF_ISSUED"
                             /\ e.job = j /\ e.reason = "PENDING_APPROVAL"
  <2>1. Commit(r, Event("HANDOFF_ISSUED", j, issued, "PENDING_APPROVAL", NoToken))
    BY <1>1, <1>2 DEF AddPending, Record
  <2> QED
    BY <2>1, Appended, Words
<1>5. /\ job' = [job EXCEPT ![j] = [state |-> "PENDING_APPROVAL", created |-> issued,
                   reserved |-> 0, updated |-> now, expires |-> issued + HandoffTTL]]
      /\ pending' = pending \cup {j} /\ UNCHANGED <<approval, accepted, used>>
      /\ issued <= now /\ now < issued + HandoffTTL
  BY <1>1, <1>2 DEF AddPending, Valid
<1>6. /\ job'[j].state = "PENDING_APPROVAL" /\ job'[j].created = issued /\ job'[j].reserved = 0
      /\ job'[j].updated = now /\ job'[j].expires = issued + HandoffTTL
      /\ \A i \in Jobs \ {j} : job'[i] = job[i]
  BY <1>3, <1>5
<1>7. /\ job[j].state = "NONE" /\ j \in used /\ 1 <= issued /\ j \in Bound
      /\ \A i \in 1..Len(chain) : chain[i].job # j
  BY <1>1, <1>2, <1>3 DEF Knows
<1>8. accepted[j] = 0 /\ accepted'[j] = 0
  BY <1>3, <1>5, <1>7 DEF RowSound
<1>9. e.reason \notin TerminalRefusals /\ e.action \notin DOMAIN Precursor
  BY <1>4, Precursors DEF TerminalRefusals
<1>10. Backed(e)'
  BY <1>4, <1>6, <1>9 DEF Backed
<1>11. \A i \in 1..Len(chain) : ~Same(chain[i], e)
  BY <1>3, <1>4, <1>7, <1>9, UnlikeOld DEF TablesInv
<1>12. RowTold(j)'
  <2>1. Recorded("HANDOFF_ISSUED", j, Len(chain))'
    BY <1>4, ToldOn
  <2> QED
    BY <1>6, <1>8, <2>1 DEF RowTold, Admitted, Executing
<1>13. RowSound(j)'
  BY <1>5, <1>6, <1>7, <1>8, TimeAssumption DEF RowSound
<1>14. GrantsApart'
  BY <1>3, <1>5 DEF TablesInv, GrantsApart
<1> QED
  BY <1>3, <1>4, <1>5, <1>6, <1>7, <1>9, <1>10, <1>11, <1>12, <1>13, <1>14, TablesOn

\* Gateway.admit and PostgresJobLedger.reserve of a job that needs no approval.
LEMMA AdmitPlainTables ==
  ASSUME TypeOK, TypeOK', HistoryInv, Advances, NEW r \in Requests, AdmitPlain(r)
  PROVE  TablesInv'
<1>1. PICK j \in Jobs : j = req[r].job
  BY BusyType DEF AdmitPlain
<1>2. PICK issued \in Nat, now \in Nat :
        issued = req[r].issued /\ now = req[r].at /\ now \in Times
  BY BusyType DEF AdmitPlain
<1>3. /\ Knows(r) /\ req[r].pc = "admit" /\ TablesInv /\ RowSound(j)
      /\ job \in [Jobs -> RowType] /\ accepted \in [Jobs -> Times \cup {0}]
  BY DEF HistoryInv, ThreadsKnow, AdmitPlain, TablesInv, RowsSound, TypeOK
<1>4. PICK e \in EventType : /\ chain' = Append(chain, e) /\ e.action = "HANDOFF_ADMITTED"
                             /\ e.job = j /\ e.at = now /\ e.reason = "SATISFIED"
                             /\ e.token = NoToken
  <2>1. Commit(r, Event("HANDOFF_ADMITTED", j, now, "SATISFIED", NoToken))
    BY <1>1, <1>2 DEF AdmitPlain, Record
  <2> QED
    BY <2>1, Appended, Words
<1>5. /\ job' = [job EXCEPT ![j] = [state |-> "RESERVED", created |-> now,
                   reserved |-> now, updated |-> now, expires |-> issued + HandoffTTL]]
      /\ UNCHANGED <<pending, approval, accepted, used>> /\ job[j].state = "NONE"
      /\ issued <= now /\ now < issued + HandoffTTL /\ j \notin Bound
  BY <1>1, <1>2 DEF AdmitPlain, Valid
<1>6. /\ job'[j].state = "RESERVED" /\ job'[j].created = now /\ job'[j].reserved = now
      /\ job'[j].updated = now /\ job'[j].expires = issued + HandoffTTL
      /\ \A i \in Jobs \ {j} : job'[i] = job[i]
  BY <1>3, <1>5
<1>7. j \in used /\ Witnessed("HANDOFF_ISSUED", j)
  BY <1>1, <1>3, <1>5 DEF Knows
<1>8. accepted'[j] = 0 /\ j \notin pending'
  BY <1>3, <1>5 DEF RowSound
<1>9. e.reason \notin TerminalRefusals
  BY <1>4 DEF TerminalRefusals
<1>10. Backed(e)'
  BY <1>4, <1>6, <1>9 DEF Backed, Admitted
<1>11. \A i \in 1..Len(chain) : ~Same(chain[i], e)
  BY <1>3, <1>4, <1>5, <1>9, UnlikeOld DEF TablesInv, Admitted
<1>12. Recorded("HANDOFF_ISSUED", j, Len(chain)) /\ ~Refusal(j)
  BY <1>3, <1>5, <1>7, NotRefused DEF Witnessed, Recorded, TablesInv
<1>13. RowTold(j)'
  <2>1. /\ Recorded("HANDOFF_ISSUED", j, Len(chain))'
        /\ Recorded("HANDOFF_ADMITTED", j, Len(chain))'
    BY <1>4, <1>12, ToldOn
  <2> QED
    BY <1>6, <1>8, <2>1 DEF RowTold, Admitted, Executing
<1>14. RowSound(j)'
  BY <1>2, <1>5, <1>6, <1>7, <1>8, Readings DEF RowSound
<1>15. GrantsApart'
  BY <1>3, <1>5 DEF TablesInv, GrantsApart
<1> QED
  BY <1>3, <1>4, <1>5, <1>6, <1>7, <1>10, <1>11, <1>12, <1>13, <1>14, <1>15, TablesOn,
     Precursors

\* PostgresApprovalStore.grant.
LEMMA GrantTables ==
  ASSUME TypeOK, TypeOK', HistoryInv, Advances, NEW r \in Requests, NEW k \in Tokens, Grant(r, k)
  PROVE  TablesInv'
<1>1. PICK j \in Jobs : j = req[r].job
  BY BusyType DEF Grant
<1>2. PICK now \in Nat : now = req[r].at
  BY BusyType DEF Grant
<1>3. /\ Knows(r) /\ req[r].pc = "grant" /\ TablesInv /\ RowSound(j) /\ RowTold(j)
      /\ approval \in [Tokens -> GrantType]
  BY DEF HistoryInv, ThreadsKnow, Grant, TablesInv, RowsSound, ChainTells, TypeOK
<1>4. PICK e \in EventType : /\ chain' = Append(chain, e) /\ e.action = "APPROVAL_GRANTED"
                             /\ e.job = j /\ e.at = now /\ e.reason = "OPERATOR_APPROVED"
                             /\ e.token = k
  <2>1. Commit(r, Event("APPROVAL_GRANTED", j, now, "OPERATOR_APPROVED", k))
    BY <1>1, <1>2 DEF Grant
  <2> QED
    BY <2>1, Appended, Words
<1>5. /\ UNCHANGED <<job, pending, accepted, used>> /\ job[j].state = "PENDING_APPROVAL"
      /\ approval[k].state = "NONE" /\ ~LiveGrant(j, now)
  BY <1>1, <1>2 DEF Grant, Waiting
<1>6. j \in used /\ now < job[j].expires /\ job[j].expires \in Nat
  BY <1>1, <1>2, <1>3, RowTypes DEF Knows
<1>7. PICK ends \in Nat :
        /\ now < ends /\ ends <= job[j].expires
        /\ approval' = [approval EXCEPT ![k] = [state |-> "GRANTED", job |-> j, issued |-> now,
                                                expires |-> ends, changed |-> now]]
  <2>1. PICK ends : /\ ends = IF now + ApprovalTTL < job[j].expires THEN now + ApprovalTTL
                                                                    ELSE job[j].expires
                    /\ approval' = [approval EXCEPT ![k] =
                         [state |-> "GRANTED", job |-> j, issued |-> now,
                          expires |-> ends, changed |-> now]]
    BY <1>1, <1>2 DEF Grant
  <2>2. ends \in Nat /\ now < ends /\ ends <= job[j].expires
    BY <1>6, <2>1, TimeAssumption
  <2> QED
    BY <2>1, <2>2
<1>8. /\ approval'[k].state = "GRANTED" /\ approval'[k].job = j /\ approval'[k].issued = now
      /\ approval'[k].expires = ends /\ approval'[k].changed = now
      /\ \A o \in Tokens \ {k} : approval'[o] = approval[o]
  BY <1>3, <1>7
<1>9. e.reason \notin TerminalRefusals
  BY <1>4 DEF TerminalRefusals
<1>10. Backed(e)'
  BY <1>4, <1>8, <1>9 DEF Backed
<1>11. \A i \in 1..Len(chain) : ~Same(chain[i], e)
  BY <1>3, <1>4, <1>5, <1>9, UnlikeOld DEF TablesInv
<1>12. Recorded("HANDOFF_ISSUED", j, Len(chain)) /\ ~Refusal(j)
  BY <1>3, <1>5, NotRefused DEF RowTold, TablesInv
<1>13. RowTold(j)' /\ RowSound(j)'
  <2>1. RowTold(j)'
    BY <1>3, <1>4, <1>5, ToldOn DEF RowTold
  <2>2. RowSound(j)'
    BY <1>3, <1>5 DEF RowSound
  <2> QED
    BY <2>1, <2>2
<1>14. GrantTold(k)'
  <2>1. Of("APPROVAL_GRANTED", k)'
    BY <1>4, ToldOn
  <2> QED
    BY <1>8, <2>1 DEF GrantTold
<1>15. GrantSound(k)'
  BY <1>5, <1>7, <1>8 DEF GrantSound
<1>16. GrantsApart'
  <2>1. ASSUME NEW o \in Tokens \ {k}, approval[o].job = j, approval[o].state = "GRANTED"
        PROVE  approval[o].expires <= now
    <3>1. approval[o].expires \in Nat
      BY <1>3 DEF GrantType
    <3> QED
      BY <1>5, <2>1, <3>1 DEF LiveGrant
  <2> QED
    BY <1>3, <1>8, <2>1 DEF TablesInv, GrantsApart
<1>17. \A o \in Tokens : approval'[o] = approval[o] \/ (GrantTold(o)' /\ GrantSound(o)')
  <2>1. ASSUME NEW o \in Tokens
        PROVE  approval'[o] = approval[o] \/ (GrantTold(o)' /\ GrantSound(o)')
    BY <1>8, <1>14, <1>15
  <2> QED
    BY <2>1
<1> QED
  BY <1>3, <1>4, <1>5, <1>6, <1>10, <1>11, <1>12, <1>13, <1>16, <1>17, TablesOn, Precursors

\* Gateway.admit: the token is spent and the job reserved.
LEMMA AdmitBoundTables ==
  ASSUME TypeOK, TypeOK', HistoryInv, Advances, NEW r \in Requests, AdmitBound(r)
  PROVE  TablesInv'
<1>1. PICK j \in Jobs, k \in Tokens : j = req[r].job /\ k = req[r].token
  BY BusyType DEF AdmitBound, Consumable
<1>2. PICK now \in Nat : now = req[r].at /\ now \in Times
  BY BusyType DEF AdmitBound
<1>3. /\ Knows(r) /\ req[r].pc = "admit" /\ TablesInv /\ RowSound(j) /\ RowTold(j)
      /\ GrantTold(k) /\ GrantSound(k) /\ approval \in [Tokens -> GrantType]
      /\ job \in [Jobs -> RowType]
  BY DEF HistoryInv, ThreadsKnow, AdmitBound, TablesInv, RowsSound, GrantsSound, ChainTells, TypeOK
<1>4. PICK e \in EventType : /\ chain' = Append(chain, e) /\ e.action = "HANDOFF_ADMITTED"
                             /\ e.job = j /\ e.at = now /\ e.reason = "SATISFIED"
                             /\ e.token = k
  <2>1. Commit(r, Event("HANDOFF_ADMITTED", j, now, "SATISFIED", k))
    BY <1>1, <1>2 DEF AdmitBound, Record
  <2> QED
    BY <2>1, Appended, Words
<1>5. /\ UNCHANGED <<accepted, used>> /\ pending' = pending \ {j}
      /\ job[j].state = "PENDING_APPROVAL" /\ j \in Bound /\ req[r].issued <= now
      /\ approval[k].state = "GRANTED" /\ approval[k].job = j
      /\ approval[k].issued <= now /\ now < approval[k].expires
  BY <1>1, <1>2 DEF AdmitBound, Consumable, Waiting, Valid
<1>6. j \in used /\ job[j].created <= now
  BY <1>1, <1>3, <1>5 DEF Knows
<1>7. /\ job'[j].state = "RESERVED" /\ job'[j].created = job[j].created
      /\ job'[j].reserved = now /\ job'[j].updated = now /\ job'[j].expires = job[j].expires
      /\ \A i \in Jobs \ {j} : job'[i] = job[i]
  <2>1. job' = [job EXCEPT ![j] = [@ EXCEPT !.state = "RESERVED", !.reserved = now,
                                            !.updated = now]]
    BY <1>1, <1>2 DEF AdmitBound
  <2> QED
    BY <1>3, <2>1 DEF RowType
<1>8. /\ approval'[k].state = "CONSUMED" /\ approval'[k].job = j
      /\ approval'[k].issued = approval[k].issued /\ approval'[k].expires = approval[k].expires
      /\ approval'[k].changed = now
      /\ \A o \in Tokens \ {k} : approval'[o] = approval[o]
  <2>1. approval' = [approval EXCEPT ![k] = [@ EXCEPT !.state = "CONSUMED", !.changed = now]]
    BY <1>1, <1>2 DEF AdmitBound
  <2> QED
    BY <1>3, <1>5, <2>1 DEF GrantType
<1>9. e.reason \notin TerminalRefusals
  BY <1>4 DEF TerminalRefusals
<1>10. Backed(e)'
  BY <1>4, <1>7, <1>8, <1>9 DEF Backed, Admitted
<1>11. \A i \in 1..Len(chain) : ~Same(chain[i], e)
  BY <1>3, <1>4, <1>5, <1>9, UnlikeOld DEF TablesInv, Admitted
<1>12. Recorded("HANDOFF_ISSUED", j, Len(chain)) /\ ~Refusal(j)
  BY <1>3, <1>5, NotRefused DEF RowTold, TablesInv
<1>13. \E m \in 1..Len(chain) : /\ chain[m].job = j /\ chain[m].action = "APPROVAL_GRANTED"
                                /\ chain[m].token = k
  <2>1. PICK m \in 1..Len(chain) : chain[m].action = "APPROVAL_GRANTED" /\ chain[m].token = k
    BY <1>3, <1>5 DEF GrantTold, Of
  <2>2. Backed(chain[m])
    BY <1>3 DEF TablesInv, ChainBacked
  <2> QED
    BY <1>5, <2>1, <2>2 DEF Backed
<1>14. accepted'[j] = 0 /\ j \notin pending'
  BY <1>3, <1>5 DEF RowSound
<1>15. RowTold(j)'
  <2>1. /\ Recorded("HANDOFF_ISSUED", j, Len(chain))'
        /\ Recorded("HANDOFF_ADMITTED", j, Len(chain))'
    BY <1>4, <1>12, ToldOn
  <2> QED
    BY <1>7, <1>14, <2>1 DEF RowTold, Admitted, Executing
<1>16. RowSound(j)'
  BY <1>3, <1>5, <1>6, <1>7, <1>14, RowTypes DEF RowSound
<1>17. GrantTold(k)' /\ GrantSound(k)'
  <2>1. Of("APPROVAL_GRANTED", k)' /\ Of("HANDOFF_ADMITTED", k)'
    BY <1>3, <1>4, <1>5, ToldOn DEF GrantTold
  <2>2. GrantTold(k)'
    BY <1>8, <2>1 DEF GrantTold
  <2>3. GrantSound(k)'
    BY <1>3, <1>5, <1>7, <1>8 DEF GrantSound, Admitted
  <2> QED
    BY <2>2, <2>3
<1>18. GrantsApart'
  BY <1>3, <1>8 DEF TablesInv, GrantsApart
<1>19. \A o \in Tokens : approval'[o] = approval[o] \/ (GrantTold(o)' /\ GrantSound(o)')
  <2>1. ASSUME NEW o \in Tokens
        PROVE  approval'[o] = approval[o] \/ (GrantTold(o)' /\ GrantSound(o)')
    BY <1>8, <1>17
  <2> QED
    BY <2>1
<1>20. \A i \in Jobs \ {j} : /\ job'[i] = job[i] /\ accepted'[i] = accepted[i]
                             /\ i \in pending' <=> i \in pending
  BY <1>5, <1>7
<1> QED
  BY <1>3, <1>4, <1>5, <1>6, <1>10, <1>11, <1>12, <1>13, <1>15, <1>16, <1>18, <1>19, <1>20,
     TablesOn, Precursors

\* PostgresJobLedger.commit_execution.
LEMMA DispatchTables ==
  ASSUME TypeOK, TypeOK', HistoryInv, Advances, NEW r \in Requests, Dispatch(r)
  PROVE  TablesInv'
<1>1. PICK j \in Jobs : j = req[r].job
  BY BusyType DEF Dispatch
<1>2. PICK now \in Nat : now = req[r].at /\ now \in Times
  BY BusyType DEF Dispatch
<1>3. /\ Knows(r) /\ req[r].pc = "dispatch" /\ TablesInv /\ RowSound(j) /\ RowTold(j)
  BY DEF HistoryInv, ThreadsKnow, Dispatch, TablesInv, RowsSound, ChainTells
<1>4. PICK e \in EventType : /\ chain' = Append(chain, e) /\ e.action = "EXECUTION_DISPATCHED"
                             /\ e.job = j /\ e.at = now /\ e.reason = "SATISFIED"
                             /\ e.token = NoToken
  <2>1. Commit(r, Event("EXECUTION_DISPATCHED", j, now, "SATISFIED", NoToken))
    BY <1>1, <1>2 DEF Dispatch, Record
  <2> QED
    BY <2>1, Appended, Words
<1>5. /\ UNCHANGED <<pending, approval, accepted, used>> /\ job[j].state = "RESERVED"
      /\ Moved(j, "EXECUTION_COMMITTED", now)
  BY <1>1, <1>2 DEF Dispatch
<1>6. j \in used /\ job[j].reserved = now
  BY <1>1, <1>2, <1>3 DEF Knows
<1>7. /\ job'[j].state = "EXECUTION_COMMITTED" /\ job'[j].created = job[j].created
      /\ job'[j].reserved = now /\ job'[j].updated = now /\ job'[j].expires = job[j].expires
      /\ \A i \in Jobs \ {j} : job'[i] = job[i]
  BY <1>5, <1>6, MovedGoes DEF JobStates
<1>8. accepted'[j] = 0 /\ j \notin pending'
  BY <1>3, <1>5 DEF RowSound
<1>9. e.reason \notin TerminalRefusals
  BY <1>4 DEF TerminalRefusals
<1>10. Backed(e)'
  BY <1>4, <1>7, <1>9 DEF Backed, Executing
<1>11. \A i \in 1..Len(chain) : ~Same(chain[i], e)
  BY <1>3, <1>4, <1>5, <1>9, UnlikeOld DEF TablesInv, Executing
<1>12. /\ Recorded("HANDOFF_ISSUED", j, Len(chain)) /\ Recorded("HANDOFF_ADMITTED", j, Len(chain))
       /\ ~Refusal(j)
  BY <1>3, <1>5, NotRefused DEF RowTold, TablesInv, Admitted
<1>13. RowTold(j)'
  <2>1. /\ Recorded("HANDOFF_ISSUED", j, Len(chain))'
        /\ Recorded("HANDOFF_ADMITTED", j, Len(chain))'
        /\ Recorded("EXECUTION_DISPATCHED", j, Len(chain))'
    BY <1>4, <1>12, ToldOn
  <2> QED
    BY <1>7, <1>8, <2>1 DEF RowTold
<1>14. RowSound(j)'
  BY <1>2, <1>3, <1>5, <1>6, <1>7, <1>8, RowTypes, Readings DEF RowSound
<1>15. GrantsApart'
  BY <1>3, <1>5 DEF TablesInv, GrantsApart
<1> QED
  BY <1>3, <1>4, <1>5, <1>6, <1>7, <1>10, <1>11, <1>12, <1>13, <1>14, <1>15, TablesOn,
     Precursors

\* ResultVerifier.accept with the triggers of its insert.
LEMMA AcceptTables ==
  ASSUME TypeOK, TypeOK', HistoryInv, Advances, NEW r \in Requests, NEW now \in Times,
         Accept(r, now)
  PROVE  TablesInv'
<1>1. PICK j \in Jobs : j = req[r].job
  BY BusyType DEF Accept
<1>2. now \in Nat /\ 1 <= now /\ req[r].issued \in Nat /\ req[r].at \in Nat /\ 1 <= req[r].at
  BY BusyType, Readings DEF Accept
<1>3. /\ Knows(r) /\ req[r].pc = "accept" /\ TablesInv /\ RowSound(j) /\ RowTold(j)
      /\ accepted \in [Jobs -> Times \cup {0}]
  BY DEF HistoryInv, ThreadsKnow, Accept, TablesInv, RowsSound, ChainTells, TypeOK
<1>4. PICK e \in EventType : /\ chain' = Append(chain, e) /\ e.action = "RESULT_ACCEPTED"
                             /\ e.job = j /\ e.at = now /\ e.reason = "RESULT_VERIFIED"
                             /\ e.token = NoToken
  <2>1. Commit(r, Event("RESULT_ACCEPTED", j, now, "RESULT_VERIFIED", NoToken))
    BY <1>1 DEF Accept, Record
  <2>2. now \in Nat
    BY <1>2
  <2> QED
    BY <2>1, <2>2, Appended, Words
<1>5. /\ UNCHANGED <<pending, approval, used>> /\ job[j].state = "EXECUTION_COMMITTED"
      /\ Moved(j, "COMPLETED", now) /\ accepted[j] = 0
      /\ accepted' = [accepted EXCEPT ![j] = now]
      /\ now < req[r].issued + HandoffTTL /\ req[r].at <= now
  BY <1>1 DEF Accept, InTime, Valid
<1>6. j \in used /\ job[j].reserved = req[r].at /\ req[r].issued + HandoffTTL = job[j].expires
  BY <1>1, <1>3 DEF Knows
<1>7. /\ job'[j].state = "COMPLETED" /\ job'[j].created = job[j].created
      /\ job'[j].reserved = job[j].reserved /\ job'[j].updated = now
      /\ job'[j].expires = job[j].expires
      /\ \A i \in Jobs \ {j} : job'[i] = job[i]
  BY <1>5, MovedGoes DEF JobStates
<1>8. /\ accepted'[j] = now /\ now # 0 /\ j \notin pending'
      /\ \A i \in Jobs \ {j} : accepted'[i] = accepted[i]
  BY <1>2, <1>3, <1>5 DEF RowSound
<1>9. e.reason \notin TerminalRefusals
  BY <1>4 DEF TerminalRefusals
<1>10. Backed(e)'
  BY <1>4, <1>8, <1>9 DEF Backed
<1>11. \A i \in 1..Len(chain) : ~Same(chain[i], e)
  BY <1>3, <1>4, <1>5, <1>9, UnlikeOld DEF TablesInv
<1>12. /\ Recorded("HANDOFF_ISSUED", j, Len(chain)) /\ Recorded("HANDOFF_ADMITTED", j, Len(chain))
       /\ Recorded("EXECUTION_DISPATCHED", j, Len(chain)) /\ ~Refusal(j)
  BY <1>3, <1>5, NotRefused DEF RowTold, TablesInv, Admitted, Executing
<1>13. RowTold(j)'
  <2>1. /\ Recorded("HANDOFF_ISSUED", j, Len(chain))'
        /\ Recorded("HANDOFF_ADMITTED", j, Len(chain))'
        /\ Recorded("EXECUTION_DISPATCHED", j, Len(chain))'
        /\ Recorded("RESULT_ACCEPTED", j, Len(chain))'
    BY <1>4, <1>12, ToldOn
  <2> QED
    BY <1>7, <2>1 DEF RowTold
<1>14. RowSound(j)'
  <2>1. /\ job[j].created \in Nat /\ 1 <= job[j].created /\ job[j].created < job[j].expires
        /\ job[j].created <= job[j].reserved /\ job[j].expires \in Nat
        /\ j \in Bound => job[j].expires = job[j].created + HandoffTTL
    BY <1>2, <1>3, <1>5, <1>6, RowTypes DEF RowSound
  <2>2. job[j].created <= now /\ job[j].reserved <= now /\ now < job[j].expires
    BY <1>2, <1>5, <1>6, <2>1
  <2> QED
    BY <1>5, <1>6, <1>7, <1>8, <2>1, <2>2 DEF RowSound
<1>15. GrantsApart'
  BY <1>3, <1>5 DEF TablesInv, GrantsApart
<1> QED
  BY <1>3, <1>4, <1>5, <1>6, <1>7, <1>8, <1>10, <1>11, <1>12, <1>13, <1>14, <1>15, TablesOn,
     Precursors

\* PostgresPendingJobs.refuse.
LEMMA RefuseTables ==
  ASSUME TypeOK, TypeOK', HistoryInv, Advances, NEW r \in Requests, Refuse(r)
  PROVE  TablesInv'
<1>1. PICK j \in Jobs : j = req[r].job
  BY BusyType DEF Refuse
<1>2. PICK now \in Nat : now = req[r].at /\ now \in Times
  BY BusyType DEF Refuse
<1>3. /\ Knows(r) /\ req[r].pc = "refuse" /\ TablesInv /\ RowSound(j) /\ RowTold(j)
      /\ req[r].why \in Reasons
  BY BusyType DEF HistoryInv, ThreadsKnow, Refuse, TablesInv, RowsSound, ChainTells
<1>4. PICK e \in EventType : /\ chain' = Append(chain, e) /\ e.action = "HANDOFF_REJECTED"
                             /\ e.job = j /\ e.at = now /\ e.reason = req[r].why
                             /\ e.token = NoToken
  <2>1. Commit(r, Event("HANDOFF_REJECTED", j, now, req[r].why, NoToken))
    BY <1>1, <1>2 DEF Refuse, Record
  <2> QED
    BY <1>3, <2>1, Appended, Words
<1>5. /\ UNCHANGED <<approval, accepted, used>> /\ job[j].state = "PENDING_APPROVAL"
      /\ Moved(j, "REFUSED", now) /\ job[j].created <= now /\ pending' = pending \ {j}
  BY <1>1, <1>2 DEF Refuse, Waiting
<1>6. j \in used /\ e.reason \in TerminalRefusals
  BY <1>1, <1>3, <1>4 DEF Knows
<1>7. /\ job'[j].state = "REFUSED" /\ job'[j].created = job[j].created
      /\ job'[j].reserved = job[j].reserved /\ job'[j].updated = now
      /\ job'[j].expires = job[j].expires
      /\ \A i \in Jobs \ {j} : job'[i] = job[i]
  BY <1>5, MovedGoes DEF JobStates
<1>8. accepted'[j] = 0 /\ j \notin pending'
  BY <1>3, <1>5 DEF RowSound
<1>9. e.action \notin DOMAIN Precursor
  BY <1>4, Precursors
<1>10. Backed(e)'
  BY <1>4, <1>6, <1>7 DEF Backed
<1>11. \A i \in 1..Len(chain) : ~Same(chain[i], e)
  BY <1>3, <1>4, <1>5, UnlikeOld DEF TablesInv
<1>12. Recorded("HANDOFF_ISSUED", j, Len(chain))
  BY <1>3, <1>5 DEF RowTold
<1>13. RowTold(j)'
  <2>1. Recorded("HANDOFF_ISSUED", j, Len(chain))' /\ Refusal(j)'
    BY <1>4, <1>6, <1>12, ToldOn
  <2> QED
    BY <1>7, <1>8, <2>1 DEF RowTold, Admitted, Executing
<1>14. RowSound(j)'
  BY <1>3, <1>5, <1>6, <1>7, <1>8, RowTypes DEF RowSound
<1>15. GrantsApart'
  BY <1>3, <1>5 DEF TablesInv, GrantsApart
<1>16. \A i \in Jobs \ {j} : /\ job'[i] = job[i] /\ accepted'[i] = accepted[i]
                             /\ i \in pending' <=> i \in pending
  BY <1>5, <1>7
<1> QED
  BY <1>3, <1>4, <1>5, <1>6, <1>9, <1>10, <1>11, <1>13, <1>14, <1>15, <1>16, TablesOn

\* Steps that leave the database alone.
LEMMA SilentTables ==
  ASSUME TablesInv, UNCHANGED dbVars, used \subseteq used'
  PROVE  TablesInv'
<1> USE DEF dbVars
<1>1. ChainBacked' /\ NoneTwice'
  BY DEF TablesInv, ChainBacked, Backed, NoneTwice
<1>2. ChainTells'
  BY DEF TablesInv, ChainTells, RowTold, GrantTold, Recorded, Refusal, Of
<1>3. RowsSound'
  BY DEF TablesInv, RowsSound, RowSound
<1>4. GrantsSound' /\ GrantsApart'
  BY DEF TablesInv, GrantsSound, GrantSound, GrantsApart
<1>5. ChainOrder' /\ UsedOnly'
  BY DEF TablesInv, ChainOrder, UsedOnly
<1> QED
  BY <1>1, <1>2, <1>3, <1>4, <1>5 DEF TablesInv

-----------------------------------------------------------------------------
(***************************************************************************)
(* How the threads move.                                                   *)
(***************************************************************************)

\* What a thread holds after it went on, refused or ended.
LEMMA Fields ==
  ASSUME TypeOK, NEW r \in Requests, NEW pc
  PROVE  /\ Goto(r, pc) =>
              /\ req'[r].pc = pc /\ req'[r].job = req[r].job /\ req'[r].at = req[r].at
              /\ req'[r].issued = req[r].issued /\ req'[r].token = req[r].token
              /\ \A s \in Requests \ {r} : req'[s] = req[s]
         /\ \A why, at : Refused(r, pc, why, at) =>
              /\ req'[r].pc = pc /\ req'[r].job = req[r].job /\ req'[r].at = at
              /\ req'[r].issued = req[r].issued /\ req'[r].token = req[r].token
              /\ req'[r].why = why
              /\ \A s \in Requests \ {r} : req'[s] = req[s]
         /\ End(r) => req'[r].pc = "idle" /\ \A s \in Requests \ {r} : req'[s] = req[s]
<1>1. req \in [Requests -> RequestType] /\ req[r] \in RequestType
  BY DEF TypeOK
<1>2. ASSUME Goto(r, pc)
      PROVE  /\ req'[r].pc = pc /\ req'[r].job = req[r].job /\ req'[r].at = req[r].at
             /\ req'[r].issued = req[r].issued /\ req'[r].token = req[r].token
             /\ \A s \in Requests \ {r} : req'[s] = req[s]
  BY <1>1, <1>2 DEF Goto, RequestType
<1>3. ASSUME NEW why, NEW at, Refused(r, pc, why, at)
      PROVE  /\ req'[r].pc = pc /\ req'[r].job = req[r].job /\ req'[r].at = at
             /\ req'[r].issued = req[r].issued /\ req'[r].token = req[r].token
             /\ req'[r].why = why
             /\ \A s \in Requests \ {r} : req'[s] = req[s]
  BY <1>1, <1>3 DEF Refused, RequestType
<1>4. ASSUME End(r)
      PROVE  req'[r].pc = "idle" /\ \A s \in Requests \ {r} : req'[s] = req[s]
  BY <1>1, <1>4 DEF End, NoRequest
<1> QED
  BY <1>2, <1>3, <1>4

\* A step of a thread touches its own job, and no other thread.
OwnOnly(r) ==
  /\ req[r].pc # "idle"
  /\ \A s \in Requests \ {r} : req'[s] = req[s]
  /\ \A i \in Jobs \ {req[r].job} : job'[i] = job[i]
  /\ chain' = chain \/ \E e : chain' = Append(chain, e) /\ e.job = req[r].job
  /\ anchored' \in {anchored, Len(chain)}
  /\ used' = used /\ granted \subseteq granted'

LEMMA StepOwn ==
  ASSUME TypeOK, NEW r \in Requests, Step(r)
  PROVE  OwnOnly(r)
<1> USE DEF dbVars
<1>t. job \in [Jobs -> RowType] /\ req \in [Requests -> RequestType]
  BY DEF TypeOK
<1>1. CASE Issue(r) \/ Note(r)
  BY <1>1, Fields DEF Issue, Note, Record, Commit, Event, OwnOnly
<1>2. CASE AddPending(r) \/ AdmitPlain(r) \/ AdmitBound(r)
  <2>1. \A s \in Requests \ {r} : req'[s] = req[s]
    BY <1>2, Fields DEF AddPending, AdmitPlain, AdmitBound, Record
  <2>2. \A i \in Jobs \ {req[r].job} : job'[i] = job[i]
    BY <1>t, <1>2 DEF AddPending, AdmitPlain, AdmitBound
  <2> QED
    BY <1>2, <2>1, <2>2 DEF AddPending, AdmitPlain, AdmitBound, Record, Commit, Event, OwnOnly
<1>3. ASSUME NEW k \in Tokens, Grant(r, k) PROVE OwnOnly(r)
  BY <1>t, <1>3 DEF Grant, Commit, Event, OwnOnly
<1>4. ASSUME Dispatch(r) \/ Refuse(r) \/ \E now \in Times : Accept(r, now) PROVE OwnOnly(r)
  <2>1. \A s \in Requests \ {r} : req'[s] = req[s]
    BY <1>4, Fields DEF Dispatch, Refuse, Accept, Record
  <2>2. \A i \in Jobs \ {req[r].job} : job'[i] = job[i]
    BY <1>t, <1>4 DEF Dispatch, Refuse, Accept, Moved
  <2>3. /\ req[r].pc # "idle" /\ UNCHANGED <<anchored, used, granted>>
        /\ \E e : chain' = Append(chain, e) /\ e.job = req[r].job
    <3>1. CASE Dispatch(r)
      BY <3>1 DEF Dispatch, Record, Commit, Event
    <3>2. CASE Refuse(r)
      BY <3>2 DEF Refuse, Record, Commit, Event
    <3>3. ASSUME NEW now \in Times, Accept(r, now)
          PROVE  /\ req[r].pc # "idle" /\ UNCHANGED <<anchored, used, granted>>
                 /\ \E e : chain' = Append(chain, e) /\ e.job = req[r].job
      BY <3>3 DEF Accept, Record, Commit, Event
    <3> QED
      BY <1>4, <3>1, <3>2, <3>3
  <2> QED
    BY <2>1, <2>2, <2>3 DEF OwnOnly
<1>5. ASSUME AdmitRefused(r) \/ \E now \in Times : Preflight(r, now) \/ Reject(r, now)
      PROVE  OwnOnly(r)
  <2>1. \A s \in Requests \ {r} : req'[s] = req[s]
    BY <1>5, Fields DEF AdmitRefused, Preflight, Reject
  <2> QED
    BY <1>5, <2>1 DEF AdmitRefused, Preflight, Reject, OwnOnly
<1>6. CASE Work(r) \/ Signed(r) \/ Unsigned(r)
  BY <1>6, Fields DEF Work, Signed, Unsigned, OwnOnly
<1>7. CASE Ack(r)
  <2>1. \A s \in Requests \ {r} : req'[s] = req[s]
    BY <1>7, Fields DEF Ack
  <2> QED
    BY <1>7, <2>1 DEF Ack, AckPcs, AnchorAll, OwnOnly
<1>8. CASE AckFail(r) \/ RecoverFail(r) \/ DbFail(r)
  <2>1. \A s \in Requests \ {r} : req'[s] = req[s]
    BY <1>8, Fields DEF AckFail, Abandon, RecoverFail, DbFail
  <2> QED
    BY <1>8, <2>1 DEF AckFail, RecoverFail, DbFail, AckPcs, RecorderPcs, OwnOnly
<1>9. CASE Recover(r)
  BY <1>9 DEF Recover, RecorderPcs, AnchorAll, OwnOnly
<1> QED
  BY <1>1, <1>2, <1>3, <1>4, <1>5, <1>6, <1>7, <1>8, <1>9 DEF Step

\* An event that was appended is an event.
LEMMA OwnGrows ==
  ASSUME TypeOK, TypeOK', NEW r \in Requests, OwnOnly(r)
  PROVE  Growth
<1>1. chain \in Seq(EventType) /\ chain' \in Seq(EventType)
  BY DEF TypeOK
<1>2. ASSUME NEW e, chain' = Append(chain, e) PROVE e \in EventType
  <2>1. Len(chain') = Len(chain) + 1 /\ chain'[Len(chain) + 1] = e /\ Len(chain) \in Nat
    BY <1>1, <1>2
  <2> QED
    BY <1>1, <2>1
<1> QED
  BY <1>2 DEF Growth, OwnOnly

\* A thread that does not move still knows what it knew.
LEMMA StillKnows ==
  ASSUME IInv, Growth, Advances, NEW s \in Requests, Knows(s), req'[s] = req[s],
         used \subseteq used', granted \subseteq granted',
         req[s].pc \in {"issue", "add"} =>
           /\ job'[req[s].job].state = "NONE"
           /\ \A i \in 1..Len(chain') : chain'[i].job # req[s].job
  PROVE  Knows(s)'
<1>1. CASE req[s].pc = "idle"
  BY <1>1 DEF Knows
<1>2. ASSUME req[s].pc # "idle" PROVE Knows(s)'
  <2>1. PICK j \in Jobs : j = req[s].job
    BY <1>2, BusyType DEF IInv
  <2>2. RowGoes(j) /\ req'[s] = req[s] /\ j \in used'
    BY <1>2, <2>1 DEF Advances, Knows
  <2>3. \A a : /\ Witnessed(a, j) => Witnessed(a, j)'
               /\ Recorded(a, j, Len(chain)) => Recorded(a, j, Len(chain))'
    BY EvidenceKept DEF IInv
  <2>4. CASE req[s].pc \in {"issue", "add", "issueAck"}
    BY <2>1, <2>2, <2>3, <2>4 DEF Knows
  <2>5. CASE req[s].pc \in {"avail", "admit", "addAck"}
    BY <2>1, <2>2, <2>3, <2>5 DEF Knows, RowGoes
  <2>6. CASE req[s].pc = "grant"
    BY <2>1, <2>2, <2>6 DEF Knows, RowGoes
  <2>7. CASE req[s].pc = "grantAck"
    <3>1. GrantGoes(req[s].token)
      BY <2>7, BusyType DEF IInv, Advances
    <3> QED
      BY <2>1, <2>2, <2>7, <3>1 DEF Knows, GrantGoes
  <2>8. CASE req[s].pc \in {"admitAck", "dispatch", "dispatchAck", "work", "working", "accept"}
    <3>1. job[j].state \in Admitted
      BY <2>1, <2>8 DEF IInv, Stages, Stage, Admitted
    <3>2. job'[j].reserved = job[j].reserved /\ job'[j].expires = job[j].expires
      BY <2>2, <3>1 DEF RowGoes, Admitted
    <3> QED
      BY <2>1, <2>2, <2>3, <2>8, <3>2 DEF Knows
  <2>9. CASE req[s].pc \in {"acceptAck", "refuseAck", "noteAck", "note", "refuse"}
    BY <2>1, <2>2, <2>9 DEF Knows
  <2>10. req[s].pc \in PCs
    BY DEF IInv, TypeOK, RequestType
  <2> QED
    BY <1>2, <2>4, <2>5, <2>6, <2>7, <2>8, <2>9, <2>10 DEF PCs, RecorderPcs, AckPcs
<1> QED
  BY <1>1, <1>2

\* ... and neither does it learn from a step of another thread that it was wrong.
LEMMA OthersKnow ==
  ASSUME IInv, TypeOK', HistoryInv, Advances, NEW r \in Requests, OwnOnly(r),
         NEW s \in Requests \ {r}
  PROVE  Knows(s)'
<1>1. Growth /\ Knows(s) /\ req'[s] = req[s] /\ used \subseteq used' /\ granted \subseteq granted'
  BY OwnGrows DEF IInv, HistoryInv, ThreadsKnow, OwnOnly
<1>2. ASSUME req[s].pc \in {"issue", "add"}
      PROVE  /\ job'[req[s].job].state = "NONE"
             /\ \A i \in 1..Len(chain') : chain'[i].job # req[s].job
  <2>1. req[s].job # req[r].job /\ req[s].job \in Jobs
    BY <1>2, BusyType DEF HistoryInv, FreshAlone, OwnOnly, IInv
  <2>2. job[req[s].job].state = "NONE" /\ \A i \in 1..Len(chain) : chain[i].job # req[s].job
    BY <1>1, <1>2 DEF Knows
  <2>3. CASE chain' = chain
    BY <2>1, <2>2, <2>3 DEF OwnOnly
  <2>4. ASSUME NEW e \in EventType, chain' = Append(chain, e), e.job = req[r].job
        PROVE  \A i \in 1..Len(chain') : chain'[i].job # req[s].job
    BY <2>1, <2>2, <2>4, ChainGrows DEF IInv
  <2>5. ASSUME NEW e, chain' = Append(chain, e) PROVE e \in EventType
    <3>1. chain \in Seq(EventType) /\ chain' \in Seq(EventType)
      BY DEF IInv, TypeOK
    <3>2. Len(chain') = Len(chain) + 1 /\ chain'[Len(chain) + 1] = e /\ Len(chain) \in Nat
      BY <2>5, <3>1
    <3> QED
      BY <3>1, <3>2
  <2> QED
    BY <2>1, <2>2, <2>3, <2>4, <2>5 DEF OwnOnly
<1> QED
  BY <1>1, <1>2, StillKnows

\* The thread that records: it knows what it has just written.
LEMMA WriterKnows ==
  ASSUME IInv, HistoryInv, NEW r \in Requests,
         Issue(r) \/ AddPending(r) \/ Note(r) \/ Refuse(r) \/ \E now \in Times : Accept(r, now)
  PROVE  Knows(r)'
<1>1. PICK j \in Jobs : j = req[r].job
  BY BusyType DEF Issue, AddPending, Note, Refuse, Accept, IInv
<1>2. Knows(r) /\ TypeOK
  BY DEF HistoryInv, ThreadsKnow, IInv
<1>3. CASE Issue(r)
  <2>1. req'[r].pc = "issueAck" /\ req'[r].job = j
    BY <1>1, <1>2, <1>3, Fields DEF Issue, Record
  <2>2. j \in used' /\ j \notin Bound
    BY <1>1, <1>2, <1>3 DEF Issue, Knows
  <2>3. Recorded("HANDOFF_ISSUED", j, Len(chain))'
    <3>1. req[r].issued \in Nat
      BY <1>2, <1>3, BusyType DEF Issue
    <3>2. Commit(r, Event("HANDOFF_ISSUED", j, req[r].issued, "SATISFIED", NoToken))
      BY <1>1, <1>3 DEF Issue, Record
    <3>3. PICK e \in EventType : /\ chain' = Append(chain, e) /\ e.action = "HANDOFF_ISSUED"
                                 /\ e.job = j
      BY <1>2, <3>1, <3>2, Appended, Words
    <3> QED
      BY <1>2, <3>3, ToldOn
  <2> QED
    BY <2>1, <2>2, <2>3 DEF Knows
<1>4. CASE AddPending(r)
  <2>1. req'[r].pc = "addAck" /\ req'[r].job = j
    BY <1>1, <1>2, <1>4, Fields DEF AddPending, Record
  <2>2. j \in used' /\ job'[j].state # "NONE"
    BY <1>1, <1>2, <1>4 DEF AddPending, Knows, TypeOK
  <2> QED
    BY <2>1, <2>2 DEF Knows
<1>5. ASSUME Note(r) \/ Refuse(r) \/ \E now \in Times : Accept(r, now) PROVE Knows(r)'
  <2>1. req'[r].pc \in {"noteAck", "refuseAck", "acceptAck"} /\ req'[r].job = j
    BY <1>1, <1>2, <1>5, Fields DEF Note, Refuse, Accept, Record
  <2>2. j \in used'
    BY <1>1, <1>2, <1>5 DEF Note, Refuse, Accept, Knows
  <2> QED
    BY <2>1, <2>2 DEF Knows
<1> QED
  BY <1>3, <1>4, <1>5

LEMMA GranterKnows ==
  ASSUME IInv, HistoryInv, NEW r \in Requests, NEW k \in Tokens, Grant(r, k)
  PROVE  Knows(r)'
<1>1. Knows(r) /\ req \in [Requests -> RequestType] /\ approval \in [Tokens -> GrantType]
  BY DEF HistoryInv, ThreadsKnow, IInv, TypeOK
<1>2. req'[r].pc = "grantAck" /\ req'[r].job = req[r].job /\ req'[r].token = k
  BY <1>1 DEF Grant, RequestType
<1>3. approval'[k].state # "NONE" /\ req[r].job \in used'
  BY <1>1 DEF Grant, Knows
<1> QED
  BY <1>2, <1>3 DEF Knows

LEMMA AdmitterKnows ==
  ASSUME IInv, HistoryInv, NEW r \in Requests, AdmitPlain(r) \/ AdmitBound(r) \/ Dispatch(r)
  PROVE  Knows(r)'
<1>1. PICK j \in Jobs : j = req[r].job
  BY BusyType DEF AdmitPlain, AdmitBound, Dispatch, IInv
<1>2. /\ Knows(r) /\ TypeOK /\ RowSound(j) /\ job \in [Jobs -> RowType]
  BY DEF HistoryInv, ThreadsKnow, IInv, TablesInv, RowsSound, TypeOK
<1>3. /\ req'[r].pc \in {"admitAck", "dispatchAck"} /\ req'[r].job = j
      /\ req'[r].at = req[r].at /\ req'[r].issued = req[r].issued
  BY <1>1, <1>2, Fields DEF AdmitPlain, AdmitBound, Dispatch, Record
<1>4. j \in used'
  BY <1>1, <1>2 DEF AdmitPlain, AdmitBound, Dispatch, Knows
<1>5. job'[j].reserved = req[r].at /\ req[r].issued + HandoffTTL = job'[j].expires
  <2>1. CASE AdmitPlain(r)
    BY <1>1, <1>2, <2>1 DEF AdmitPlain
  <2>2. CASE AdmitBound(r)
    <3>1. job'[j].reserved = req[r].at /\ job'[j].expires = job[j].expires
      BY <1>1, <1>2, <2>2 DEF AdmitBound, RowType
    <3>2. j \in Bound /\ job[j].state # "NONE" /\ req[r].issued = job[j].created
      BY <1>1, <1>2, <2>2 DEF AdmitBound, Knows
    <3> QED
      BY <1>2, <3>1, <3>2 DEF RowSound
  <2>3. CASE Dispatch(r)
    <3>1. Moved(j, "EXECUTION_COMMITTED", req[r].at) /\ job[j].state = "RESERVED"
          /\ accepted' = accepted
      BY <1>1, <2>3 DEF Dispatch
    <3>2. job'[j].reserved = job[j].reserved /\ job'[j].expires = job[j].expires
      BY <1>2, <3>1, MovedGoes DEF JobStates
    <3>3. req[r].at = job[j].reserved /\ req[r].issued + HandoffTTL = job[j].expires
      BY <1>1, <1>2, <2>3 DEF Dispatch, Knows
    <3> QED
      BY <3>2, <3>3
  <2> QED
    BY <2>1, <2>2, <2>3
<1> QED
  BY <1>3, <1>4, <1>5 DEF Knows

\* A thread that only decides.
LEMMA DeciderKnows ==
  ASSUME IInv, HistoryInv, NEW r \in Requests,
         \/ AdmitRefused(r) \/ Work(r) \/ Signed(r) \/ Unsigned(r)
         \/ \E now \in Times : Preflight(r, now) \/ Reject(r, now)
  PROVE  Knows(r)'
<1> USE DEF dbVars
<1>1. PICK j \in Jobs : j = req[r].job
  BY BusyType DEF AdmitRefused, Work, Signed, Unsigned, Preflight, Reject, IInv
<1>2. Knows(r) /\ TypeOK
  BY DEF HistoryInv, ThreadsKnow, IInv
<1>3. /\ UNCHANGED <<job, approval, chain, anchored, used, granted>> /\ j \in used
      /\ req[r].pc \in {"admit", "work", "working", "avail", "accept"}
  BY <1>1, <1>2 DEF AdmitRefused, Work, Signed, Unsigned, Preflight, Reject, Knows
<1>4. ASSUME NEW why, NEW at,
             \/ Refused(r, "note", why, at) /\ why \in NotedRefusals
             \/ Refused(r, "refuse", why, at) /\ why \in TerminalRefusals
      PROVE  Knows(r)'
  <2>1. /\ req'[r].pc \in {"note", "refuse"} /\ req'[r].job = j
        /\ req'[r].pc = "note" => req'[r].why \in NotedRefusals
        /\ req'[r].pc = "refuse" => req'[r].why \in TerminalRefusals
    <3>1. ASSUME NEW pc, Refused(r, pc, why, at)
          PROVE  req'[r].pc = pc /\ req'[r].job = req[r].job /\ req'[r].why = why
      <4>1. req \in [Requests -> RequestType]
        BY <1>2 DEF TypeOK
      <4> QED
        BY <3>1, <4>1 DEF Refused, RequestType
    <3> QED
      BY <1>1, <1>4, <3>1
  <2> QED
    BY <1>3, <2>1 DEF Knows
<1>w. /\ "JOB_ID_REUSED" \in NotedRefusals /\ "EXECUTION_REFUSED" \in NotedRefusals
      /\ "RESULT_NOT_VALID" \in NotedRefusals /\ "APPROVAL_NOT_VALID" \in NotedRefusals
      /\ "HANDOFF_NOT_VALID" \in NotedRefusals
      /\ "PENDING_DISPATCH_REFUSED" \in TerminalRefusals
      /\ "PENDING_APPROVAL_EXPIRED" \in TerminalRefusals
  BY DEF NotedRefusals, TerminalRefusals
<1>5. CASE AdmitRefused(r)
  <2>1. \/ Refused(r, "refuse", "PENDING_APPROVAL_EXPIRED", req[r].at)
        \/ Refused(r, "note", "APPROVAL_NOT_VALID", req[r].at)
        \/ Refused(r, "note", "HANDOFF_NOT_VALID", req[r].at)
    BY <1>5 DEF AdmitRefused
  <2> QED
    BY <1>4, <1>w, <2>1
<1>6. CASE Unsigned(r)
  BY <1>4, <1>w, <1>6 DEF Unsigned
<1>7. ASSUME NEW now \in Times, Reject(r, now) PROVE Knows(r)'
  BY <1>4, <1>w, <1>7 DEF Reject
<1>8. ASSUME NEW now \in Times, Preflight(r, now) PROVE Knows(r)'
  <2>1. CASE Refused(r, "refuse", "PENDING_DISPATCH_REFUSED", now)
    BY <1>4, <1>w, <2>1
  <2>2. CASE Refused(r, "note", "JOB_ID_REUSED", now)
    BY <1>4, <1>w, <2>2
  <2>3. CASE Refused(r, "admit", "NONE", now)
    <3>1. /\ req'[r].pc = "admit" /\ req'[r].job = j /\ req'[r].issued = req[r].issued
          /\ req'[r].token = req[r].token /\ req[r].pc = "avail"
      BY <1>1, <1>2, <1>8, <2>3, Fields DEF Preflight
    <3>2. /\ j \notin Bound => Witnessed("HANDOFF_ISSUED", j)
          /\ j \in Bound => /\ job[j].state # "NONE" /\ req[r].issued = job[j].created
                            /\ req[r].token \in granted \cup {NoToken}
      BY <1>1, <1>2, <3>1 DEF Knows
    <3>3. Witnessed("HANDOFF_ISSUED", j)' <=> Witnessed("HANDOFF_ISSUED", j)
      BY <1>3 DEF Witnessed, Recorded
    <3> QED
      BY <1>3, <3>1, <3>2, <3>3 DEF Knows
  <2> QED
    BY <1>8, <2>1, <2>2, <2>3 DEF Preflight
<1>9. CASE Work(r) \/ Signed(r)
  <2>1. /\ req'[r].pc \in {"working", "accept"} /\ req'[r].job = j
        /\ req'[r].issued = req[r].issued /\ req'[r].at = req[r].at
        /\ req[r].pc \in {"work", "working"}
    BY <1>1, <1>2, <1>9, Fields DEF Work, Signed
  <2>2. /\ req[r].at = job[j].reserved /\ req[r].issued + HandoffTTL = job[j].expires
        /\ Witnessed("EXECUTION_DISPATCHED", j)
    BY <1>1, <1>2, <2>1 DEF Knows
  <2>3. Witnessed("EXECUTION_DISPATCHED", j)'
    BY <1>3, <2>2 DEF Witnessed, Recorded
  <2> QED
    BY <1>3, <2>1, <2>2, <2>3 DEF Knows
<1> QED
  BY <1>5, <1>6, <1>7, <1>8, <1>9

\* What the chain holds when the anchor answers is witnessed.
LEMMA NowWitnessed ==
  ASSUME TypeOK, anchored' = Len(chain), chain' = chain, NEW a, NEW j,
         Recorded(a, j, Len(chain))
  PROVE  Witnessed(a, j)'
BY DEF TypeOK, Recorded, Witnessed

\* The answer of the anchor.
LEMMA AckKnows ==
  ASSUME IInv, HistoryInv, NEW r \in Requests, Ack(r)
  PROVE  Knows(r)'
<1> USE DEF dbVars
<1>1. PICK j \in Jobs : j = req[r].job
  BY BusyType DEF Ack, AckPcs, IInv
<1>2. Knows(r) /\ TypeOK /\ RowTold(j) /\ Stage(r) /\ j \in used /\ req[r].pc \in AckPcs
  BY <1>1 DEF HistoryInv, ThreadsKnow, IInv, TablesInv, ChainTells, Stages, Knows, Ack, AckPcs
<1>3. UNCHANGED <<job, approval, chain, used>> /\ anchored' = Len(chain)
  BY DEF Ack, AnchorAll
<1>4. CASE req[r].pc \notin DOMAIN AfterAck
  BY <1>2, <1>4, Fields DEF Ack, Knows
<1>5. CASE req[r].pc \in DOMAIN AfterAck
  <2>1. /\ Goto(r, AfterAck[req[r].pc])
        /\ \/ req[r].pc = "issueAck" /\ AfterAck[req[r].pc] = "avail"
           \/ req[r].pc = "admitAck" /\ AfterAck[req[r].pc] = "dispatch"
           \/ req[r].pc = "dispatchAck" /\ AfterAck[req[r].pc] = "work"
    BY <1>5 DEF Ack, AfterAck
  <2>2. /\ req'[r].job = j /\ req'[r].issued = req[r].issued /\ req'[r].at = req[r].at
        /\ req'[r].pc = AfterAck[req[r].pc]
    BY <1>1, <1>2, <2>1, Fields
  <2>3. CASE req[r].pc = "issueAck" /\ req'[r].pc = "avail"
    <3>1. j \notin Bound /\ Recorded("HANDOFF_ISSUED", j, Len(chain))
      BY <1>1, <1>2, <2>3 DEF Knows
    <3>2. Witnessed("HANDOFF_ISSUED", j)'
      BY <1>2, <1>3, <3>1, NowWitnessed
    <3> QED
      BY <1>2, <1>3, <2>2, <2>3, <3>1, <3>2 DEF Knows
  <2>4. ASSUME req[r].pc \in {"admitAck", "dispatchAck"}
        PROVE  job'[j].reserved = req'[r].at /\ req'[r].issued + HandoffTTL = job'[j].expires
    BY <1>1, <1>2, <1>3, <2>2, <2>4 DEF Knows
  <2>5. CASE req[r].pc = "admitAck" /\ req'[r].pc = "dispatch"
    <3>1. Recorded("HANDOFF_ADMITTED", j, Len(chain))
      BY <1>1, <1>2, <2>5 DEF Stage, RowTold, Admitted
    <3>2. Witnessed("HANDOFF_ADMITTED", j)'
      BY <1>2, <1>3, <3>1, NowWitnessed
    <3> QED
      BY <1>2, <1>3, <2>2, <2>4, <2>5, <3>2 DEF Knows
  <2>6. CASE req[r].pc = "dispatchAck" /\ req'[r].pc = "work"
    <3>1. Recorded("EXECUTION_DISPATCHED", j, Len(chain))
      BY <1>1, <1>2, <2>6 DEF Stage
    <3>2. Witnessed("EXECUTION_DISPATCHED", j)'
      BY <1>2, <1>3, <3>1, NowWitnessed
    <3> QED
      BY <1>2, <1>3, <2>2, <2>4, <2>6, <3>2 DEF Knows
  <2> QED
    BY <2>1, <2>2, <2>3, <2>5, <2>6
<1> QED
  BY <1>4, <1>5

\* Every step of a thread.
LEMMA StepKnows ==
  ASSUME IInv, TypeOK', HistoryInv, Advances, NEW r \in Requests, Step(r)
  PROVE  ThreadsKnow'
<1>1. OwnOnly(r) /\ TypeOK
  BY StepOwn DEF IInv
<1>2. Knows(r)'
  <2>1. CASE AckFail(r) \/ RecoverFail(r) \/ DbFail(r)
    BY <1>1, <2>1, Fields DEF AckFail, Abandon, RecoverFail, DbFail, Knows
  <2>2. CASE Recover(r)
    <3>1. /\ UNCHANGED <<job, approval, chain, used, granted>> /\ req'[r] = req[r]
          /\ Growth /\ Knows(r)
      BY <1>1, <2>2, OwnGrows DEF Recover, dbVars, HistoryInv, ThreadsKnow
    <3>2. req[r].pc \in {"issue", "add"} =>
            job'[req[r].job].state = "NONE" /\ \A i \in 1..Len(chain') : chain'[i].job # req[r].job
      BY <3>1 DEF Knows
    <3> QED
      BY <3>1, <3>2, StillKnows
  <2> QED
    BY <2>1, <2>2, WriterKnows, GranterKnows, AdmitterKnows, DeciderKnows, AckKnows DEF Step
<1>3. ASSUME NEW s \in Requests PROVE Knows(s)'
  BY <1>1, <1>2, OthersKnow
<1> QED
  BY <1>3 DEF ThreadsKnow

\* A thread that takes up a job: a drawn one is nobody's, a waiting one is known.
LEMMA ArriveKnows ==
  ASSUME IInv, HistoryInv, Advances, NEW r \in Requests, Arrive(r)
  PROVE  ThreadsKnow' /\ FreshAlone'
<1> USE DEF dbVars
<1>1. /\ UNCHANGED <<job, pending, approval, accepted, chain, anchored, granted>>
      /\ used \subseteq used'
  BY DEF Arrive, Submit, Approve, Complete
<1>2. req \in [Requests -> RequestType] /\ job \in [Jobs -> RowType]
  BY DEF IInv, TypeOK
<1>3. \A s \in Requests \ {r} : req'[s] = req[s]
  BY <1>2 DEF Arrive, Submit, Approve, Complete
<1>4. ASSUME NEW s \in Requests \ {r} PROVE Knows(s)'
  <2>1. Growth /\ Knows(s) /\ req'[s] = req[s] /\ granted \subseteq granted'
    BY <1>1, <1>3 DEF Growth, HistoryInv, ThreadsKnow
  <2>2. req[s].pc \in {"issue", "add"} =>
          job'[req[s].job].state = "NONE" /\ \A i \in 1..Len(chain') : chain'[i].job # req[s].job
    BY <1>1, <2>1 DEF Knows
  <2> QED
    BY <1>1, <2>1, <2>2, StillKnows
<1>5. ASSUME NEW j \in Jobs, req'[r].job = j, Knows(r)',
             req'[r].pc \in {"issue", "add"} =>
               \A s \in Requests \ {r} : req[s].pc # "idle" => req[s].job # j,
             \A s \in Requests \ {r} : req[s].pc \in {"issue", "add"} => req[s].job # j
      PROVE  ThreadsKnow' /\ FreshAlone'
  <2>1. ThreadsKnow'
    BY <1>4, <1>5 DEF ThreadsKnow
  <2>2. FreshAlone'
    BY <1>3, <1>5 DEF HistoryInv, FreshAlone
  <2> QED
    BY <2>1, <2>2
<1>6. ASSUME NEW j \in Jobs, job[j].state # "NONE"
      PROVE  \A s \in Requests \ {r} : req[s].pc \in {"issue", "add"} => req[s].job # j
  BY <1>6 DEF HistoryInv, ThreadsKnow, Knows
<1>7. ASSUME NEW j \in Jobs, NEW issued \in Times, NEW at \in Times, Submit(r, j, issued, at)
      PROVE  ThreadsKnow' /\ FreshAlone'
  <2>1. /\ req'[r].pc = (IF j \in Bound THEN "add" ELSE "issue") /\ req'[r].job = j
        /\ req'[r].issued = issued /\ j \in used' /\ j \notin used
    BY <1>2, <1>7 DEF Submit, NoRequest
  <2>2. job[j].state = "NONE" /\ \A i \in 1..Len(chain) : chain[i].job # j
    BY <2>1 DEF HistoryInv, TablesInv, RowsSound, RowSound, UsedOnly
  <2>3. 1 <= issued
    BY Readings
  <2>4. Knows(r)'
    BY <1>1, <2>1, <2>2, <2>3 DEF Knows
  <2>5. \A s \in Requests \ {r} : req[s].pc # "idle" => req[s].job # j
    BY <2>1 DEF HistoryInv, ThreadsKnow, Knows
  <2> QED
    BY <1>5, <2>1, <2>4, <2>5
<1>8. ASSUME NEW j \in Jobs, j \in pending
      PROVE  job[j].state = "PENDING_APPROVAL" /\ j \in Bound /\ j \in used
  BY <1>8 DEF HistoryInv, TablesInv, RowsSound, RowSound
<1>9. ASSUME NEW j \in Jobs, NEW now \in Times, Approve(r, j, now)
      PROVE  ThreadsKnow' /\ FreshAlone'
  <2>1. /\ req'[r].pc = (IF now < job[j].expires THEN "grant" ELSE "refuse")
        /\ req'[r].why = (IF now < job[j].expires THEN "NONE" ELSE "PENDING_APPROVAL_EXPIRED")
        /\ req'[r].job = j /\ req'[r].at = now /\ job[j].created <= now /\ j \in pending
    BY <1>2, <1>9 DEF Approve, NoRequest
  <2>2. job[j].state = "PENDING_APPROVAL" /\ j \in used'
    BY <1>1, <1>8, <2>1
  <2>3. Knows(r)'
    BY <1>1, <2>1, <2>2 DEF Knows, TerminalRefusals
  <2> QED
    BY <1>5, <1>6, <2>1, <2>2, <2>3
<1>10. ASSUME NEW j \in Jobs, NEW k \in granted \cup {NoToken}, Complete(r, j, k)
       PROVE  ThreadsKnow' /\ FreshAlone'
  <2>1. /\ req'[r].pc = "avail" /\ req'[r].job = j /\ req'[r].token = k
        /\ req'[r].issued = job[j].created /\ j \in pending
    BY <1>2, <1>10 DEF Complete, NoRequest
  <2>2. job[j].state = "PENDING_APPROVAL" /\ j \in used' /\ j \in Bound
    BY <1>1, <1>8, <2>1
  <2>3. Knows(r)'
    BY <1>1, <2>1, <2>2 DEF Knows
  <2> QED
    BY <1>5, <1>6, <2>1, <2>2, <2>3
<1> QED
  BY <1>7, <1>9, <1>10 DEF Arrive

\* A step of a busy thread gives no job to a second thread.
LEMMA StepFresh ==
  ASSUME TypeOK, FreshAlone, NEW r \in Requests, Step(r)
  PROVE  FreshAlone'
<1>1. OwnOnly(r)
  BY StepOwn
<1>2. \/ req' = req
      \/ req'[r].pc = "idle"
      \/ req'[r].pc \notin {"issue", "add"} /\ req'[r].job = req[r].job
  <2>t. req \in [Requests -> RequestType]
    BY DEF TypeOK
  <2>1. CASE Recover(r)
    BY <2>1 DEF Recover
  <2>2. CASE AckFail(r) \/ RecoverFail(r) \/ DbFail(r)
    BY <2>2, Fields DEF AckFail, Abandon, RecoverFail, DbFail
  <2>3. ASSUME NEW k \in Tokens, Grant(r, k)
        PROVE  req'[r].pc \notin {"issue", "add"} /\ req'[r].job = req[r].job
    BY <2>t, <2>3 DEF Grant, RequestType
  <2>4. CASE Ack(r)
    <3>1. CASE req[r].pc \notin DOMAIN AfterAck
      BY <2>4, <3>1, Fields DEF Ack
    <3>2. CASE req[r].pc \in DOMAIN AfterAck
      <4>1. Goto(r, AfterAck[req[r].pc]) /\ AfterAck[req[r].pc] \notin {"issue", "add"}
        BY <2>4, <3>2 DEF Ack, AfterAck
      <4> QED
        BY <4>1, Fields
    <3> QED
      BY <3>1, <3>2
  <2>5. ASSUME \/ Issue(r) \/ AddPending(r) \/ AdmitPlain(r) \/ AdmitBound(r) \/ Dispatch(r)
               \/ Note(r) \/ Refuse(r) \/ Work(r) \/ Signed(r)
               \/ \E now \in Times : Accept(r, now)
        PROVE  req'[r].pc \notin {"issue", "add"} /\ req'[r].job = req[r].job
    <3>1. PICK pc : Goto(r, pc) /\ pc \notin {"issue", "add"}
      BY <2>5 DEF Issue, AddPending, AdmitPlain, AdmitBound, Dispatch, Note, Refuse, Work, Signed,
                  Accept, Record
    <3> QED
      BY <3>1, Fields
  <2>6. ASSUME AdmitRefused(r) \/ Unsigned(r)
               \/ \E now \in Times : Preflight(r, now) \/ Reject(r, now)
        PROVE  req'[r].pc \notin {"issue", "add"} /\ req'[r].job = req[r].job
    <3>1. PICK pc, why, at : Refused(r, pc, why, at) /\ pc \notin {"issue", "add"}
      BY <2>6 DEF AdmitRefused, Unsigned, Preflight, Reject
    <3> QED
      BY <2>t, <3>1 DEF Refused, RequestType
  <2> QED
    BY <2>1, <2>2, <2>3, <2>4, <2>5, <2>6 DEF Step
<1>3. \A s \in Requests \ {r} : req'[s] = req[s]
  BY <1>1 DEF OwnOnly
<1>4. CASE req' = req
  BY <1>4 DEF FreshAlone
<1>5. CASE req'[r].pc = "idle"
  BY <1>3, <1>5 DEF FreshAlone
<1>6. CASE req'[r].pc \notin {"issue", "add"} /\ req'[r].job = req[r].job
  BY <1>1, <1>3, <1>6 DEF FreshAlone, OwnOnly
<1> QED
  BY <1>2, <1>4, <1>5, <1>6

-----------------------------------------------------------------------------
(***************************************************************************)
(* What was told to approvers and clients.                                 *)
(***************************************************************************)

\* What the anchor holds of a token it goes on holding.
LEMMA GrantWitnessKept ==
  ASSUME TypeOK, AnchorBehind, Growth, NEW k, GrantWitnessed(k)
  PROVE  GrantWitnessed(k)'
<1>1. chain \in Seq(EventType) /\ anchored \in Nat /\ anchored <= Len(chain)
      /\ anchored' \in {anchored, Len(chain)} /\ Len(chain) \in Nat
  BY DEF TypeOK, AnchorBehind, Growth
<1>2. PICK i \in 1..Len(chain) :
        i <= anchored /\ chain[i].action = "APPROVAL_GRANTED" /\ chain[i].token = k
  BY DEF GrantWitnessed
<1>3. i \in 1..Len(chain') /\ chain'[i] = chain[i]
  <2>1. CASE chain' = chain
    BY <2>1
  <2>2. ASSUME NEW e \in EventType, chain' = Append(chain, e)
        PROVE  i \in 1..Len(chain') /\ chain'[i] = chain[i]
    BY <2>2, ChainGrows
  <2> QED
    BY <2>1, <2>2 DEF Growth
<1>4. i <= anchored'
  BY <1>1, <1>2
<1> QED
  BY <1>2, <1>3, <1>4 DEF GrantWitnessed

\* What was told stays true while nothing more is told.
LEMMA ToldKept ==
  ASSUME IInv, HistoryInv, TablesInv', Advances, Growth, granted' = granted, told' = told
  PROVE  GrantsWitnessed' /\ ReplyEvidence'
<1>1. GrantsWitnessed'
  BY GrantWitnessKept DEF IInv, HistoryInv, GrantsWitnessed
<1>2. ASSUME NEW j \in Jobs
      PROVE  /\ <<"PENDING_APPROVAL", j>> \in told' =>
                  job'[j].state # "NONE" /\ Witnessed("HANDOFF_ISSUED", j)'
             /\ <<"ACCEPTED", j>> \in told' =>
                  job'[j].state = "COMPLETED" /\ Witnessed("RESULT_ACCEPTED", j)'
  <2>1. /\ RowGoes(j) /\ RowSound(j) /\ RowSound(j)'
        /\ \A a : Witnessed(a, j) => Witnessed(a, j)'
    BY EvidenceKept DEF Advances, HistoryInv, TablesInv, RowsSound, IInv
  <2>2. /\ <<"PENDING_APPROVAL", j>> \in told =>
             job[j].state # "NONE" /\ Witnessed("HANDOFF_ISSUED", j)
        /\ <<"ACCEPTED", j>> \in told =>
             job[j].state = "COMPLETED" /\ Witnessed("RESULT_ACCEPTED", j)
    BY DEF HistoryInv, ReplyEvidence
  <2>3. job[j].state = "COMPLETED" => job'[j].state = "COMPLETED"
    BY <2>1 DEF RowSound, RowGoes
  <2>4. job[j].state # "NONE" => job'[j].state # "NONE"
    BY <2>1 DEF RowGoes
  <2> QED
    BY <2>1, <2>2, <2>3, <2>4
<1>3. ReplyEvidence'
  BY <1>2 DEF ReplyEvidence
<1> QED
  BY <1>1, <1>3

\* The anchor's answer: what is told now is on the chain the anchor has taken.
LEMMA AckTells ==
  ASSUME IInv, HistoryInv, TablesInv', Advances, Growth, NEW r \in Requests, Ack(r)
  PROVE  GrantsWitnessed' /\ ReplyEvidence'
<1> USE DEF dbVars
<1>1. PICK j \in Jobs : j = req[r].job
  BY BusyType DEF Ack, AckPcs, IInv
<1>2. Knows(r) /\ TypeOK /\ RowTold(j) /\ RowSound(j) /\ Stage(r)
  BY DEF HistoryInv, ThreadsKnow, IInv, TablesInv, ChainTells, RowsSound, Stages
<1>3. /\ UNCHANGED <<job, approval, chain>> /\ anchored' = Len(chain)
      /\ Len(chain) \in Nat
  BY <1>2 DEF Ack, AnchorAll, TypeOK
<1>4. ASSUME NEW k \in granted' PROVE GrantWitnessed(k)'
  <2>1. CASE k \in granted
    BY <2>1, GrantWitnessKept DEF IInv, HistoryInv, GrantsWitnessed
  <2>2. CASE req[r].pc = "grantAck" /\ k = req[r].token
    <3>1. k \in Tokens /\ approval[k].state # "NONE"
      BY <1>2, <2>2, BusyType DEF Knows
    <3>2. Of("APPROVAL_GRANTED", k)
      BY <3>1 DEF HistoryInv, TablesInv, ChainTells, GrantTold
    <3> QED
      BY <1>3, <3>2 DEF Of, GrantWitnessed
  <2> QED
    BY <1>4, <2>1, <2>2 DEF Ack
<1>5. /\ req[r].pc = "addAck" => job[j].state # "NONE" /\ Recorded("HANDOFF_ISSUED", j, Len(chain))
      /\ req[r].pc = "acceptAck" =>
           job[j].state = "COMPLETED" /\ Recorded("RESULT_ACCEPTED", j, Len(chain))
  <2>1. req[r].pc = "addAck" => job[j].state # "NONE"
    BY <1>1, <1>2 DEF Knows
  <2>2. req[r].pc = "acceptAck" => job[j].state = "COMPLETED"
    BY <1>1, <1>2 DEF Stage
  <2> QED
    BY <1>2, <2>1, <2>2 DEF RowTold, RowSound
<1>6. ASSUME NEW i \in Jobs
      PROVE  /\ <<"PENDING_APPROVAL", i>> \in told' =>
                  job'[i].state # "NONE" /\ Witnessed("HANDOFF_ISSUED", i)'
             /\ <<"ACCEPTED", i>> \in told' =>
                  job'[i].state = "COMPLETED" /\ Witnessed("RESULT_ACCEPTED", i)'
  <2>1. /\ <<"PENDING_APPROVAL", i>> \in told' =>
             <<"PENDING_APPROVAL", i>> \in told \/ (req[r].pc = "addAck" /\ i = j)
        /\ <<"ACCEPTED", i>> \in told' =>
             <<"ACCEPTED", i>> \in told \/ (req[r].pc = "acceptAck" /\ i = j)
    <3>1. \/ told' = told
          \/ req[r].pc = "addAck" /\ told' = told \cup {<<"PENDING_APPROVAL", j>>}
          \/ req[r].pc = "acceptAck" /\ told' = told \cup {<<"ACCEPTED", j>>}
      BY <1>1 DEF Ack
    <3> QED
      BY <3>1
  <2>2. /\ <<"PENDING_APPROVAL", i>> \in told =>
             job[i].state # "NONE" /\ Witnessed("HANDOFF_ISSUED", i)
        /\ <<"ACCEPTED", i>> \in told =>
             job[i].state = "COMPLETED" /\ Witnessed("RESULT_ACCEPTED", i)
    BY DEF HistoryInv, ReplyEvidence
  <2>3. \A a : Witnessed(a, i) => Witnessed(a, i)'
    BY EvidenceKept DEF IInv
  <2>4. \A a : Recorded(a, j, Len(chain)) => Witnessed(a, j)'
    BY <1>2, <1>3, NowWitnessed
  <2> QED
    BY <1>3, <1>5, <2>1, <2>2, <2>3, <2>4
<1> QED
  BY <1>4, <1>6 DEF GrantsWitnessed, ReplyEvidence

-----------------------------------------------------------------------------
(***************************************************************************)
(* Induction.                                                              *)
(***************************************************************************)
LEMMA StepTables ==
  ASSUME IInv, TypeOK', HistoryInv, Advances, NEW r \in Requests, Step(r)
  PROVE  TablesInv'
<1>1. TypeOK /\ TablesInv
  BY DEF IInv, HistoryInv
<1>2. ASSUME \/ AdmitRefused(r) \/ Work(r) \/ Signed(r) \/ Unsigned(r) \/ Ack(r) \/ AckFail(r)
             \/ Recover(r) \/ RecoverFail(r) \/ DbFail(r)
             \/ \E now \in Times : Preflight(r, now) \/ Reject(r, now)
      PROVE  TablesInv'
  <2>1. UNCHANGED dbVars /\ UNCHANGED used
    BY <1>2 DEF AdmitRefused, Work, Signed, Unsigned, Ack, AckFail, Recover, RecoverFail, DbFail,
                Preflight, Reject
  <2> QED
    BY <1>1, <2>1, SilentTables
<1> QED
  BY <1>1, <1>2, IssueTables, NoteTables, AddTables, AdmitPlainTables, GrantTables,
     AdmitBoundTables, DispatchTables, AcceptTables, RefuseTables DEF Step

LEMMA StepTold ==
  ASSUME IInv, TypeOK', HistoryInv, TablesInv', Advances, NEW r \in Requests, Step(r)
  PROVE  GrantsWitnessed' /\ ReplyEvidence'
<1>1. Growth
  BY StepOwn, OwnGrows DEF IInv
<1>2. CASE Ack(r)
  BY <1>1, <1>2, AckTells
<1>3. ASSUME ~Ack(r) PROVE UNCHANGED <<granted, told>>
  BY <1>3 DEF Step, Issue, AddPending, Grant, Preflight, Accept, Reject, AdmitPlain, AdmitBound,
              AdmitRefused, Dispatch, Work, Signed, Unsigned, Note, Refuse, AckFail, Recover,
              RecoverFail, DbFail
<1> QED
  BY <1>1, <1>2, <1>3, ToldKept

\* Starts, crashes and stuttering: threads end, the anchor catches up, nothing else.
LEMMA OperatorHistory ==
  ASSUME IInv, HistoryInv, Advances, UNCHANGED <<dbVars, used, granted, told>>,
         anchored' \in {anchored, Len(chain)},
         \A s \in Requests : req'[s] = req[s] \/ req'[s].pc = "idle"
  PROVE  HistoryInv'
<1> USE DEF dbVars
<1>1. TablesInv' /\ Growth
  BY SilentTables DEF HistoryInv, Growth
<1>2. GrantsWitnessed' /\ ReplyEvidence'
  BY <1>1, ToldKept
<1>3. ASSUME NEW s \in Requests PROVE Knows(s)'
  <2>1. CASE req'[s].pc = "idle"
    BY <2>1 DEF Knows
  <2>2. CASE req'[s] = req[s]
    <3>1. Knows(s)
      BY DEF HistoryInv, ThreadsKnow
    <3>2. req[s].pc \in {"issue", "add"} =>
            job'[req[s].job].state = "NONE" /\ \A i \in 1..Len(chain') : chain'[i].job # req[s].job
      BY <3>1 DEF Knows
    <3> QED
      BY <1>1, <2>2, <3>1, <3>2, StillKnows
  <2> QED
    BY <2>1, <2>2
<1>4. FreshAlone'
  BY DEF HistoryInv, FreshAlone
<1> QED
  BY <1>1, <1>2, <1>3, <1>4 DEF HistoryInv, ThreadsKnow

LEMMA InitHistory == Init => HistoryInv
<1> SUFFICES ASSUME Init PROVE HistoryInv
  OBVIOUS
<1>1. /\ Len(chain) = 0 /\ 1..Len(chain) = {} /\ DOMAIN chain = {}
      /\ used = {} /\ granted = {} /\ told = {} /\ pending = {}
  BY DEF Init
<1>2. \A j \in Jobs : job[j].state = "NONE" /\ accepted[j] = 0
  BY DEF Init, NoRow
<1>3. \A k \in Tokens : approval[k].state = "NONE"
  BY DEF Init, NoGrant
<1>4. \A r \in Requests : req[r].pc = "idle"
  BY DEF Init, NoRequest
<1>5. ChainBacked /\ NoneTwice /\ ChainOrder /\ UsedOnly
  BY <1>1 DEF ChainBacked, NoneTwice, ChainOrder, UsedOnly
<1>6. ChainTells
  BY <1>2, <1>3 DEF ChainTells, RowTold, GrantTold, Admitted, Executing
<1>7. RowsSound /\ GrantsSound /\ GrantsApart
  BY <1>1, <1>2, <1>3 DEF RowsSound, RowSound, GrantsSound, GrantSound, GrantsApart
<1>8. ThreadsKnow /\ FreshAlone
  BY <1>4 DEF ThreadsKnow, Knows, FreshAlone
<1>9. GrantsWitnessed /\ ReplyEvidence
  BY <1>1 DEF GrantsWitnessed, ReplyEvidence
<1> QED
  BY <1>5, <1>6, <1>7, <1>8, <1>9 DEF HistoryInv, TablesInv

LEMMA StepHistory == IInv /\ HistoryInv /\ [Next]_vars => HistoryInv'
<1> SUFFICES ASSUME IInv, HistoryInv, [Next]_vars PROVE HistoryInv'
  OBVIOUS
<1>1. TypeOK /\ TypeOK' /\ Advances
  BY StepType, StepAdvances DEF IInv
<1>2. ASSUME NEW r \in Requests, Step(r) PROVE HistoryInv'
  <2>1. TablesInv'
    BY <1>1, <1>2, StepTables
  <2> QED
    BY <1>1, <1>2, <2>1, StepKnows, StepFresh, StepTold DEF HistoryInv
<1>3. ASSUME NEW r \in Requests, Arrive(r) PROVE HistoryInv'
  <2>1. UNCHANGED <<dbVars, anchored, granted, told>> /\ used \subseteq used'
    BY <1>3 DEF Arrive, Submit, Approve, Complete
  <2>2. TablesInv' /\ Growth
    BY <2>1, SilentTables DEF HistoryInv, Growth, dbVars
  <2> QED
    BY <1>1, <1>3, <2>1, <2>2, ArriveKnows, ToldKept DEF HistoryInv
<1>4. ASSUME NEW i \in Instances, Crash(i) \/ \E mode \in Modes : Start(i, mode)
      PROVE  HistoryInv'
  <2>1. /\ UNCHANGED <<dbVars, used, granted, told>> /\ anchored' \in {anchored, Len(chain)}
        /\ \A s \in Requests : req'[s] = req[s] \/ req'[s].pc = "idle"
    BY <1>4 DEF Crash, Start, AnchorAll, NoRequest
  <2> QED
    BY <1>1, <2>1, OperatorHistory
<1>5. CASE UNCHANGED vars
  <2>1. /\ UNCHANGED <<dbVars, used, granted, told>> /\ anchored' \in {anchored, Len(chain)}
        /\ \A s \in Requests : req'[s] = req[s] \/ req'[s].pc = "idle"
    BY <1>5 DEF vars
  <2> QED
    BY <1>1, <2>1, OperatorHistory
<1> QED
  BY <1>2, <1>3, <1>4, <1>5 DEF Next

\* The tables, the chain, the anchor and what every thread knows agree in every
\* reachable state.
THEOREM HistoryInductive == Spec => [](IInv /\ HistoryInv)
BY InitIInv, StepIInv, InitHistory, StepHistory, PTL DEF Spec

-----------------------------------------------------------------------------
(***************************************************************************)
(* What the start checks, and what else the runs check of the history.     *)
(***************************************************************************)

\* An event of a stage a job has once, and only there, is matched by its row.
LEMMA OneEvent ==
  ASSUME TablesInv, NEW a \in OncePerJob, NEW j, Recorded(a, j, Len(chain))
  PROVE  \E i \in 1..Len(chain) :
           /\ chain[i].action = a /\ chain[i].job = j
           /\ \A n \in 1..Len(chain) : chain[n].action = a /\ chain[n].job = j => n = i
<1>1. PICK i \in 1..Len(chain) : chain[i].action = a /\ chain[i].job = j
  BY DEF Recorded
<1>2. ASSUME NEW n \in 1..Len(chain), chain[n].action = a, chain[n].job = j PROVE n = i
  BY <1>1, <1>2 DEF TablesInv, NoneTwice, Same
<1> QED
  BY <1>1, <1>2

LEMMA TablesReconciled ==
  ASSUME TypeOK, TablesInv
  PROVE  BindingsChecked
<1>d. DOMAIN chain = 1..Len(chain) /\ \A i \in 1..Len(chain) : chain[i] \in EventType
  BY DEF TypeOK
<1>b. \A i \in 1..Len(chain) : Backed(chain[i]) /\ chain[i].job \in Jobs
  BY <1>d DEF TablesInv, ChainBacked, EventType
<1>t. (\A j \in Jobs : RowTold(j)) /\ (\A k \in Tokens : GrantTold(k))
  BY DEF TablesInv, ChainTells
<1>s. \A j \in Jobs : job[j].state \in JobStates
  BY DEF TypeOK, RowType
<1>1. Reconciled(Rows(JobStates \ {"NONE"}),
                 {i \in EventsOf("HANDOFF_ISSUED") :
                    chain[i].reason = "PENDING_APPROVAL" \/ job[chain[i].job].state # "NONE"},
                 LAMBDA j, i : chain[i].job = j)
  <2>1. ASSUME NEW j \in Jobs, job[j].state # "NONE"
        PROVE  \E i \in 1..Len(chain) :
                 /\ chain[i].action = "HANDOFF_ISSUED" /\ chain[i].job = j
                 /\ \A n \in 1..Len(chain) :
                      chain[n].action = "HANDOFF_ISSUED" /\ chain[n].job = j => n = i
    BY <1>t, <2>1, OneEvent DEF RowTold, OncePerJob
  <2>2. ASSUME NEW i \in 1..Len(chain), chain[i].action = "HANDOFF_ISSUED",
               chain[i].reason = "PENDING_APPROVAL"
        PROVE  job[chain[i].job].state # "NONE"
    BY <1>b, <2>2 DEF Backed
  <2> QED
    BY <1>b, <1>d, <1>s, <2>1, <2>2 DEF Reconciled, Rows, EventsOf
<1>2. Reconciled(Rows(Admitted), EventsOf("HANDOFF_ADMITTED"),
                 LAMBDA j, i : chain[i].job = j /\ chain[i].at = job[j].reserved)
  <2>1. ASSUME NEW j \in Jobs, job[j].state \in Admitted
        PROVE  \E i \in 1..Len(chain) :
                 /\ chain[i].action = "HANDOFF_ADMITTED" /\ chain[i].job = j
                 /\ \A n \in 1..Len(chain) :
                      chain[n].action = "HANDOFF_ADMITTED" /\ chain[n].job = j => n = i
    BY <1>t, <2>1, OneEvent DEF RowTold, OncePerJob
  <2>2. ASSUME NEW i \in 1..Len(chain), chain[i].action = "HANDOFF_ADMITTED"
        PROVE  job[chain[i].job].state \in Admitted /\ chain[i].at = job[chain[i].job].reserved
    BY <1>b, <2>2 DEF Backed
  <2> QED
    BY <1>b, <1>d, <2>1, <2>2 DEF Reconciled, Rows, EventsOf
<1>3. Reconciled(Rows(Executing), EventsOf("EXECUTION_DISPATCHED"),
                 LAMBDA j, i : chain[i].job = j /\ chain[i].at = job[j].reserved)
  <2>1. ASSUME NEW j \in Jobs, job[j].state \in Executing
        PROVE  \E i \in 1..Len(chain) :
                 /\ chain[i].action = "EXECUTION_DISPATCHED" /\ chain[i].job = j
                 /\ \A n \in 1..Len(chain) :
                      chain[n].action = "EXECUTION_DISPATCHED" /\ chain[n].job = j => n = i
    BY <1>t, <2>1, OneEvent DEF RowTold, OncePerJob
  <2>2. ASSUME NEW i \in 1..Len(chain), chain[i].action = "EXECUTION_DISPATCHED"
        PROVE  job[chain[i].job].state \in Executing /\ chain[i].at = job[chain[i].job].reserved
    BY <1>b, <2>2 DEF Backed
  <2> QED
    BY <1>b, <1>d, <2>1, <2>2 DEF Reconciled, Rows, EventsOf
<1>4. Reconciled(Rows({"REFUSED"}),
                 {i \in EventsOf("HANDOFF_REJECTED") : chain[i].reason \in TerminalRefusals},
                 LAMBDA j, i : chain[i].job = j /\ chain[i].at = job[j].updated)
  <2>1. ASSUME NEW j \in Jobs, job[j].state = "REFUSED"
        PROVE  \E i \in 1..Len(chain) :
                 /\ chain[i].reason \in TerminalRefusals /\ chain[i].job = j
                 /\ \A n \in 1..Len(chain) :
                      chain[n].reason \in TerminalRefusals /\ chain[n].job = j => n = i
    <3>1. PICK i \in 1..Len(chain) : chain[i].job = j /\ chain[i].reason \in TerminalRefusals
      BY <1>t, <2>1 DEF RowTold, Refusal
    <3>2. \A n \in 1..Len(chain) : chain[n].reason \in TerminalRefusals /\ chain[n].job = j => n = i
      BY <3>1 DEF TablesInv, NoneTwice, Same
    <3> QED
      BY <3>1, <3>2
  <2>2. ASSUME NEW i \in 1..Len(chain), chain[i].reason \in TerminalRefusals
        PROVE  /\ chain[i].action = "HANDOFF_REJECTED" /\ job[chain[i].job].state = "REFUSED"
               /\ chain[i].at = job[chain[i].job].updated
    BY <1>b, <2>2 DEF Backed
  <2> QED
    BY <1>b, <1>d, <2>1, <2>2 DEF Reconciled, Rows, EventsOf
<1>5. Reconciled({k \in Tokens : approval[k].state # "NONE"}, EventsOf("APPROVAL_GRANTED"),
                 LAMBDA k, i : /\ chain[i].token = k
                               /\ chain[i].at = approval[k].issued
                               /\ chain[i].job = approval[k].job)
  <2>1. ASSUME NEW k \in Tokens, approval[k].state # "NONE"
        PROVE  \E i \in 1..Len(chain) :
                 /\ chain[i].action = "APPROVAL_GRANTED" /\ chain[i].token = k
                 /\ \A n \in 1..Len(chain) :
                      chain[n].action = "APPROVAL_GRANTED" /\ chain[n].token = k => n = i
    <3>1. PICK i \in 1..Len(chain) : chain[i].action = "APPROVAL_GRANTED" /\ chain[i].token = k
      BY <1>t, <2>1 DEF GrantTold, Of
    <3>2. \A n \in 1..Len(chain) :
            chain[n].action = "APPROVAL_GRANTED" /\ chain[n].token = k => n = i
      BY <3>1 DEF TablesInv, NoneTwice, Same
    <3> QED
      BY <3>1, <3>2
  <2>2. ASSUME NEW i \in 1..Len(chain), chain[i].action = "APPROVAL_GRANTED"
        PROVE  /\ chain[i].token \in Tokens /\ approval[chain[i].token].state # "NONE"
               /\ chain[i].at = approval[chain[i].token].issued
               /\ chain[i].job = approval[chain[i].token].job
    BY <1>b, <2>2 DEF Backed
  <2> QED
    BY <1>d, <2>1, <2>2 DEF Reconciled, EventsOf
<1>6. Reconciled({k \in Tokens : approval[k].state = "CONSUMED"},
                 {i \in EventsOf("HANDOFF_ADMITTED") : chain[i].token # NoToken},
                 LAMBDA k, i : /\ chain[i].token = k
                               /\ chain[i].at = approval[k].changed
                               /\ chain[i].job = approval[k].job)
  <2>1. ASSUME NEW i \in 1..Len(chain), chain[i].action = "HANDOFF_ADMITTED",
               chain[i].token # NoToken
        PROVE  /\ chain[i].token \in Tokens /\ approval[chain[i].token].state = "CONSUMED"
               /\ chain[i].at = approval[chain[i].token].changed
               /\ chain[i].job = approval[chain[i].token].job
    BY <1>b, <2>1 DEF Backed
  <2>2. ASSUME NEW k \in Tokens, approval[k].state = "CONSUMED"
        PROVE  \E i \in 1..Len(chain) :
                 /\ chain[i].action = "HANDOFF_ADMITTED" /\ chain[i].token = k
                 /\ \A n \in 1..Len(chain) :
                      chain[n].action = "HANDOFF_ADMITTED" /\ chain[n].token = k => n = i
    <3>1. PICK i \in 1..Len(chain) : chain[i].action = "HANDOFF_ADMITTED" /\ chain[i].token = k
      BY <1>t, <2>2 DEF GrantTold, Of
    <3>2. ASSUME NEW n \in 1..Len(chain), chain[n].action = "HANDOFF_ADMITTED", chain[n].token = k
          PROVE  n = i
      <4>1. chain[n].job = chain[i].job
        BY <2>1, <3>1, <3>2, SetsAssumption
      <4> QED
        BY <3>1, <3>2, <4>1 DEF TablesInv, NoneTwice, Same, OncePerJob
    <3> QED
      BY <3>1, <3>2
  <2>3. NoToken \notin Tokens
    BY SetsAssumption
  <2> QED
    BY <1>d, <2>1, <2>2, <2>3 DEF Reconciled, EventsOf
<1>7. Reconciled({j \in Jobs : accepted[j] # 0}, EventsOf("RESULT_ACCEPTED"),
                 LAMBDA j, i : chain[i].job = j /\ chain[i].at = accepted[j])
  <2>1. ASSUME NEW j \in Jobs, accepted[j] # 0
        PROVE  \E i \in 1..Len(chain) :
                 /\ chain[i].action = "RESULT_ACCEPTED" /\ chain[i].job = j
                 /\ \A n \in 1..Len(chain) :
                      chain[n].action = "RESULT_ACCEPTED" /\ chain[n].job = j => n = i
    BY <1>t, <2>1, OneEvent DEF RowTold, OncePerJob
  <2>2. ASSUME NEW i \in 1..Len(chain), chain[i].action = "RESULT_ACCEPTED"
        PROVE  accepted[chain[i].job] # 0 /\ chain[i].at = accepted[chain[i].job]
    BY <1>b, <2>2 DEF Backed
  <2> QED
    BY <1>b, <1>d, <2>1, <2>2 DEF Reconciled, EventsOf
<1> QED
  BY <1>1, <1>2, <1>3, <1>4, <1>5, <1>6, <1>7, Zenon DEF BindingsChecked

LEMMA AlwaysStartable ==
  ASSUME IInv, HistoryInv
  PROVE  Startable
<1>1. TypeOK /\ TablesInv
  BY DEF IInv, HistoryInv
<1>2. \A j \in Jobs : RowSound(j) /\ job[j].state \in JobStates
  BY <1>1, RowTypes DEF TablesInv, RowsSound
<1>3. \A k \in Tokens : GrantSound(k)
  BY <1>1 DEF TablesInv, GrantsSound
<1>4. JobLedgerChecked
  BY <1>2 DEF JobLedgerChecked, Rows, RowSound
<1>5. PendingChecked
  <2>1. pending \subseteq Jobs
    BY <1>1 DEF TypeOK
  <2> QED
    BY <1>2, <2>1 DEF PendingChecked, Rows, RowSound
<1>6. ApprovalsChecked
  <2>1. ASSUME NEW k \in Tokens, approval[k].state = "CONSUMED", NEW o \in Tokens \ {k},
               approval[o].state = "CONSUMED", approval[o].job = approval[k].job
        PROVE  FALSE
    <3>1. PICK i \in 1..Len(chain) : chain[i].action = "HANDOFF_ADMITTED" /\ chain[i].token = k
      BY <1>1, <2>1 DEF TablesInv, ChainTells, GrantTold, Of
    <3>2. PICK n \in 1..Len(chain) : chain[n].action = "HANDOFF_ADMITTED" /\ chain[n].token = o
      BY <1>1, <2>1 DEF TablesInv, ChainTells, GrantTold, Of
    <3>3. Backed(chain[i]) /\ Backed(chain[n])
      BY <1>1 DEF TablesInv, ChainBacked
    <3>4. chain[i].job = approval[k].job /\ chain[n].job = approval[o].job
      BY <3>1, <3>2, <3>3, SetsAssumption DEF Backed
    <3>5. i = n
      BY <1>1, <2>1, <3>1, <3>2, <3>4 DEF TablesInv, NoneTwice, Same, OncePerJob
    <3> QED
      BY <2>1, <3>1, <3>2, <3>5
  <2>2. ASSUME NEW k \in Tokens, approval[k].state = "CONSUMED"
        PROVE  approval[k].job \notin pending
    BY <1>2, <1>3, <2>2 DEF GrantSound, RowSound, Admitted
  <2> QED
    BY <1>3, <2>1, <2>2 DEF ApprovalsChecked, GrantSound
<1>7. AcceptanceChecked
  BY <1>2 DEF AcceptanceChecked, Rows, RowSound
<1>8. anchored <= Len(chain)
  BY DEF IInv, AnchorBehind
<1> QED
  BY <1>1, <1>4, <1>5, <1>6, <1>7, <1>8, TablesReconciled DEF Startable, StartChecks

LEMMA TokensApart ==
  ASSUME TypeOK, HistoryInv
  PROVE  OneLiveGrant
<1>1. ASSUME NEW k \in Tokens, NEW o \in Tokens, NEW now \in Times,
             Consumable(k, approval[k].job, now), Consumable(o, approval[k].job, now), k # o
      PROVE  FALSE
  <2>1. /\ approval[k].state = "GRANTED" /\ approval[o].state = "GRANTED"
        /\ approval[o].job = approval[k].job
        /\ approval[k].issued <= now /\ now < approval[k].expires
        /\ approval[o].issued <= now /\ now < approval[o].expires
    BY <1>1 DEF Consumable
  <2>2. \/ approval[k].expires <= approval[o].issued
        \/ approval[o].expires <= approval[k].issued
    BY <1>1, <2>1 DEF HistoryInv, TablesInv, GrantsApart
  <2>3. approval[k] \in GrantType /\ approval[o] \in GrantType /\ now \in Nat
    BY Readings DEF TypeOK
  <2> QED
    BY <2>1, <2>2, <2>3 DEF GrantType
<1> QED
  BY <1>1 DEF OneLiveGrant

\* Every start accepts what any number of instances wrote, at no time two tokens
\* open one job, and what a client was told is durable and witnessed
\* (open_database, PostgresApprovalStore, _AnchoredAudit).
THEOREM StoresAgree == Spec => []StoresSound
<1>1. IInv /\ HistoryInv => StoresSound
  BY AlwaysStartable, TokensApart DEF IInv, HistoryInv, StoresSound
<1> QED
  BY <1>1, HistoryInductive, PTL

\* The chain of every job reads in the order of its authorisations, and every
\* start accepts it (check_core_bindings, whatever the clocks did).
THEOREM HistoryInOrder == Spec => []HistorySound
<1>1. IInv /\ HistoryInv => HistorySound
  BY AlwaysStartable DEF HistoryInv, TablesInv, HistorySound
<1> QED
  BY <1>1, HistoryInductive, PTL

\* Neither an effect nor an answer without its anchored evidence (WorkerRunner
\* behind the dispatch, the replies of Service behind the acknowledgement).
THEOREM EvidenceFirst == Spec => []Evidence
<1>1. HistoryInv => ReplyEvidence
  BY DEF HistoryInv
<1>2. EffectEvidence /\ ReplyEvidence => Evidence
  BY DEF Evidence
<1> QED
  BY <1>1, <1>2, HistoryInductive, AtMostOneEvidencedEffect, PTL

-----------------------------------------------------------------------------
(***************************************************************************)
(* The bound of the pending queue.                                         *)
(***************************************************************************)

\* Only PostgresPendingJobs.add lengthens the queue.
LEMMA QueueShrinks ==
  ASSUME [Next]_vars, \A r \in Requests : ~AddPending(r)
  PROVE  pending' \subseteq pending
<1> USE DEF dbVars
<1>1. ASSUME NEW r \in Requests, Arrive(r) PROVE pending' = pending
  BY <1>1 DEF Arrive, Submit, Approve, Complete
<1>2. ASSUME NEW r \in Requests, Step(r) PROVE pending' \subseteq pending
  BY <1>2 DEF Step, Issue, Grant, Preflight, Accept, Reject, AdmitPlain, AdmitBound, AdmitRefused,
              Dispatch, Work, Signed, Unsigned, Note, Refuse, Ack, AckFail, Recover, RecoverFail,
              DbFail
<1>3. ASSUME NEW i \in Instances, Crash(i) \/ \E mode \in Modes : Start(i, mode)
      PROVE  pending' = pending
  BY <1>3 DEF Crash, Start
<1>4. CASE UNCHANGED vars
  BY <1>4 DEF vars
<1> QED
  BY <1>1, <1>2, <1>3, <1>4 DEF Next

\* The waiting jobs that no clock takes for expired.
Unexpired == {j \in pending : \A now \in Times : job[j].expires > now}
QueueInv == IsFiniteSet(pending) /\ SlotsBounded

LEMMA StepQueue == IInv /\ HistoryInv /\ QueueInv /\ [Next]_vars => QueueInv'
<1> SUFFICES ASSUME IInv, HistoryInv, QueueInv, [Next]_vars PROVE QueueInv'
  OBVIOUS
<1>1. /\ IsFiniteSet(pending) /\ Cardinality(Unexpired) <= MaxPending
      /\ TypeOK /\ pending \subseteq Jobs /\ Advances
  BY StepAdvances DEF QueueInv, SlotsBounded, Unexpired, IInv, TypeOK
<1>2. \A i \in pending : job'[i].expires = job[i].expires
  BY <1>1 DEF HistoryInv, TablesInv, RowsSound, RowSound, Advances, RowGoes
<1>3. IsFiniteSet(Unexpired) /\ Unexpired \subseteq pending /\ MaxPending \in Nat
  BY <1>1, FS_Subset, TimeAssumption DEF Unexpired
<1>4. CASE \A r \in Requests : ~AddPending(r)
  <2>1. pending' \subseteq pending
    BY <1>4, QueueShrinks
  <2>2. Unexpired' \subseteq Unexpired
    BY <1>2, <2>1 DEF Unexpired
  <2>3. IsFiniteSet(pending') /\ Cardinality(Unexpired') <= Cardinality(Unexpired)
    BY <1>1, <1>3, <2>1, <2>2, FS_Subset
  <2>4. Cardinality(Unexpired') \in Nat /\ Cardinality(Unexpired) \in Nat
    BY <1>3, <2>2, FS_Subset, FS_CardinalityType
  <2>5. Cardinality(Unexpired') <= MaxPending
    BY <1>1, <1>3, <2>3, <2>4
  <2> QED
    BY <2>3, <2>5 DEF QueueInv, SlotsBounded, Unexpired
<1>5. ASSUME NEW r \in Requests, AddPending(r) PROVE QueueInv'
  <2>1. PICK j, now : j = req[r].job /\ now = req[r].at
    OBVIOUS
  <2>2. /\ now \in Times /\ pending' = pending \cup {j} /\ SlotsHeld(now) < MaxPending
    BY <1>1, <1>5, <2>1, BusyType DEF AddPending
  <2> DEFINE held == {i \in pending : job[i].expires > now}
  <2>3. held \subseteq pending /\ IsFiniteSet(held) /\ Cardinality(held) \in Nat
    BY <1>1, FS_Subset, FS_CardinalityType
  <2>4. Cardinality(held) < MaxPending
    BY <2>2 DEF SlotsHeld
  <2>5. Unexpired' \subseteq held \cup {j}
    <3>1. ASSUME NEW i \in Unexpired', i # j PROVE i \in held
      <4>1. i \in pending /\ job'[i].expires > now
        BY <2>2, <3>1 DEF Unexpired
      <4> QED
        BY <1>2, <4>1
    <3> QED
      BY <3>1
  <2> HIDE DEF held
  <2>6. /\ IsFiniteSet(held \cup {j}) /\ IsFiniteSet(pending')
        /\ Cardinality(held \cup {j}) \in {Cardinality(held), Cardinality(held) + 1}
    BY <1>1, <2>2, <2>3, FS_AddElement
  <2>7. /\ Cardinality(Unexpired') \in Nat
        /\ Cardinality(Unexpired') <= Cardinality(held \cup {j})
    BY <2>5, <2>6, FS_Subset, FS_CardinalityType
  <2>8. Cardinality(Unexpired') <= MaxPending
    BY <1>3, <2>3, <2>4, <2>6, <2>7
  <2> QED
    BY <2>6, <2>8 DEF QueueInv, SlotsBounded, Unexpired
<1> QED
  BY <1>4, <1>5

\* Replicas that add at once never overfill the queue: the count and the insert of
\* PostgresPendingJobs.add share one transaction under the audit lock.
THEOREM QueueBounded == Spec => []SlotsBounded
<1>1. Init => QueueInv
  <2>1. ASSUME Init PROVE IsFiniteSet(pending) /\ pending = {} /\ Unexpired = {}
    BY <2>1, FS_EmptySet DEF Init, Unexpired
  <2>2. ASSUME Init PROVE Cardinality(Unexpired) = 0
    BY <2>1, <2>2, FS_EmptySet
  <2> QED
    BY <2>1, <2>2, TimeAssumption DEF QueueInv, SlotsBounded, Unexpired
<1>2. QueueInv => SlotsBounded
  BY DEF QueueInv
<1> QED
  BY <1>1, <1>2, StepQueue, HistoryInductive, PTL DEF Spec

-----------------------------------------------------------------------------
(***************************************************************************)
(* The pipeline implements the lifecycle of a job.                         *)
(***************************************************************************)

\* What the consent of a job means for its grants.
ConsentMeans(j) ==
  /\ Consented(j) => ConsentOf(j) = "spent"
  /\ ~Consented(j) /\ (\E k \in Tokens : approval[k].state = "GRANTED" /\ approval[k].job = j)
       => ConsentOf(j) = "given"
  /\ ~Consented(j) /\ ~(\E k \in Tokens : approval[k].state = "GRANTED" /\ approval[k].job = j)
       => ConsentOf(j) = "none"

LEMMA ConsentCases == \A j : ConsentMeans(j)
<1> TAKE j
<1> DEFINE states == {approval[k].state : k \in {o \in Tokens : approval[o].job = j}}
<1>1. /\ "CONSUMED" \in states <=> Consented(j)
      /\ "GRANTED" \in states <=>
           \E k \in Tokens : approval[k].state = "GRANTED" /\ approval[k].job = j
  BY DEF Consented
<1>2. ConsentOf(j) = CASE "CONSUMED" \in states -> "spent"
                       [] "CONSUMED" \notin states /\ "GRANTED" \in states -> "given"
                       [] OTHER -> "none"
  BY DEF ConsentOf
<1> HIDE DEF states
<1> QED
  BY <1>1, <1>2 DEF ConsentMeans

LEMMA ConsentCasesNext == (\A j : ConsentMeans(j))'
BY ConsentCases, PTL

\* Stages the chain, or the anchor, holds.
LEMMA StageHeld ==
  ASSUME TypeOK, NEW a, NEW j, Witnessed(a, j)
  PROVE  <<a, j>> \in StagesUpTo(anchored)
<1>1. DOMAIN chain = 1..Len(chain)
  BY DEF TypeOK
<1> QED
  BY <1>1 DEF Witnessed, Recorded, StagesUpTo

LEMMA StageAppended ==
  ASSUME TypeOK, TypeOK', AnchorBehind, NEW e \in EventType, chain' = Append(chain, e),
         anchored' = anchored
  PROVE  /\ StagesUpTo(Len(chain))' = StagesUpTo(Len(chain)) \cup {<<e.action, e.job>>}
         /\ StagesUpTo(anchored)' = StagesUpTo(anchored)
<1>1. /\ DOMAIN chain = 1..Len(chain) /\ DOMAIN chain' = 1..Len(chain') /\ anchored \in Nat
      /\ anchored <= Len(chain)
  BY DEF TypeOK, AnchorBehind
<1>2. /\ Len(chain) \in Nat /\ Len(chain') = Len(chain) + 1 /\ chain'[Len(chain) + 1] = e
      /\ \A i \in 1..Len(chain) : chain'[i] = chain[i]
  BY ChainGrows
<1>3. /\ {m \in DOMAIN chain : m <= Len(chain)} = 1..Len(chain)
      /\ {m \in DOMAIN chain' : m <= Len(chain')} = 1..Len(chain) \cup {Len(chain) + 1}
      /\ {m \in DOMAIN chain' : m <= anchored} = {m \in DOMAIN chain : m <= anchored}
  BY <1>1, <1>2
<1>4. StagesUpTo(Len(chain)) = {<<chain[i].action, chain[i].job>> : i \in 1..Len(chain)}
  BY <1>3 DEF StagesUpTo
<1>5. StagesUpTo(Len(chain))' =
        {<<chain'[i].action, chain'[i].job>> : i \in 1..Len(chain) \cup {Len(chain) + 1}}
  BY <1>3 DEF StagesUpTo
<1>6. StagesUpTo(Len(chain))' = StagesUpTo(Len(chain)) \cup {<<e.action, e.job>>}
  BY <1>2, <1>4, <1>5
<1>7. StagesUpTo(anchored)' = StagesUpTo(anchored)
  BY <1>1, <1>2, <1>3 DEF StagesUpTo
<1> QED
  BY <1>6, <1>7

\* The mapped state.
State == [j \in Jobs |-> job[j].state]
Consents == [j \in Jobs |-> ConsentOf(j)]

\* A step that leaves tables, chain and effects alone is a stutter, or the anchor
\* witnesses what is recorded.
LEMMA QuietLife ==
  ASSUME UNCHANGED <<job, approval, chain, effects>>, anchored' \in {anchored, Len(chain)}
  PROVE  [Lifecycle!Next]_(Lifecycle!vars)
<1>1. State' = State /\ Consents' = Consents
  BY DEF State, Consents, ConsentOf
<1>2. /\ StagesUpTo(Len(chain))' = StagesUpTo(Len(chain))
      /\ StagesUpTo(anchored)' \in {StagesUpTo(anchored), StagesUpTo(Len(chain))}
  BY DEF StagesUpTo
<1> QED
  BY <1>1, <1>2 DEF State, Consents, Lifecycle!Next, Lifecycle!Witness, Lifecycle!vars

\* The rows of a step that touches one job.
LEMMA StateMoved ==
  ASSUME NEW j \in Jobs, \A i \in Jobs \ {j} : job'[i] = job[i]
  PROVE  State' = [State EXCEPT ![j] = job'[j].state] /\ State[j] = job[j].state
BY DEF State

LEMMA ConsentsKept ==
  ASSUME approval' = approval
  PROVE  Consents' = Consents
BY DEF Consents, ConsentOf

\* A transaction of the pipeline is a decision of the lifecycle.
LEMMA Decided ==
  ASSUME TypeOK, TypeOK', AnchorBehind, NEW j \in Jobs, NEW e \in EventType,
         chain' = Append(chain, e), e.job = j, UNCHANGED <<anchored, effects>>,
         \A i \in Jobs \ {j} : job'[i] = job[i], NEW a, e.action = a,
         NEW from, job[j].state = from, NEW to, job'[j].state = to
  PROVE  Lifecycle!Decide(a, j, from, to)
<1>1. /\ StagesUpTo(Len(chain))' = StagesUpTo(Len(chain)) \cup {<<a, j>>}
      /\ StagesUpTo(anchored)' = StagesUpTo(anchored)
  BY StageAppended
<1>2. State' = [State EXCEPT ![j] = to] /\ State[j] = from
  BY StateMoved
<1> QED
  BY <1>1, <1>2 DEF State, Lifecycle!Decide

\* An event of a step that leaves the tables alone.
LEMMA NotedLife ==
  ASSUME TypeOK, TypeOK', AnchorBehind, NEW j \in Jobs, NEW e \in EventType,
         chain' = Append(chain, e), e.job = j, UNCHANGED <<job, approval, anchored, effects>>,
         \/ e.action \in {"HANDOFF_REJECTED", "RESULT_REJECTED"}
         \/ e.action = "HANDOFF_ISSUED" /\ j \notin Bound
  PROVE  Lifecycle!Next
<1>1. /\ StagesUpTo(Len(chain))' = StagesUpTo(Len(chain)) \cup {<<e.action, j>>}
      /\ StagesUpTo(anchored)' = StagesUpTo(anchored)
  BY StageAppended
<1>2. State' = State /\ Consents' = Consents
  BY ConsentsKept DEF State
<1>3. CASE e.action = "HANDOFF_ISSUED" /\ j \notin Bound
  BY <1>1, <1>2, <1>3 DEF State, Consents, Lifecycle!Next, Lifecycle!Issue
<1>4. CASE e.action \in {"HANDOFF_REJECTED", "RESULT_REJECTED"}
  BY <1>1, <1>2, <1>4 DEF State, Consents, Lifecycle!Next, Lifecycle!Note
<1> QED
  BY <1>3, <1>4

LEMMA NotesLife ==
  ASSUME IInv, TypeOK', HistoryInv, NEW r \in Requests, Issue(r) \/ Note(r)
  PROVE  Lifecycle!Next
<1>1. PICK j \in Jobs : j = req[r].job
  BY BusyType DEF Issue, Note, IInv
<1>2. TypeOK /\ AnchorBehind /\ Knows(r) /\ req[r].issued \in Nat /\ req[r].at \in Nat
      /\ req[r].why \in Reasons
  BY BusyType DEF IInv, HistoryInv, ThreadsKnow, Issue, Note
<1>3. UNCHANGED <<job, approval, anchored, effects>>
  BY DEF Issue, Note
<1>4. CASE Issue(r)
  <2>1. Commit(r, Event("HANDOFF_ISSUED", j, req[r].issued, "SATISFIED", NoToken))
    BY <1>1, <1>4 DEF Issue, Record
  <2>2. PICK e \in EventType : /\ chain' = Append(chain, e) /\ e.action = "HANDOFF_ISSUED"
                               /\ e.job = j
    BY <1>2, <2>1, Appended, Words
  <2>3. j \notin Bound
    BY <1>1, <1>2, <1>4 DEF Knows, Issue
  <2> QED
    BY <1>2, <1>3, <2>2, <2>3, NotedLife
<1>5. CASE Note(r)
  <2>1. PICK a \in {"HANDOFF_REJECTED", "RESULT_REJECTED"} :
               Commit(r, Event(a, j, req[r].at, req[r].why, NoToken))
    BY <1>1, <1>5 DEF Note, Record
  <2>2. PICK e \in EventType : chain' = Append(chain, e) /\ e.action = a /\ e.job = j
    BY <1>2, <2>1, Appended, Words
  <2> QED
    BY <1>2, <1>3, <2>1, <2>2, NotedLife
<1> QED
  BY <1>4, <1>5

\* Decisions that neither give nor spend a consent.
LEMMA DecisionsLife ==
  ASSUME IInv, TypeOK', HistoryInv, NEW r \in Requests,
         AddPending(r) \/ AdmitPlain(r) \/ Dispatch(r) \/ Refuse(r)
  PROVE  Lifecycle!Next
<1>1. PICK j \in Jobs : j = req[r].job
  BY BusyType DEF AddPending, AdmitPlain, Dispatch, Refuse, IInv
<1>2. TypeOK /\ AnchorBehind /\ Knows(r) /\ req[r].issued \in Nat /\ req[r].at \in Nat
      /\ req[r].why \in Reasons
  BY BusyType DEF IInv, HistoryInv, ThreadsKnow, AddPending, AdmitPlain, Dispatch, Refuse
<1>3. UNCHANGED <<approval, anchored, effects>> /\ Consents' = Consents
  BY ConsentsKept DEF AddPending, AdmitPlain, Dispatch, Refuse
<1>4. \A i \in Jobs \ {j} : job'[i] = job[i]
  BY <1>1, <1>2, StepOwn DEF Step, OwnOnly
<1>5. CASE AddPending(r)
  <2>1. Commit(r, Event("HANDOFF_ISSUED", j, req[r].issued, "PENDING_APPROVAL", NoToken))
    BY <1>1, <1>5 DEF AddPending, Record
  <2>2. PICK e \in EventType : /\ chain' = Append(chain, e) /\ e.action = "HANDOFF_ISSUED"
                               /\ e.job = j
    BY <1>2, <2>1, Appended, Words
  <2>3. job[j].state = "NONE" /\ job'[j].state = "PENDING_APPROVAL" /\ j \in Bound
    BY <1>1, <1>2, <1>5 DEF AddPending, Knows, TypeOK
  <2>4. Lifecycle!Decide("HANDOFF_ISSUED", j, "NONE", "PENDING_APPROVAL")
    BY <1>2, <1>3, <1>4, <2>2, <2>3, Decided
  <2> QED
    BY <1>3, <2>3, <2>4 DEF Consents, Lifecycle!Next, Lifecycle!Queue
<1>6. CASE AdmitPlain(r)
  <2>1. Commit(r, Event("HANDOFF_ADMITTED", j, req[r].at, "SATISFIED", NoToken))
    BY <1>1, <1>6 DEF AdmitPlain, Record
  <2>2. PICK e \in EventType : /\ chain' = Append(chain, e) /\ e.action = "HANDOFF_ADMITTED"
                               /\ e.job = j
    BY <1>2, <2>1, Appended, Words
  <2>3. job[j].state = "NONE" /\ job'[j].state = "RESERVED" /\ j \notin Bound
    BY <1>1, <1>2, <1>6 DEF AdmitPlain, TypeOK
  <2>4. Lifecycle!Decide("HANDOFF_ADMITTED", j, "NONE", "RESERVED")
    BY <1>2, <1>3, <1>4, <2>2, <2>3, Decided
  <2>5. <<"HANDOFF_ISSUED", j>> \in StagesUpTo(anchored)
    BY <1>1, <1>2, <1>6, <2>3, StageHeld DEF Knows, AdmitPlain
  <2> QED
    BY <1>3, <2>3, <2>4, <2>5 DEF Consents, Lifecycle!Next, Lifecycle!Admit
<1>7. CASE Dispatch(r)
  <2>1. Commit(r, Event("EXECUTION_DISPATCHED", j, req[r].at, "SATISFIED", NoToken))
    BY <1>1, <1>7 DEF Dispatch, Record
  <2>2. PICK e \in EventType : /\ chain' = Append(chain, e) /\ e.action = "EXECUTION_DISPATCHED"
                               /\ e.job = j
    BY <1>2, <2>1, Appended, Words
  <2>3. job[j].state = "RESERVED" /\ job'[j].state = "EXECUTION_COMMITTED"
    BY <1>1, <1>2, <1>7, MovedGoes DEF Dispatch, JobStates
  <2>4. Lifecycle!Decide("EXECUTION_DISPATCHED", j, "RESERVED", "EXECUTION_COMMITTED")
    BY <1>2, <1>3, <1>4, <2>2, <2>3, Decided
  <2>5. <<"HANDOFF_ADMITTED", j>> \in StagesUpTo(anchored)
    BY <1>1, <1>2, <1>7, StageHeld DEF Knows, Dispatch
  <2> QED
    BY <1>3, <2>4, <2>5 DEF Consents, Lifecycle!Next, Lifecycle!Dispatch
<1>8. CASE Refuse(r)
  <2>1. Commit(r, Event("HANDOFF_REJECTED", j, req[r].at, req[r].why, NoToken))
    BY <1>1, <1>8 DEF Refuse, Record
  <2>2. PICK e \in EventType : /\ chain' = Append(chain, e) /\ e.action = "HANDOFF_REJECTED"
                               /\ e.job = j
    BY <1>2, <2>1, Appended, Words
  <2>3. job[j].state = "PENDING_APPROVAL" /\ job'[j].state = "REFUSED"
    BY <1>1, <1>2, <1>8, MovedGoes DEF Refuse, Waiting, JobStates
  <2>4. Lifecycle!Decide("HANDOFF_REJECTED", j, "PENDING_APPROVAL", "REFUSED")
    BY <1>2, <1>3, <1>4, <2>2, <2>3, Decided
  <2> QED
    BY <1>3, <2>4 DEF Consents, Lifecycle!Next, Lifecycle!Refuse
<1> QED
  BY <1>5, <1>6, <1>7, <1>8

\* A waiting job has spent no token.
LEMMA WaitingUnspent ==
  ASSUME HistoryInv, NEW j, job[j].state = "PENDING_APPROVAL"
  PROVE  ~Consented(j)
BY DEF HistoryInv, TablesInv, GrantsSound, GrantSound, Consented, Admitted

\* One grant of job j changes: the consents of the others stay.
LEMMA ConsentMoved ==
  ASSUME NEW j \in Jobs, NEW k \in Tokens, \A o \in Tokens \ {k} : approval'[o] = approval[o],
         approval[k].state = "NONE" \/ approval[k].job = j, approval'[k].job = j,
         NEW c, ConsentOf(j)' = c
  PROVE  Consents' = [Consents EXCEPT ![j] = c]
<1>1. ASSUME NEW i \in Jobs \ {j} PROVE ConsentOf(i)' = ConsentOf(i)
  <2>1. Consented(i)' <=> Consented(i)
    BY <1>1 DEF Consented
  <2>2. (\E o \in Tokens : approval'[o].state = "GRANTED" /\ approval'[o].job = i)
          <=> (\E o \in Tokens : approval[o].state = "GRANTED" /\ approval[o].job = i)
    BY <1>1
  <2>3. ConsentMeans(i) /\ ConsentMeans(i)'
    BY ConsentCases, ConsentCasesNext
  <2> QED
    BY <2>1, <2>2, <2>3 DEF ConsentMeans
<1> QED
  BY <1>1 DEF Consents

LEMMA GrantLife ==
  ASSUME IInv, TypeOK', HistoryInv, NEW r \in Requests, NEW k \in Tokens, Grant(r, k)
  PROVE  Lifecycle!Next
<1>1. PICK j \in Jobs : j = req[r].job
  BY BusyType DEF Grant, IInv
<1>2. TypeOK /\ AnchorBehind /\ req[r].at \in Nat /\ approval \in [Tokens -> GrantType]
  BY BusyType DEF IInv, Grant, TypeOK
<1>3. /\ UNCHANGED <<job, anchored, effects>> /\ job[j].state = "PENDING_APPROVAL"
      /\ approval[k].state = "NONE"
  BY <1>1 DEF Grant, Waiting
<1>4. /\ approval'[k].state = "GRANTED" /\ approval'[k].job = j
      /\ \A o \in Tokens \ {k} : approval'[o] = approval[o]
  BY <1>1, <1>2 DEF Grant
<1>5. ConsentOf(j)' = "given"
  <2>1. ~Consented(j)'
    BY <1>3, <1>4, WaitingUnspent DEF Consented
  <2>2. ConsentMeans(j)'
    BY ConsentCasesNext
  <2> QED
    BY <1>4, <2>1, <2>2 DEF ConsentMeans
<1>6. Consents' = [Consents EXCEPT ![j] = "given"]
  BY <1>3, <1>4, <1>5, ConsentMoved
<1>7. Commit(r, Event("APPROVAL_GRANTED", j, req[r].at, "OPERATOR_APPROVED", k))
  BY <1>1 DEF Grant
<1>8. PICK e \in EventType : chain' = Append(chain, e) /\ e.action = "APPROVAL_GRANTED" /\ e.job = j
  BY <1>2, <1>7, Appended, Words
<1>9. Lifecycle!Decide("APPROVAL_GRANTED", j, "PENDING_APPROVAL", "PENDING_APPROVAL")
  BY <1>2, <1>3, <1>8, Decided
<1> QED
  BY <1>6, <1>9 DEF Consents, Lifecycle!Next, Lifecycle!Consent

\* A token that opens a job was handed out when its grant, and before it the
\* issuance of the job, had been witnessed.
LEMMA TokenWitnessed ==
  ASSUME IInv, HistoryInv, NEW k \in granted, k \in Tokens, NEW j, approval[k].job = j
  PROVE  /\ <<"APPROVAL_GRANTED", j>> \in StagesUpTo(anchored)
         /\ <<"HANDOFF_ISSUED", j>> \in StagesUpTo(anchored)
<1>1. TypeOK /\ anchored \in Nat /\ Len(chain) \in Nat
  BY DEF IInv, TypeOK
<1>2. PICK i \in 1..Len(chain) :
        i <= anchored /\ chain[i].action = "APPROVAL_GRANTED" /\ chain[i].token = k
  BY DEF HistoryInv, GrantsWitnessed, GrantWitnessed
<1>3. chain[i].job = j
  <2>1. Backed(chain[i])
    BY DEF HistoryInv, TablesInv, ChainBacked
  <2> QED
    BY <1>2, <2>1 DEF Backed
<1>4. Witnessed("APPROVAL_GRANTED", j)
  BY <1>2, <1>3 DEF Witnessed, Recorded
<1>5. Ordered(i)
  BY <1>1, OrderPointwise DEF HistoryInv, TablesInv
<1>6. PICK m \in 1..(i - 1) : chain[m].job = j /\ chain[m].action = "HANDOFF_ISSUED"
  BY <1>2, <1>3, <1>5, Precursors DEF Ordered
<1>7. m \in 1..Len(chain) /\ m <= anchored
  BY <1>1, <1>2
<1>8. Witnessed("HANDOFF_ISSUED", j)
  BY <1>6, <1>7 DEF Witnessed, Recorded
<1> QED
  BY <1>1, <1>4, <1>8, StageHeld

LEMMA AdmitBoundLife ==
  ASSUME IInv, TypeOK', HistoryInv, NEW r \in Requests, AdmitBound(r)
  PROVE  Lifecycle!Next
<1>1. PICK j \in Jobs, k \in Tokens : j = req[r].job /\ k = req[r].token
  BY BusyType DEF AdmitBound, Consumable, IInv
<1>2. /\ TypeOK /\ AnchorBehind /\ Knows(r) /\ req[r].at \in Nat
      /\ approval \in [Tokens -> GrantType] /\ job \in [Jobs -> RowType]
  BY BusyType DEF IInv, HistoryInv, ThreadsKnow, AdmitBound, TypeOK
<1>3. /\ UNCHANGED <<anchored, effects>> /\ job[j].state = "PENDING_APPROVAL"
      /\ approval[k].state = "GRANTED" /\ approval[k].job = j /\ j \in Bound
  BY <1>1 DEF AdmitBound, Consumable, Waiting
<1>4. /\ approval'[k].state = "CONSUMED" /\ approval'[k].job = j
      /\ \A o \in Tokens \ {k} : approval'[o] = approval[o]
  BY <1>1, <1>2, <1>3 DEF AdmitBound, GrantType
<1>5. job'[j].state = "RESERVED" /\ \A i \in Jobs \ {j} : job'[i] = job[i]
  BY <1>1, <1>2 DEF AdmitBound, RowType
<1>6. ConsentOf(j) = "given"
  <2>1. ConsentMeans(j)
    BY ConsentCases
  <2> QED
    BY <1>3, <2>1, WaitingUnspent DEF ConsentMeans
<1>7. ConsentOf(j)' = "spent"
  <2>1. ConsentMeans(j)' /\ Consented(j)'
    BY <1>4, ConsentCasesNext DEF Consented
  <2> QED
    BY <2>1 DEF ConsentMeans
<1>8. Consents' = [Consents EXCEPT ![j] = "spent"] /\ Consents[j] = "given"
  BY <1>3, <1>4, <1>6, <1>7, ConsentMoved DEF Consents
<1>9. k \in granted
  BY <1>1, <1>2, <1>3, SetsAssumption DEF Knows, AdmitBound
<1>10. /\ <<"APPROVAL_GRANTED", j>> \in StagesUpTo(anchored)
       /\ <<"HANDOFF_ISSUED", j>> \in StagesUpTo(anchored)
  BY <1>3, <1>9, TokenWitnessed
<1>11. Commit(r, Event("HANDOFF_ADMITTED", j, req[r].at, "SATISFIED", k))
  BY <1>1 DEF AdmitBound, Record
<1>12. PICK e \in EventType : chain' = Append(chain, e) /\ e.action = "HANDOFF_ADMITTED" /\ e.job = j
  BY <1>2, <1>11, Appended, Words
<1>13. Lifecycle!Decide("HANDOFF_ADMITTED", j, "PENDING_APPROVAL", "RESERVED")
  BY <1>2, <1>3, <1>5, <1>12, Decided
<1> QED
  BY <1>3, <1>8, <1>10, <1>13 DEF Consents, Lifecycle!Next, Lifecycle!Admit

LEMMA AcceptLife ==
  ASSUME IInv, TypeOK', HistoryInv, NEW r \in Requests, NEW now \in Times, Accept(r, now)
  PROVE  Lifecycle!Next
<1>1. PICK j \in Jobs : j = req[r].job
  BY BusyType DEF Accept, IInv
<1>2. TypeOK /\ AnchorBehind /\ Knows(r)
  BY DEF IInv, HistoryInv, ThreadsKnow
<1>3. /\ UNCHANGED <<approval, anchored, effects>> /\ job[j].state = "EXECUTION_COMMITTED"
      /\ accepted[j] = 0 /\ Moved(j, "COMPLETED", now) /\ req[r].pc = "accept"
  BY <1>1 DEF Accept
<1>4. job'[j].state = "COMPLETED" /\ \A i \in Jobs \ {j} : job'[i] = job[i]
  BY <1>2, <1>3, MovedGoes DEF JobStates
<1>5. now \in Nat
  BY Readings
<1>6. Commit(r, Event("RESULT_ACCEPTED", j, now, "RESULT_VERIFIED", NoToken))
  BY <1>1 DEF Accept, Record
<1>7. PICK e \in EventType : chain' = Append(chain, e) /\ e.action = "RESULT_ACCEPTED" /\ e.job = j
  BY <1>2, <1>5, <1>6, Appended, Words
<1>8. Lifecycle!Decide("RESULT_ACCEPTED", j, "EXECUTION_COMMITTED", "COMPLETED")
  BY <1>2, <1>3, <1>4, <1>7, Decided
<1>9. <<"EXECUTION_DISPATCHED", j>> \in StagesUpTo(anchored)
  BY <1>1, <1>2, <1>3, StageHeld DEF Knows
<1>10. Consents' = Consents
  BY <1>3, ConsentsKept
<1> QED
  BY <1>8, <1>9, <1>10 DEF Consents, Lifecycle!Next, Lifecycle!Complete

LEMMA WorkLife ==
  ASSUME IInv, NEW r \in Requests, Work(r)
  PROVE  Lifecycle!Next
<1>1. PICK j \in Jobs : j = req[r].job
  BY BusyType DEF Work, IInv
<1>2. /\ TypeOK /\ effects \in [Jobs -> Nat] /\ effects[j] = 0
      /\ job[j].state = "EXECUTION_COMMITTED" /\ Witnessed("EXECUTION_DISPATCHED", j)
  BY <1>1 DEF IInv, TypeOK, Stages, Stage, Work
<1>3. effects' = [effects EXCEPT ![j] = 1] /\ UNCHANGED <<job, approval, chain, anchored>>
  BY <1>1, <1>2 DEF Work, dbVars
<1>4. <<"EXECUTION_DISPATCHED", j>> \in StagesUpTo(anchored)
  BY <1>2, StageHeld
<1>5. /\ State' = State /\ Consents' = Consents /\ State[j] = "EXECUTION_COMMITTED"
      /\ StagesUpTo(Len(chain))' = StagesUpTo(Len(chain))
      /\ StagesUpTo(anchored)' = StagesUpTo(anchored)
  BY <1>2, <1>3, ConsentsKept DEF State, StagesUpTo
<1> QED
  BY <1>2, <1>3, <1>4, <1>5 DEF State, Consents, Lifecycle!Next, Lifecycle!Effect

\* Every step of the pipeline is a step of the lifecycle or leaves it alone.
LEMMA StepLife ==
  ASSUME IInv, HistoryInv, [Next]_vars
  PROVE  [Lifecycle!Next]_(Lifecycle!vars)
<1> USE DEF dbVars
<1>1. TypeOK'
  BY StepType DEF IInv
<1>2. ASSUME NEW r \in Requests, Step(r) PROVE [Lifecycle!Next]_(Lifecycle!vars)
  <2>1. ASSUME \/ AdmitRefused(r) \/ Signed(r) \/ Unsigned(r) \/ Ack(r) \/ AckFail(r)
               \/ Recover(r) \/ RecoverFail(r) \/ DbFail(r)
               \/ \E now \in Times : Preflight(r, now) \/ Reject(r, now)
        PROVE  [Lifecycle!Next]_(Lifecycle!vars)
    <3>1. UNCHANGED <<job, approval, chain, effects>> /\ anchored' \in {anchored, Len(chain)}
      BY <2>1 DEF AdmitRefused, Signed, Unsigned, Ack, AckFail, Recover, RecoverFail, DbFail,
                  Preflight, Reject, AnchorAll
    <3> QED
      BY <3>1, QuietLife
  <2> QED
    BY <1>1, <1>2, <2>1, NotesLife, DecisionsLife, GrantLife, AdmitBoundLife, AcceptLife, WorkLife
    DEF Step
<1>3. ASSUME NEW r \in Requests, Arrive(r) PROVE [Lifecycle!Next]_(Lifecycle!vars)
  <2>1. UNCHANGED <<job, approval, chain, effects, anchored>>
    BY <1>3 DEF Arrive, Submit, Approve, Complete
  <2> QED
    BY <2>1, QuietLife
<1>4. ASSUME NEW i \in Instances, Crash(i) \/ \E mode \in Modes : Start(i, mode)
      PROVE  [Lifecycle!Next]_(Lifecycle!vars)
  <2>1. UNCHANGED <<job, approval, chain, effects>> /\ anchored' \in {anchored, Len(chain)}
    BY <1>4 DEF Crash, Start, AnchorAll
  <2> QED
    BY <2>1, QuietLife
<1>5. CASE UNCHANGED vars
  <2>1. UNCHANGED <<job, approval, chain, effects, anchored>>
    BY <1>5 DEF vars
  <2> QED
    BY <2>1, QuietLife
<1> QED
  BY <1>2, <1>3, <1>4, <1>5 DEF Next

LEMMA InitLife == Init => Lifecycle!Init
<1> SUFFICES ASSUME Init PROVE Lifecycle!Init
  OBVIOUS
<1>1. State = [j \in Jobs |-> "NONE"]
  BY DEF Init, NoRow, State
<1>2. ASSUME NEW j \in Jobs PROVE ConsentOf(j) = "none"
  <2>1. \A k \in Tokens : approval[k].state = "NONE"
    BY DEF Init, NoGrant
  <2>2. ConsentMeans(j)
    BY ConsentCases
  <2> QED
    BY <2>1, <2>2 DEF ConsentMeans, Consented
<1>3. StagesUpTo(Len(chain)) = {} /\ StagesUpTo(anchored) = {}
  BY DEF Init, StagesUpTo
<1>4. effects = [j \in Jobs |-> 0]
  BY DEF Init
<1> QED
  BY <1>1, <1>2, <1>3, <1>4 DEF State, Lifecycle!Init

\* The durable pipeline implements JobLifecycle, for any number of threads,
\* instances, tokens and jobs: whichever instance acts and whatever fails, a stage
\* follows only stages the anchor holds and a consent is spent once.
THEOREM Implements == Spec => ImplementsLifecycle
BY InitLife, StepLife, HistoryInductive, PTL DEF Spec, ImplementsLifecycle, Lifecycle!Spec
=============================================================================

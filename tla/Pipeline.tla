------------------------------ MODULE Pipeline ------------------------------
(***************************************************************************)
(* The durable job pipeline of `python -m geniusnew serve': the request    *)
(* paths submit, approve and complete (geniusnew/wiring.py), the           *)
(* PostgreSQL stores they share (database.py, audit_store.py), the worker  *)
(* boundary and the external anchor.                                       *)
(*                                                                         *)
(* A request is a thread of one service instance.  It advances between the *)
(* points where another thread or another instance can interleave: every   *)
(* database transaction is one step, and so is every answer of the anchor, *)
(* the worker or the clock.  Any of them may fail, and an instance may     *)
(* crash between any two steps.                                            *)
(*                                                                         *)
(* Abstractions.  Job ids are fresh (http_entry draws 128 random bits), so *)
(* a job has one handoff and its id stands for the handoff digest.  Signed *)
(* bytes always verify.  Wall clocks are neither monotone nor shared: a    *)
(* clock reading is any element of Times.                                  *)
(***************************************************************************)
EXTENDS Naturals, Sequences, FiniteSets

CONSTANTS
  Jobs,         \* job ids the HTTP entry may draw
  Bound,        \* those whose grant requires an approval
  Requests,     \* concurrent request threads
  Instances,    \* service processes on the same database
  Modes,        \* how an operator starts one: worker "routed" or "unrouted"
  Inst,         \* the instance a request thread belongs to
  Tokens,       \* approval tokens the token source may draw
  NoToken,      \* no token, or a presented one that was never granted
  Nobody,       \* no request: the audit lock is free
  Times,        \* clock readings
  HandoffTTL,   \* policy.handoff_ttl_seconds
  ApprovalTTL,  \* wiring._APPROVAL_TTL_SECONDS
  MaxPending,   \* wiring._MAX_PENDING
  MaxRecords    \* audit records that still fit one anchor request

ASSUME SetsAssumption ==
  /\ Bound \subseteq Jobs
  /\ Inst \in [Requests -> Instances]
  /\ Modes \subseteq {"routed", "unrouted"}
  /\ Nobody \notin Requests \cup Jobs
  /\ NoToken \notin Tokens

ASSUME TimeAssumption ==
  /\ Times \subseteq Nat \ {0}
  /\ HandoffTTL \in Nat \ {0}
  /\ ApprovalTTL \in Nat \ {0}
  /\ MaxPending \in Nat
  /\ MaxRecords \in Nat

VARIABLES
  job,        \* public.job_ledger; state "NONE" means no row
  pending,    \* public.pending_jobs
  approval,   \* public.approval_records through their current pointer
  accepted,   \* public.acceptance_ledger: accepted_at, or 0 without a row
  chain,      \* public.audit_chain with its signed heads
  anchored,   \* records the external anchor has committed
  lock,       \* holder of the advisory audit lock
  up,         \* instance: "down", or serving with or without the worker
  reanchor,   \* _AnchoredAudit._needs_reanchor of an instance
  req,        \* the request threads
  used,       \* job ids drawn so far
  granted,    \* tokens whose grant reached the approver
  told,       \* final answers clients have received
  effects     \* times the work function ran for a job

dbVars == <<job, pending, approval, accepted, chain>>
vars == <<dbVars, anchored, lock, up, reanchor, req, used, granted, told, effects>>

-----------------------------------------------------------------------------
(***************************************************************************)
(* State.                                                                  *)
(***************************************************************************)
JobStates == {"NONE", "PENDING_APPROVAL", "RESERVED", "EXECUTION_COMMITTED",
              "COMPLETED", "REFUSED"}
Admitted == {"RESERVED", "EXECUTION_COMMITTED", "COMPLETED"}
Executing == {"EXECUTION_COMMITTED", "COMPLETED"}

NoRow == [state |-> "NONE", created |-> 0, reserved |-> 0, updated |-> 0, expires |-> 0]
NoGrant == [state |-> "NONE", job |-> Nobody, issued |-> 0, expires |-> 0, changed |-> 0]

\* Reasons that end a pending job (audit_store._TERMINAL_PENDING_REFUSALS).
TerminalRefusals == {"PENDING_APPROVAL_EXPIRED", "PENDING_DISPATCH_REFUSED"}

\* A refusal that is only recorded and leaves the ledgers alone.
NotedRefusals == {"JOB_ID_REUSED", "HANDOFF_NOT_VALID", "APPROVAL_NOT_VALID",
                  "EXECUTION_REFUSED", "RESULT_NOT_VALID"}

\* Steps that need the audit lock, and the same steps once committed and
\* waiting for the anchor's acknowledgement.
RecorderPcs == {"issue", "add", "grant", "admit", "dispatch", "accept", "refuse", "note"}
AckPcs == {"issueAck", "addAck", "grantAck", "admitAck", "dispatchAck",
           "acceptAck", "refuseAck", "noteAck"}
PCs == {"idle", "avail", "work", "working"} \cup RecorderPcs \cup AckPcs

NoRequest == [pc |-> "idle", job |-> Nobody, token |-> NoToken, at |-> 0,
              issued |-> 0, why |-> "NONE"]

Event(action, j, at, reason, k) ==
  [action |-> action, job |-> j, at |-> at, reason |-> reason, token |-> k]

Init ==
  /\ job = [j \in Jobs |-> NoRow]
  /\ pending = {}
  /\ approval = [k \in Tokens |-> NoGrant]
  /\ accepted = [j \in Jobs |-> 0]
  /\ chain = << >>
  /\ anchored = 0
  /\ lock = Nobody
  /\ up = [i \in Instances |-> "down"]
  /\ reanchor = [i \in Instances |-> FALSE]
  /\ req = [r \in Requests |-> NoRequest]
  /\ used = {}
  /\ granted = {}
  /\ told = {}
  /\ effects = [j \in Jobs |-> 0]

-----------------------------------------------------------------------------
(***************************************************************************)
(* Building blocks.                                                        *)
(***************************************************************************)

\* contracts._from_object: issued_at <= now < expires_at.
Valid(issued, now) == issued <= now /\ now < issued + HandoffTTL

Goto(r, pc) == req' = [req EXCEPT ![r].pc = pc]
Refused(r, pc, why, at) ==
  req' = [req EXCEPT ![r].pc = pc, ![r].why = why, ![r].at = at]
End(r) == req' = [req EXCEPT ![r] = NoRequest]

\* The shared connection's lock: only another thread of the same instance that
\* is inside the recorder keeps r from reading.
CanRead(r) == lock # Nobody => Inst[lock] # Inst[r]

\* _AnchoredAudit.atomic and append up to the transaction: the audit lock is
\* free, or r took it in Recover; a head still to be acknowledged comes first.
CanMutate(r) == lock = r \/ (lock = Nobody /\ ~reanchor[Inst[r]])

\* PostgresAuditChain._append inside the caller's transaction; the request then
\* holds the lock until the anchor has answered.
Commit(r, e) ==
  /\ CanMutate(r)
  /\ Len(chain) < MaxRecords
  /\ chain' = Append(chain, e)
  /\ lock' = r
Record(r, e, next) == Commit(r, e) /\ Goto(r, next)

\* The update of a row's state; the job's identity and its expiry are immutable.
Moved(j, state, at) == job' = [job EXCEPT ![j] = [@ EXCEPT !.state = state, !.updated = at]]

\* A transaction that refused: rolled back, both locks released.
Released(r) == CanMutate(r) /\ lock' = Nobody

-----------------------------------------------------------------------------
(***************************************************************************)
(* submit (wiring._submitter): issue a handoff; an approval-bound one is   *)
(* stored as pending, any other is recorded and run.                       *)
(***************************************************************************)

\* Orchestrator.route: the worker the grant names is configured.
Routed(r) == up[Inst[r]] = "routed"

\* issue_job at the clock reading issued, and the reading pending_at of a job
\* that has to wait.
Submit(r, j, issued, at) ==
  /\ Routed(r)
  /\ req[r].pc = "idle"
  /\ j \notin used
  /\ used' = used \cup {j}
  /\ req' = [req EXCEPT ![r] = [NoRequest EXCEPT
                !.pc = IF j \in Bound THEN "add" ELSE "issue",
                !.job = j, !.at = IF j \in Bound THEN at ELSE issued,
                !.issued = issued]]
  /\ UNCHANGED <<dbVars, anchored, lock, up, reanchor, granted, told, effects>>

\* recorder.append(issued_event()) for a job that needs no approval.
Issue(r) ==
  /\ req[r].pc = "issue"
  /\ Record(r, Event("HANDOFF_ISSUED", req[r].job, req[r].issued, "SATISFIED", NoToken),
            "issueAck")
  /\ UNCHANGED <<job, pending, approval, accepted, anchored, up, reanchor, used,
                 granted, told, effects>>

\* PostgresPendingJobs.add: expired rows stay but hold no slot of the bound.
MutantSlotsHeld(now) == Cardinality({j \in pending : job[j].expires <= now})
SlotsHeld(now) == Cardinality({j \in pending : job[j].expires > now})
AddPending(r) ==
  LET j == req[r].job
      now == req[r].at
      issued == req[r].issued
  IN /\ req[r].pc = "add"
     /\ Valid(issued, now)
     /\ SlotsHeld(now) < MaxPending
     /\ job[j].state = "NONE"
     /\ job' = [job EXCEPT ![j] = [state |-> "PENDING_APPROVAL", created |-> issued,
                   reserved |-> 0, updated |-> now, expires |-> issued + HandoffTTL]]
     /\ pending' = pending \cup {j}
     /\ Record(r, Event("HANDOFF_ISSUED", j, issued, "PENDING_APPROVAL", NoToken), "addAck")
     /\ UNCHANGED <<approval, accepted, anchored, up, reanchor, used, granted, told, effects>>

-----------------------------------------------------------------------------
(***************************************************************************)
(* approve (Service.approve): an approver turns a waiting job into a       *)
(* one-time token.                                                         *)
(***************************************************************************)

\* PostgresPendingJobs.peek, the clock reading and create_scope.  A job whose
\* handoff has expired is refused for good instead.
Approve(r, j, now) ==
  /\ up[Inst[r]] # "down"
  /\ req[r].pc = "idle"
  /\ CanRead(r)
  /\ j \in pending
  /\ job[j].created <= now
  /\ req' = [req EXCEPT ![r] = [NoRequest EXCEPT
                !.pc = IF now < job[j].expires THEN "grant" ELSE "refuse",
                !.why = IF now < job[j].expires THEN "NONE" ELSE "PENDING_APPROVAL_EXPIRED",
                !.job = j, !.at = now, !.issued = job[j].created]]
  /\ UNCHANGED <<dbVars, anchored, lock, up, reanchor, used, granted, told, effects>>

\* The row a grant, a consumption and a refusal lock and look at again inside
\* their transaction.
MutantWaiting(j) == TRUE
Waiting(j) == job[j].state = "PENDING_APPROVAL"

\* A second grant waits until the first has expired.
MutantLiveGrant(j, now) == FALSE
LiveGrant(j, now) == \E k \in Tokens : /\ approval[k].state = "GRANTED"
                                       /\ approval[k].job = j
                                       /\ approval[k].expires > now

\* PostgresApprovalStore.grant.
Grant(r, k) ==
  LET j == req[r].job
      now == req[r].at
      ends == IF now + ApprovalTTL < job[j].expires THEN now + ApprovalTTL ELSE job[j].expires
  IN /\ req[r].pc = "grant"
     /\ Waiting(j)
     /\ approval[k].state = "NONE"
     /\ ~ LiveGrant(j, now)
     /\ approval' = [approval EXCEPT ![k] = [state |-> "GRANTED", job |-> j, issued |-> now,
                                             expires |-> ends, changed |-> now]]
     /\ Commit(r, Event("APPROVAL_GRANTED", j, now, "OPERATOR_APPROVED", k))
     /\ req' = [req EXCEPT ![r].pc = "grantAck", ![r].token = k]
     /\ UNCHANGED <<job, pending, accepted, anchored, up, reanchor, used, granted, told, effects>>

-----------------------------------------------------------------------------
(***************************************************************************)
(* complete and the run both paths share: preflight, admission at the      *)
(* gateway, dispatch, work, acceptance by the verifier.                    *)
(***************************************************************************)

\* Mutant: the run goes on without a clock reading of its own.
MutantComplete(r, j, k) ==
  /\ up[Inst[r]] # "down"
  /\ req[r].pc = "idle"
  /\ CanRead(r)
  /\ j \in pending
  /\ req' = [req EXCEPT ![r] = [NoRequest EXCEPT
                !.pc = "admit", !.job = j, !.token = k, !.issued = job[j].created]]
  /\ UNCHANGED <<dbVars, anchored, lock, up, reanchor, used, granted, told, effects>>

\* PostgresPendingJobs.take only reads: the row goes with the admission.
Complete(r, j, k) ==
  /\ up[Inst[r]] # "down"
  /\ req[r].pc = "idle"
  /\ CanRead(r)
  /\ j \in pending
  /\ req' = [req EXCEPT ![r] = [NoRequest EXCEPT
                !.pc = "avail", !.job = j, !.token = k, !.issued = job[j].created]]
  /\ UNCHANGED <<dbVars, anchored, lock, up, reanchor, used, granted, told, effects>>

\* dispatch_available: no row, or the row of this very handoff still waiting.
Available(j) == job[j].state \in {"NONE", "PENDING_APPROVAL"}

\* dispatch up to _available, at the clock reading dispatch_at.
Preflight(r, now) ==
  LET j == req[r].job
  IN /\ req[r].pc = "avail"
     /\ Routed(r) => CanRead(r)
     /\ \/ ~Routed(r) /\ Refused(r, "refuse", "PENDING_DISPATCH_REFUSED", now)
        \/ Routed(r) /\ ~Available(j) /\ Refused(r, "note", "JOB_ID_REUSED", now)
        \/ Routed(r) /\ Available(j) /\ Refused(r, "admit", "NONE", now)
     /\ UNCHANGED <<dbVars, anchored, lock, up, reanchor, used, granted, told, effects>>

\* PostgresApprovalStore.consume of token k for job j.
Consumable(k, j, now) ==
  /\ k \in Tokens
  /\ approval[k].state = "GRANTED"
  /\ approval[k].job = j
  /\ approval[k].issued <= now /\ now < approval[k].expires
  /\ Waiting(j)

\* Gateway.admit without approval, then PostgresJobLedger.reserve.
AdmitPlain(r) ==
  LET j == req[r].job
      now == req[r].at
  IN /\ req[r].pc = "admit"
     /\ j \notin Bound
     /\ Valid(req[r].issued, now)
     /\ job[j].state = "NONE"
     /\ job' = [job EXCEPT ![j] = [state |-> "RESERVED", created |-> now, reserved |-> now,
                   updated |-> now, expires |-> req[r].issued + HandoffTTL]]
     /\ Record(r, Event("HANDOFF_ADMITTED", j, now, "SATISFIED", NoToken), "admitAck")
     /\ UNCHANGED <<pending, approval, accepted, anchored, up, reanchor, used, granted,
                    told, effects>>

\* Gateway.admit with approval: the token is spent, the job leaves the queue
\* and is reserved, in the transaction of HANDOFF_ADMITTED.
AdmitBound(r) ==
  LET j == req[r].job
      k == req[r].token
      now == req[r].at
  IN /\ req[r].pc = "admit"
     /\ j \in Bound
     /\ Valid(req[r].issued, now)
     /\ Consumable(k, j, now)
     /\ approval' = [approval EXCEPT ![k] = [@ EXCEPT !.state = "CONSUMED", !.changed = now]]
     /\ pending' = pending \ {j}
     /\ job' = [job EXCEPT ![j] = [@ EXCEPT !.state = "RESERVED", !.reserved = now,
                                            !.updated = now]]
     /\ Record(r, Event("HANDOFF_ADMITTED", j, now, "SATISFIED", k), "admitAck")
     /\ UNCHANGED <<accepted, anchored, up, reanchor, used, granted, told, effects>>

\* GatewayRejected: an approval store that cannot answer reads as
\* APPROVAL_NOT_VALID too, whatever the token.
AdmitRefused(r) ==
  LET j == req[r].job
      now == req[r].at
      valid == Valid(req[r].issued, now)
  IN /\ req[r].pc = "admit"
     /\ j \in Bound \/ ~valid
     /\ Released(r)
     /\ IF j \in Bound /\ now >= req[r].issued + HandoffTTL
          THEN Refused(r, "refuse", "PENDING_APPROVAL_EXPIRED", now)
          ELSE Refused(r, "note", IF valid THEN "APPROVAL_NOT_VALID" ELSE "HANDOFF_NOT_VALID",
                       now)
     /\ UNCHANGED <<dbVars, anchored, up, reanchor, used, granted, told, effects>>

\* PostgresJobLedger.commit_execution, before the worker sees the permit.
Dispatch(r) ==
  LET j == req[r].job
  IN /\ req[r].pc = "dispatch"
     /\ job[j].state = "RESERVED"
     /\ Moved(j, "EXECUTION_COMMITTED", req[r].at)
     /\ Record(r, Event("EXECUTION_DISPATCHED", j, req[r].at, "SATISFIED", NoToken),
               "dispatchAck")
     /\ UNCHANGED <<pending, approval, accepted, anchored, up, reanchor, used, granted,
                    told, effects>>

\* Mutant: the permit stays usable.
MutantWork(r) ==
  /\ req[r].pc = "work"
  /\ effects' = [effects EXCEPT ![req[r].job] = @ + 1]
  /\ UNCHANGED <<dbVars, anchored, lock, up, reanchor, req, used, granted, told>>

\* WorkerRunner.execute: the permit is used once, then the work function runs.
Work(r) ==
  /\ req[r].pc = "work"
  /\ effects' = [effects EXCEPT ![req[r].job] = @ + 1]
  /\ Goto(r, "working")
  /\ UNCHANGED <<dbVars, anchored, lock, up, reanchor, used, granted, told>>

\* A signed result, before or after the work function ran: SUCCEEDED or FAILED.
Signed(r) ==
  /\ req[r].pc \in {"work", "working"}
  /\ Goto(r, "accept")
  /\ UNCHANGED <<dbVars, anchored, lock, up, reanchor, used, granted, told, effects>>

\* DispatchAttempted: boundary error, time over, no signed wire.
Unsigned(r) ==
  /\ req[r].pc \in {"work", "working"}
  /\ Refused(r, "note", "EXECUTION_REFUSED", req[r].at)
  /\ UNCHANGED <<dbVars, anchored, lock, up, reanchor, used, granted, told, effects>>

\* ResultVerifier.accept at the clock reading verify_at; produced_at is the
\* dispatch time, so a clock that stepped back makes the result come from the
\* future.  The insert's triggers complete the job.
InTime(r, now) == Valid(req[r].issued, now) /\ req[r].at <= now
Accept(r, now) ==
  LET j == req[r].job
  IN /\ req[r].pc = "accept"
     /\ InTime(r, now)
     /\ accepted[j] = 0
     /\ job[j].state = "EXECUTION_COMMITTED"
     /\ accepted' = [accepted EXCEPT ![j] = now]
     /\ Moved(j, "COMPLETED", now)
     /\ Record(r, Event("RESULT_ACCEPTED", j, now, "RESULT_VERIFIED", NoToken), "acceptAck")
     /\ UNCHANGED <<pending, approval, anchored, up, reanchor, used, granted, told, effects>>

\* Mutant: a rejected result sends the job to the worker again.
MutantReject(r, now) ==
  /\ req[r].pc = "accept"
  /\ Released(r)
  /\ Goto(r, "work")
  /\ UNCHANGED <<dbVars, anchored, up, reanchor, used, granted, told, effects>>

\* Rejected: also a wire the verifier refuses whatever the time.
Reject(r, now) ==
  /\ req[r].pc = "accept"
  /\ Released(r)
  /\ Refused(r, "note", "RESULT_NOT_VALID", now)
  /\ UNCHANGED <<dbVars, anchored, up, reanchor, used, granted, told, effects>>

-----------------------------------------------------------------------------
(***************************************************************************)
(* Refusals.                                                               *)
(***************************************************************************)

\* _append_event of a refusal that changes no ledger.
Note(r) ==
  /\ req[r].pc = "note"
  /\ Record(r, Event(IF req[r].why = "RESULT_NOT_VALID" THEN "RESULT_REJECTED"
                                                        ELSE "HANDOFF_REJECTED",
                     req[r].job, req[r].at, req[r].why, NoToken), "noteAck")
  /\ UNCHANGED <<job, pending, approval, accepted, anchored, up, reanchor, used, granted,
                 told, effects>>

\* _atomic_pending_refusal: PostgresPendingJobs.refuse with its evidence.
Refuse(r) ==
  LET j == req[r].job
  IN /\ req[r].pc = "refuse"
     /\ Waiting(j)
     /\ job[j].created <= req[r].at
     /\ pending' = pending \ {j}
     /\ Moved(j, "REFUSED", req[r].at)
     /\ Record(r, Event("HANDOFF_REJECTED", j, req[r].at, req[r].why, NoToken), "refuseAck")
     /\ UNCHANGED <<approval, accepted, anchored, up, reanchor, used, granted, told, effects>>

-----------------------------------------------------------------------------
(***************************************************************************)
(* The recorder (_AnchoredAudit): the lock outlives the transaction until  *)
(* the anchor has answered for the whole committed chain.                  *)
(***************************************************************************)

\* _commit_locked: the anchor takes the whole chain, or a longer one than it
\* holds, never a shorter one.
MutantAnchorAll == UNCHANGED anchored
AnchorAll == anchored <= Len(chain) /\ anchored' = Len(chain)

\* What the request does once its event is anchored.
AfterAck == [issueAck |-> "avail", admitAck |-> "dispatch", dispatchAck |-> "work"]
Ack(r) ==
  LET pc == req[r].pc
      j == req[r].job
  IN /\ pc \in AckPcs
     /\ AnchorAll
     /\ reanchor' = [reanchor EXCEPT ![Inst[r]] = FALSE]
     /\ lock' = Nobody
     /\ IF pc \in DOMAIN AfterAck THEN Goto(r, AfterAck[pc]) ELSE End(r)
     /\ granted' = IF pc = "grantAck" THEN granted \cup {req[r].token} ELSE granted
     /\ told' = CASE pc = "addAck" -> told \cup {<<"PENDING_APPROVAL", j>>}
                  [] pc = "acceptAck" -> told \cup {<<"ACCEPTED", j>>}
                  [] OTHER -> told
     /\ UNCHANGED <<dbVars, up, used, effects>>

\* Mutant: the worker is called although the anchor did not answer.
MutantAbandon(r) == IF req[r].pc = "dispatchAck" THEN Goto(r, "work") ELSE End(r)
\* The exception leaves every caller up to the HTTP entry.
Abandon(r) == End(r)

\* Mutant: the token is handed out although the anchor did not answer.
MutantAckFail(r) ==
  /\ req[r].pc \in AckPcs
  /\ anchored' \in {anchored, Len(chain)}
  /\ reanchor' = [reanchor EXCEPT ![Inst[r]] = TRUE]
  /\ lock' = Nobody
  /\ Abandon(r)
  /\ granted' = IF req[r].pc = "grantAck" THEN granted \cup {req[r].token} ELSE granted
  /\ UNCHANGED <<dbVars, up, used, told, effects>>

\* The anchor did not answer: it may have committed or not.  The mutation
\* stays, the request is refused, the instance remembers the debt.
AckFail(r) ==
  /\ req[r].pc \in AckPcs
  /\ anchored' \in {anchored, Len(chain)}
  /\ reanchor' = [reanchor EXCEPT ![Inst[r]] = TRUE]
  /\ lock' = Nobody
  /\ Abandon(r)
  /\ UNCHANGED <<dbVars, up, used, granted, told, effects>>

\* _recover_locked: the debt is paid before the next mutation ...
Recover(r) ==
  /\ req[r].pc \in RecorderPcs
  /\ lock = Nobody
  /\ reanchor[Inst[r]]
  /\ AnchorAll
  /\ reanchor' = [reanchor EXCEPT ![Inst[r]] = FALSE]
  /\ lock' = r
  /\ UNCHANGED <<dbVars, up, req, used, granted, told, effects>>

\* ... or the request is refused and nothing is mutated.
RecoverFail(r) ==
  /\ req[r].pc \in RecorderPcs
  /\ lock = Nobody
  /\ reanchor[Inst[r]]
  /\ anchored' \in {anchored, Len(chain)}
  /\ End(r)
  /\ UNCHANGED <<dbVars, lock, up, reanchor, used, granted, told, effects>>

\* The transaction, or the wait for the lock of another instance, failed; so
\* does an append to a full chain and a mutation its store refuses.
DbFail(r) ==
  /\ req[r].pc \in RecorderPcs \cup {"avail"}
  /\ lock = r \/ CanRead(r)
  /\ lock' = IF lock = r THEN Nobody ELSE lock
  /\ End(r)
  /\ UNCHANGED <<dbVars, anchored, up, reanchor, used, granted, told, effects>>

-----------------------------------------------------------------------------
(***************************************************************************)
(* What build and open_database check before the listener opens.           *)
(***************************************************************************)
Rows(states) == {j \in Jobs : job[j].state \in states}
EventsOf(action) == {i \in DOMAIN chain : chain[i].action = action}

\* Equal Counters of rows and events, each row being counted once.
Reconciled(R, E, Match(_, _)) ==
  /\ \A x \in R : \E i \in E : \A n \in E : Match(x, n) <=> n = i
  /\ \A i \in E : \E x \in R : Match(x, i)

JobLedgerChecked ==
  \A j \in Rows(JobStates \ {"NONE"}) :
    /\ 1 <= job[j].created
    /\ job[j].created <= job[j].updated
    /\ job[j].created < job[j].expires
    /\ \/ job[j].reserved = 0
       \/ job[j].created <= job[j].reserved /\ job[j].reserved <= job[j].updated

PendingChecked == pending = Rows({"PENDING_APPROVAL"})

\* _check_approvals with _approval_record.
ApprovalsChecked ==
  \A k \in Tokens : approval[k].state # "NONE" =>
    LET a == approval[k] IN
    /\ a.issued < a.expires
    /\ a.expires <= job[a.job].expires
    /\ a.issued <= a.changed
    /\ a.state = "CONSUMED" =>
         /\ a.changed < a.expires
         /\ job[a.job].state \in Admitted
         /\ job[a.job].reserved = a.changed
         /\ a.job \notin pending
         /\ \A o \in Tokens \ {k} : approval[o].state = "CONSUMED" => approval[o].job # a.job

AcceptanceChecked ==
  /\ {j \in Jobs : accepted[j] # 0} = Rows({"COMPLETED"})
  /\ \A j \in Rows({"COMPLETED"}) :
       /\ job[j].reserved <= accepted[j]
       /\ accepted[j] < job[j].expires
       /\ job[j].updated = accepted[j]

\* PostgresAuditChain.check_core_bindings.
BindingsChecked ==
  /\ Reconciled(Rows(JobStates \ {"NONE"}),
                {i \in EventsOf("HANDOFF_ISSUED") :
                   chain[i].reason = "PENDING_APPROVAL" \/ job[chain[i].job].state # "NONE"},
                LAMBDA j, i : chain[i].job = j)
  /\ Reconciled(Rows(Admitted), EventsOf("HANDOFF_ADMITTED"),
                LAMBDA j, i : chain[i].job = j /\ chain[i].at = job[j].reserved)
  /\ Reconciled(Rows(Executing), EventsOf("EXECUTION_DISPATCHED"),
                LAMBDA j, i : chain[i].job = j /\ chain[i].at = job[j].reserved)
  /\ Reconciled(Rows({"REFUSED"}),
                {i \in EventsOf("HANDOFF_REJECTED") : chain[i].reason \in TerminalRefusals},
                LAMBDA j, i : chain[i].job = j /\ chain[i].at = job[j].updated)
  /\ Reconciled({k \in Tokens : approval[k].state # "NONE"}, EventsOf("APPROVAL_GRANTED"),
                LAMBDA k, i : /\ chain[i].token = k
                              /\ chain[i].at = approval[k].issued
                              /\ chain[i].job = approval[k].job)
  /\ Reconciled({k \in Tokens : approval[k].state = "CONSUMED"},
                {i \in EventsOf("HANDOFF_ADMITTED") : chain[i].token # NoToken},
                LAMBDA k, i : /\ chain[i].token = k
                              /\ chain[i].at = approval[k].changed
                              /\ chain[i].job = approval[k].job)
  /\ Reconciled({j \in Jobs : accepted[j] # 0}, EventsOf("RESULT_ACCEPTED"),
                LAMBDA j, i : chain[i].job = j /\ chain[i].at = accepted[j])

StartChecks ==
  /\ JobLedgerChecked
  /\ PendingChecked
  /\ ApprovalsChecked
  /\ AcceptanceChecked
  /\ BindingsChecked
  /\ anchored <= Len(chain)

\* A start, with the worker the policy names configured or not.
Start(i, mode) ==
  /\ up[i] = "down"
  /\ lock = Nobody
  /\ StartChecks
  /\ AnchorAll
  /\ up' = [up EXCEPT ![i] = mode]
  /\ UNCHANGED <<dbVars, lock, reanchor, req, used, granted, told, effects>>

\* The process dies: its threads, its session's lock and its debt are gone.
Crash(i) ==
  LET mine == {r \in Requests : Inst[r] = i}
  IN /\ up[i] # "down"
     /\ up' = [up EXCEPT ![i] = "down"]
     /\ req' = [r \in Requests |-> IF r \in mine THEN NoRequest ELSE req[r]]
     /\ lock' = IF lock \in mine THEN Nobody ELSE lock
     /\ reanchor' = [reanchor EXCEPT ![i] = FALSE]
     /\ UNCHANGED <<dbVars, anchored, used, granted, told, effects>>

-----------------------------------------------------------------------------
Arrive(r) ==
  \/ \E j \in Jobs, issued, at \in Times : Submit(r, j, issued, at)
  \/ \E j \in Jobs, now \in Times : Approve(r, j, now)
  \/ \E j \in Jobs, k \in granted \cup {NoToken} : Complete(r, j, k)

Step(r) ==
  \/ Issue(r) \/ AddPending(r)
  \/ \E k \in Tokens : Grant(r, k)
  \/ \E now \in Times : Preflight(r, now) \/ Accept(r, now) \/ Reject(r, now)
  \/ AdmitPlain(r) \/ AdmitBound(r) \/ AdmitRefused(r)
  \/ Dispatch(r) \/ Work(r) \/ Signed(r) \/ Unsigned(r)
  \/ Note(r) \/ Refuse(r)
  \/ Ack(r) \/ AckFail(r) \/ Recover(r) \/ RecoverFail(r) \/ DbFail(r)

Next ==
  \/ \E r \in Requests : Arrive(r) \/ Step(r)
  \/ \E i \in Instances : Crash(i) \/ \E mode \in Modes : Start(i, mode)

Spec == Init /\ [][Next]_vars

\* Threads are scheduled, and database, anchor and worker answer or time out.
Fairness == \A r \in Requests : WF_vars(Step(r))

-----------------------------------------------------------------------------
(***************************************************************************)
(* Properties.                                                             *)
(***************************************************************************)
Reasons == TerminalRefusals \cup NotedRefusals \cup
           {"NONE", "SATISFIED", "PENDING_APPROVAL", "OPERATOR_APPROVED", "RESULT_VERIFIED"}
Actions == {"HANDOFF_ISSUED", "APPROVAL_GRANTED", "HANDOFF_ADMITTED", "EXECUTION_DISPATCHED",
            "RESULT_ACCEPTED", "RESULT_REJECTED", "HANDOFF_REJECTED"}
EventType == [action : Actions, job : Jobs, at : Nat, reason : Reasons,
              token : Tokens \cup {NoToken}]
RowType == [state : JobStates, created : Nat, reserved : Nat, updated : Nat, expires : Nat]
GrantType == [state : {"NONE", "GRANTED", "CONSUMED"}, job : Jobs \cup {Nobody},
              issued : Nat, expires : Nat, changed : Nat]
RequestType ==
  {q \in [pc : PCs, job : Jobs \cup {Nobody}, token : Tokens \cup {NoToken},
          at : Times \cup {0}, issued : Nat, why : Reasons] :
     /\ q.pc # "idle" => q.job \in Jobs
     /\ q.pc \notin {"idle", "avail"} => q.at \in Times
     /\ q.pc = "grantAck" => q.token \in Tokens}

\* Every store and every thread holds a value of its kind, a busy thread works
\* on a job, and a clock reading is taken before it is written anywhere.
TypeOK ==
  /\ job \in [Jobs -> RowType]
  /\ pending \in SUBSET Jobs
  /\ approval \in [Tokens -> GrantType]
  /\ accepted \in [Jobs -> Times \cup {0}]
  /\ chain \in Seq(EventType)
  /\ anchored \in Nat
  /\ lock \in Requests \cup {Nobody}
  /\ up \in [Instances -> {"down", "routed", "unrouted"}]
  /\ reanchor \in [Instances -> BOOLEAN]
  /\ req \in [Requests -> RequestType]
  /\ used \in SUBSET Jobs
  /\ granted \in SUBSET Tokens
  /\ told \in SUBSET ({"PENDING_APPROVAL", "ACCEPTED"} \X Jobs)
  /\ effects \in [Jobs -> Nat]

\* Whatever interleaving, failure or crash came before, the next start finds
\* ledgers, queue, approvals, acceptances, chain and anchor in agreement: the
\* startup checks never lock the operator out of a history the service itself
\* wrote.
Startable == StartChecks

Recorded(action, j, n) ==
  \E i \in 1..Len(chain) : i <= n /\ chain[i].action = action /\ chain[i].job = j
Witnessed(action, j) == Recorded(action, j, anchored)
Consented(j) == \E k \in Tokens : approval[k].state = "CONSUMED" /\ approval[k].job = j

\* The work function of a job runs at most once, over all instances, restarts
\* and replays; only after the anchor holds its dispatch; and, for an
\* approval-bound job, only after a token of its own was spent.
EffectEvidence ==
  \A j \in Jobs :
    /\ effects[j] <= 1
    /\ effects[j] = 1 => /\ Witnessed("EXECUTION_DISPATCHED", j)
                         /\ j \in Bound => Consented(j)

\* A success a client has been told of survives: its row is durable and its
\* event is held by the anchor, even when the instance that answered is gone.
ReplyEvidence ==
  \A j \in Jobs :
    /\ <<"PENDING_APPROVAL", j>> \in told =>
         job[j].state # "NONE" /\ Witnessed("HANDOFF_ISSUED", j)
    /\ <<"ACCEPTED", j>> \in told =>
         job[j].state = "COMPLETED" /\ Witnessed("RESULT_ACCEPTED", j)

\* The stage that authorises a stage.
Precursor == [APPROVAL_GRANTED |-> "HANDOFF_ISSUED", HANDOFF_ADMITTED |-> "HANDOFF_ISSUED",
              EXECUTION_DISPATCHED |-> "HANDOFF_ADMITTED",
              RESULT_ACCEPTED |-> "EXECUTION_DISPATCHED"]

\* The history of a job reads in the order the components decided: no stage is
\* recorded before the stage that authorised it (an approval-bound admission
\* after the grant of its token), and none follows a terminal refusal.
ChainOrder ==
  \A i \in DOMAIN chain : chain[i].action \in DOMAIN Precursor =>
    LET earlier == {chain[n] : n \in {m \in 1..(i - 1) : chain[m].job = chain[i].job}}
    IN /\ \E e \in earlier : e.action = Precursor[chain[i].action]
       /\ chain[i].action = "HANDOFF_ADMITTED" /\ chain[i].job \in Bound =>
            \E e \in earlier : e.action = "APPROVAL_GRANTED" /\ e.token = chain[i].token
       /\ \A e \in earlier : e.reason \notin TerminalRefusals

\* The thread that carries an admitted job to its end.
CarrierPcs == {"admitAck", "dispatch", "dispatchAck", "work", "working", "accept", "acceptAck"}
Carries(r, j) == req[r].job = j /\ req[r].pc \in CarrierPcs

Orphan(j) ==
  /\ job[j].state \in {"RESERVED", "EXECUTION_COMMITTED"}
  /\ ~ \E r \in Requests : Carries(r, j)
OrphansUntouched ==
  \A j \in Jobs : Orphan(j) => job'[j] = job[j] /\ effects'[j] = effects[j]

\* A reserved or committed job whose thread is gone (crash, lost anchor
\* answer, failed transaction) is burned: no retry, replica or restart moves it
\* or runs its work again.
OrphanNeverRuns == [][OrphansUntouched]_vars

\* At no time can two tokens both open the same waiting job: a replaced grant
\* is one whose own time is over.
OneLiveGrant ==
  \A k, o \in Tokens, now \in Times :
    Consumable(k, approval[k].job, now) /\ Consumable(o, approval[k].job, now) => k = o

\* Every start accepts what both instances wrote, with their clocks and crashes; at
\* no time two tokens open one job (grant, consume and the start checks); and a
\* success told by one instance outlives the loss of either.
StoresSound == Startable /\ OneLiveGrant /\ ReplyEvidence

\* Under expiry and clocks that jump, what every start checks of tables and chain
\* holds, no stage of a job is recorded before the one that authorised it, and none
\* follows a terminal refusal.
HistorySound == Startable /\ ChainOrder

\* No effect without an anchored dispatch and a row that remembers it, and a success
\* told to a client stays true and is witnessed outside.
Evidence == EffectEvidence /\ ReplyEvidence

\* Whichever replicas add at once, and however their clocks differ: the waiting
\* jobs that no clock takes for expired never outnumber the slots of the queue.
SlotsBounded ==
  Cardinality({j \in pending : \A now \in Times : job[j].expires > now}) <= MaxPending

\* Every request thread ends, with an answer or a refusal.
RequestEnds == \A r \in Requests : req[r].pc # "idle" ~> req[r].pc = "idle"

-----------------------------------------------------------------------------
(***************************************************************************)
(* The inductive invariant behind EffectEvidence.  The property alone does *)
(* not survive a step: it says nothing of the threads about to call the    *)
(* worker.  What is missing is that a thread that carries an admitted job  *)
(* is the only one, that the ledger agrees with how far it has come, and   *)
(* that the ledger remembers every effect.                                 *)
(***************************************************************************)
AnchorBehind == anchored <= Len(chain)

\* How far a thread has come is what the ledger, the chain and the anchor say.
Stage(r) ==
  /\ req[r].pc \in {"admitAck", "dispatch"} => job[req[r].job].state = "RESERVED"
  /\ req[r].pc \in {"dispatchAck", "work", "working", "accept"} =>
       job[req[r].job].state = "EXECUTION_COMMITTED"
  /\ req[r].pc \in {"dispatchAck", "work"} => effects[req[r].job] = 0
  /\ req[r].pc = "dispatchAck" => Recorded("EXECUTION_DISPATCHED", req[r].job, Len(chain))
  /\ req[r].pc = "work" => Witnessed("EXECUTION_DISPATCHED", req[r].job)
  /\ req[r].pc = "acceptAck" => job[req[r].job].state = "COMPLETED"
Stages == \A r \in Requests : Stage(r)

SoleCarrier ==
  \A r, s \in Requests :
    r # s /\ req[r].pc \in CarrierPcs /\ req[s].pc \in CarrierPcs => req[r].job # req[s].job

Remembered(j) ==
  /\ effects[j] <= 1
  /\ effects[j] = 1 => /\ job[j].state \in Executing
                       /\ Witnessed("EXECUTION_DISPATCHED", j)
EffectsRemembered == \A j \in Jobs : Remembered(j)

ConsentSpent == \A j \in Bound : job[j].state \in Admitted => Consented(j)

\* The strengthening of EffectEvidence that every step preserves: a thread that
\* carries a job does so alone, at the stage the ledger records, and no effect
\* is ever forgotten.
IInv == TypeOK /\ AnchorBehind /\ Stages /\ SoleCarrier /\ EffectsRemembered /\ ConsentSpent
=============================================================================

------------------------------ MODULE LocalMode ------------------------------
(***************************************************************************)
(* The service without PostgreSQL, as the demo and the tests wire it: the  *)
(* queue PendingJobs with its lock, the in-memory approval store, job      *)
(* ledger and acceptance ledger, and an audit chain in memory that is      *)
(* anchored after every event.  Nothing is transactional here: a request   *)
(* is a thread, and every lock section or call that another thread can see *)
(* is a step of its own.                                                   *)
(*                                                                         *)
(* A handoff, the issued and signed order for one run, is its position in  *)
(* handoffs; a grant is its position in grants, and its token is that      *)
(* number.                                                                 *)
(***************************************************************************)
EXTENDS Integers, Sequences, FiniteSets

CONSTANTS Threads,      \* requests in flight at a time
          Jobs,         \* the job ids the entrance mints
          Subjects, Bound, Approvers,   \* Bound: subjects whose grant needs approval
          None,
          MaxPending, MaxJobs, MaxAccepted,
          HandoffTtl, ApprovalTtl,
          MaxClock,     \* bound on the clock
          MaxHandoffs,  \* bound on the jobs submitted
          MaxGrants,    \* bound on the decisions taken
          MaxCompletes, \* bound on the tokens presented
          MaxFailures   \* bound on the audit events that cannot be anchored

HandoffType == [job : Jobs, subject : Subjects, exp : Nat]
EntryType == [h : 1..MaxHandoffs, decided : Nat]
GrantType == [h : 1..MaxHandoffs, issued : Nat, state : {"GRANTED", "CONSUMED"}, exp : Nat]
ThreadType ==
    [pc : {"idle", "issued", "add", "decide", "grant", "granted", "dispatch", "denied", "admit",
           "refused", "restore", "admitted", "reserve", "commit", "committed", "run", "verify",
           "attempted", "rejected", "accepted"},
     h : 0..MaxHandoffs, at : Nat, token : Nat, waited : Nat]

\* Limits and lifetimes are positive, the requests in flight are limited, and None is a
\* value of its own.
ASSUME LocalAssumption ==
    /\ Bound \subseteq Subjects /\ IsFiniteSet(Threads)
    /\ {MaxPending, MaxJobs, MaxAccepted, HandoffTtl, ApprovalTtl} \subseteq Nat \ {0}
    /\ {MaxClock, MaxHandoffs, MaxGrants, MaxCompletes, MaxFailures} \subseteq Nat
    /\ None \notin Threads /\ None \notin EntryType

VARIABLES clock,
          handoffs,   \* the handoffs issued: job, subject, exp
          queue,      \* PendingJobs: per job the handoff and its decision, or None
          lock,       \* the thread inside decide, which holds the queue's lock
          grants,     \* the approval records: h, issued, exp, state
          delivered,  \* the tokens an approver was given
          ledger,     \* per job id: free, RESERVED, EXECUTION_COMMITTED
          accepted,   \* handoffs with an accepted result
          chain, anchored, reanchor,   \* events, those acknowledged, _needs_reanchor
          failures, completes,
          th,         \* per thread: where it is and what it holds
          promised,   \* handoffs answered with PENDING_APPROVAL
          mishap,     \* handoffs given up by a denial or by missing evidence
          runs        \* per handoff: how often a worker was handed its permit

stores == <<queue, lock, grants, delivered, ledger, accepted>>
audit == <<chain, anchored, reanchor, failures>>
seen == <<promised, mishap, runs>>
vars == <<clock, handoffs, stores, audit, completes, th, seen>>

Events == [action : {"HANDOFF_ISSUED", "APPROVAL_GRANTED", "HANDOFF_ADMITTED",
                     "HANDOFF_DISPATCHED", "HANDOFF_REJECTED", "RESULT_ACCEPTED",
                     "RESULT_REJECTED"},
           h : 1..MaxHandoffs]

\* A request: where it is, its handoff, its reading of the clock, the token it
\* presents or grants, and the decision the entry it took carried.
Idle == [pc |-> "idle", h |-> 0, at |-> 0, token |-> 0, waited |-> 0]

Init ==
    /\ clock = 0 /\ handoffs = <<>>
    /\ queue = [j \in Jobs |-> None] /\ lock = None
    /\ grants = <<>> /\ delivered = {}
    /\ ledger = [j \in Jobs |-> "free"] /\ accepted = {}
    /\ chain = {} /\ anchored = {} /\ reanchor = FALSE
    /\ failures = 0 /\ completes = 0
    /\ th = [t \in Threads |-> Idle]
    /\ promised = {} /\ mishap = {} /\ runs = [h \in 1..MaxHandoffs |-> 0]

Tick ==
    /\ clock < MaxClock /\ clock' = clock + 1
    /\ UNCHANGED <<handoffs, stores, audit, completes, th, seen>>

Become(t, r) == th' = [th EXCEPT ![t] = IF r.pc = "idle" THEN Idle ELSE r]
Goto(t, s) == Become(t, [th[t] EXCEPT !.pc = s])
JobOf(h) == handoffs[h].job
IsBound(h) == handoffs[h].subject \in Bound

-----------------------------------------------------------------------------
(* _AnchoredAudit.append.                                                  *)

Event(t, action) == [action |-> action, h |-> th[t].h]

MutantLogged(e) ==
    /\ chain' = chain \cup {e}
    /\ anchored' \in {anchored, chain'}
    /\ reanchor' = FALSE /\ UNCHANGED failures

\* An unacknowledged head is anchored first; then the event is appended, and
\* append returns when the anchor acknowledged the head with it.
Logged(e) ==
    /\ chain' = chain \cup {e} /\ anchored' = chain'
    /\ reanchor' = FALSE /\ UNCHANGED failures

\* append raises: the head could not be anchored before, or after, the event was
\* appended; the anchor may have stored a head whose acknowledgement was lost.
NotLogged(e) ==
    /\ failures < MaxFailures /\ failures' = failures + 1
    /\ chain' \in {chain, chain \cup {e}}
    /\ anchored' \in {anchored, chain'}
    /\ reanchor' = TRUE

\* One step of thread t that appends an event and goes on to s; when append
\* raises, the request ends with that exception.
Record(t, action, s) ==
    \/ Logged(Event(t, action)) /\ Goto(t, s) /\ UNCHANGED mishap
    \/ NotLogged(Event(t, action)) /\ Goto(t, "idle") /\ mishap' = mishap \cup {th[t].h}

-----------------------------------------------------------------------------
(* submit: issue, and queue or run.                                        *)

\* issue_job: route, admit and revalidate; nothing shared is written.  The clock
\* is read for the queue before the event is appended.
Submit(t) ==
    /\ th[t].pc = "idle" /\ Len(handoffs) < MaxHandoffs
    /\ \E j \in Jobs, s \in Subjects :
         handoffs' = Append(handoffs, [job |-> j, subject |-> s, exp |-> clock + HandoffTtl])
    /\ Become(t, [Idle EXCEPT !.pc = "issued", !.h = Len(handoffs'), !.at = clock])
    /\ UNCHANGED <<clock, stores, audit, completes, seen>>

RecordIssued(t) ==
    /\ th[t].pc = "issued"
    /\ Record(t, "HANDOFF_ISSUED", IF IsBound(th[t].h) THEN "add" ELSE "dispatch")
    /\ UNCHANGED <<clock, handoffs, stores, completes, promised, runs>>

Queued(q) == {j \in Jobs : q[j] # None}

\* The entries whose handoff is over at the reading now are dropped.
Unexpired(now) ==
    [j \in Jobs |-> IF queue[j] # None /\ handoffs[queue[j].h].exp <= now
                    THEN None ELSE queue[j]]

MutantHasRoom(q, j) == q[j] = None

HasRoom(q, j) == q[j] = None /\ Cardinality(Queued(q)) < MaxPending

\* PendingJobs.add.
Add(t) ==
    LET q == Unexpired(th[t].at)
        j == JobOf(th[t].h)
    IN /\ th[t].pc = "add" /\ lock = None
       /\ IF HasRoom(q, j)
          THEN /\ queue' = [q EXCEPT ![j] = [h |-> th[t].h, decided |-> 0]]
               /\ promised' = promised \cup {th[t].h}
          ELSE queue' = q /\ UNCHANGED promised
       /\ Goto(t, "idle")
       /\ UNCHANGED <<clock, handoffs, lock, grants, delivered, ledger, accepted, audit,
                      completes, mishap, runs>>

-----------------------------------------------------------------------------
(* Service.approve and PendingJobs.decide.                                 *)

\* The clock is read for decide before its lock is taken.
Approve(t) ==
    /\ th[t].pc = "idle" /\ Len(grants) < MaxGrants
    /\ \E j \in Jobs : queue[j] # None
                        /\ Become(t, [Idle EXCEPT !.pc = "decide", !.h = queue[j].h, !.at = clock])
    /\ UNCHANGED <<clock, handoffs, stores, audit, completes, seen>>

MutantSooner(a, b) == a

Sooner(a, b) == IF a < b THEN a ELSE b

\* No decision on the entry is active at the reading now.
Undecided(w, now) == w # None /\ w.decided <= now

\* The entry under the job id may have become another one, and is the one meant.
Decide(t) ==
    LET j == JobOf(th[t].h)
        w == queue[j]
    IN /\ th[t].pc = "decide" /\ lock = None
       /\ \E a \in Approvers :
            IF Undecided(w, th[t].at) /\ a # handoffs[w.h].subject
            THEN /\ queue' = [queue EXCEPT ![j].decided =
                                Sooner(th[t].at + ApprovalTtl, handoffs[w.h].exp)]
                 /\ lock' = t /\ Become(t, [th[t] EXCEPT !.pc = "grant", !.h = w.h])
            ELSE Goto(t, "idle") /\ UNCHANGED <<queue, lock>>
       /\ UNCHANGED <<clock, handoffs, grants, delivered, ledger, accepted, audit,
                      completes, seen>>

\* grant, still under the lock, reads the clock again; create_scope refuses a
\* handoff that is over by then.
Grant(t) ==
    LET h == th[t].h IN
    /\ th[t].pc = "grant"
    /\ IF clock < handoffs[h].exp
       THEN /\ grants' = Append(grants,
                 [h |-> h, issued |-> clock, state |-> "GRANTED",
                  exp |-> Sooner(clock + ApprovalTtl, handoffs[h].exp)])
            /\ Become(t, [th[t] EXCEPT !.pc = "granted", !.token = Len(grants')])
            /\ UNCHANGED lock
       ELSE Goto(t, "idle") /\ lock' = None /\ UNCHANGED grants
    /\ UNCHANGED <<clock, handoffs, queue, delivered, ledger, accepted, audit, completes, seen>>

MutantRecordGrant(t) ==
    /\ th[t].pc = "granted"
    /\ \/ /\ Logged(Event(t, "APPROVAL_GRANTED"))
          /\ delivered' = delivered \cup {th[t].token} /\ lock' = None
       \/ NotLogged(Event(t, "APPROVAL_GRANTED")) /\ UNCHANGED <<delivered, lock>>
    /\ Goto(t, "idle")
    /\ UNCHANGED <<clock, handoffs, queue, grants, ledger, accepted, completes, seen>>

\* The token is returned only with its evidence; the lock is released either way.
RecordGrant(t) ==
    /\ th[t].pc = "granted"
    /\ \/ Logged(Event(t, "APPROVAL_GRANTED")) /\ delivered' = delivered \cup {th[t].token}
       \/ NotLogged(Event(t, "APPROVAL_GRANTED")) /\ UNCHANGED delivered
    /\ lock' = None /\ Goto(t, "idle")
    /\ UNCHANGED <<clock, handoffs, queue, grants, ledger, accepted, completes, seen>>

-----------------------------------------------------------------------------
(* complete.                                                               *)

\* PendingJobs.take: the owner presents a token it was given, or any other (0).
Complete(t) ==
    /\ th[t].pc = "idle" /\ lock = None
    /\ completes < MaxCompletes /\ completes' = completes + 1
    /\ \E j \in Jobs, g \in delivered \cup {0} :
         /\ queue[j] # None
         /\ Become(t, [Idle EXCEPT !.pc = "dispatch", !.h = queue[j].h, !.token = g,
                                    !.waited = queue[j].decided])
         /\ queue' = [queue EXCEPT ![j] = None]
    /\ UNCHANGED <<clock, handoffs, lock, grants, delivered, ledger, accepted, audit, seen>>

\* append_gateway_refusal; an exception from it replaces the GatewayRejected.
RecordRefusal(t) ==
    /\ th[t].pc = "refused"
    /\ Record(t, "HANDOFF_REJECTED", IF IsBound(th[t].h) THEN "restore" ELSE "idle")
    /\ UNCHANGED <<clock, handoffs, stores, completes, promised, runs>>

MutantRestore(t) ==
    /\ th[t].pc = "restore" /\ lock = None /\ Goto(t, "idle")
    /\ UNCHANGED <<clock, handoffs, stores, audit, completes, seen>>

\* PendingJobs.restore: setdefault, whatever the queue holds by now.
Restore(t) ==
    LET j == JobOf(th[t].h) IN
    /\ th[t].pc = "restore" /\ lock = None
    /\ IF queue[j] = None
       THEN /\ queue' = [queue EXCEPT ![j] = [h |-> th[t].h, decided |-> th[t].waited]]
            /\ UNCHANGED mishap
       ELSE mishap' = mishap \cup {th[t].h} /\ UNCHANGED queue
    /\ Goto(t, "idle")
    /\ UNCHANGED <<clock, handoffs, lock, grants, delivered, ledger, accepted, audit,
                   completes, promised, runs>>

-----------------------------------------------------------------------------
(* run and Orchestrator.dispatch.                                          *)

Burned(j) == ledger[j] # "free"
LedgerFull == Cardinality({j \in Jobs : Burned(j)}) >= MaxJobs

\* dispatch_at is read; _available.
Dispatch(t) ==
    /\ th[t].pc = "dispatch"
    /\ Become(t, [th[t] EXCEPT
         !.pc = IF Burned(JobOf(th[t].h)) \/ LedgerFull THEN "denied" ELSE "admit",
         !.at = clock])
    /\ UNCHANGED <<clock, handoffs, stores, audit, completes, seen>>

\* append_orchestrator_refusal; the job is not put back.
RecordDenial(t) ==
    /\ th[t].pc = "denied"
    /\ \/ Logged(Event(t, "HANDOFF_REJECTED")) \/ NotLogged(Event(t, "HANDOFF_REJECTED"))
    /\ Goto(t, "idle") /\ mishap' = mishap \cup {th[t].h}
    /\ UNCHANGED <<clock, handoffs, stores, completes, promised, runs>>

\* ApprovalStore.consume.
Consumable(g, h, now) ==
    /\ g # 0 /\ grants[g].h = h /\ grants[g].state = "GRANTED"
    /\ grants[g].issued <= now /\ now < grants[g].exp

\* Gateway.admit at the reading of dispatch.
Admit(t) ==
    LET h == th[t].h IN
    /\ th[t].pc = "admit"
    /\ IF th[t].at < handoffs[h].exp /\ (IsBound(h) => Consumable(th[t].token, h, th[t].at))
       THEN /\ grants' = IF IsBound(h)
                         THEN [grants EXCEPT ![th[t].token].state = "CONSUMED"] ELSE grants
            /\ Goto(t, "admitted")
       ELSE Goto(t, "refused") /\ UNCHANGED grants
    /\ UNCHANGED <<clock, handoffs, queue, lock, delivered, ledger, accepted, audit,
                   completes, seen>>

\* _admission_recorder.
RecordAdmitted(t) ==
    /\ th[t].pc = "admitted"
    /\ Record(t, "HANDOFF_ADMITTED", "reserve")
    /\ UNCHANGED <<clock, handoffs, stores, completes, promised, runs>>

MutantReservable(j) == ~LedgerFull

Reservable(j) == ~Burned(j) /\ ~LedgerFull

\* _reserve.
Reserve(t) ==
    LET j == JobOf(th[t].h) IN
    /\ th[t].pc = "reserve"
    /\ IF Reservable(j)
       THEN ledger' = [ledger EXCEPT ![j] = "RESERVED"] /\ Goto(t, "commit")
       ELSE Goto(t, "denied") /\ UNCHANGED ledger
    /\ UNCHANGED <<clock, handoffs, queue, lock, grants, delivered, accepted, audit,
                   completes, seen>>

\* commit_execution: anything but RESERVED is a ContractError.
Commit(t) ==
    LET j == JobOf(th[t].h) IN
    /\ th[t].pc = "commit"
    /\ IF ledger[j] = "RESERVED"
       THEN ledger' = [ledger EXCEPT ![j] = "EXECUTION_COMMITTED"] /\ Goto(t, "committed")
       ELSE Goto(t, "idle") /\ UNCHANGED ledger
    /\ UNCHANGED <<clock, handoffs, queue, lock, grants, delivered, accepted, audit,
                   completes, seen>>

\* _dispatch_recorder.
RecordDispatched(t) ==
    /\ th[t].pc = "committed"
    /\ Record(t, "HANDOFF_DISPATCHED", "run")
    /\ UNCHANGED <<clock, handoffs, stores, completes, promised, runs>>

\* The worker is called once; a refusal of it becomes DispatchAttempted.
Run(t) ==
    /\ th[t].pc = "run"
    /\ runs' = [runs EXCEPT ![th[t].h] = @ + 1]
    /\ \E s \in {"verify", "attempted"} : Goto(t, s)
    /\ UNCHANGED <<clock, handoffs, stores, audit, completes,
                   promised, mishap>>

-----------------------------------------------------------------------------
(* The result.                                                             *)

\* verifier.accept at verify_at, with the ledger of accepted handoffs.
Accept(t) ==
    LET h == th[t].h IN
    /\ th[t].pc = "verify"
    /\ IF clock < handoffs[h].exp /\ h \notin accepted /\ Cardinality(accepted) < MaxAccepted
       THEN accepted' = accepted \cup {h} /\ Goto(t, "accepted")
       ELSE Goto(t, "rejected") /\ UNCHANGED accepted
    /\ UNCHANGED <<clock, handoffs, queue, lock, grants, delivered, ledger, audit,
                   completes, seen>>

RecordOutcome(t) ==
    /\ \/ th[t].pc = "attempted" /\ Record(t, "HANDOFF_REJECTED", "idle")
       \/ th[t].pc = "rejected" /\ Record(t, "RESULT_REJECTED", "idle")
       \/ th[t].pc = "accepted" /\ Record(t, "RESULT_ACCEPTED", "idle")
    /\ UNCHANGED <<clock, handoffs, stores, completes, promised, runs>>

-----------------------------------------------------------------------------
Continue(t) ==
    \/ RecordIssued(t) \/ Add(t) \/ Decide(t) \/ Grant(t) \/ RecordGrant(t)
    \/ RecordRefusal(t) \/ Restore(t) \/ Dispatch(t) \/ RecordDenial(t) \/ Admit(t)
    \/ RecordAdmitted(t) \/ Reserve(t) \/ Commit(t) \/ RecordDispatched(t) \/ Run(t)
    \/ Accept(t) \/ RecordOutcome(t)

Next == Tick \/ \E t \in Threads : Submit(t) \/ Approve(t) \/ Complete(t) \/ Continue(t)

\* A request that began runs on: its thread is scheduled, and what it calls
\* returns or raises.
Fairness == \A t \in Threads : WF_vars(Continue(t))

Spec == Init /\ [][Next]_vars /\ Fairness

-----------------------------------------------------------------------------
Known == 1..Len(handoffs)

\* Types of queue, grants, ledgers, threads and chain; a waiting entry is an
\* approval-bound handoff of its own job that is decided for no longer than the handoff
\* lives, and nothing is anchored that is not in the chain.
TypeOK ==
    /\ clock \in 0..MaxClock /\ handoffs \in Seq(HandoffType) /\ Len(handoffs) <= MaxHandoffs
    /\ queue \in [Jobs -> EntryType \cup {None}]
    /\ \A j \in Jobs : queue[j] # None =>
         /\ queue[j].h \in Known /\ JobOf(queue[j].h) = j
         /\ IsBound(queue[j].h)
         /\ queue[j].decided <= handoffs[queue[j].h].exp
    /\ lock \in Threads \cup {None} /\ th \in [Threads -> ThreadType]
    /\ grants \in Seq(GrantType) /\ delivered \subseteq 1..Len(grants)
    /\ \A g \in 1..Len(grants) : grants[g].h \in Known /\ grants[g].exp > grants[g].issued
    /\ ledger \in [Jobs -> {"free", "RESERVED", "EXECUTION_COMMITTED"}]
    /\ accepted \subseteq Known /\ Cardinality(accepted) <= MaxAccepted
    /\ chain \subseteq Events /\ anchored \subseteq chain
    /\ promised \subseteq Known /\ runs \in [1..MaxHandoffs -> Nat]

\* No job id is handed to a worker twice, although threads race between the check
\* of _available and the reservation and the same id may be minted again.
RunsOnce ==
    \A h, k \in Known : runs[h] <= 1 /\ (h # k /\ JobOf(h) = JobOf(k) => runs[h] + runs[k] <= 1)

\* What ran was issued, admitted and dispatched by events the anchor acknowledged
\* before, and an approval-bound job ran on a grant that was recorded and is spent.
EvidencePrecedes ==
    \A h \in Known : runs[h] > 0 =>
        /\ \A a \in {"HANDOFF_ISSUED", "HANDOFF_ADMITTED", "HANDOFF_DISPATCHED"} :
             [action |-> a, h |-> h] \in anchored
        /\ IsBound(h) =>
             /\ [action |-> "APPROVAL_GRANTED", h |-> h] \in anchored
             /\ \E g \in delivered : grants[g].h = h /\ grants[g].state = "CONSUMED"

\* No job id runs twice, and nothing runs before its evidence.
RunsOnEvidence == TypeOK /\ RunsOnce /\ EvidencePrecedes

InHand(h) == \E t \in Threads : th[t].h = h /\ th[t].pc \notin {"idle", "decide"}

\* A job that was answered with PENDING_APPROVAL stays in the queue until it is
\* run, is over, or a denial or missing evidence took it: a wrong token puts it back.
StillWaiting ==
    \A h \in promised \ mishap :
        \/ queue[JobOf(h)] # None /\ queue[JobOf(h)].h = h
        \/ InHand(h) \/ runs[h] > 0 \/ clock >= handoffs[h].exp

Completing(t) == th[t].pc \in {"dispatch", "admit", "refused", "restore"} /\ IsBound(th[t].h)

\* restore asks for no room, so the queue can exceed its bound; with the jobs that
\* may still come back it does so by less than the number of requests in flight.
QueueBound ==
    Cardinality(Queued(queue)) + Cardinality({t \in Threads : Completing(t)})
        < MaxPending + Cardinality(Threads)

\* The queue neither drops a job that was promised to wait nor grows without bound.
QueueKept == StillWaiting /\ QueueBound

\* Every request ends: decide holds the queue's lock across the audit append, and
\* no thread waits for it forever.
RequestEnds == \A t \in Threads : th[t].pc # "idle" ~> th[t].pc = "idle"
=============================================================================

---------------------------- MODULE RequestLocks ----------------------------
(***************************************************************************)
(* The locks a request thread of `python -m geniusnew serve' takes, and    *)
(* nothing else of what it does.  Inside one process: the recorder's lock  *)
(* (wiring._AnchoredAudit._lock), the reentrant lock of the one shared     *)
(* database connection (database.connection_lock) and the orchestrator's   *)
(* lock (Orchestrator._lock).  Across processes: the advisory audit lock,  *)
(* whose wait PostgreSQL bounds (lock_timeout).                            *)
(*                                                                         *)
(* A request is a sequence of sections; a section takes its locks in the   *)
(* written order and gives them all back when it ends.                     *)
(***************************************************************************)
EXTENDS Naturals, Sequences, FiniteSets

CONSTANTS
  Threads,      \* HTTP threads
  Instances,    \* service processes on the same database
  Inst,         \* the process of a thread
  MaxInFlight,  \* limits.max_in_flight
  Nobody

ASSUME LocksAssumption ==
  /\ Inst \in [Threads -> Instances]
  /\ Nobody \notin Threads
  /\ MaxInFlight \in Nat \ {0}

VARIABLES
  todo,   \* sections a thread has still to run; empty when it serves nothing
  depth,  \* locks it holds of the first of them
  audit   \* session lock _AUDIT_LOCK: the thread whose section took it

vars == <<todo, depth, audit>>

\* A read on the shared connection: PostgresPendingJobs.peek and take.
MutantRead == <<"connection", "recorder">>
Read == <<"connection">>
\* Orchestrator._available: the ledger is asked under the orchestrator's lock.
MutantAvailable == <<"orchestrator">>
Available == <<"orchestrator", "connection">>
\* _AnchoredAudit.append and atomic.
Record == <<"recorder", "connection", "audit">>
\* atomic around admit_and_reserve, whose _reserve takes the orchestrator's lock.
Admit == <<"recorder", "connection", "audit", "orchestrator">>

\* run: preflight, admission, dispatch, acceptance.
Run == <<Available, Admit, Record, Record>>
Requests == {<<Record>>, <<Record>> \o Run, <<Read, Record>>, <<Read>> \o Run}

Init ==
  /\ todo = [t \in Threads |-> << >>]
  /\ depth = [t \in Threads |-> 0]
  /\ audit = Nobody

Busy(t) == todo[t] # << >>
Holds(t, l) == Busy(t) /\ \E n \in 1..depth[t] : Head(todo[t])[n] = l
Inside(t) == Busy(t) /\ depth[t] = Len(Head(todo[t]))
Wanted(t) == Head(todo[t])[depth[t] + 1]

\* A thread waits for a lock of its process that another one holds.
WaitsFor(t, o) ==
  /\ Busy(t) /\ ~ Inside(t)
  /\ t # o /\ Inst[o] = Inst[t]
  /\ Holds(o, Wanted(t))

\* HttpEntry._call: beyond the bound a request is answered 503 at once.
Arrive(t, q) ==
  /\ ~ Busy(t)
  /\ Cardinality({o \in Threads : Inst[o] = Inst[t] /\ Busy(o)}) < MaxInFlight
  /\ todo' = [todo EXCEPT ![t] = q]
  /\ UNCHANGED <<depth, audit>>

AcquireLocal(t) ==
  /\ Busy(t) /\ ~ Inside(t)
  /\ Wanted(t) # "audit"
  /\ ~ \E o \in Threads \ {t} : Inst[o] = Inst[t] /\ Holds(o, Wanted(t))
  /\ depth' = [depth EXCEPT ![t] = @ + 1]
  /\ UNCHANGED <<todo, audit>>

AcquireAudit(t) ==
  /\ Busy(t) /\ ~ Inside(t)
  /\ Wanted(t) = "audit"
  /\ audit = Nobody
  /\ audit' = t
  /\ depth' = [depth EXCEPT ![t] = @ + 1]
  /\ UNCHANGED todo

\* Every lock of the section is given back, whatever its outcome.
Leave(t, rest) ==
  /\ todo' = [todo EXCEPT ![t] = rest]
  /\ depth' = [depth EXCEPT ![t] = 0]
  /\ audit' = IF audit = t THEN Nobody ELSE audit

\* The section ends, and the anchor has answered if it appended.
Finish(t) ==
  /\ Inside(t)
  /\ Leave(t, Tail(todo[t]))

\* A database or anchor error ends the request.
Fail(t) ==
  /\ Inside(t)
  /\ Leave(t, << >>)

\* Denied or GatewayRejected: only the refusal is still recorded.
Refuse(t) ==
  /\ Inside(t)
  /\ Head(todo[t]) \in {Available, Admit}
  /\ Leave(t, <<Record>>)

\* Mutant: the wait for the audit lock has no bound.
MutantLockTimeout(t) == FALSE /\ UNCHANGED vars

\* lock_timeout: the wait for another instance's audit lock is bounded.
LockTimeout(t) ==
  /\ Busy(t) /\ ~ Inside(t)
  /\ Wanted(t) = "audit"
  /\ audit # Nobody
  /\ Leave(t, << >>)

\* idle_in_transaction_session_timeout: the server ends a session that waits
\* inside its transaction for a lock it knows nothing of.
SessionEnded(t) ==
  /\ audit = t
  /\ \E o \in Threads : WaitsFor(t, o)
  /\ audit' = Nobody
  /\ UNCHANGED <<todo, depth>>

Step(t) == \/ AcquireLocal(t) \/ AcquireAudit(t)
           \/ Finish(t) \/ Fail(t) \/ Refuse(t) \/ LockTimeout(t)

Next == \E t \in Threads :
          \/ \E q \in Requests : Arrive(t, q)
          \/ Step(t)
          \/ SessionEnded(t)

\* Threads are scheduled, and every answer waited for inside a section comes or
\* times out.  A lock a thread waits for may go to others first, not for ever.
Fairness == \A t \in Threads : SF_vars(Step(t))

Spec == Init /\ [][Next]_vars
FairSpec == Spec /\ Fairness

-----------------------------------------------------------------------------
\* A statement outside the audit transaction never meets an open transaction of
\* another thread on the shared connection ("cannot join an existing
\* transaction").
ConnectionExclusive ==
  \A t, o \in Threads :
    t # o /\ Inst[t] = Inst[o] /\ Inside(t) => ~ Holds(o, "connection")

\* Threads of one process wait for each other in a circle in one way only: one
\* asks _available under the orchestrator's lock, the other is inside the
\* admission transaction and has come to _reserve.
CyclesAreKnown ==
  \A t, o \in Threads :
    WaitsFor(t, o) /\ WaitsFor(o, t) => {Head(todo[t]), Head(todo[o])} = {Available, Admit}

\* Two threads are never inside the one connection of a process, and the only circle
\* of threads that wait for each other is the one between _available and _reserve.
LocksSound == ConnectionExclusive /\ CyclesAreKnown

\* Whatever happens to the threads of another process, a process that serves
\* one request at a time ends every request.
ReplicaUnaffected ==
  \A t \in Threads :
    (\A o \in Threads \ {t} : Inst[o] # Inst[t]) => (Busy(t) ~> ~ Busy(t))

\* Two concurrent requests both end, as the concurrency test of the HTTP path
\* asserts, and no wait for a lock lasts for ever.
EveryRequestEnds == \A t \in Threads : Busy(t) ~> ~ Busy(t)
=============================================================================

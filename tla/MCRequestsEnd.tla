---------------------------- MODULE MCRequestsEnd ----------------------------
(***************************************************************************)
(* That requests end, and give back what they hold, in four views of the   *)
(* service that TLC explores one at a time, each while the others rest:    *)
(* the locks of a process, the durable pipeline, the HTTP entrance, and    *)
(* the process-local mode.                                                 *)
(***************************************************************************)
EXTENDS MCRequestLocks

CONSTANTS r1, r2, j1, k1, NoToken, None, Body, c1, c2, s1, bob, op

VARIABLES
  view,
  \* Pipeline
  job, pending, approval, accepted, chain, anchored, lock, up, reanchor, req, used, granted,
  told, effects,
  \* HttpEntry
  stream, sent, pc, cur, closing, lost, skipped, slots, flights, bucket, clock, spent, first,
  highest,
  \* LocalMode
  clockL, handoffs, queue, lockL, grants, delivered, ledger, acceptedL, chainL, anchoredL,
  reanchorL, failures, completes, th, promised, mishap, runs

pipeVars == <<job, pending, approval, accepted, chain, anchored, lock, up, reanchor, req, used,
              granted, told, effects>>
httpVars == <<stream, sent, pc, cur, closing, lost, skipped, slots, flights, bucket, clock,
              spent, first, highest>>
localVars == <<clockL, handoffs, queue, lockL, grants, delivered, ledger, acceptedL, chainL,
               anchoredL, reanchorL, failures, completes, th, promised, mishap, runs>>

\* Two service instances on one database, a thread each, and one clock reading; a
\* job that needs an approval, or one that does not.
Pipe == INSTANCE Pipeline WITH
  Jobs <- {j1}, Bound <- {j1}, Requests <- {r1, r2}, Instances <- {i1, i2},
  Modes <- {"routed"}, Inst <- (r1 :> i1 @@ r2 :> i2), Tokens <- {k1}, Times <- {1},
  HandoffTTL <- 2, ApprovalTTL <- 1, MaxPending <- 1, MaxRecords <- 5
Plain == INSTANCE Pipeline WITH
  Jobs <- {j1}, Bound <- {}, Requests <- {r1, r2}, Instances <- {i1, i2},
  Modes <- {"routed"}, Inst <- (r1 :> i1 @@ r2 :> i2), Tokens <- {k1}, Times <- {1},
  HandoffTTL <- 2, ApprovalTTL <- 1, MaxPending <- 1, MaxRecords <- 5

Job == [method |-> "POST", framing |-> "length", body |-> TRUE, known |-> TRUE,
        media |-> TRUE, auth |-> s1, valid |-> TRUE]

\* Two connections compete for one slot.
Http == INSTANCE HttpEntry WITH
  Subjects <- {s1}, Clients <- {c1, c2}, MaxSlots <- 1, MaxInFlight <- 1,
  Requests <- {Job, [Job EXCEPT !.valid = FALSE], [Job EXCEPT !.framing = "repeated"]},
  Rate <- 1, Cost <- 2, Burst <- 5, MaxClock <- 0, MaxRequests <- 1

\* Two threads, one job id, an approver who is also a submitter, a failing anchor.
Local == INSTANCE LocalMode WITH
  Threads <- {t1, t2}, Jobs <- {j1}, Subjects <- {bob, op}, Bound <- {bob},
  Approvers <- {bob, op}, MaxPending <- 1, MaxJobs <- 1, MaxAccepted <- 1, HandoffTtl <- 2,
  ApprovalTtl <- 1, MaxClock <- 1, MaxHandoffs <- 1, MaxGrants <- 1, MaxCompletes <- 1,
  MaxFailures <- 1, clock <- clockL, lock <- lockL, accepted <- acceptedL, chain <- chainL,
  anchored <- anchoredL, reanchor <- reanchorL

AllInit ==
  /\ view \in {"locks", "pipeline", "plain", "http", "local"}
  /\ Init /\ Pipe!Init /\ Http!Init /\ Local!Init

AllNext ==
  \/ view = "locks" /\ Next /\ UNCHANGED <<view, pipeVars, httpVars, localVars>>
  \/ view = "pipeline" /\ Pipe!Next /\ UNCHANGED <<view, vars, httpVars, localVars>>
  \/ view = "plain" /\ Plain!Next /\ UNCHANGED <<view, vars, httpVars, localVars>>
  \/ view = "http" /\ Http!Next /\ UNCHANGED <<view, vars, pipeVars, localVars>>
  \/ view = "local" /\ Local!Next /\ UNCHANGED <<view, vars, pipeVars, httpVars>>

\* The fairness of each view; no action it names is enabled where the view rests.
PipeFairness ==
  \A r \in {r1, r2} : /\ WF_pipeVars(view = "pipeline" /\ Pipe!Step(r))
                       /\ WF_pipeVars(view = "plain" /\ Plain!Step(r))

AllSpec ==
  /\ AllInit /\ [][AllNext]_<<view, vars, pipeVars, httpVars, localVars>>
  /\ Fairness /\ PipeFairness /\ Http!Fairness /\ Local!Fairness

\* Every request ends: of the durable pipeline, through anchor failures, debts to the
\* anchor, the contended audit lock and crashes; of the process-local mode, although
\* a decision holds the queue's lock across the audit append; and every connection
\* that got a slot gives it back.
RequestEnds == Pipe!RequestEnds /\ Local!RequestEnds /\ Http!SlotReturned
=============================================================================

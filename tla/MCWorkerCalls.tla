--------------------------- MODULE MCWorkerCalls ---------------------------
(***************************************************************************)
(* That whoever waits for a worker comes back, as three machines TLC       *)
(* explores one at a time, each while the others rest: an isolated run in  *)
(* a child process, two threads of a Core that call the worker service,    *)
(* and the acceptance driver on a worker host.                             *)
(***************************************************************************)
EXTENDS Isolation, TLC

CONSTANTS None, t1, t2, coreA, i1, i2

VARIABLES
  machine,
  \* the worker service
  lock, leaseIno, refIno, unitDef, faults, boot, pending, pc, ino, mine, bound, gotW,
  answerW, sinceW, queueW, conn, wire, unit, work, hard, seen, out, residue,
  \* the acceptance driver
  phase, ops, case, results, good, verdictA, signals, ch, tg, wk, lease, facts, hit

serviceVars == <<lock, leaseIno, refIno, unitDef, faults, boot, pending, pc, ino, mine, bound,
                 gotW, answerW, sinceW, queueW, conn, wire, unit, work, hard, seen, out, residue>>
driverVars == <<phase, ops, case, results, good, verdictA, signals, ch, tg, wk, lease, facts, hit>>

\* One Core with two threads, one fault.
Service == INSTANCE WorkerService WITH
  Threads <- {t1, t2}, CoreOf <- (t1 :> coreA @@ t2 :> coreA), Inodes <- {i1, i2},
  Outcomes <- {"text"}, MaxConnections <- 2, MaxFaults <- 1,
  got <- gotW, answer <- answerW, since <- sinceW, queue <- queueW

\* All kinds of cases and one signal, which may be SIGKILL.
Driver == INSTANCE Acceptance WITH
  Cases <- <<"baseline", "lease", "raw", "core_crash", "worker_crash">>, MaxSignals <- 1,
  verdict <- verdictA

ASSUME Driver!CaseAssumption

CallsInit ==
  /\ machine \in {"child", "service", "driver"}
  /\ Init /\ Service!Init /\ Driver!Init
  /\ machine # "service" => leaseIno = i1

CallsNext ==
  \/ machine = "child" /\ Next /\ UNCHANGED <<machine, serviceVars, driverVars>>
  \/ machine = "service" /\ Service!Next /\ UNCHANGED <<machine, vars, driverVars>>
  \/ machine = "driver" /\ Driver!Next /\ UNCHANGED <<machine, vars, serviceVars>>

\* The fairness of each machine; no action it names is enabled where it rests.
CallsSpec ==
  /\ CallsInit /\ [][CallsNext]_<<machine, vars, serviceVars, driverVars>>
  /\ Fairness /\ Service!Fairness /\ Driver!Fairness

\* The driver passes a case only for what has really happened on the host, and the
\* suite only when no worker, Core, lease or descriptor is left.
PassJustified == Driver!TypeOK /\ Driver!PassObserved /\ Driver!PassIsClean

\* Nobody but the bound worker is stopped or killed by the driver, and no failure or
\* timeout leaves that worker stopped, a Core running or a descriptor open.
TargetsSafe == Driver!OnlyTheWorker /\ Driver!NothingLeftBehind

\* Whoever waits for a worker comes back: the parent of an isolated run, a thread that
\* calls the worker service, the driver, whatever hangs.
CallersReturn == ParentReturns /\ Service!CallEnds /\ Driver!DriverEnds
=============================================================================

----------------------------- MODULE Acceptance -----------------------------
(***************************************************************************)
(* The acceptance tool for an installed worker host (tools/                *)
(* worker_acceptance): a driver run by root that starts Core processes of  *)
(* its own, stops or kills the worker they are talking to, and reports     *)
(* PASS only for what it has observed.  Every step of the driver can fail, *)
(* and a signal may arrive before any of them; what has been set up is     *)
(* then unwound by the finally blocks and by Suite.cleanup.                *)
(*                                                                         *)
(* What the driver still has to do is a sequence of operations, those of   *)
(* finally blocks marked; an exception drops what is not marked.           *)
(***************************************************************************)
EXTENDS Naturals, SequencesExt

CONSTANTS
  Cases,      \* the cases of a run, in order; see Script
  None,
  MaxSignals  \* bound on the signals that reach the driver

CaseKinds == {"baseline", "lease", "raw", "core_crash", "worker_crash"}
CaseAssumption == /\ Cases \in Seq(CaseKinds)
                         /\ MaxSignals \in Nat

VARIABLES
  phase,    \* new, cases, cleanup, ended
  ops,      \* what the driver has still to do in this case or cleanup
  case,     \* which case it is at
  results,  \* the cases reported so far: PASS or HOLD
  good,     \* cleanup: nothing has failed
  verdict,  \* bounded_suite of the report, HOLD without one
  signals,  \* signals that have reached the driver
  ch,       \* the Core children: mode, st, reg(istered), fd
  tg,       \* per case its WorkerTarget: of, listed, fd, stopped
  wk,       \* the worker instance: st, the Core it serves, the case bound to it
  lease,    \* the Core that holds the lifecycle lease
  facts,    \* per case: what has really happened
  hit       \* a process that is not the bound worker was signalled

vars == <<phase, ops, case, results, good, verdict, signals, ch, tg, wk, lease, facts, hit>>
driver == <<phase, ops, case, results, good, verdict, signals>>
host == <<wk, lease, facts, hit>>

Blocks == {"outer", "a", "b", "c", "z"}
Modes == {"baseline", "raw", "lease_holder", "lease_busy", "idle_busy", "idle", "controlled"}
Ended == {"absent", "ok", "bad"}
NoChild == [mode |-> None, st |-> "absent", reg |-> FALSE, fd |-> "none"]
NoTarget == [of |-> None, listed |-> FALSE, fd |-> FALSE, stopped |-> FALSE]
NoWorker == [st |-> "none", core |-> None, bound |-> 0]
Alive == wk.st \in {"run", "stopped"}

-----------------------------------------------------------------------------
(***************************************************************************)
(* The cases as sequences of operations.  b is the try block, named after  *)
(* the child it owns; g is the try of cleanup an operation belongs to.     *)
(***************************************************************************)
InCase == <<"case", None>>
Op(o, b) == <<[op |-> o, b |-> b, arg |-> None, fin |-> FALSE, g |-> InCase]>>
Fin(o, b) == <<[op |-> o, b |-> b, arg |-> None, fin |-> TRUE, g |-> InCase]>>

Spawn(b, m) == <<[op |-> "register", b |-> b, arg |-> m, fin |-> FALSE, g |-> InCase]>> \o Op("start", b)
CloseChild(b) == Fin("kill", b) \o Fin("closefd", b) \o Fin("clear", b) \o Fin("remove", b)
One(b, m) == Spawn(b, m) \o Op("done", b) \o CloseChild(b)

Script(kind) ==
  CASE kind = "baseline" -> One("a", "baseline")
    [] kind = "raw" -> One("a", "raw") \o One("b", "baseline")
    [] kind = "lease" ->
         Spawn("outer", "lease_holder") \o Op("held", "outer") \o One("a", "lease_busy")
           \o Op("resume", "outer") \o Op("done", "outer") \o CloseChild("outer")
           \o One("b", "baseline")
    [] kind = "core_crash" ->
         Spawn("outer", "controlled") \o Op("bind", "outer") \o Op("list", "outer")
           \o Op("stop", "outer") \o Op("mark", "outer") \o Op("confirm", "outer")
           \o Op("kill", "outer") \o Op("live", "outer") \o One("a", "idle_busy")
           \o Op("live", "outer") \o Op("cont", "outer") \o One("b", "idle")
           \o One("c", "baseline") \o Fin("contif", "outer") \o CloseChild("outer")
    [] OTHER ->
         Spawn("outer", "controlled") \o Op("bind", "outer") \o Op("list", "outer")
           \o Op("slay", "outer") \o Op("resume", "outer") \o Op("done", "outer")
           \o One("b", "idle") \o One("c", "baseline")
           \o Fin("contif", "outer") \o CloseChild("outer")

\* What an exception leaves to do: the finally blocks whose try was entered, but
\* nothing more of the one it comes from, and what lies outside of its try.
Unwound(todo) ==
  LET x == Head(todo)
      Entered(y) == \A z \in Range(todo) : z.b = y.b => z.op # "start"
      Kept(y) == \/ y.g # x.g
                 \/ y.fin /\ Entered(y) /\ ~(x.fin /\ y.b = x.b)
  IN  SelectSeq(todo, Kept)

\* Suite.cleanup: continue the stopped, close the children, ask whether the host
\* is idle, look for foreign processes, close the targets; then rmtree.
InTry(todo, group) == [i \in 1..Len(todo) |-> [todo[i] EXCEPT !.g = group]]
OutOfTry(o) == InTry(o, None)
Of(i) == <<[op |-> "contif", b |-> None, arg |-> i, fin |-> FALSE, g |-> <<"cont", i>>]>>
DropTarget(i) == <<[op |-> "drop", b |-> None, arg |-> i, fin |-> FALSE, g |-> <<"drop", i>>]>>
CloseIn(b) == InTry(Op("kill", b) \o Op("closefd", b) \o Op("clear", b), <<"close", b>>)
                \o OutOfTry(Op("remove", b))
Listed == SetToSortSeq({i \in DOMAIN tg : tg[i].listed}, <)
Registered == SetToSeq({b \in Blocks : ch[b].reg})
CleanupScript ==
  FlattenSeq([i \in 1..Len(Listed) |-> Of(Listed[i])])
    \o FlattenSeq([i \in 1..Len(Registered) |-> CloseIn(Registered[i])])
    \o InTry(One("z", "idle") \o Op("foreign", "z"), <<"idle", None>>)
    \o FlattenSeq([i \in 1..Len(Listed) |-> DropTarget(Listed[i])])
    \o OutOfTry(Op("unstage", "z"))

-----------------------------------------------------------------------------
Init ==
  /\ phase = "new" /\ ops = <<>> /\ case = 0 /\ results = <<>> /\ good = TRUE
  /\ verdict = None /\ signals = 0
  /\ ch = [b \in Blocks |-> NoChild]
  /\ tg = [i \in DOMAIN Cases |-> NoTarget]
  /\ wk = NoWorker /\ lease = None
  /\ facts = [i \in DOMAIN Cases |-> {}] /\ hit = FALSE

(***************************************************************************)
(* The driver outside of its operations.                                   *)
(***************************************************************************)
\* inspect, protected, verify_installed, ensure_no_foreign_processes and the report
\* that must not exist yet: a run is refused before it has touched anything.
Refuse ==
  /\ phase = "new"
  /\ phase' = "ended" /\ verdict' = "HOLD"
  /\ UNCHANGED <<ops, case, results, good, signals, ch, tg, host>>

Begin ==
  /\ phase = "new"
  /\ phase' = "cases"
  /\ UNCHANGED <<ops, case, results, good, verdict, signals, ch, tg, host>>

\* The helpers cannot be staged: no case is tried, but the finally block runs.
StageFails ==
  /\ phase = "cases" /\ case = 0
  /\ phase' = "cleanup" /\ ops' = CleanupScript
  /\ UNCHANGED <<case, results, good, verdict, signals, ch, tg, host>>

NextCase ==
  /\ phase = "cases" /\ ops = <<>> /\ case < Len(Cases)
  /\ \A i \in DOMAIN results : results[i] = "PASS"
  /\ Len(results) = case
  /\ case' = case + 1 /\ ops' = Script(Cases[case + 1])
  /\ UNCHANGED <<phase, results, good, verdict, signals, ch, tg, host>>

\* All operations of a case are done without an exception on the way.
CasePasses ==
  /\ phase = "cases" /\ Len(results) < case /\ ops = <<>>
  /\ results' = Append(results, "PASS")
  /\ UNCHANGED <<phase, ops, case, good, verdict, signals, ch, tg, host>>

EnterCleanup ==
  /\ phase = "cases" /\ ops = <<>> /\ Len(results) = case
  /\ case = Len(Cases) \/ (case > 0 /\ results[case] = "HOLD")
  /\ phase' = "cleanup" /\ ops' = CleanupScript
  /\ UNCHANGED <<case, results, good, verdict, signals, ch, tg, host>>

\* aggregate and the report.
Passed == good /\ Len(results) = Len(Cases) /\ \A i \in DOMAIN results : results[i] = "PASS"
Report ==
  /\ phase = "cleanup" /\ ops = <<>>
  /\ phase' = "ended" /\ verdict' = IF Passed THEN "PASS" ELSE "HOLD"
  /\ UNCHANGED <<ops, case, results, good, signals, ch, tg, host>>

\* SIGKILL of the driver: nothing of it runs any more.
Killed ==
  /\ phase \in {"cases", "cleanup"} /\ signals < MaxSignals
  /\ phase' = "ended" /\ signals' = signals + 1
  /\ UNCHANGED <<ops, case, results, good, verdict, ch, tg, host>>

-----------------------------------------------------------------------------
(***************************************************************************)
(* The driver's operations.                                                *)
(***************************************************************************)
At(o) == phase \in {"cases", "cleanup"} /\ ops # <<>> /\ Head(ops).op = o
B == Head(ops).b

Proceed == ops' = Tail(ops) /\ UNCHANGED <<phase, case, results, good, verdict, signals>>

\* An exception: the case is inconclusive, or cleanup notes it and goes on.
Raise ==
  /\ ops' = IF ops = <<>> THEN <<>> ELSE Unwound(ops)
  /\ \/ /\ phase = "cases" /\ UNCHANGED good
        /\ results' = IF Len(results) < case THEN Append(results, "HOLD") ELSE results
     \/ /\ phase = "cleanup" /\ ops # <<>> /\ Head(ops).g # None
        /\ good' = FALSE /\ UNCHANGED results
  /\ UNCHANGED <<phase, case, verdict>>

\* An exception between the tries of cleanup ends the driver.
Escape ==
  /\ phase = "cleanup"
  /\ phase' = "ended" /\ verdict' = "HOLD" /\ ops' = <<>>
  /\ UNCHANGED <<case, results, good>>

\* SIGTERM, SIGHUP, SIGINT or the alarm of 360 s; Child.start is masked against them.
Signalled ==
  /\ phase \in {"cases", "cleanup"} /\ signals < MaxSignals
  /\ phase = "cases" /\ ops = <<>> => Len(results) < case
  /\ ~(At("start") /\ ch[B].st # "absent")
  /\ signals' = signals + 1
  /\ Raise \/ Escape
  /\ UNCHANGED <<ch, tg, host>>

\* The same outside of the try around a case: the suite is cleaned up, not reported.
SignalledBetween ==
  /\ phase = "cases" /\ ops = <<>> /\ Len(results) = case /\ signals < MaxSignals
  /\ signals' = signals + 1
  /\ phase' = "cleanup" /\ ops' = CleanupScript /\ good' = FALSE
  /\ UNCHANGED <<case, results, verdict, ch, tg, host>>

\* The end of a Core process frees its lease and its connection.
Gone(b, st) ==
  /\ ch' = [ch EXCEPT ![b].st = st]
  /\ lease' = IF lease = b THEN None ELSE lease
  /\ wk' = IF wk.core = b THEN [wk EXCEPT !.core = None] ELSE wk
  /\ UNCHANGED hit

\* Suite.spawn and Child.start.
Register ==
  /\ At("register") /\ Proceed
  /\ ch' = [ch EXCEPT ![B] = [NoChild EXCEPT !.mode = Head(ops).arg, !.reg = TRUE]]
  /\ UNCHANGED <<tg, host>>

Start ==
  /\ At("start") /\ ch[B].st = "absent"
  /\ \/ /\ ch' = [ch EXCEPT ![B].st = "new", ![B].fd = "open"] /\ Proceed
     \/ /\ ch' = [ch EXCEPT ![B].st = "new"] /\ UNCHANGED driver   \* no pidfd
     \/ /\ Raise /\ UNCHANGED <<ch, signals>>                      \* no process
  /\ UNCHANGED <<tg, host>>

\* Without a pidfd the child is waited for, never signalled.
StartReaps ==
  /\ At("start") /\ ch[B].st \in Ended \ {"absent"}
  /\ Raise /\ UNCHANGED <<signals, ch, tg, host>>

\* Child.event: HELD, or BOUND judged by bind_target and identity_matches.  The PID
\* of the event may meanwhile belong to somebody else.
Held ==
  /\ At("held")
  /\ \/ ch[B].st = "held" /\ Proceed
     \/ Raise /\ UNCHANGED signals
  /\ UNCHANGED <<ch, tg, host>>

MutantIdentityMatches(who) == TRUE
IdentityMatches(who) == who = "worker"
Bind ==
  /\ At("bind")
  /\ \/ /\ ch[B].st = "bound"
        /\ \E who \in {"worker", "stranger"} :
             /\ who = "worker" <=> Alive /\ wk.core = B
             /\ IdentityMatches(who)
             /\ tg' = [tg EXCEPT ![case] = [NoTarget EXCEPT !.of = who, !.fd = TRUE]]
             /\ wk' = IF who = "worker" THEN [wk EXCEPT !.bound = case] ELSE wk
        /\ Proceed
     \/ Raise /\ UNCHANGED <<signals, tg, wk>>
  /\ UNCHANGED <<ch, lease, facts, hit>>

List ==
  /\ At("list") /\ Proceed
  /\ tg' = [tg EXCEPT ![case].listed = TRUE]
  /\ UNCHANGED <<ch, host>>

\* WorkerTarget.live and send.  A process that has ended but is not reaped takes a
\* signal without an effect.
Live(i) == tg[i].of = "stranger" \/ (Alive /\ wk.bound = i)
Sent(i, st) ==
  /\ wk' = IF Alive /\ wk.bound = i THEN [wk EXCEPT !.st = st] ELSE wk
  /\ hit' = (hit \/ tg[i].of = "stranger")
  /\ UNCHANGED <<lease, facts>>

Stop ==
  /\ At("stop")
  /\ \/ Sent(case, "stopped") /\ Proceed
     \/ ~Live(case) /\ Raise /\ UNCHANGED <<signals, host>>
  /\ UNCHANGED <<ch, tg>>

Mark ==
  /\ At("mark") /\ Proceed
  /\ tg' = [tg EXCEPT ![case].stopped = TRUE]
  /\ UNCHANGED <<ch, host>>

\* The kernel has to say T within a second.
Confirm ==
  /\ At("confirm")
  /\ \/ wk.st = "stopped" /\ wk.bound = case /\ Proceed
     \/ Raise /\ UNCHANGED signals
  /\ UNCHANGED <<ch, tg, host>>

MutantStillLive ==
  /\ At("live") /\ Proceed
  /\ UNCHANGED <<ch, tg, host>>
StillLive ==
  /\ At("live")
  /\ IF Live(case) THEN Proceed ELSE Raise /\ UNCHANGED signals
  /\ UNCHANGED <<ch, tg, host>>

Cont ==
  /\ At("cont")
  /\ \/ /\ Sent(case, "run") /\ Proceed
        /\ tg' = [tg EXCEPT ![case].stopped = FALSE]
     \/ ~Live(case) /\ Raise /\ UNCHANGED <<signals, tg, host>>
  /\ UNCHANGED ch

Slay ==
  /\ At("slay")
  /\ \/ Sent(case, "dead") /\ Proceed
     \/ ~Live(case) /\ Raise /\ UNCHANGED <<signals, host>>
  /\ UNCHANGED <<ch, tg>>

\* The finally of crash and the first loop of cleanup.
ContIf ==
  LET i == IF phase = "cleanup" THEN Head(ops).arg ELSE case IN
  /\ At("contif") /\ Proceed
  /\ IF tg[i].stopped /\ Live(i)
     THEN Sent(i, "run") /\ tg' = [tg EXCEPT ![i].stopped = FALSE]
     ELSE UNCHANGED <<tg, host>>
  /\ UNCHANGED ch

\* CONTINUE on the child's stdin.
Resume ==
  /\ At("resume")
  /\ IF ch[B].st \in {"held", "bound"}
     THEN ch' = [ch EXCEPT ![B].st = "resumed"] /\ Proceed
     ELSE Raise /\ UNCHANGED <<ch, signals>>
  /\ UNCHANGED <<tg, host>>

\* Child.done and evaluate: only a clean exit with the expected code counts.
Done ==
  /\ At("done")
  /\ \/ ch[B].st = "ok" /\ Proceed
     \/ ch[B].st # "ok" /\ Raise /\ UNCHANGED signals    \* ended otherwise, or too late
  /\ UNCHANGED <<ch, tg, host>>

\* Child.kill_owned, the two halves of closing the pidfd, and the removal.
KillOwned ==
  /\ At("kill")
  /\ IF ch[B].st \in Ended THEN UNCHANGED <<ch, host>>
     ELSE ch[B].fd = "open" /\ Gone(B, "bad") /\ UNCHANGED facts
  /\ Proceed /\ UNCHANGED tg

CloseFd ==
  /\ At("closefd")
  /\ CASE ch[B].fd = "open" -> ch' = [ch EXCEPT ![B].fd = "stale"] /\ Proceed
       [] ch[B].fd = "none" -> UNCHANGED ch /\ Proceed
       [] OTHER -> Raise /\ UNCHANGED <<ch, signals>>    \* closed before: EBADF
  /\ UNCHANGED <<tg, host>>

Clear ==
  /\ At("clear") /\ Proceed
  /\ ch' = [ch EXCEPT ![B].fd = "none"]
  /\ UNCHANGED <<tg, host>>

Forget ==
  /\ At("remove") /\ Proceed
  /\ ch' = [ch EXCEPT ![B] = IF @.st \in Ended /\ @.fd = "none" THEN NoChild
                             ELSE [@ EXCEPT !.reg = FALSE]]
  /\ UNCHANGED <<tg, host>>

\* ensure_no_foreign_processes, in cleanup.
Foreign ==
  /\ At("foreign")
  /\ IF Alive \/ \E b \in Blocks : ch[b].st \notin Ended
     THEN Raise /\ UNCHANGED signals
     ELSE Proceed
  /\ UNCHANGED <<ch, tg, host>>

\* A target that still lives spoils cleanup; it is closed all the same.
DropIt ==
  /\ At("drop")
  /\ tg' = [tg EXCEPT ![Head(ops).arg].fd = FALSE]
  /\ good' = (good /\ ~Live(Head(ops).arg))
  /\ ops' = Tail(ops)
  /\ UNCHANGED <<phase, case, results, verdict, signals, ch, host>>

Unstage ==
  /\ At("unstage") /\ UNCHANGED <<signals, ch, tg, host>>
  /\ \/ ops' = Tail(ops) /\ UNCHANGED <<phase, case, results, good, verdict>>
     \/ Escape

-----------------------------------------------------------------------------
(***************************************************************************)
(* The Core children (core.py), one mode each.  A wrong turn ends a child  *)
(* with an error.                                                          *)
(***************************************************************************)
Mode(b) == ch[b].mode
Goes(b, st) == ch' = [ch EXCEPT ![b].st = st] /\ UNCHANGED hit
Saw(what) == facts' = IF case = 0 THEN facts ELSE [facts EXCEPT ![case] = @ \cup {what}]
Connects(b) == Goes(b, "run") /\ wk' = [NoWorker EXCEPT !.st = "run", !.core = b]

\* lifecycle.preflight and acquire.
Acquire(b) ==
  /\ ch[b].st = "new"
  /\ \/ /\ lease = None /\ Goes(b, "leased") /\ lease' = b /\ UNCHANGED <<wk, facts>>
     \/ /\ lease # None /\ Mode(b) = "lease_busy"
        /\ Gone(b, "ok") /\ Saw("lease_refused")
     \/ /\ lease # None /\ Mode(b) # "lease_busy"
        /\ Gone(b, "bad") /\ UNCHANGED facts

\* lifecycle.assert_idle under the lease, and what the mode makes of it.
JudgeIdle(b) ==
  LET idle == wk.st = "none" IN
  /\ ch[b].st = "leased"
  /\ \/ /\ Mode(b) \in {"baseline", "raw", "controlled", "lease_busy"} /\ idle
        /\ Connects(b) /\ UNCHANGED lease
     \/ /\ Mode(b) = "lease_holder" /\ idle
        /\ Goes(b, "held") /\ UNCHANGED <<wk, lease>>
     \/ /\ Mode(b) = "idle" /\ idle /\ Gone(b, "ok")
     \/ /\ Mode(b) = "idle" /\ ~idle
        /\ Goes(b, "new") /\ lease' = None /\ UNCHANGED wk
     \/ /\ Mode(b) = "idle_busy" /\ ~idle     \* refused, for an accepted reason
        /\ Goes(b, "again") /\ lease' = None /\ UNCHANGED wk
     \/ /\ Mode(b) \notin {"idle", "idle_busy"} /\ ~idle /\ Gone(b, "bad")
     \/ /\ Mode(b) = "idle_busy" /\ ~Alive /\ Gone(b, "bad")
  /\ UNCHANGED facts

\* occupied: after the refusal of assert_idle, _run_worker has to refuse as well,
\* for whatever reason, and without a connection.
RunAgain(b) ==
  /\ ch[b].st = "again"
  /\ \/ wk.st = "none" /\ Connects(b) /\ lease' = b /\ UNCHANGED facts
     \/ wk.st = "dead" /\ Gone(b, "ok") /\ UNCHANGED facts
     \/ Alive /\ Gone(b, "ok") /\ Saw("live_refused")

\* The observer reports the bound worker and waits for CONTINUE.
EmitBound(b) ==
  /\ ch[b].st = "run" /\ Mode(b) = "controlled" /\ Alive
  /\ Goes(b, "bound") /\ UNCHANGED <<wk, lease, facts>>

\* The worker is gone before it has answered.
LosesWorker(b) ==
  /\ ch[b].st = "run" /\ ~Alive
  /\ \/ Gone(b, "bad") /\ UNCHANGED facts
     \/ Mode(b) = "controlled" /\ Goes(b, "await") /\ UNCHANGED <<wk, lease, facts>>

Continues(b) ==
  /\ ch[b].st = "resumed"
  /\ \/ Mode(b) = "lease_holder" /\ Gone(b, "ok") /\ UNCHANGED facts
     \/ Mode(b) = "controlled" /\ ~Alive /\ Goes(b, "await") /\ UNCHANGED <<wk, lease, facts>>

\* await_end has confirmed the end of the worker, and the mode is judged.
Confirmed(b) ==
  /\ ch[b].st = "await" /\ wk.st = "none"
  /\ \/ Mode(b) \in {"baseline", "raw", "controlled"} /\ Gone(b, "ok") /\ Saw(Mode(b))
     \/ Mode(b) \in {"lease_busy", "idle_busy"} /\ Gone(b, "bad") /\ UNCHANGED facts

\* The child's alarm, its control timeout, and the deadlines of its waits.
Expires(b) ==
  /\ ch[b].st \notin Ended
  /\ Gone(b, "bad") /\ UNCHANGED facts

\* External: the worker instance, under the limits of its unit, and the manager.
Answers(b) ==
  /\ wk.st = "run" /\ wk.core = b /\ ch[b].st = "run" /\ Mode(b) # "controlled"
  /\ ch' = [ch EXCEPT ![b].st = "await"]
  /\ wk' = [wk EXCEPT !.st = "dead"]
  /\ UNCHANGED <<lease, facts, hit>>

WorkerEnds ==
  /\ Alive
  /\ wk' = [wk EXCEPT !.st = "dead"]
  /\ UNCHANGED <<ch, lease, facts, hit>>

Tidy ==
  /\ wk.st = "dead"
  /\ wk' = NoWorker
  /\ UNCHANGED <<ch, lease, facts, hit>>

ChildStep(b) ==
  \/ Acquire(b) \/ JudgeIdle(b) \/ RunAgain(b) \/ EmitBound(b) \/ LosesWorker(b)
  \/ Continues(b) \/ Confirmed(b) \/ Answers(b)

DriverStep ==
  \/ Refuse \/ Begin \/ StageFails \/ NextCase \/ CasePasses \/ EnterCleanup \/ Report
  \/ Register \/ Start \/ StartReaps \/ Held \/ Bind \/ List \/ Stop \/ Mark \/ Confirm
  \/ StillLive \/ Cont \/ Slay \/ ContIf \/ Resume \/ Done \/ KillOwned \/ CloseFd
  \/ Clear \/ Forget \/ Foreign \/ DropIt \/ Unstage

HostStep ==
  /\ \/ \E b \in Blocks : ChildStep(b) \/ Expires(b)
     \/ WorkerEnds \/ Tidy
  /\ UNCHANGED <<driver, tg>>

Next == DriverStep \/ HostStep \/ Signalled \/ SignalledBetween \/ Killed

\* A driver that has begun goes on, and a child's alarm or deadline comes in the end.
\* Nothing is assumed of the worker or of the manager.
Fairness ==
  /\ WF_vars(phase # "new" /\ DriverStep)
  /\ \A b \in Blocks : WF_vars(Expires(b) /\ UNCHANGED <<driver, tg>>)

Spec == Init /\ [][Next]_vars /\ Fairness

-----------------------------------------------------------------------------
ChildType ==
  [mode : Modes \cup {None}, reg : BOOLEAN, fd : {"none", "open", "stale"},
   st : Ended \cup {"new", "leased", "held", "again", "run", "bound", "resumed", "await"}]

\* Types; a case is reported at most once, and a child without a pidfd is never
\* one the driver goes on working with.
TypeOK ==
  /\ phase \in {"new", "cases", "cleanup", "ended"} /\ verdict \in {None, "PASS", "HOLD"}
  /\ case \in 0..Len(Cases) /\ results \in Seq({"PASS", "HOLD"}) /\ Len(results) <= case
  /\ ch \in [Blocks -> ChildType]
  /\ wk \in [st : {"none", "run", "stopped", "dead"}, core : Blocks \cup {None}, bound : 0..Len(Cases)]
  /\ lease \in Blocks \cup {None}
  /\ phase = "cases" /\ ops # <<>> /\ Head(ops).op \in {"held", "bind", "resume", "done"}
       => ch[B].reg /\ ch[B].fd = "open"

\* What has to be observed in a case of a kind before it may pass.
Needed(kind) ==
  CASE kind = "core_crash" -> {"live_refused", "baseline"}
    [] kind = "worker_crash" -> {"controlled", "baseline"}
    [] kind = "lease" -> {"lease_refused", "baseline"}
    [] kind = "raw" -> {"raw", "baseline"}
    [] OTHER -> {"baseline"}

\* A case that passes has been observed: the fresh Core of a crash case was refused
\* while the old worker was alive and its Core dead, the second Core of the lease
\* case by the lease, and a Core was served afterwards.
PassObserved ==
  \A i \in DOMAIN results : results[i] = "PASS" => Needed(Cases[i]) \subseteq facts[i]

\* No worker, no lease and no Core that runs.
HostIdle == wk.st = "none" /\ lease = None /\ \A b \in Blocks : ch[b].st \in Ended

\* A suite that passes leaves the host as it found it: no worker, no Core, no
\* lease, and no descriptor of the driver.
PassIsClean ==
  verdict = "PASS" => /\ HostIdle
                      /\ \A b \in Blocks : ch[b].fd = "none" /\ ~ch[b].reg
                      /\ \A i \in DOMAIN tg : ~tg[i].fd

\* No process but the worker the Core is bound to is stopped or killed, although
\* it is named by a PID that may be somebody else's by now.
OnlyTheWorker == ~hit

\* Unless a signal came in between, a driver that comes to its end, PASS or HOLD, has
\* taken back all it set up, whatever failed or timed out: no worker is left stopped,
\* every Core it started has ended, and no pipe or pidfd is open (cleanup; a signal
\* between the stop and its note leaves a stopped worker).
NothingLeftBehind ==
  verdict # None /\ signals = 0 =>
    /\ wk.st # "stopped"
    /\ \A b \in Blocks : ch[b].st \in Ended /\ ch[b].fd = "none"
    /\ \A i \in DOMAIN tg : ~tg[i].fd

\* A driver that has begun ends, whatever hangs.
DriverEnds == phase # "new" ~> phase = "ended"
=============================================================================

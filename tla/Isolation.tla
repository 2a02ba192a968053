------------------------------ MODULE Isolation ------------------------------
(***************************************************************************)
(* One isolated run of a worker: _run_isolated of geniusnew/isolation.py   *)
(* in the parent, child_entry of isolation_child.py in the fresh           *)
(* interpreter, and the pipe and the job directory between them.  Code of  *)
(* the worker does anything it likes, at import, at work and in threads    *)
(* that go on beside child_entry: it shares the interpreter with it, so it *)
(* can also write any bytes to the response descriptor, a forged answer    *)
(* included, put the flag of the audit hook back, and leave with any       *)
(* status.                                                                 *)
(***************************************************************************)
EXTENDS Integers, Sequences

CONSTANTS Forbidden,    \* the operations a worker may not do
          Pieces,       \* writes a whole answer takes
          MaxPieces,    \* _MAX_CHILD_MESSAGE_BYTES, in pieces
          OwnKinds,     \* the kinds of pieces a worker writes to the descriptor itself
          MaxTries      \* bound on what the worker tries beside its work

ASSUME IsolationAssumption ==
    /\ Pieces \in Nat \ {0} /\ MaxPieces \in Nat /\ MaxPieces >= Pieces
    /\ MaxTries \in Nat
    /\ Forbidden \subseteq {"process", "file", "tcp"}
    /\ OwnKinds \subseteq {"ok", "worker_failed", "isolation_violated", "resource_exhausted",
                           "output_rejected"}

Kinds == {"ok", "worker_failed", "isolation_violated", "resource_exhausted",
          "output_rejected"}
Piece == [kind : Kinds, part : 1..Pieces]

VARIABLES parent,    \* idle, write, read, wait, kill, clean, done
          verdict,   \* what _run_isolated returns or raises
          child,     \* where the child is; zombie when it has ended, reaped after wait
          status,    \* how it ended
          layers,    \* confinement in force in the child
          violated,  \* state["violated"] of the audit hook
          denied,    \* history: the hook refused something before child_entry read the flag
          tampered,  \* history: the worker wrote to the descriptor, or put the flag back
          effects,   \* forbidden operations that took place
          answer,    \* the message child_entry has decided on
          sent,      \* pieces of it that child_entry has written
          queue,     \* pieces in the pipe, not read yet
          got,       \* pieces the parent has read
          request,   \* the request: unsent, sent
          expired,   \* wall_seconds have passed
          tmp,       \* the job directory exists
          tries

pVars == <<parent, verdict, tmp, request>>
wVars == <<violated, denied, tampered, effects, tries>>
cVars == <<child, status, layers, answer, sent, wVars>>
vars == <<pVars, cVars, queue, got, expired>>

Init ==
    /\ parent = "idle" /\ verdict = "none" /\ tmp = FALSE /\ request = "unsent"
    /\ child = "none" /\ status = "none" /\ layers = {} /\ violated = FALSE
    /\ denied = FALSE /\ tampered = FALSE
    /\ effects = {} /\ answer = "none" /\ sent = 0 /\ tries = 0
    /\ queue = <<>> /\ got = <<>> /\ expired = FALSE

Alive == child \notin {"none", "zombie", "reaped"}

-----------------------------------------------------------------------------
(* The parent.                                                             *)

\* _request, the temporary directory, Popen; Popen may fail, and then the
\* directory is removed on the way out.
Start ==
    /\ parent = "idle"
    /\ tmp' = TRUE
    /\ \/ parent' = "write" /\ child' = "boot" /\ UNCHANGED verdict
       \/ parent' = "clean" /\ verdict' = "failed" /\ UNCHANGED child
    /\ UNCHANGED <<status, layers, answer, sent, wVars, queue, got, request, expired>>

\* stdin.write and close: a request fits into the pipe, so neither blocks, and a
\* child that is gone is a broken pipe.
WriteRequest ==
    /\ parent = "write"
    /\ IF Alive THEN parent' = "read" /\ request' = "sent" /\ UNCHANGED verdict
       ELSE parent' = "kill" /\ verdict' = "violated" /\ UNCHANGED request
    /\ UNCHANGED <<cVars, queue, got, expired, tmp>>

Kill(v) == parent' = "kill" /\ verdict' = v

\* _read_process: one turn of the loop, or its end when the child has closed the pipe
\* and left no duplicate of it open.
Read ==
    /\ parent = "read"
    /\ \/ expired /\ Kill("exhausted") /\ UNCHANGED <<queue, got>>
       \/ /\ ~expired /\ queue # <<>>
          /\ got' = Append(got, Head(queue)) /\ queue' = Tail(queue)
          /\ IF Len(got') > MaxPieces THEN Kill("violated")
             ELSE UNCHANGED <<parent, verdict>>
       \/ /\ ~expired /\ queue = <<>> /\ (~Alive \/ child = "exit")
          /\ parent' = "wait" /\ UNCHANGED <<verdict, queue, got>>
    /\ UNCHANGED <<cVars, request, expired, tmp>>

Whole(k) == [i \in 1..Pieces |-> [kind |-> k, part |-> i]]

\* _decode_child_message: the status first, then exactly one whole message.
Decoded(data, st) ==
    CASE st = "sigsys" -> "violated"
      [] st = "signal" -> "exhausted"
      [] st = "nonzero" -> "failed"
      [] st = "zero" /\ data = Whole("ok") -> "ok"
      [] st = "zero" /\ data = Whole("worker_failed") -> "failed"
      [] st = "zero" /\ data = Whole("resource_exhausted") -> "exhausted"
      [] st = "zero" /\ data = Whole("output_rejected") -> "rejected"
      [] OTHER -> "violated"

\* process.wait with what is left of the wall time, then the message is decoded.
Wait ==
    /\ parent = "wait"
    /\ \/ child = "zombie" /\ Kill(Decoded(got, status)) /\ child' = "reaped"
       \/ child # "zombie" /\ expired /\ Kill("exhausted") /\ UNCHANGED child
    /\ UNCHANGED <<status, layers, answer, sent, wVars, queue, got, request, expired, tmp>>

\* Any other exception in the parent, at any point of the try.
ParentRaises ==
    /\ parent \in {"write", "read", "wait"}
    /\ Kill("failed")
    /\ UNCHANGED <<cVars, queue, got, request, expired, tmp>>

\* _kill_process in the finally: kill, then wait until the child is reaped.
KillProcess ==
    /\ parent = "kill"
    /\ \/ /\ child \in {"zombie", "reaped"} /\ child' = "reaped" /\ parent' = "clean"
          /\ UNCHANGED status
       \/ Alive /\ child' = "zombie" /\ status' = "signal" /\ UNCHANGED parent
    /\ UNCHANGED <<verdict, layers, answer, sent, wVars, queue, got, request, expired, tmp>>

\* Both context managers end: pipes closed, directory removed.
Clean ==
    /\ parent = "clean" /\ parent' = "done" /\ tmp' = FALSE
    /\ UNCHANGED <<cVars, verdict, queue, got, request, expired>>

ParentStep == Start \/ WriteRequest \/ Read \/ Wait \/ KillProcess \/ Clean

WallTime ==
    /\ parent \in {"read", "wait"} /\ ~expired /\ expired' = TRUE
    /\ UNCHANGED <<pVars, cVars, queue, got>>

-----------------------------------------------------------------------------
(* child_entry up to the worker's first instruction.                       *)

Answer(k) == child' = "answer" /\ answer' = k /\ sent' = 0

\* The request is read to its end and decoded, before anything is confined.
DecodeRequest ==
    /\ child = "boot" /\ request = "sent"
    /\ \/ child' = "limits" /\ UNCHANGED <<answer, sent>>
       \/ Answer("isolation_violated")
    /\ UNCHANGED <<pVars, status, layers, wVars, queue, got, expired>>

\* One layer is put in force, or an exception lands in the outer handler.
Install(here, layer, next) ==
    /\ child = here
    /\ \/ child' = next /\ layers' = layers \cup {layer} /\ UNCHANGED <<answer, sent>>
       \/ Answer("isolation_violated") /\ UNCHANGED layers
    /\ UNCHANGED <<pVars, status, wVars, queue, got, expired>>

SetResourceLimits == Install("limits", "limits", "rules")

MutantInstallFilesystemRules ==
    /\ child = "rules" /\ child' = "filter"
    /\ layers' \in {layers, layers \cup {"landlock"}}
    /\ UNCHANGED <<pVars, answer, sent, status, wVars, queue, got, expired>>

\* _install_filesystem_rules: ruleset, one rule per path, no_new_privs, restrict.
\* Whichever of these fails, the worker is not confined and does not run.
InstallFilesystemRules == Install("rules", "landlock", "filter")

\* _install_process_filter: no_new_privs and the seccomp program.
InstallProcessFilter == Install("filter", "seccomp", "hook")

AddAuditHook == Install("hook", "hook", "import")

-----------------------------------------------------------------------------
(* The worker.                                                             *)

Guard(op) == IF op = "process" THEN "seccomp" ELSE "landlock"

\* child_entry is in _resolve_worker or in run, and has not read the flag yet.
Within == child \in {"import", "work"}

\* Code of the worker can run from its import, which comes right behind the hook,
\* until the process has ended: in threads, which the filter allows, and in handlers
\* for the exit of the interpreter.
WorkerRuns == Within \/ (child \in {"answer", "exit"} /\ "hook" \in layers)

\* An operation Python reports meets the hook.  The worker may swallow the
\* exception and go on, and in a thread it ends the thread only; else it lands in
\* the handler for _SandboxDenied.
TryPython ==
    /\ WorkerRuns /\ tries < MaxTries /\ tries' = tries + 1
    /\ \E op \in Forbidden :
         IF "hook" \in layers
         THEN /\ violated' = TRUE /\ denied' = (denied \/ Within)
              /\ UNCHANGED effects
              /\ \/ UNCHANGED <<child, answer, sent>>
                 \/ Within /\ Answer("isolation_violated")
         ELSE /\ effects' = effects \cup {op}
              /\ UNCHANGED <<violated, denied, child, answer, sent>>
    /\ UNCHANGED <<pVars, status, layers, tampered, queue, got, expired>>

\* What native code does meets the kernel only: seccomp ends the process, Landlock
\* refuses the operation.
TryNative ==
    /\ WorkerRuns /\ tries < MaxTries /\ tries' = tries + 1
    /\ \E op \in Forbidden :
         \/ /\ Guard(op) \notin layers /\ effects' = effects \cup {op}
            /\ UNCHANGED <<child, status>>
         \/ /\ Guard(op) \in layers /\ op = "process"
            /\ child' = "zombie" /\ status' = "sigsys" /\ UNCHANGED effects
         \/ /\ Guard(op) \in layers /\ op # "process" /\ UNCHANGED <<child, status, effects>>
    /\ UNCHANGED <<pVars, layers, violated, denied, tampered, answer, sent, queue, got,
                   expired>>

\* What one write of the worker itself can put there: a whole forged answer, or a
\* part of one, which behind or before other bytes makes an answer or none.
OwnWrites == {Whole(k) : k \in OwnKinds}
               \cup {<<[kind |-> k, part |-> i]>> : k \in OwnKinds, i \in 1..Pieces}

\* Bytes of its own on the response descriptor, an ordinary one that dup made, or on
\* a duplicate of it; the parent has not seen the end of the pipe yet.
WriteOwn ==
    /\ WorkerRuns /\ tries < MaxTries /\ tries' = tries + 1 /\ tampered' = TRUE
    /\ child = "exit" => parent = "read"
    /\ Len(queue) + Len(got) <= MaxPieces
    /\ \E w \in OwnWrites : queue' = queue \o w
    /\ UNCHANGED <<pVars, child, status, layers, violated, denied, effects, answer,
                   sent, got, expired>>

\* The flag is in a dict of the frame that called the worker; once it has been read
\* nothing depends on it.
ResetFlag ==
    /\ Within /\ tries < MaxTries /\ tries' = tries + 1 /\ tampered' = TRUE
    /\ violated /\ violated' = FALSE
    /\ UNCHANGED <<pVars, child, status, layers, denied, effects, answer, sent, queue,
                   got, expired>>

\* _resolve_worker ends with a worker, or with a ContractError or an exception of
\* the module, of whatever class.
Resolve ==
    /\ child = "import"
    /\ \/ child' = "work" /\ UNCHANGED <<answer, sent>>
       \/ Answer("worker_failed") \/ Answer("resource_exhausted")
       \/ Answer("isolation_violated")
    /\ UNCHANGED <<pVars, status, layers, wVars, queue, got, expired>>

MutantReturns == Answer("ok") \/ Answer("output_rejected")

\* run returned: the flag of the hook decides, then whether the output can be sent.
Returns == IF violated THEN Answer("isolation_violated")
           ELSE Answer("ok") \/ Answer("output_rejected")

\* run returns, raises, runs out of memory, or leaves with another BaseException.
EndWork ==
    /\ child = "work"
    /\ Returns \/ Answer("worker_failed") \/ Answer("resource_exhausted")
         \/ Answer("isolation_violated")
    /\ UNCHANGED <<pVars, status, layers, wVars, queue, got, expired>>

\* The process ends early: a signal, of a resource limit or from outside; os._exit
\* where code of the worker runs; an interpreter that cannot start.
Dies ==
    /\ Alive /\ child' = "zombie"
    /\ \/ status' = "signal"
       \/ WorkerRuns /\ status' \in {"zero", "nonzero"}
       \/ child = "boot" /\ status' = "nonzero"
    /\ UNCHANGED <<pVars, layers, answer, sent, wVars, queue, got, expired>>

-----------------------------------------------------------------------------
(* _write_message and the end.                                             *)

WriteMessage ==
    /\ child = "answer" /\ sent < Pieces /\ Len(queue) + Len(got) <= MaxPieces
    /\ queue' = Append(queue, [kind |-> answer, part |-> sent + 1]) /\ sent' = sent + 1
    /\ UNCHANGED <<pVars, child, status, layers, answer, wVars, got, expired>>

\* An exception in the middle of an answer: the handlers around the worker, and the
\* outer one, write another behind what has been written.
WriteAgain ==
    /\ child = "answer" /\ sent < Pieces
    /\ \/ answer \in {"ok", "output_rejected"}
          /\ answer' \in {"worker_failed", "resource_exhausted", "isolation_violated"}
       \/ answer \in {"worker_failed", "resource_exhausted"}
          /\ answer' = "isolation_violated"
    /\ sent' = 0
    /\ UNCHANGED <<pVars, child, status, layers, wVars, queue, got, expired>>

\* The descriptor is closed, whatever became of the last answer.
CloseResponse ==
    /\ child = "answer" /\ (sent = Pieces \/ parent \in {"kill", "clean", "done"})
    /\ child' = "exit"
    /\ UNCHANGED <<pVars, status, layers, answer, sent, wVars, queue, got, expired>>

\* The interpreter joins its threads, runs its handlers and exits with 0.
Exit ==
    /\ child = "exit" /\ child' = "zombie" /\ status' = "zero"
    /\ UNCHANGED <<pVars, layers, answer, sent, wVars, queue, got, expired>>

ChildStep ==
    \/ DecodeRequest \/ SetResourceLimits \/ InstallFilesystemRules
    \/ InstallProcessFilter \/ AddAuditHook
    \/ TryPython \/ TryNative \/ WriteOwn \/ ResetFlag
    \/ Resolve \/ EndWork \/ Dies \/ WriteMessage \/ WriteAgain \/ CloseResponse \/ Exit

Next == ParentStep \/ ParentRaises \/ WallTime \/ ChildStep

\* The parent is scheduled, the wall time passes, and a killed process ends.
\* Nothing is assumed of the child.
Fairness == WF_vars(parent # "idle" /\ ParentStep) /\ WF_vars(WallTime)

Spec == Init /\ [][Next]_vars /\ Fairness

-----------------------------------------------------------------------------
\* Types of parent, child, pipe and verdict of _run_isolated; what arrived is always
\* a sequence of pieces the decoder knows, and reads are bounded.
TypeOK ==
    /\ parent \in {"idle", "write", "read", "wait", "kill", "clean", "done"}
    /\ verdict \in {"none", "ok", "rejected", "failed", "violated", "exhausted"}
    /\ child \in {"none", "boot", "limits", "rules", "filter", "hook", "import", "work",
                  "answer", "exit", "zombie", "reaped"}
    /\ status \in {"none", "zero", "nonzero", "signal", "sigsys"}
    /\ layers \subseteq {"limits", "landlock", "seccomp", "hook"}
    /\ effects \subseteq Forbidden /\ answer \in Kinds \cup {"none"}
    /\ queue \in Seq(Piece) /\ got \in Seq(Piece) /\ tries \in 0..MaxTries
    /\ sent \in 0..Pieces /\ tampered \in BOOLEAN
    /\ violated \in BOOLEAN /\ denied \in BOOLEAN /\ expired \in BOOLEAN /\ tmp \in BOOLEAN

\* No forbidden operation of the worker ever takes place, at import or at work,
\* whichever layer could not be installed.
Confined == effects = {}

\* A run counts as a success only behind all four layers, with exactly one whole
\* message and status zero, even when the worker forged that message.  A refusal
\* before run returned, swallowed or not, keeps it from being one, unless the worker
\* tampered with the interpreter it shares with child_entry; a refusal in a thread
\* after that comes too late for the flag.
OkIsClean ==
    verdict = "ok" =>
        /\ got = Whole("ok") /\ status = "zero"
        /\ layers = {"limits", "landlock", "seccomp", "hook"}
        /\ denied => tampered

\* Once _run_isolated has returned or raised, no child is left, not even a zombie,
\* and the job directory is gone.
NothingLeft == parent = "done" => child \in {"none", "reaped"} /\ ~tmp

\* A run counts as a success only when the worker was confined, one whole answer came
\* with status zero, and no refusal was merely swallowed; when it is over nothing of
\* it is left.
RunClean == TypeOK /\ OkIsClean /\ NothingLeft

\* The parent returns, even from a worker that never ends.
ParentReturns == parent # "idle" ~> parent = "done"
=============================================================================

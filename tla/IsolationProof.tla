--------------------------- MODULE IsolationProof ---------------------------
(***************************************************************************)
(* Proofs about Isolation, for every set of forbidden operations, every    *)
(* size of an answer and any number of tries: nothing forbidden takes      *)
(* place, whatever the worker writes, swallows or leaves running, and a    *)
(* success is one of a worker that was confined and did not merely swallow *)
(* a refusal.                                                              *)
(*                                                                         *)
(* The invariant follows the message "ok" from where it comes up to where  *)
(* the parent decodes it.  child_entry decides on it only behind the four  *)
(* layers and the flag of the audit hook, and only code of the worker, so  *)
(* only code behind the four layers, can write it in any other way: that   *)
(* is remembered as tampering, and the layers never go again.              *)
(***************************************************************************)
EXTENDS Isolation, TLAPS

AllLayers == {"limits", "landlock", "seccomp", "hook"}

\* Which layers are in force follows from how far the child has come.
Stages ==
    /\ child \in {"none", "boot", "limits"} => layers = {}
    /\ child = "rules" => layers = {"limits"}
    /\ child = "filter" => layers = {"limits", "landlock"}
    /\ child = "hook" => layers = {"limits", "landlock", "seccomp"}
    /\ child \in {"import", "work"} \/ "hook" \in layers => layers = AllLayers

\* The flag the child decides by remembers every refusal the worker did not undo.
FlagTells == denied => violated \/ tampered

\* A child that writes has decided what.
Answered == child = "answer" => answer \in Kinds

HasOk(q) == \E i \in DOMAIN q : q[i].kind = "ok"

\* "ok" is decided on or on its way only in a confined child; the worker has written
\* it itself, or run has returned without a refusal.
OkBacked ==
    answer = "ok" \/ HasOk(queue) \/ HasOk(got) =>
        /\ layers = AllLayers
        /\ tampered \/ (~denied /\ child \in {"answer", "exit", "zombie", "reaped"})

\* The verdict is reached once, and a success is about a child that has ended.
VerdictLast ==
    /\ parent \in {"idle", "write", "read", "wait"} => verdict = "none"
    /\ verdict = "ok" => child = "reaped" /\ got = Whole("ok") /\ status = "zero"

\* Parent and child are started and ended in this order.
Lives ==
    /\ parent = "idle" => child = "none"
    /\ parent \in {"write", "read", "wait", "kill"} => child # "none"
    /\ parent = "clean" => child \in {"none", "reaped"}
    /\ parent = "done" => child \in {"none", "reaped"} /\ ~tmp

RunInv ==
    /\ TypeOK /\ Confined /\ Stages /\ FlagTells /\ Answered /\ OkBacked
    /\ VerdictLast /\ Lives

-----------------------------------------------------------------------------
\* A piece added to a pipe is the only new one in it.
LEMMA AppendOk ==
    ASSUME NEW q \in Seq(Piece), NEW p \in Piece, HasOk(Append(q, p))
    PROVE  HasOk(q) \/ p.kind = "ok"
<1>1. PICK i \in 1..(Len(q) + 1) : Append(q, p)[i].kind = "ok"
  BY DEF HasOk
<1>2. CASE i = Len(q) + 1
  BY <1>1, <1>2
<1>3. CASE i # Len(q) + 1
  <2>1. i \in 1..Len(q)
    BY <1>1, <1>3
  <2>2. Append(q, p)[i] = q[i]
    BY <2>1
  <2> QED
    BY <1>1, <2>1, <2>2 DEF HasOk
<1> QED
  BY <1>2, <1>3

\* Reading a piece moves it, and makes none.
LEMMA ReadOk ==
    ASSUME NEW q \in Seq(Piece), q # <<>>, NEW g \in Seq(Piece)
    PROVE  /\ Tail(q) \in Seq(Piece) /\ Append(g, Head(q)) \in Seq(Piece)
           /\ HasOk(Tail(q)) => HasOk(q)
           /\ HasOk(Append(g, Head(q))) => HasOk(g) \/ HasOk(q)
<1>1. Tail(q) \in Seq(Piece) /\ Head(q) \in Piece /\ Append(g, Head(q)) \in Seq(Piece)
  OBVIOUS
<1>2. ASSUME HasOk(Tail(q)) PROVE HasOk(q)
  <2>1. PICK i \in 1..(Len(q) - 1) : Tail(q)[i].kind = "ok"
    BY <1>2 DEF HasOk
  <2>2. i + 1 \in 1..Len(q) /\ Tail(q)[i] = q[i + 1]
    BY <2>1
  <2> QED
    BY <2>1, <2>2 DEF HasOk
<1>3. ASSUME HasOk(Append(g, Head(q))) PROVE HasOk(g) \/ HasOk(q)
  <2>1. CASE Head(q).kind = "ok"
    <3>1. 1 \in DOMAIN q /\ Head(q) = q[1]
      OBVIOUS
    <3> QED
      BY <2>1, <3>1 DEF HasOk
  <2> QED
    BY <1>1, <1>3, <2>1, AppendOk
<1> QED
  BY <1>1, <1>2, <1>3

\* A whole "ok" is seen as one.
LEMMA WholeOk == HasOk(Whole("ok"))
  BY IsolationAssumption DEF HasOk, Whole

\* Two messages differ in their first piece.
LEMMA WholesDiffer ==
    ASSUME NEW k, NEW j, k # j
    PROVE  Whole(k) # Whole(j)
<1>1. 1 \in 1..Pieces
  BY IsolationAssumption
<1>2. Whole(k)[1].kind = k /\ Whole(j)[1].kind = j
  BY <1>1 DEF Whole
<1> QED
  BY <1>2

\* _decode_child_message: a success takes status zero and exactly the message "ok".
LEMMA DecodedOk ==
    ASSUME NEW data, NEW st
    PROVE  /\ Decoded(data, st) \in {"ok", "rejected", "failed", "violated", "exhausted"}
           /\ Decoded(data, st) = "ok" => st = "zero" /\ data = Whole("ok")
<1>1. CASE st # "zero"
  BY <1>1 DEF Decoded
<1>2. CASE st = "zero"
  <2>1. CASE data = Whole("ok")
    <3>1. /\ Whole("ok") # Whole("worker_failed")
          /\ Whole("ok") # Whole("resource_exhausted")
          /\ Whole("ok") # Whole("output_rejected")
      BY WholesDiffer
    <3> QED
      BY <1>2, <2>1, <3>1 DEF Decoded
  <2>2. CASE data # Whole("ok")
    <3> DEFINE w == Whole("worker_failed")
               x == Whole("resource_exhausted")
               o == Whole("output_rejected")
    <3>1. CASE data = w
      <4>1. w # x /\ w # o
        BY WholesDiffer
      <4> QED
        BY <1>2, <2>2, <3>1, <4>1 DEF Decoded
    <3>2. CASE data = x
      <4>1. w # x /\ x # o
        BY WholesDiffer
      <4> QED
        BY <1>2, <2>2, <3>2, <4>1 DEF Decoded
    <3>3. CASE data = o
      <4>1. w # o /\ x # o
        BY WholesDiffer
      <4> QED
        BY <1>2, <2>2, <3>3, <4>1 DEF Decoded
    <3>4. CASE data # w /\ data # x /\ data # o
      BY <1>2, <2>2, <3>4 DEF Decoded
    <3> QED
      BY <3>1, <3>2, <3>3, <3>4
  <2> QED
    BY <2>1, <2>2
<1> QED
  BY <1>1, <1>2

-----------------------------------------------------------------------------
\* Putting a layer in force, or failing to, keeps the types.
LEMMA InstallTypes ==
    ASSUME TypeOK, NEW here,
           NEW layer \in {"limits", "landlock", "seccomp", "hook"},
           NEW next \in {"rules", "filter", "hook", "import"},
           Install(here, layer, next)
    PROVE  TypeOK'
<1>1. layers' \subseteq {"limits", "landlock", "seccomp", "hook"}
  BY DEF TypeOK, Install
<1>2. child' \in {"rules", "filter", "hook", "import", "answer"}
  BY DEF Install, Answer
<1>3. answer' \in Kinds \cup {"none"}
  BY DEF TypeOK, Install, Answer, Kinds
<1>4. sent' \in 0..Pieces
  BY IsolationAssumption DEF TypeOK, Install, Answer
<1> QED
  BY <1>1, <1>2, <1>3, <1>4 DEF TypeOK, Install, pVars, wVars

\* The child is started, or the run fails at once.
LEMMA StartKeeps ==
    ASSUME RunInv, Start
    PROVE  RunInv'
<1>1. TypeOK'
  BY DEF RunInv, TypeOK, Start, wVars, Kinds
<1>2. Stages'
  BY DEF RunInv, Stages, Start, wVars, AllLayers, Lives
<1>3. Answered'
  BY DEF RunInv, Answered, Start, wVars, Kinds
<1>4. OkBacked'
  BY DEF RunInv, OkBacked, Start, wVars, Stages, FlagTells, HasOk, AllLayers, Lives
<1>5. VerdictLast'
  BY DEF RunInv, VerdictLast, Start, wVars, TypeOK, Lives
<1>6. Lives'
  BY DEF RunInv, Lives, Start, wVars
<1>7. Confined' /\ FlagTells'
  BY DEF RunInv, Confined, FlagTells, Start, wVars
<1> QED
  BY <1>1, <1>2, <1>3, <1>4, <1>5, <1>6, <1>7 DEF RunInv

\* The request goes to the child, or the pipe is broken.
LEMMA WriteRequestKeeps ==
    ASSUME RunInv, WriteRequest
    PROVE  RunInv'
<1>1. TypeOK'
  BY DEF RunInv, TypeOK, WriteRequest, Kill, Alive, Kinds, cVars, wVars
<1>2. VerdictLast'
  BY DEF RunInv, VerdictLast, WriteRequest, Kill, Alive, TypeOK, Lives, cVars, wVars
<1>3. Lives'
  BY DEF RunInv, Lives, WriteRequest, Kill, Alive, cVars, wVars
<1>4. Confined' /\ Stages' /\ FlagTells' /\ Answered' /\ OkBacked'
  BY DEF RunInv, Confined, Stages, FlagTells, Answered, OkBacked, WriteRequest, Kill, Alive,
       cVars, wVars, HasOk
<1> QED
  BY <1>1, <1>2, <1>3, <1>4 DEF RunInv

\* A piece is moved from the pipe into what the parent has read.
LEMMA ReadKeeps ==
    ASSUME RunInv, Read
    PROVE  RunInv'
<1>1. TypeOK'
  <2>1. queue' \in Seq(Piece) /\ got' \in Seq(Piece)
    BY ReadOk DEF RunInv, TypeOK, Read
  <2> QED
    BY <2>1 DEF RunInv, TypeOK, Read, Kill, cVars, wVars
<1>2. OkBacked'
  <2>1. HasOk(queue') \/ HasOk(got') => HasOk(queue) \/ HasOk(got)
    BY ReadOk DEF RunInv, TypeOK, Read
  <2> QED
    BY <2>1 DEF RunInv, OkBacked, Read, cVars, wVars
<1>3. VerdictLast'
  BY DEF RunInv, VerdictLast, Read, Kill, Alive, TypeOK, Lives, cVars, wVars
<1>4. Lives'
  BY DEF RunInv, Lives, Read, Kill, Alive, cVars, wVars
<1>5. Confined' /\ Stages' /\ FlagTells' /\ Answered'
  BY DEF RunInv, Confined, Stages, FlagTells, Answered, Read, Kill, Alive, cVars, wVars
<1> QED
  BY <1>1, <1>2, <1>3, <1>4, <1>5 DEF RunInv

\* The one place where a run becomes a success.
LEMMA WaitKeeps ==
    ASSUME RunInv, Wait
    PROVE  RunInv'
<1>1. TypeOK'
  <2>1. verdict' \in {"none", "ok", "rejected", "failed", "violated", "exhausted"}
    BY DecodedOk DEF Wait, wVars, Kill
  <2>2. child' \in {child, "reaped"} /\ parent' = "kill"
    BY DEF Wait, wVars, Kill
  <2> QED
    BY <2>1, <2>2 DEF RunInv, TypeOK, Wait, wVars
<1>2. Stages'
  BY DEF RunInv, Stages, Wait, wVars, Kill, AllLayers
<1>3. Answered'
  BY DEF RunInv, Answered, Wait, wVars, Kill, Kinds
<1>4. OkBacked'
  BY DEF RunInv, OkBacked, Wait, wVars, Kill, Stages, FlagTells, HasOk, AllLayers, Lives
<1>5. VerdictLast'
  <2>1. CASE child = "zombie"
    BY <2>1, DecodedOk DEF RunInv, VerdictLast, Wait, wVars, Kill
  <2>2. CASE child # "zombie"
    BY <2>2 DEF RunInv, VerdictLast, Wait, wVars, Kill
  <2> QED
    BY <2>1, <2>2
<1>6. Lives'
  BY DEF RunInv, Lives, Wait, wVars, Kill
<1>7. Confined' /\ FlagTells'
  BY DEF RunInv, Confined, FlagTells, Wait, wVars, Kill
<1> QED
  BY <1>1, <1>2, <1>3, <1>4, <1>5, <1>6, <1>7 DEF RunInv

\* No exception of the parent is a success.
LEMMA ParentRaisesKeeps ==
    ASSUME RunInv, ParentRaises
    PROVE  RunInv'
<1>1. TypeOK'
  BY DEF RunInv, TypeOK, ParentRaises, Kill, Kinds, cVars, wVars
<1>2. VerdictLast'
  BY DEF RunInv, VerdictLast, ParentRaises, Kill, TypeOK, Lives, cVars, wVars
<1>3. Lives'
  BY DEF RunInv, Lives, ParentRaises, Kill, cVars, wVars
<1>4. Confined' /\ Stages' /\ FlagTells' /\ Answered' /\ OkBacked'
  BY DEF RunInv, Confined, Stages, FlagTells, Answered, OkBacked, ParentRaises, Kill,
       cVars, wVars,
       HasOk
<1> QED
  BY <1>1, <1>2, <1>3, <1>4 DEF RunInv

\* A success has no process left to be killed, so its status stays.
LEMMA KillProcessKeeps ==
    ASSUME RunInv, KillProcess
    PROVE  RunInv'
<1>1. TypeOK'
  BY DEF RunInv, TypeOK, KillProcess, wVars, Alive, Kinds
<1>2. Stages'
  BY DEF RunInv, Stages, KillProcess, wVars, Alive, AllLayers
<1>3. Answered'
  BY DEF RunInv, Answered, KillProcess, wVars, Alive, Kinds
<1>4. OkBacked'
  BY DEF RunInv, OkBacked, KillProcess, wVars, Alive, Stages, FlagTells, HasOk, AllLayers, Lives
<1>5. VerdictLast'
  BY DEF RunInv, VerdictLast, KillProcess, wVars, Alive, TypeOK, Lives
<1>6. Lives'
  BY DEF RunInv, Lives, KillProcess, wVars, Alive
<1>7. Confined' /\ FlagTells'
  BY DEF RunInv, Confined, FlagTells, KillProcess, wVars, Alive
<1> QED
  BY <1>1, <1>2, <1>3, <1>4, <1>5, <1>6, <1>7 DEF RunInv

\* The directory goes after the child.
LEMMA CleanKeeps ==
    ASSUME RunInv, Clean
    PROVE  RunInv'
<1>1. TypeOK'
  <2>1. tmp' \in BOOLEAN
    BY DEF Clean
  <2> QED
    BY <2>1 DEF RunInv, TypeOK, Clean, cVars, wVars
<1>2. VerdictLast'
  BY DEF RunInv, VerdictLast, Clean, TypeOK, Lives, cVars, wVars
<1>3. Lives'
  BY DEF RunInv, Lives, Clean, cVars, wVars
<1>4. Confined' /\ Stages' /\ FlagTells' /\ Answered' /\ OkBacked'
  BY DEF RunInv, Confined, Stages, FlagTells, Answered, OkBacked, Clean, cVars, wVars, HasOk
<1> QED
  BY <1>1, <1>2, <1>3, <1>4 DEF RunInv

\* Only the clock moves.
LEMMA WallTimeKeeps ==
    ASSUME RunInv, WallTime
    PROVE  RunInv'
<1>1. TypeOK'
  BY DEF RunInv, TypeOK, WallTime, Kinds, pVars, cVars, wVars
<1>2. Confined' /\ Stages' /\ FlagTells' /\ Answered' /\ OkBacked' /\ VerdictLast' /\ Lives'
  BY DEF RunInv, Confined, Stages, FlagTells, Answered, OkBacked, VerdictLast, Lives,
       WallTime, pVars, cVars, wVars, HasOk
<1> QED
  BY <1>1, <1>2 DEF RunInv

\* The child has read its request and is not confined yet.
LEMMA DecodeRequestKeeps ==
    ASSUME RunInv, DecodeRequest
    PROVE  RunInv'
<1>1. TypeOK'
  <2>1. sent' \in 0..Pieces
    BY IsolationAssumption DEF RunInv, TypeOK, DecodeRequest, Answer
  <2>2. child' \in {child, "limits", "work", "answer"} /\ answer' \in Kinds \cup {"none"}
    BY DEF RunInv, TypeOK, DecodeRequest, Answer, Kinds
  <2> QED
    BY <2>1, <2>2 DEF RunInv, TypeOK, DecodeRequest, pVars, wVars
<1>2. Stages'
  BY DEF RunInv, Stages, DecodeRequest, Answer, AllLayers, pVars, wVars
<1>3. Answered'
  BY DEF RunInv, Answered, DecodeRequest, Answer, Kinds, pVars, wVars
<1>4. OkBacked'
  BY DEF RunInv, OkBacked, DecodeRequest, Answer, Stages, FlagTells, HasOk, AllLayers,
       Lives, pVars, wVars
<1>5. VerdictLast'
  BY DEF RunInv, VerdictLast, DecodeRequest, Answer, TypeOK, Lives, pVars, wVars
<1>6. Lives'
  BY DEF RunInv, Lives, DecodeRequest, Answer, pVars, wVars
<1>7. Confined' /\ FlagTells'
  BY DEF RunInv, Confined, FlagTells, DecodeRequest, Answer, pVars, wVars
<1> QED
  BY <1>1, <1>2, <1>3, <1>4, <1>5, <1>6, <1>7 DEF RunInv

\* The next layer is in force, or the worker does not run.
LEMMA SetResourceLimitsKeeps ==
    ASSUME RunInv, SetResourceLimits
    PROVE  RunInv'
<1>1. TypeOK'
  BY InstallTypes DEF RunInv, SetResourceLimits
<1>2. Stages'
  BY DEF RunInv, Stages, SetResourceLimits, Install, Answer, AllLayers, pVars, wVars
<1>3. Answered'
  BY DEF RunInv, Answered, SetResourceLimits, Install, Answer, Kinds, pVars, wVars
<1>4. OkBacked'
  BY DEF RunInv, OkBacked, SetResourceLimits, Install, Answer, Stages, FlagTells, HasOk,
       AllLayers, Lives, pVars, wVars
<1>5. VerdictLast'
  BY DEF RunInv, VerdictLast, SetResourceLimits, Install, Answer, TypeOK, Lives, pVars, wVars
<1>6. Lives'
  BY DEF RunInv, Lives, SetResourceLimits, Install, Answer, pVars, wVars
<1>7. Confined' /\ FlagTells'
  BY DEF RunInv, Confined, FlagTells, SetResourceLimits, Install, Answer, pVars, wVars
<1> QED
  BY <1>1, <1>2, <1>3, <1>4, <1>5, <1>6, <1>7 DEF RunInv

\* The next layer is in force, or the worker does not run.
LEMMA InstallFilesystemRulesKeeps ==
    ASSUME RunInv, InstallFilesystemRules
    PROVE  RunInv'
<1>1. TypeOK'
  BY InstallTypes DEF RunInv, InstallFilesystemRules
<1>2. Stages'
  BY DEF RunInv, Stages, InstallFilesystemRules, Install, Answer, AllLayers, pVars, wVars
<1>3. Answered'
  BY DEF RunInv, Answered, InstallFilesystemRules, Install, Answer, Kinds, pVars, wVars
<1>4. OkBacked'
  BY DEF RunInv, OkBacked, InstallFilesystemRules, Install, Answer, Stages, FlagTells,
       HasOk, AllLayers, Lives, pVars, wVars
<1>5. VerdictLast'
  BY DEF RunInv, VerdictLast, InstallFilesystemRules, Install, Answer, TypeOK, Lives,
       pVars, wVars
<1>6. Lives'
  BY DEF RunInv, Lives, InstallFilesystemRules, Install, Answer, pVars, wVars
<1>7. Confined' /\ FlagTells'
  BY DEF RunInv, Confined, FlagTells, InstallFilesystemRules, Install, Answer, pVars, wVars
<1> QED
  BY <1>1, <1>2, <1>3, <1>4, <1>5, <1>6, <1>7 DEF RunInv

\* The next layer is in force, or the worker does not run.
LEMMA InstallProcessFilterKeeps ==
    ASSUME RunInv, InstallProcessFilter
    PROVE  RunInv'
<1>1. TypeOK'
  BY InstallTypes DEF RunInv, InstallProcessFilter
<1>2. Stages'
  BY DEF RunInv, Stages, InstallProcessFilter, Install, Answer, AllLayers, pVars, wVars
<1>3. Answered'
  BY DEF RunInv, Answered, InstallProcessFilter, Install, Answer, Kinds, pVars, wVars
<1>4. OkBacked'
  BY DEF RunInv, OkBacked, InstallProcessFilter, Install, Answer, Stages, FlagTells, HasOk,
       AllLayers, Lives, pVars, wVars
<1>5. VerdictLast'
  BY DEF RunInv, VerdictLast, InstallProcessFilter, Install, Answer, TypeOK, Lives, pVars, wVars
<1>6. Lives'
  BY DEF RunInv, Lives, InstallProcessFilter, Install, Answer, pVars, wVars
<1>7. Confined' /\ FlagTells'
  BY DEF RunInv, Confined, FlagTells, InstallProcessFilter, Install, Answer, pVars, wVars
<1> QED
  BY <1>1, <1>2, <1>3, <1>4, <1>5, <1>6, <1>7 DEF RunInv

\* The next layer is in force, or the worker does not run.
LEMMA AddAuditHookKeeps ==
    ASSUME RunInv, AddAuditHook
    PROVE  RunInv'
<1>1. TypeOK'
  BY InstallTypes DEF RunInv, AddAuditHook
<1>2. Stages'
  BY DEF RunInv, Stages, AddAuditHook, Install, Answer, AllLayers, pVars, wVars
<1>3. Answered'
  BY DEF RunInv, Answered, AddAuditHook, Install, Answer, Kinds, pVars, wVars
<1>4. OkBacked'
  BY DEF RunInv, OkBacked, AddAuditHook, Install, Answer, Stages, FlagTells, HasOk,
       AllLayers, Lives, pVars, wVars
<1>5. VerdictLast'
  BY DEF RunInv, VerdictLast, AddAuditHook, Install, Answer, TypeOK, Lives, pVars, wVars
<1>6. Lives'
  BY DEF RunInv, Lives, AddAuditHook, Install, Answer, pVars, wVars
<1>7. Confined' /\ FlagTells'
  BY DEF RunInv, Confined, FlagTells, AddAuditHook, Install, Answer, pVars, wVars
<1> QED
  BY <1>1, <1>2, <1>3, <1>4, <1>5, <1>6, <1>7 DEF RunInv

\* The hook is in force wherever the worker runs; a refusal sets the flag.
LEMMA TryPythonKeeps ==
    ASSUME RunInv, TryPython
    PROVE  RunInv'
<1>1. TypeOK'
  <2>1. violated' \in BOOLEAN /\ denied' \in BOOLEAN
    BY DEF RunInv, TypeOK, TryPython, WorkerRuns, Within
  <2>2. tries' \in 0..MaxTries
    BY IsolationAssumption DEF RunInv, TypeOK, TryPython, WorkerRuns, Within
  <2>3. effects' \subseteq Forbidden
    BY DEF RunInv, TypeOK, TryPython, WorkerRuns, Within
  <2>4. child' \in {child, "answer"} /\ answer' \in {answer, "isolation_violated"}
    BY DEF TryPython, WorkerRuns, Within, Answer
  <2>5. sent' \in 0..Pieces
    BY IsolationAssumption DEF RunInv, TypeOK, TryPython, WorkerRuns, Within, Answer
  <2> QED
    BY <2>1, <2>2, <2>3, <2>4, <2>5 DEF RunInv, TypeOK, TryPython, WorkerRuns, Within,
       pVars, wVars, Kinds
<1>2. Confined'
  BY DEF RunInv, Confined, TryPython, WorkerRuns, Within, Answer, Stages, AllLayers, pVars,
       wVars
<1>3. Stages'
  BY DEF RunInv, Stages, TryPython, WorkerRuns, Within, Answer, AllLayers, pVars, wVars
<1>4. FlagTells'
  BY DEF RunInv, FlagTells, TryPython, WorkerRuns, Within, Answer, pVars, wVars
<1>5. Answered'
  BY DEF RunInv, Answered, TryPython, WorkerRuns, Within, Answer, Kinds, pVars, wVars
<1>6. OkBacked'
  BY DEF RunInv, OkBacked, TryPython, WorkerRuns, Within, Answer, Stages, FlagTells, HasOk,
       AllLayers, Lives,
       pVars, wVars
<1>7. VerdictLast'
  BY DEF RunInv, VerdictLast, TryPython, WorkerRuns, Within, Answer, TypeOK, Lives, pVars, wVars
<1>8. Lives'
  BY DEF RunInv, Lives, TryPython, WorkerRuns, Within, Answer, pVars, wVars
<1> QED
  BY <1>1, <1>2, <1>3, <1>4, <1>5, <1>6, <1>7, <1>8 DEF RunInv

\* The kernel layers are in force wherever the worker runs.
LEMMA TryNativeKeeps ==
    ASSUME RunInv, TryNative
    PROVE  RunInv'
<1>1. TypeOK'
  <2>1. tries' \in 0..MaxTries
    BY IsolationAssumption DEF RunInv, TypeOK, TryNative, WorkerRuns, Within
  <2>2. effects' \subseteq Forbidden
    BY DEF RunInv, TypeOK, TryNative, WorkerRuns, Within
  <2>3. child' \in {child, "zombie"} /\ status' \in {status, "sigsys"}
    BY DEF TryNative, WorkerRuns, Within
  <2> QED
    BY <2>1, <2>2, <2>3 DEF RunInv, TypeOK, TryNative, WorkerRuns, Within, pVars, wVars
<1>2. Confined'
  BY DEF RunInv, Confined, TryNative, WorkerRuns, Within, Guard, Stages, AllLayers, pVars, wVars
<1>3. Stages'
  BY DEF RunInv, Stages, TryNative, WorkerRuns, Within, Guard, AllLayers, pVars, wVars
<1>4. Answered'
  BY DEF RunInv, Answered, TryNative, WorkerRuns, Within, Guard, Kinds, pVars, wVars
<1>5. OkBacked'
  BY DEF RunInv, OkBacked, TryNative, WorkerRuns, Within, Guard, Stages, FlagTells, HasOk,
       AllLayers, Lives,
       pVars, wVars
<1>6. VerdictLast'
  BY DEF RunInv, VerdictLast, TryNative, WorkerRuns, Within, Guard, TypeOK, Lives, pVars, wVars
<1>7. Lives'
  BY DEF RunInv, Lives, TryNative, WorkerRuns, Within, Guard, pVars, wVars
<1>8. FlagTells'
  BY DEF RunInv, FlagTells, TryNative, WorkerRuns, Within, Guard, pVars, wVars
<1> QED
  BY <1>1, <1>2, <1>3, <1>4, <1>5, <1>6, <1>7, <1>8 DEF RunInv

\* What the worker writes is written behind the layers, and is remembered.
LEMMA WriteOwnKeeps ==
    ASSUME RunInv, WriteOwn
    PROVE  RunInv'
<1>1. TypeOK'
  <2>1. tries' \in 0..MaxTries
    BY IsolationAssumption DEF RunInv, TypeOK, WriteOwn
  <2>2. PICK w \in OwnWrites : queue' = queue \o w
    BY DEF WriteOwn
  <2>3. \A k \in OwnKinds, i \in 1..Pieces : [kind |-> k, part |-> i] \in Piece
    BY IsolationAssumption DEF Piece, Kinds
  <2>4. \A k \in OwnKinds : Whole(k) \in Seq(Piece)
    BY <2>3, IsolationAssumption DEF Whole
  <2>5. w \in Seq(Piece)
    BY <2>2, <2>3, <2>4 DEF OwnWrites
  <2>6. queue' \in Seq(Piece)
    BY <2>2, <2>5 DEF RunInv, TypeOK
  <2>7. tampered' \in BOOLEAN
    BY DEF WriteOwn
  <2> QED
    BY <2>1, <2>6, <2>7 DEF RunInv, TypeOK, WriteOwn, pVars, wVars
<1>2. OkBacked'
  <2>1. layers = AllLayers
    BY DEF RunInv, Stages, WriteOwn, WorkerRuns, Within
  <2> QED
    BY <2>1 DEF OkBacked, WriteOwn
<1>3. Confined' /\ Stages' /\ FlagTells' /\ Answered' /\ VerdictLast' /\ Lives'
  BY DEF RunInv, Confined, Stages, FlagTells, Answered, VerdictLast, Lives, WriteOwn,
       pVars, wVars
<1> QED
  BY <1>1, <1>2, <1>3 DEF RunInv

\* A flag that is put back is remembered too.
LEMMA ResetFlagKeeps ==
    ASSUME RunInv, ResetFlag
    PROVE  RunInv'
<1>1. TypeOK'
  <2>1. tries' \in 0..MaxTries
    BY IsolationAssumption DEF RunInv, TypeOK, ResetFlag
  <2>2. violated' \in BOOLEAN /\ tampered' \in BOOLEAN
    BY DEF ResetFlag
  <2> QED
    BY <2>1, <2>2 DEF RunInv, TypeOK, ResetFlag, pVars, wVars
<1>2. OkBacked' /\ FlagTells'
  BY DEF RunInv, OkBacked, FlagTells, ResetFlag, HasOk
<1>3. Confined' /\ Stages' /\ Answered' /\ VerdictLast' /\ Lives'
  BY DEF RunInv, Confined, Stages, Answered, VerdictLast, Lives, ResetFlag, pVars, wVars
<1> QED
  BY <1>1, <1>2, <1>3 DEF RunInv

\* The worker is found, or its module has failed.
LEMMA ResolveKeeps ==
    ASSUME RunInv, Resolve
    PROVE  RunInv'
<1>1. TypeOK'
  <2>1. sent' \in 0..Pieces
    BY IsolationAssumption DEF RunInv, TypeOK, Resolve, Answer
  <2>2. child' \in {child, "limits", "work", "answer"} /\ answer' \in Kinds \cup {"none"}
    BY DEF RunInv, TypeOK, Resolve, Answer, Kinds
  <2> QED
    BY <2>1, <2>2 DEF RunInv, TypeOK, Resolve, pVars, wVars
<1>2. Stages'
  BY DEF RunInv, Stages, Resolve, Answer, AllLayers, pVars, wVars
<1>3. Answered'
  BY DEF RunInv, Answered, Resolve, Answer, Kinds, pVars, wVars
<1>4. OkBacked'
  BY DEF RunInv, OkBacked, Resolve, Answer, Stages, FlagTells, HasOk, AllLayers, Lives,
       pVars, wVars
<1>5. VerdictLast'
  BY DEF RunInv, VerdictLast, Resolve, Answer, TypeOK, Lives, pVars, wVars
<1>6. Lives'
  BY DEF RunInv, Lives, Resolve, Answer, pVars, wVars
<1>7. Confined' /\ FlagTells'
  BY DEF RunInv, Confined, FlagTells, Resolve, Answer, pVars, wVars
<1> QED
  BY <1>1, <1>2, <1>3, <1>4, <1>5, <1>6, <1>7 DEF RunInv

\* "ok" is decided on behind the flag, with all layers in force.
LEMMA EndWorkKeeps ==
    ASSUME RunInv, EndWork
    PROVE  RunInv'
<1>1. TypeOK'
  <2>1. sent' \in 0..Pieces
    BY IsolationAssumption DEF RunInv, TypeOK, EndWork, Returns, Answer
  <2>2. child' \in {child, "limits", "work", "answer"} /\ answer' \in Kinds \cup {"none"}
    BY DEF RunInv, TypeOK, EndWork, Returns, Answer, Kinds
  <2> QED
    BY <2>1, <2>2 DEF RunInv, TypeOK, EndWork, pVars, wVars
<1>2. Stages'
  BY DEF RunInv, Stages, EndWork, Returns, Answer, AllLayers, pVars, wVars
<1>3. Answered'
  BY DEF RunInv, Answered, EndWork, Returns, Answer, Kinds, pVars, wVars
<1>4. OkBacked'
  BY DEF RunInv, OkBacked, EndWork, Returns, Answer, Stages, FlagTells, HasOk, AllLayers,
       Lives, pVars, wVars
<1>5. VerdictLast'
  BY DEF RunInv, VerdictLast, EndWork, Returns, Answer, TypeOK, Lives, pVars, wVars
<1>6. Lives'
  BY DEF RunInv, Lives, EndWork, Returns, Answer, pVars, wVars
<1>7. Confined' /\ FlagTells'
  BY DEF RunInv, Confined, FlagTells, EndWork, Returns, Answer, pVars, wVars
<1> QED
  BY <1>1, <1>2, <1>3, <1>4, <1>5, <1>6, <1>7 DEF RunInv

\* Whoever dies has decided on nothing new.
LEMMA DiesKeeps ==
    ASSUME RunInv, Dies
    PROVE  RunInv'
<1>1. TypeOK'
  BY DEF RunInv, TypeOK, Dies, Kinds, pVars, wVars
<1>2. Stages'
  BY DEF RunInv, Stages, Dies, AllLayers, pVars, wVars
<1>3. Answered'
  BY DEF RunInv, Answered, Dies, Kinds, pVars, wVars
<1>4. OkBacked'
  BY DEF RunInv, OkBacked, Dies, Stages, FlagTells, HasOk, AllLayers, Lives, pVars, wVars
<1>5. VerdictLast'
  BY DEF RunInv, VerdictLast, Dies, Alive, TypeOK, Lives, pVars, wVars
<1>6. Lives'
  BY DEF RunInv, Lives, Dies, Alive, pVars, wVars
<1>7. Confined' /\ FlagTells'
  BY DEF RunInv, Confined, FlagTells, Dies, pVars, wVars
<1> QED
  BY <1>1, <1>2, <1>3, <1>4, <1>5, <1>6, <1>7 DEF RunInv

\* A piece of the answer that was decided on.
LEMMA WriteMessageKeeps ==
    ASSUME RunInv, WriteMessage
    PROVE  RunInv'
<1>1. TypeOK'
  <2>1. sent + 1 \in 1..Pieces /\ sent' \in 0..Pieces
    BY IsolationAssumption DEF RunInv, TypeOK, WriteMessage
  <2>2. answer \in Kinds
    BY DEF RunInv, Answered, WriteMessage
  <2>3. [kind |-> answer, part |-> sent + 1] \in Piece
    BY <2>1, <2>2 DEF Piece
  <2>4. queue' \in Seq(Piece)
    BY <2>3 DEF RunInv, TypeOK, WriteMessage
  <2> QED
    BY <2>1, <2>4 DEF RunInv, TypeOK, WriteMessage, pVars, cVars, wVars
<1>2. OkBacked'
  BY DEF RunInv, OkBacked, WriteMessage, Stages, FlagTells, HasOk, AllLayers, Lives, pVars,
       cVars, wVars
<1>3. Confined' /\ Stages' /\ FlagTells' /\ Answered' /\ VerdictLast' /\ Lives'
  BY DEF RunInv, Confined, Stages, FlagTells, Answered, VerdictLast, Lives, WriteMessage,
       pVars, cVars, wVars
<1> QED
  BY <1>1, <1>2, <1>3 DEF RunInv

\* The answer gets worse, and what was written of "ok" stays backed.
LEMMA WriteAgainKeeps ==
    ASSUME RunInv, WriteAgain
    PROVE  RunInv'
<1>1. TypeOK'
  <2>1. sent' \in 0..Pieces
    BY IsolationAssumption DEF RunInv, TypeOK, WriteAgain
  <2>2. child' \in {child, "limits", "work", "answer"} /\ answer' \in Kinds \cup {"none"}
    BY DEF RunInv, TypeOK, WriteAgain, Kinds
  <2> QED
    BY <2>1, <2>2 DEF RunInv, TypeOK, WriteAgain, pVars, wVars
<1>2. Answered'
  BY DEF RunInv, Answered, WriteAgain, Kinds, pVars, wVars
<1>3. OkBacked'
  BY DEF RunInv, OkBacked, WriteAgain, Stages, FlagTells, HasOk, AllLayers, Lives, pVars, wVars
<1>4. Confined' /\ Stages' /\ FlagTells' /\ VerdictLast' /\ Lives'
  BY DEF RunInv, Confined, Stages, FlagTells, VerdictLast, Lives, WriteAgain, pVars, wVars
<1> QED
  BY <1>1, <1>2, <1>3, <1>4 DEF RunInv

\* The child has no more to say.
LEMMA CloseResponseKeeps ==
    ASSUME RunInv, CloseResponse
    PROVE  RunInv'
<1>1. TypeOK'
  BY DEF RunInv, TypeOK, CloseResponse, Kinds, pVars, wVars
<1>2. Stages'
  BY DEF RunInv, Stages, CloseResponse, AllLayers, pVars, wVars
<1>3. Answered'
  BY DEF RunInv, Answered, CloseResponse, Kinds, pVars, wVars
<1>4. OkBacked'
  BY DEF RunInv, OkBacked, CloseResponse, Stages, FlagTells, HasOk, AllLayers, Lives,
       pVars, wVars
<1>5. VerdictLast'
  BY DEF RunInv, VerdictLast, CloseResponse, TypeOK, Lives, pVars, wVars
<1>6. Lives'
  BY DEF RunInv, Lives, CloseResponse, pVars, wVars
<1>7. Confined' /\ FlagTells'
  BY DEF RunInv, Confined, FlagTells, CloseResponse, pVars, wVars
<1> QED
  BY <1>1, <1>2, <1>3, <1>4, <1>5, <1>6, <1>7 DEF RunInv

\* The child ends on its own.
LEMMA ExitKeeps ==
    ASSUME RunInv, Exit
    PROVE  RunInv'
<1>1. TypeOK'
  BY DEF RunInv, TypeOK, Exit, Kinds, pVars, wVars
<1>2. Stages'
  BY DEF RunInv, Stages, Exit, AllLayers, pVars, wVars
<1>3. Answered'
  BY DEF RunInv, Answered, Exit, Kinds, pVars, wVars
<1>4. OkBacked'
  BY DEF RunInv, OkBacked, Exit, Stages, FlagTells, HasOk, AllLayers, Lives, pVars, wVars
<1>5. VerdictLast'
  BY DEF RunInv, VerdictLast, Exit, TypeOK, Lives, pVars, wVars
<1>6. Lives'
  BY DEF RunInv, Lives, Exit, pVars, wVars
<1>7. Confined' /\ FlagTells'
  BY DEF RunInv, Confined, FlagTells, Exit, pVars, wVars
<1> QED
  BY <1>1, <1>2, <1>3, <1>4, <1>5, <1>6, <1>7 DEF RunInv

-----------------------------------------------------------------------------
\* Every step of the parent, of the child and of the clock keeps the invariant.
THEOREM RunInductive == Spec => []RunInv
<1>1. Init => RunInv
  <2> SUFFICES ASSUME Init PROVE RunInv
    OBVIOUS
  <2>1. TypeOK
    <3>1. queue \in Seq(Piece) /\ got \in Seq(Piece)
      BY DEF Init
    <3>2. tries \in 0..MaxTries
      BY IsolationAssumption DEF Init
    <3>3. /\ violated \in BOOLEAN /\ denied \in BOOLEAN /\ expired \in BOOLEAN
          /\ tmp \in BOOLEAN /\ tampered \in BOOLEAN
      BY DEF Init
    <3>4. sent \in 0..Pieces
      BY IsolationAssumption DEF Init
    <3> QED
      BY <3>1, <3>2, <3>3, <3>4 DEF Init, TypeOK
  <2>2. Confined /\ Stages /\ FlagTells /\ Answered /\ VerdictLast /\ Lives
    BY DEF Init, Confined, Stages, FlagTells, Answered, VerdictLast, Lives
  <2>3. OkBacked
    BY DEF Init, OkBacked, HasOk
  <2> QED
    BY <2>1, <2>2, <2>3 DEF RunInv
<1>2. RunInv /\ [Next]_vars => RunInv'
  <2> SUFFICES ASSUME RunInv, [Next]_vars PROVE RunInv'
    OBVIOUS
  <2>1. CASE UNCHANGED vars
    <3>1. TypeOK'
      BY <2>1 DEF RunInv, TypeOK, vars, pVars, cVars, wVars
    <3>2. Confined' /\ Stages' /\ FlagTells' /\ Answered'
      BY <2>1 DEF RunInv, Confined, Stages, FlagTells, Answered, vars, pVars, cVars, wVars
    <3>3. OkBacked' /\ VerdictLast' /\ Lives'
      BY <2>1 DEF RunInv, OkBacked, HasOk, VerdictLast, Lives, vars, pVars, cVars, wVars
    <3> QED
      BY <3>1, <3>2, <3>3 DEF RunInv
  <2>2. CASE ParentStep \/ ParentRaises \/ WallTime
    BY <2>2, StartKeeps, WriteRequestKeeps, ReadKeeps, WaitKeeps, ParentRaisesKeeps,
       KillProcessKeeps, CleanKeeps, WallTimeKeeps
       DEF ParentStep
  <2>3. CASE ChildStep
    BY <2>3, DecodeRequestKeeps, SetResourceLimitsKeeps, InstallFilesystemRulesKeeps,
       InstallProcessFilterKeeps, AddAuditHookKeeps, TryPythonKeeps, TryNativeKeeps,
       WriteOwnKeeps, ResetFlagKeeps, ResolveKeeps, EndWorkKeeps, DiesKeeps, WriteMessageKeeps,
       WriteAgainKeeps, CloseResponseKeeps, ExitKeeps
       DEF ChildStep
  <2> QED
    BY <2>1, <2>2, <2>3 DEF Next
<1> QED
  BY <1>1, <1>2, PTL DEF Spec

\* No forbidden operation of a worker ever takes place, at import, at work or in a
\* thread it leaves running, through Python or in native code, and whichever layer
\* could not be installed.
THEOREM WorkerIsConfined == Spec => []Confined
<1>1. RunInv => Confined
  BY DEF RunInv
<1> QED
  BY <1>1, RunInductive, PTL

\* _run_isolated returns a success only for a worker that ran behind all four layers,
\* for exactly one whole message and status zero, even when the worker forged them;
\* a refusal before run returned is none of a success unless the worker tampered with
\* the flag or the descriptor.  No process and no directory is left behind.
THEOREM RunsAreClean == Spec => []RunClean
<1>1. RunInv => RunClean
  <2> SUFFICES ASSUME RunInv PROVE RunClean
    OBVIOUS
  <2>1. OkIsClean
    <3> SUFFICES ASSUME verdict = "ok"
                 PROVE  /\ got = Whole("ok") /\ status = "zero"
                        /\ layers = AllLayers /\ (denied => tampered)
      BY DEF OkIsClean, AllLayers
    <3>1. got = Whole("ok") /\ status = "zero"
      BY DEF RunInv, VerdictLast
    <3>2. HasOk(got)
      BY <3>1, WholeOk
    <3> QED
      BY <3>1, <3>2 DEF RunInv, OkBacked
  <2>2. NothingLeft
    BY DEF RunInv, Lives, NothingLeft
  <2> QED
    BY <2>1, <2>2 DEF RunInv, RunClean
<1> QED
  BY <1>1, RunInductive, PTL
=============================================================================

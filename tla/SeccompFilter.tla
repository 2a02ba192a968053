---------------------------- MODULE SeccompFilter ----------------------------
(***************************************************************************)
(* The seccomp program of geniusnew/isolation.py, instruction by           *)
(* instruction, on the classic-BPF machine the kernel runs it on: an       *)
(* accumulator, forward jumps, and a return.  The program is checked       *)
(* against what _process_filter says it decides, for every system call.    *)
(*                                                                         *)
(* Audit architectures are only compared for equality, so they are small   *)
(* numbers here; all other constants are the ones of the source.           *)
(***************************************************************************)
EXTENDS Integers, Sequences

CONSTANTS Arches,      \* audit architectures a call may carry, NativeArch among them
          Numbers,     \* system call numbers
          FirstArgs    \* low words of the first argument

NativeArch == 62
X32Bit == 1073741824          \* 0x40000000
CloneThread == 65536          \* 0x00010000
PrSetName == 15
Prctl == 157
Clone == 56
Clone3 == 435
KillNumbers == <<57, 58, 59, 105, 106, 113, 114, 116, 117, 119, 122, 123, 126, 157, 322>>

FilterAssumption ==
    /\ Arches \subseteq Nat /\ Numbers \subseteq Nat /\ FirstArgs \subseteq Nat

-----------------------------------------------------------------------------
(* _bpf and _process_filter.                                               *)

Ins(code, jt, jf, k) == [code |-> code, jt |-> jt, jf |-> jf, k |-> k]
Load(field) == Ins("LD", 0, 0, field)
Jeq(jt, jf, k) == Ins("JEQ", jt, jf, k)
Ret(action) == Ins("RET", 0, 0, action)
KillIns == Ret("KILL")

Prologue == <<
    Load("arch"), Jeq(1, 0, NativeArch), KillIns,
    Load("nr"), Ins("JGE", 0, 1, X32Bit), KillIns,
    Jeq(0, 3, Prctl), Load("arg0"), Jeq(0, 1, PrSetName), Ret("EPERM"), Load("nr")>>

\* for number in spec["kill"]: one comparison and one kill each.
Refusals ==
    [i \in 1..(2 * Len(KillNumbers)) |->
        IF i % 2 = 1 THEN Jeq(0, 1, KillNumbers[(i + 1) \div 2]) ELSE KillIns]

MutantEpilogue == <<
    Jeq(0, 1, Clone3), Ret("ENOSYS"),
    Jeq(0, 2, Clone), Load("arg0"), Ins("JSET", 1, 0, CloneThread), KillIns,
    Ret("ALLOW")>>

Epilogue == <<
    Jeq(0, 1, Clone3), Ret("ENOSYS"),
    Jeq(0, 3, Clone), Load("arg0"), Ins("JSET", 1, 0, CloneThread), KillIns,
    Ret("ALLOW")>>

Program == Prologue \o Refusals \o Epilogue

-----------------------------------------------------------------------------
(* The machine.                                                            *)

VARIABLES call,      \* the system call that is judged: arch, nr, arg0
          pc, acc,   \* next instruction and accumulator
          verdict    \* "none" until the program returns

vars == <<call, pc, acc, verdict>>

Init ==
    /\ call \in [arch : Arches, nr : Numbers, arg0 : FirstArgs]
    /\ pc = 1 /\ acc = 0 /\ verdict = "none"

\* The condition of a jump, as the kernel evaluates it.
Holds(i) ==
    \/ i.code = "JEQ" /\ acc = i.k
    \/ i.code = "JGE" /\ acc >= i.k
    \/ i.code = "JSET" /\ (acc \div i.k) % 2 = 1

Step ==
    LET i == Program[pc] IN
    /\ verdict = "none" /\ pc <= Len(Program)
    /\ \/ /\ i.code = "LD" /\ acc' = call[i.k]
          /\ pc' = pc + 1 /\ UNCHANGED verdict
       \/ /\ i.code \in {"JEQ", "JGE", "JSET"}
          /\ pc' = pc + 1 + (IF Holds(i) THEN i.jt ELSE i.jf)
          /\ UNCHANGED <<acc, verdict>>
       \/ /\ i.code = "RET" /\ verdict' = i.k
          /\ UNCHANGED <<pc, acc>>
    /\ UNCHANGED call

Next == Step

Spec == Init /\ [][Next]_vars

-----------------------------------------------------------------------------
(* What _process_filter promises.                                          *)

StartsProcess(c) ==
    \/ c.nr \in {57, 58}                                          \* fork, vfork
    \/ c.nr \in {59, 322}                                         \* execve, execveat
    \/ c.nr = Clone /\ (c.arg0 \div CloneThread) % 2 = 0

\* setuid and its kin, and every prctl but the name of a thread.
ChangesIdentity(c) ==
    \/ c.nr \in {105, 106, 113, 114, 116, 117, 119, 122, 123, 126}
    \/ c.nr = Prctl /\ c.arg0 # PrSetName

Promised(c) ==
    CASE c.arch # NativeArch \/ c.nr >= X32Bit -> "KILL"
      [] c.arch = NativeArch /\ c.nr < X32Bit /\ (StartsProcess(c) \/ ChangesIdentity(c)) -> "KILL"
      [] c.arch = NativeArch /\ c.nr = Prctl /\ c.arg0 = PrSetName -> "EPERM"
      [] c.arch = NativeArch /\ c.nr = Clone3 -> "ENOSYS"
      [] OTHER -> "ALLOW"

\* Control stays inside the program, where the kernel would refuse to load it
\* otherwise, and a comparison of a call number looks at the call number.
TypeOK ==
    /\ pc \in 1..Len(Program)
    /\ verdict \in {"none", "KILL", "EPERM", "ENOSYS", "ALLOW"}
    /\ verdict = "none" /\ Program[pc].code = "JEQ" /\ pc > Len(Prologue) =>
         acc = call.nr

\* Whatever the call, the filter returns what its description says: no process
\* and no program is started, threads are, and nothing else is refused.
FilterVerdict == verdict # "none" => verdict = Promised(call)
=============================================================================

--------------------------- MODULE FrameIdentity ---------------------------
(***************************************************************************)
(* How the Core authenticates the response stream of one worker instance:  *)
(* FrameIdentity.accept binds every recvmsg to one sender by the           *)
(* credentials and the pidfd the kernel attaches, and _recv_exact,         *)
(* _read_frame and _expect_eof cut the stream into the ready frame, the    *)
(* result frame and the end of the stream.                                 *)
(*                                                                         *)
(* Any process that holds the connection may write into it, may pass       *)
(* descriptors along, may exit and be reaped, and its PID may then be      *)
(* given to another process: recvmsg and the checks on what it returned    *)
(* are two steps, and all of this may happen between them.                 *)
(***************************************************************************)
EXTENDS Naturals, Sequences

CONSTANTS Procs,       \* processes that ever hold the worker's end
          Pids,        \* the numeric PIDs the kernel hands out
          None,        \* no process, no PID
          Limit,       \* the frame length limit
          MaxBytes,    \* bound on the bytes ever sent
          MaxQueued,   \* bound on the bytes in the socket
          MaxRights    \* descriptors passed along with one byte

FrameAssumption ==
    /\ None \notin Procs \cup Pids
    /\ {Limit, MaxBytes, MaxQueued, MaxRights} \subseteq Nat /\ Limit # 0

VARIABLES life,      \* life of each process: none, run, zombie, reaped
          pidOf,     \* its numeric PID
          uidOf,     \* whether it runs under the expected UID and GID
          stream,    \* bytes in the socket, each with its sender
          sent,      \* the number of bytes ever sent
          shut,      \* all writers have closed the connection
          at,        \* where the reader is
          frame,     \* which frame it reads: 1 ready, 2 result
          remaining, \* bytes _recv_exact still wants
          frag,      \* what the last recvmsg returned, not yet judged
          bound,     \* the process FrameIdentity retains (pid and pidfd)
          writers,   \* who wrote the bytes accepted so far
          got,       \* their number
          lengths,   \* the lengths the headers accepted so far give
          open       \* descriptors the Core holds on behalf of the stream

kernel == <<life, pidOf, uidOf, stream, sent, shut>>
accepted == <<writers, got, lengths>>
reader == <<at, frame, remaining, frag, bound, accepted, open>>
vars == <<kernel, reader>>

\* One byte: its sender, the length it spells if it is a header, and the
\* descriptors that travel with it.
Byte == [from : Procs, size : 0 .. Limit + 1, rights : 0 .. MaxRights]

NoFrag == [data |-> <<>>, pidfd |-> "none", rights |-> 0, flags |-> FALSE]

Init ==
    /\ life = [p \in Procs |-> "none"]
    /\ pidOf = [p \in Procs |-> None]
    /\ uidOf = [p \in Procs |-> TRUE]
    /\ stream = <<>> /\ sent = 0 /\ shut = FALSE
    /\ at = "header" /\ frame = 1 /\ remaining = 1
    /\ frag = NoFrag /\ bound = None /\ open = 0
    /\ writers = {} /\ got = 0 /\ lengths = <<>>

---------------------------------------------------------------------------
(* The worker's side and the kernel, while the reader is still reading. *)

Listening == at \in {"header", "body", "eof"}

\* A process starts, or inherits the connection from one that has it.  Its
\* PID is any number no process still holds, one that was used included.
Spawn(p) ==
    /\ life[p] = "none" /\ Listening
    /\ \E n \in Pids, u \in BOOLEAN :
         /\ \A q \in Procs : life[q] \in {"run", "zombie"} => pidOf[q] # n
         /\ pidOf' = [pidOf EXCEPT ![p] = n]
         /\ uidOf' = [uidOf EXCEPT ![p] = u]
    /\ life' = [life EXCEPT ![p] = "run"]
    /\ UNCHANGED <<stream, sent, shut, reader>>

SendByte(p) ==
    /\ life[p] = "run" /\ ~shut /\ Listening
    /\ sent < MaxBytes /\ Len(stream) < MaxQueued
    /\ \E b \in Byte :
         /\ b.from = p
         /\ stream' = Append(stream, b)
    /\ sent' = sent + 1
    /\ UNCHANGED <<life, pidOf, uidOf, shut, reader>>

Exit(p) ==
    /\ life[p] = "run" /\ Listening
    /\ life' = [life EXCEPT ![p] = "zombie"]
    /\ UNCHANGED <<pidOf, uidOf, stream, sent, shut, reader>>

Reap(p) ==
    /\ life[p] = "zombie" /\ Listening
    /\ life' = [life EXCEPT ![p] = "reaped"]
    /\ UNCHANGED <<pidOf, uidOf, stream, sent, shut, reader>>

ShutDown ==
    /\ ~shut /\ Listening /\ shut' = TRUE
    /\ UNCHANGED <<life, pidOf, uidOf, stream, sent, reader>>

---------------------------------------------------------------------------
(* The reader. *)

Reading == Listening /\ frag = NoFrag

\* What recvmsg attaches for a byte of p: a fresh pidfd, or a negative
\* number when p has been reaped by then.
PidfdOf(p) == IF life[p] = "reaped" THEN "sentinel" ELSE "live"

\* _pidfd_pid: fdinfo names no PID once the process is gone.
PidfdPid(p) == IF life[p] = "reaped" THEN None ELSE pidOf[p]

\* _pidfd_exited
PidfdExited(p) == life[p] \in {"zombie", "reaped"}

\* recvmsg of at most `remaining` bytes (one byte when an end is expected).
\* It never joins bytes of two senders, nor bytes behind passed descriptors.
\* Every descriptor it reports is already installed in the Core's table.
\* The control buffer may be cut short, which leaves the pidfd out.
Receive ==
    /\ Reading /\ stream # <<>>
    /\ \E k \in 1 .. remaining :
         /\ k <= Len(stream)
         /\ \A i \in 2 .. k : /\ stream[i].from = stream[1].from
                              /\ stream[i].rights = 0
         /\ LET p == stream[1].from IN
            \E cut \in BOOLEAN, r \in 0 .. stream[1].rights :
              /\ ~cut => r = stream[1].rights
              /\ frag' = [data   |-> SubSeq(stream, 1, k),
                          pidfd  |-> IF cut THEN "none" ELSE PidfdOf(p),
                          rights |-> r,
                          flags  |-> cut]
         /\ stream' = SubSeq(stream, k + 1, Len(stream))
    /\ open' = open + frag'.rights + (IF frag'.pidfd = "live" THEN 1 ELSE 0)
    /\ UNCHANGED <<life, pidOf, uidOf, sent, shut, at, frame, remaining,
                   bound, accepted>>

\* recvmsg at the end of the stream: no byte; SO_PASSCRED may add a
\* zero-filled credential, which names nobody.
ReceiveEnd ==
    /\ Reading /\ stream = <<>> /\ shut
    /\ at' = IF at = "eof" /\ bound # None THEN "done" ELSE "refused"
    /\ UNCHANGED <<kernel, frame, remaining, frag, bound, accepted, open>>

MutantOwned(f) == f.rights

\* The descriptors accept lists in owned_fds.
Owned(f) == f.rights + (IF f.pidfd = "live" THEN 1 ELSE 0)

MutantCredentialsMatch(p) == uidOf[p]

\* The credentials of a fragment are those of the sender's time of sending.
CredentialsMatch(p) ==
    /\ uidOf[p]
    /\ bound # None => pidOf[p] = pidOf[bound]

\* accept's judgement of a fragment that carries data.
Acceptable(f) ==
    LET p == f.data[1].from IN
    /\ ~f.flags /\ f.rights = 0
    /\ CredentialsMatch(p)
    /\ f.pidfd # "none"
    /\ \/ /\ bound = None /\ f.pidfd = "live"
          /\ PidfdPid(p) = pidOf[p] /\ ~PidfdExited(p)
       \/ bound # None /\ f.pidfd = "sentinel" /\ PidfdExited(bound)
       \/ bound # None /\ f.pidfd = "live" /\ PidfdPid(p) = pidOf[bound]

\* The first accepted fragment binds; its pidfd is kept, every other
\* descriptor is closed whatever the judgement.
Kept(f) == IF Acceptable(f) /\ bound = None THEN 1 ELSE 0

MutantLegalLength(size) == size > 0

\* A frame is neither empty nor longer than its limit.
LegalLength(size) == size \in 1 .. Limit

MutantContinue(f) ==
    LET size == f.data[1].size IN
    IF at = "body"
    THEN frame' = 2 /\ remaining' = 1 /\ at' = IF frame = 1 THEN "header" ELSE "eof"
    ELSE IF at = "header" /\ LegalLength(size)
    THEN at' = "body" /\ remaining' = size /\ frame' = frame
    ELSE at' = "refused" /\ UNCHANGED <<remaining, frame>>

\* Where _recv_exact, _read_frame and _expect_eof go once the bytes wanted
\* are there: a header of a legal length is followed by that many bytes, the
\* ready frame by the result frame, and the result frame by the end.
Continue(f) ==
    LET left == remaining - Len(f.data)
        size == f.data[1].size
    IN CASE left > 0 -> at' = at /\ remaining' = left /\ frame' = frame
         [] left = 0 /\ at = "header" ->
              IF LegalLength(size)
              THEN at' = "body" /\ remaining' = size /\ frame' = frame
              ELSE at' = "refused" /\ UNCHANGED <<remaining, frame>>
         [] left = 0 /\ at = "body" ->
              \* a frame that is not canonical JSON is refused
              \/ at' = "refused" /\ UNCHANGED <<remaining, frame>>
              \/ /\ frame' = 2 /\ remaining' = 1
                 /\ at' = IF frame = 1 THEN "header" ELSE "eof"
         [] at = "eof" -> at' = "refused" /\ UNCHANGED <<remaining, frame>>

Accept ==
    /\ frag # NoFrag
    /\ open' = open - Owned(frag) + Kept(frag)
    /\ IF Acceptable(frag)
       THEN /\ bound' = IF bound = None THEN frag.data[1].from ELSE bound
            /\ writers' = writers \cup {frag.data[1].from}
            /\ got' = got + Len(frag.data)
            /\ lengths' = IF at = "header"
                          THEN Append(lengths, frag.data[1].size) ELSE lengths
            /\ Continue(frag)
       ELSE /\ at' = "refused"
            /\ UNCHANGED <<bound, accepted, frame, remaining>>
    /\ frag' = NoFrag
    /\ UNCHANGED kernel

\* The deadline passes while the reader waits.
DeadlineExceeded ==
    /\ Reading /\ at' = "refused"
    /\ UNCHANGED <<kernel, frame, remaining, frag, bound, accepted, open>>

\* The end of the exchange, successful or not: the connection is closed with
\* what it still holds.  The pidfd goes once the end of the bound invocation
\* is confirmed; without that it is kept, with the lease, in _pending.
Close ==
    /\ at \in {"done", "refused"}
    /\ \/ bound # None /\ at' = "confirmed" /\ open' = open - 1
       \/ at' = "pending" /\ UNCHANGED open
    /\ stream' = <<>>
    /\ UNCHANGED <<life, pidOf, uidOf, sent, shut, frame, remaining, frag,
                   bound, accepted>>

Next ==
    \/ \E p \in Procs : Spawn(p) \/ SendByte(p) \/ Exit(p) \/ Reap(p)
    \/ ShutDown
    \/ Receive \/ ReceiveEnd \/ Accept \/ DeadlineExceeded \/ Close

Spec == Init /\ [][Next]_vars

---------------------------------------------------------------------------
(* Properties *)

\* Types of the processes, the stream and the reader; a frame the reader goes on
\* with declares between 1 and Limit bytes.
TypeOK ==
    /\ life \in [Procs -> {"none", "run", "zombie", "reaped"}]
    /\ pidOf \in [Procs -> Pids \cup {None}]
    /\ uidOf \in [Procs -> BOOLEAN]
    /\ sent \in 0 .. MaxBytes /\ stream \in Seq(Byte)
    /\ writers \subseteq Procs /\ got \in 0 .. MaxBytes
    /\ lengths \in Seq(0 .. Limit + 1)
    /\ shut \in BOOLEAN
    /\ at \in {"header", "body", "eof", "done", "refused", "confirmed", "pending"}
    /\ frame \in 1 .. 2 /\ remaining \in 1 .. Limit
    /\ frag.data \in Seq(Byte)
    /\ frag.pidfd \in {"none", "live", "sentinel"}
    /\ bound \in Procs \cup {None}
    /\ open \in Nat

\* FrameIdentity's promise: every accepted byte, in every fragment of both
\* frames, was written under the expected UID by the process bound first.
\* The one other writer that passes is a process that was given the bound
\* process's PID after that process was reaped.
OneSender ==
    \A p \in writers :
        /\ uidOf[p]
        /\ p = bound \/ (life[bound] = "reaped" /\ pidOf[p] = pidOf[bound])

\* accept's finally: between two fragments the Core holds exactly the pidfd
\* it retained, whatever came along with the bytes and however they were
\* judged, and nothing once the end of the worker is confirmed.
DescriptorsAccounted ==
    frag = NoFrag =>
        open = IF bound # None /\ at # "confirmed" THEN 1 ELSE 0

\* _read_frame twice and _expect_eof: an exchange that succeeds has consumed
\* all that was ever written, and that is two frames of the lengths their
\* headers give, with nothing before, between or behind them.
ExactStream ==
    at = "done" =>
        /\ stream = <<>> /\ got = sent
        /\ Len(lengths) = 2
        /\ got = 2 + lengths[1] + lengths[2]
=============================================================================

---------------------------- MODULE WorkerService ----------------------------
(***************************************************************************)
(* The worker service of geniusnew/worker_service.py: Core processes that  *)
(* dispatch one job at a time to a socket-activated worker of its own UID. *)
(* A dispatching thread holds a host-wide flock lease through handshake,   *)
(* work and cleanup; systemd accepts a connection, starts one instance for *)
(* it and cleans up after it; the instance answers once and ends.          *)
(*                                                                         *)
(* Connection k, the instance systemd starts for it and the nonce of its   *)
(* handshake share the name k.  A byte stream that is only appended to is  *)
(* the set of the frames written so far.  A deadline is a step that may be *)
(* taken whenever the code waits.                                          *)
(***************************************************************************)
EXTENDS Naturals, Sequences, FiniteSets

CONSTANTS Threads,      \* dispatching threads
          CoreOf,         \* the Core process of each thread
          Inodes,         \* inodes the lease path may name
          Outcomes,       \* what a worker may answer: an output or an error code
          None,
          MaxConnections, \* bound on the connections of a behaviour
          MaxFaults       \* bound on the crashes and the host changes, together

ASSUME WorkerServiceAssumption ==
    /\ MaxConnections \in Nat /\ MaxFaults \in Nat
    /\ None \notin Threads \cup Inodes \cup Outcomes \cup (1..MaxConnections)
    /\ DOMAIN CoreOf = Threads

Conns == 1..MaxConnections
Cores == {CoreOf[t] : t \in Threads}

VARIABLES
    \* the host
    lock,      \* flock: the thread whose open description locks an inode
    leaseIno,  \* the inode behind the lease path
    refIno,    \* the lease inode the root-written host reference names
    unitDef,   \* systemd has the fixed unit loaded, without drop-ins
    faults,
    \* the Cores
    boot,      \* per Core: down, starting or up
    pending,   \* per Core: _pending holds an unconfirmed lease
    pc, ino, mine, bound, got, answer,   \* per thread
    since,     \* history, per thread: changes of the loaded unit since its preflight
    \* connections and worker instances
    queue,     \* connections systemd has not accepted yet
    conn, wire, unit, work, hard, seen, out, residue

hostVars == <<lock, leaseIno, refIno, unitDef>>
coreVars == <<boot, pending, pc, ino, mine, bound, got, answer, since>>
instVars == <<queue, conn, wire, unit, work, hard, seen, out, residue>>
vars == <<hostVars, faults, coreVars, instVars>>

Phases == {"rest", "preflight", "open", "lock", "verify", "assert", "connect", "ready", "bind",
           "send", "result", "eof", "await"}
InExchange == {"ready", "bind", "send", "result", "eof"}
Frames == {"HELLO", "READY", "REQUEST", "CoreEOF", "RESULT", "WorkerEOF"}

Init ==
    /\ lock = [i \in Inodes |-> None]
    /\ leaseIno \in Inodes /\ refIno = leaseIno
    /\ unitDef = TRUE /\ faults = 0
    /\ boot = [c \in Cores |-> "down"] /\ pending = [c \in Cores |-> FALSE]
    /\ pc = [t \in Threads |-> "rest"]
    /\ ino = [t \in Threads |-> None] /\ mine = [t \in Threads |-> None]
    /\ bound = [t \in Threads |-> FALSE] /\ got = [t \in Threads |-> None]
    /\ answer = [t \in Threads |-> None] /\ since = [t \in Threads |-> 0]
    /\ queue = <<>>
    /\ conn = [k \in Conns |-> "free"] /\ wire = [k \in Conns |-> {}]
    /\ unit = [k \in Conns |-> "none"] /\ work = [k \in Conns |-> "none"]
    /\ hard = [k \in Conns |-> FALSE] /\ seen = [k \in Conns |-> FALSE]
    /\ out = [k \in Conns |-> None] /\ residue = [k \in Conns |-> {}]

-----------------------------------------------------------------------------
(* What the Core reads of the host.                                        *)

\* The main process of an instance lives.
Alive(k) == work[k] \notin {"none", "gone"}

\* systemd shows the unit inactive or failed with MainPID 0.
UnitEnded(k) == unit[k] # "active"

\* _require_empty_cgroup, _uid_processes: a process of the worker UID exists.
UidProcess == \E k \in Conns : Alive(k) \/ "process" \in residue[k]

\* _check_host_namespaces, with or without the open lease.
ReferenceMatches(i) == refIno = i

\* _check_unit_file, _check_unit_source, _check_unit_content: the loaded unit comes
\* from the fixed file, word for word, and no drop-in changes it.
FixedUnit == unitDef

\* bind, _check_instance_settings, _check_exec: systemctl show says that instance k
\* is active and prints its settings, those that are loaded now and not those its
\* process was started with.
FixedInstance(k) == unit[k] = "active" /\ unitDef

\* preflight: identity, host reference, nodes, installation, unit files and
\* the effective properties of the socket unit.
HostReady == ReferenceMatches(leaseIno) /\ FixedUnit

\* assert_idle: no active unit, no occupied cgroup, an empty runtime root, and
\* no process of the worker UID.
Idle == /\ \A k \in Conns : UnitEnded(k) /\ residue[k] = {}
        /\ ~UidProcess

-----------------------------------------------------------------------------
(* The lease, and the two ways a call keeps or gives it back.              *)

SetPc(t, s) == pc' = [pc EXCEPT ![t] = s]

\* os.close(lease): the lock goes with the description.
CloseLease(t) == lock' = [lock EXCEPT ![ino[t]] = None]

\* preflight, before a start-up check and before every call's acquire.
Preflight(t) ==
    /\ pc[t] = "preflight"
    /\ IF HostReady
       THEN SetPc(t, "open") /\ UNCHANGED boot
       ELSE /\ SetPc(t, "rest")
            /\ boot' = [boot EXCEPT ![CoreOf[t]] = IF @ = "starting" THEN "down" ELSE @]
    /\ since' = [since EXCEPT ![t] = 0]
    /\ UNCHANGED <<hostVars, faults, pending, ino, mine, bound, got, answer, instVars>>

\* acquire: the lease path is opened, whatever inode it names by now.
Open(t) ==
    /\ pc[t] = "open"
    /\ ino' = [ino EXCEPT ![t] = leaseIno]
    /\ SetPc(t, "lock")
    /\ UNCHANGED <<hostVars, faults, boot, pending, mine, bound, got, answer, since, instVars>>

\* A refusal inside acquire: the description is closed, nothing is kept.
GiveUpLease(t) ==
    /\ SetPc(t, "rest")
    /\ ino' = [ino EXCEPT ![t] = None]
    /\ boot' = [boot EXCEPT ![CoreOf[t]] = IF @ = "starting" THEN "down" ELSE @]

\* flock without LOCK_NB.
MutantLock(t) ==
    /\ pc[t] = "lock"
    /\ lock[ino[t]] = None
    /\ IF leaseIno = ino[t]
       THEN /\ lock' = [lock EXCEPT ![ino[t]] = t]
            /\ SetPc(t, "verify") /\ UNCHANGED <<ino, boot>>
       ELSE GiveUpLease(t) /\ UNCHANGED lock
    /\ UNCHANGED <<leaseIno, refIno, unitDef, faults, pending, mine, bound, got,
                   answer, since, instVars>>

\* acquire: the path still names the opened inode, and flock LOCK_EX | LOCK_NB.
Lock(t) ==
    /\ pc[t] = "lock"
    /\ IF leaseIno = ino[t] /\ lock[ino[t]] = None
       THEN /\ lock' = [lock EXCEPT ![ino[t]] = t]
            /\ SetPc(t, "verify") /\ UNCHANGED <<ino, boot>>
       ELSE GiveUpLease(t) /\ UNCHANGED lock
    /\ UNCHANGED <<leaseIno, refIno, unitDef, faults, pending, mine, bound, got,
                   answer, since, instVars>>

MutantVerify(t) ==
    /\ pc[t] = "verify"
    /\ SetPc(t, "assert")
    /\ UNCHANGED <<hostVars, faults, boot, ino, pending, mine, bound, got, answer, since, instVars>>

\* acquire: the host reference is compared again, now with the locked inode.
Verify(t) ==
    /\ pc[t] = "verify"
    /\ IF ReferenceMatches(ino[t])
       THEN SetPc(t, "assert") /\ UNCHANGED <<lock, ino, boot>>
       ELSE GiveUpLease(t) /\ CloseLease(t)
    /\ UNCHANGED <<leaseIno, refIno, unitDef, faults, pending, mine, bound, got,
                   answer, since, instVars>>

\* wiring.build makes the runner and calls ServiceWorkerRunner.preflight before
\* the service is up; the thread that builds it takes the lease for one check.
Start(t) ==
    /\ boot[CoreOf[t]] = "down"
    /\ boot' = [boot EXCEPT ![CoreOf[t]] = "starting"]
    /\ SetPc(t, "preflight")
    /\ UNCHANGED <<hostVars, faults, pending, ino, mine, bound, got, answer, since, instVars>>

\* _run_worker is called: an unconfirmed prior instance refuses at once.
Call(t) ==
    /\ boot[CoreOf[t]] = "up" /\ pc[t] = "rest" /\ ~pending[CoreOf[t]]
    /\ answer' = [answer EXCEPT ![t] = None]
    /\ SetPc(t, "preflight")
    /\ UNCHANGED <<hostVars, faults, boot, pending, ino, mine, bound, got, since, instVars>>

\* The call returns or raises, and its exchange goes with it.
Leave(t) ==
    /\ SetPc(t, "rest")
    /\ mine' = [mine EXCEPT ![t] = None]
    /\ bound' = [bound EXCEPT ![t] = FALSE]
    /\ got' = [got EXCEPT ![t] = None]

\* The finally branch without confirmation: the lease is kept for good.
Retain(t) ==
    /\ Leave(t)
    /\ pending' = [pending EXCEPT ![CoreOf[t]] = TRUE]
    /\ UNCHANGED <<lock, ino>>

\* assert_idle under the lease.  The start-up check closes the lease either way.
AssertIdle(t) ==
    LET c == CoreOf[t] IN
    /\ pc[t] = "assert"
    /\ IF boot[c] = "starting"
       THEN /\ Leave(t) /\ CloseLease(t) /\ ino' = [ino EXCEPT ![t] = None]
            /\ boot' = [boot EXCEPT ![c] = IF Idle THEN "up" ELSE "down"]
            /\ UNCHANGED pending
       ELSE /\ IF Idle THEN /\ SetPc(t, "connect")
                             /\ UNCHANGED <<lock, ino, pending, mine, bound, got>>
                       ELSE Retain(t)
            /\ UNCHANGED boot
    /\ UNCHANGED <<leaseIno, refIno, unitDef, faults, answer, since, instVars>>

-----------------------------------------------------------------------------
(* The exchange.                                                           *)

Write(k, f) == wire' = [wire EXCEPT ![k] = @ \cup {f}]

\* _connect, and HELLO written into the socket; connect itself may fail.
Connect(t) ==
    /\ pc[t] = "connect"
    /\ \/ \E k \in Conns :
             /\ conn[k] = "free" /\ \A j \in 1..(k - 1) : conn[j] # "free"
             /\ conn' = [conn EXCEPT ![k] = "queued"]
             /\ queue' = Append(queue, k)
             /\ mine' = [mine EXCEPT ![t] = k]
             /\ Write(k, "HELLO")
             /\ SetPc(t, "ready")
             /\ UNCHANGED <<lock, ino, pending, bound, got>>
       \/ Retain(t) /\ UNCHANGED <<conn, queue, wire>>
    /\ UNCHANGED <<leaseIno, refIno, unitDef, faults, boot, answer, since, unit, work, hard,
                   seen, out, residue>>

\* READY arrived and names the nonce of this connection.
ReadReady(t) ==
    /\ pc[t] = "ready" /\ "READY" \in wire[mine[t]]
    /\ SetPc(t, "bind")
    /\ UNCHANGED <<hostVars, faults, boot, pending, ino, mine, bound, got, answer, since, instVars>>

MutantBind(t) ==
    /\ pc[t] = "bind"
    /\ Alive(mine[t]) /\ unit[mine[t]] = "active"
    /\ bound' = [bound EXCEPT ![t] = TRUE]
    /\ SetPc(t, "send")
    /\ UNCHANGED <<hostVars, faults, boot, pending, ino, mine, got, answer, since, instVars>>

\* bind: the sender lives, is the main process of an active instance of the fixed
\* unit with its hardening loaded, and has its private directory.
Bind(t) ==
    /\ pc[t] = "bind"
    /\ Alive(mine[t]) /\ FixedInstance(mine[t]) /\ FixedUnit
    /\ bound' = [bound EXCEPT ![t] = TRUE]
    /\ SetPc(t, "send")
    /\ UNCHANGED <<hostVars, faults, boot, pending, ino, mine, got, answer, since, instVars>>

\* The last liveness check, REQUEST, and shutdown(SHUT_WR).
Send(t) ==
    /\ pc[t] = "send" /\ Alive(mine[t])
    /\ wire' = [wire EXCEPT ![mine[t]] = @ \cup {"REQUEST", "CoreEOF"}]
    /\ SetPc(t, "result")
    /\ UNCHANGED <<hostVars, faults, boot, pending, ino, mine, bound, got, answer, since, queue,
                   conn, unit, work, hard, seen, out, residue>>

ReadResult(t) ==
    /\ pc[t] = "result" /\ "RESULT" \in wire[mine[t]]
    /\ got' = [got EXCEPT ![t] = out[mine[t]]]
    /\ SetPc(t, "eof")
    /\ UNCHANGED <<hostVars, faults, boot, pending, ino, mine, bound, answer, since, instVars>>

\* The Core leaves the with block: its end of the connection is closed.
CloseConnection(t) == Write(mine[t], "CoreEOF")

ExpectEof(t) ==
    /\ pc[t] = "eof" /\ "WorkerEOF" \in wire[mine[t]]
    /\ CloseConnection(t)
    /\ SetPc(t, "await")
    /\ UNCHANGED <<hostVars, faults, boot, pending, ino, mine, bound, got, answer, since, queue,
                   conn, unit, work, hard, seen, out, residue>>

\* A ContractError inside the exchange: a deadline, a truncated or forbidden
\* frame, or a failed bind.  The end is awaited only for a bound invocation.
ExchangeFails(t) ==
    /\ pc[t] \in InExchange
    /\ CloseConnection(t)
    /\ IF bound[t] THEN /\ SetPc(t, "await") /\ got' = [got EXCEPT ![t] = None]
                        /\ UNCHANGED <<lock, ino, pending, mine, bound>>
                   ELSE Retain(t)
    /\ UNCHANGED <<leaseIno, refIno, unitDef, faults, boot, answer, since, queue,
                   conn, unit, work, hard, seen, out, residue>>

\* await_end: the bound invocation has ended and left nothing.
Ended(k) ==
    /\ UnitEnded(k) /\ ~Alive(k) /\ residue[k] = {}
    /\ ~UidProcess

Confirm(t) ==
    /\ pc[t] = "await" /\ Ended(mine[t])
    /\ CloseLease(t) /\ ino' = [ino EXCEPT ![t] = None]
    /\ answer' = [answer EXCEPT ![t] =
                    IF got[t] = None THEN None ELSE [conn |-> mine[t], out |-> got[t]]]
    /\ Leave(t)
    /\ UNCHANGED <<leaseIno, refIno, unitDef, faults, boot, pending, since, instVars>>

\* The total deadline passes before the end is confirmed.
AwaitExpires(t) ==
    /\ pc[t] = "await"
    /\ Retain(t)
    /\ UNCHANGED <<leaseIno, refIno, unitDef, faults, boot, answer, since, instVars>>

\* A Core process ends: its descriptions, locks and connections go with it.
Crash(c) ==
    LET gone == {t \in Threads : CoreOf[t] = c} IN
    /\ boot[c] # "down" /\ faults < MaxFaults
    /\ faults' = faults + 1
    /\ boot' = [boot EXCEPT ![c] = "down"]
    /\ pending' = [pending EXCEPT ![c] = FALSE]
    /\ pc' = [t \in Threads |-> IF t \in gone THEN "rest" ELSE pc[t]]
    /\ ino' = [t \in Threads |-> IF t \in gone THEN None ELSE ino[t]]
    /\ answer' = [t \in Threads |-> IF t \in gone THEN None ELSE answer[t]]
    /\ lock' = [i \in Inodes |-> IF lock[i] \in gone THEN None ELSE lock[i]]
    /\ wire' = [k \in Conns |-> IF \E t \in gone : mine[t] = k
                                THEN wire[k] \cup {"CoreEOF"} ELSE wire[k]]
    /\ mine' = [t \in Threads |-> IF t \in gone THEN None ELSE mine[t]]
    /\ bound' = [t \in Threads |-> t \notin gone /\ bound[t]]
    /\ got' = [t \in Threads |-> IF t \in gone THEN None ELSE got[t]]
    /\ UNCHANGED <<leaseIno, refIno, unitDef, since, queue, conn, unit, work, hard,
                   seen, out, residue>>

-----------------------------------------------------------------------------
(* systemd, as the unit and socket templates of ops/worker configure it.    *)

\* Accept=yes, MaxConnections=1: a connection beyond the limit is dropped.
Accept ==
    /\ queue # <<>> /\ queue' = Tail(queue)
    /\ LET k == Head(queue) IN
       IF \E j \in Conns : unit[j] = "active"
       THEN /\ conn' = [conn EXCEPT ![k] = "dropped"]
            /\ Write(k, "WorkerEOF")
            /\ UNCHANGED <<unit, work, hard, residue>>
       ELSE /\ conn' = [conn EXCEPT ![k] = "accepted"]
            /\ unit' = [unit EXCEPT ![k] = "active"]
            /\ work' = [work EXCEPT ![k] = "hello"]
            /\ hard' = [hard EXCEPT ![k] = unitDef]
            /\ residue' = [residue EXCEPT ![k] = {"directory"}]
            /\ UNCHANGED wire
    /\ UNCHANGED <<hostVars, faults, coreVars, seen, out>>

\* KillMode=control-group, SendSIGKILL, TimeoutStopSec: the unit becomes
\* inactive or failed once its main process is gone; a process the kernel has
\* not ended yet and the runtime directory may outlast it.
UnitEnds(k) ==
    /\ unit[k] = "active" /\ ~Alive(k)
    /\ unit' = [unit EXCEPT ![k] = "ended"]
    /\ \E left \in SUBSET {"process"} : residue' = [residue EXCEPT ![k] = @ \cup left]
    /\ UNCHANGED <<hostVars, faults, coreVars, queue, conn, wire, work, hard, seen, out>>

Clean(k) ==
    /\ unit[k] = "ended" /\ residue[k] # {}
    /\ \E r \in residue[k] : residue' = [residue EXCEPT ![k] = @ \ {r}]
    /\ UNCHANGED <<hostVars, faults, coreVars, queue, conn, wire, unit, work, hard, seen, out>>

\* The host changes: a unit drop-in comes or goes, or the lease file is made anew.
HostChange ==
    /\ faults < MaxFaults /\ faults' = faults + 1
    /\ \/ /\ unitDef' = ~unitDef /\ UNCHANGED leaseIno
          /\ since' = [t \in Threads |-> IF pc[t] \in {"rest", "preflight"} THEN 0
                                         ELSE IF since[t] = 0 THEN 1 ELSE 2]
       \/ \E i \in Inodes \ {leaseIno} : leaseIno' = i /\ UNCHANGED <<unitDef, since>>
    /\ UNCHANGED <<lock, refIno, boot, pending, pc, ino, mine, bound, got, answer, instVars>>

\* host_reference: root provisions the host before a Core is started.
Provision ==
    /\ refIno # leaseIno /\ \A c \in Cores : boot[c] = "down"
    /\ refIno' = leaseIno
    /\ UNCHANGED <<lock, leaseIno, unitDef, faults, coreVars, instVars>>

-----------------------------------------------------------------------------
(* The worker instance.                                                    *)

\* Identity, outputs, descriptors and peer are right, HELLO is read, the process
\* is limited and confined, and only then READY is written.
WorkerReady(k) ==
    /\ work[k] = "hello" /\ "HELLO" \in wire[k]
    /\ Write(k, "READY")
    /\ work' = [work EXCEPT ![k] = "request"]
    /\ UNCHANGED <<hostVars, faults, coreVars, queue, conn, unit, hard, seen, out, residue>>

\* REQUEST is read and validated against the ceiling.
WorkerRequest(k) ==
    /\ work[k] = "request" /\ "REQUEST" \in wire[k]
    /\ seen' = [seen EXCEPT ![k] = TRUE]
    /\ work' = [work EXCEPT ![k] = "eof"]
    /\ UNCHANGED <<hostVars, faults, coreVars, queue, conn, wire, unit, hard, out, residue>>

\* The request's end, the job under the wall timer, and RESULT with its outcome.
WorkerRun(k) ==
    /\ work[k] = "eof" /\ "CoreEOF" \in wire[k]
    /\ \E o \in Outcomes : out' = [out EXCEPT ![k] = o]
    /\ Write(k, "RESULT")
    /\ work' = [work EXCEPT ![k] = "sent"]
    /\ UNCHANGED <<hostVars, faults, coreVars, queue, conn, unit, hard, seen, residue>>

\* main returns: after RESULT, or from any refusal, deadline or signal.
WorkerExit(k) ==
    /\ Alive(k)
    /\ work' = [work EXCEPT ![k] = "gone"]
    /\ Write(k, "WorkerEOF")
    /\ UNCHANGED <<hostVars, faults, coreVars, queue, conn, unit, hard, seen, out, residue>>

-----------------------------------------------------------------------------
CoreStep(t) ==
    \/ Preflight(t) \/ Open(t) \/ Lock(t) \/ Verify(t) \/ AssertIdle(t) \/ Connect(t)
    \/ ReadReady(t) \/ Bind(t) \/ Send(t) \/ ReadResult(t) \/ ExpectEof(t)
    \/ ExchangeFails(t) \/ Confirm(t) \/ AwaitExpires(t)

InstanceStep(k) ==
    \/ WorkerReady(k) \/ WorkerRequest(k) \/ WorkerRun(k) \/ WorkerExit(k)
    \/ UnitEnds(k) \/ Clean(k)

Next ==
    \/ \E t \in Threads : Start(t) \/ Call(t) \/ CoreStep(t)
    \/ \E k \in Conns : InstanceStep(k)
    \/ \E c \in Cores : Crash(c)
    \/ Accept \/ HostChange \/ Provision

\* A dispatching thread runs on: every wait of it has a deadline.  Nothing is assumed
\* of systemd, of the instance or of the manager.
Fairness == \A t \in Threads : WF_vars(CoreStep(t))

Spec == Init /\ [][Next]_vars /\ Fairness

-----------------------------------------------------------------------------
\* Types of lease, Cores, threads, connections and instances; an answer names the
\* connection it came over.
TypeOK ==
    /\ lock \in [Inodes -> Threads \cup {None}]
    /\ leaseIno \in Inodes /\ refIno \in Inodes
    /\ unitDef \in BOOLEAN /\ faults \in 0..MaxFaults
    /\ boot \in [Cores -> {"down", "starting", "up"}]
    /\ pending \in [Cores -> BOOLEAN]
    /\ pc \in [Threads -> Phases]
    /\ ino \in [Threads -> Inodes \cup {None}]
    /\ mine \in [Threads -> Conns \cup {None}]
    /\ bound \in [Threads -> BOOLEAN]
    /\ got \in [Threads -> Outcomes \cup {None}]
    /\ answer \in [Threads -> [conn : Conns, out : Outcomes] \cup {None}]
    /\ since \in [Threads -> 0..2]
    /\ conn \in [Conns -> {"free", "queued", "accepted", "dropped"}]
    /\ wire \in [Conns -> SUBSET Frames]
    /\ unit \in [Conns -> {"none", "active", "ended"}]
    /\ work \in [Conns -> {"none", "hello", "request", "eof", "sent", "gone"}]
    /\ hard \in [Conns -> BOOLEAN] /\ seen \in [Conns -> BOOLEAN]
    /\ out \in [Conns -> Outcomes \cup {None}]
    /\ residue \in [Conns -> SUBSET {"process", "directory"}]
    /\ queue \in Seq(Conns)

\* The threads that hold a verified lease.
Holders == {t \in Threads : pc[t] \notin {"rest", "preflight", "open", "lock", "verify"}}

\* Between a verified lease and its release there is one thread on the host, also
\* when the lease file is replaced while another Core holds the old inode.
LeaseExclusive == \A t, u \in Holders : t = u

\* An instance that read a payload still shows: a process, or its directory.
Remains(k) == seen[k] /\ (Alive(k) \/ unit[k] = "active" \/ residue[k] # {})

\* No instance reads a payload while another one that read a payload remains,
\* whatever Core crashed, timed out or gave up in between (the lease, _pending
\* and assert_idle together).
PayloadExclusive ==
    \A j, k \in Conns : Remains(j) /\ Remains(k) => j = k

\* A call binds its payload to an instance that systemd started from the fixed,
\* hardened unit, although the unit can change at any moment; the one way past
\* preflight and bind, which read what is loaded when they look, is a drop-in
\* that comes after this call's preflight, is loaded when the instance starts,
\* and is gone again before its bind.
HardenedPayload ==
    \A t \in Threads : bound[t] => hard[mine[t]] \/ since[t] >= 2

\* What a call returns was computed by the instance of its own connection, and
\* that instance is gone with everything it left when the call returns.
AnswerConfirmed ==
    \A t \in Threads : answer[t] # None =>
        /\ out[answer[t].conn] = answer[t].out
        /\ seen[answer[t].conn] /\ ~Remains(answer[t].conn)

\* A Core that refuses later calls holds the lease that made it refuse, so no other
\* Core dispatches in its place while the instance is unconfirmed.
PendingHoldsLease ==
    \A c \in Cores : pending[c] =>
        \E i \in Inodes : lock[i] # None /\ CoreOf[lock[i]] = c

\* Between a verified lease and its release one thread dispatches on the host, and a
\* Core that refuses later calls holds the lease that made it refuse.
OneDispatcher == TypeOK /\ LeaseExclusive /\ PendingHoldsLease

\* One instance at a time works on a payload, it is a hardened one unless the unit
\* changed twice in the course of one call, and what a call returns comes from its
\* own instance, which is gone with all it left.
PayloadSafe == PayloadExclusive /\ HardenedPayload /\ AnswerConfirmed

\* Every call ends: a thread of the Core comes back to rest.
CallEnds == \A t \in Threads : (pc[t] # "rest") ~> (pc[t] = "rest")
=============================================================================

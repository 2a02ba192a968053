# GeniusNew: a TLA+ verification project

GeniusNew turns an authenticated HTTP request into a signed, audited, at most
once executed job.  This directory models the durable service (`python -m
geniusnew serve`), its process-local mode, the HTTP entrance in front of it, the
anchor and the worker host behind it, and the tool that accepts such a host; checks
them with TLC on small instances; and proves the central safety properties with
TLAPS for every size.

## 1. Inventory

| Part | State | Operations | Interacts with |
|---|---|---|---|
| HTTP entry (`http_entry.py`) | token buckets, in-flight semaphore, connection slots | `handle`, `_dispatch`, `_approve`, `_grant`, `_call` | calls submit, complete, approve |
| Wiring (`wiring.py`) | recorder lock, debt to the anchor (`_needs_reanchor`) | `submit`, `complete`, `Service.approve`, `_AnchoredAudit.append/atomic/head`, `build` | everything below |
| Orchestrator (`orchestrator.py`) | `_lock`, job ledger | `route`, `admit`, `dispatch`, `_available`, `_reserve`, `_run` | gateway, ledger, worker |
| Gateway (`gateway.py`) | permits used once | `admit`, `consume_handoff_from_permit` | approval store |
| Approval store (`approvals.py`, `database.py`) | records and pointers of tokens | `grant`, `consume`, `revoke` | job row lock, queue |
| Pending queue (`wiring.py`, `database.py`) | waiting wires | `add`, `peek`, `take`, `restore`, `decide`, `refuse` | job ledger |
| Job ledger (`database.py`, migrations) | one row per job id | `reserve`, `reserve_admitted`, `commit_execution`, triggers | all instances |
| Verifier, acceptance ledger (`verifier.py`, `results.py`) | accepted handoffs | `accept`, `check` | job ledger trigger |
| Audit chain (`audit_chain.py`, `audit_store.py`) | records, signed heads | `append`, `snapshot`, `check_core_bindings` | recorder, anchor |
| Anchor (`anchor_process.py`) | committed head in memory and file, reply key file | `commit`, `commit_delta`, load, lease; served or as a child of the service | recorder |
| Process-local mode (`wiring.py`, `approvals.py`, `orchestrator.py`, `verifier.py`) | queue, grants, ledgers and chain in memory | `PendingJobs.add/take/restore/decide`, `submit`, `complete`, `approve` | anchor, worker |
| Worker service (`worker_service.py`, `worker_bootstrap.py`) | host-wide lease, connection, bound pidfd, `_pending` | preflight, acquire, idle check, handshake, send, read, confirm; the walk over installed paths | systemd, other Cores |
| Isolation (`isolation.py`, `isolation_child.py`) | child process, pipe, job directory, layers of confinement | `_run_isolated`, `child_entry`, the seccomp program | worker functions |
| Acceptance tool (`tools/worker_acceptance`) | registered children, stopped targets, report | the cases, their finally blocks, `cleanup` | Cores, the worker, signals |
| Start and operations (`__main__.py`, `config.py`, `migrate`, `ops/`, `tools/`, `scripts/`) | files, units | start checks, install, demos | database, anchor |

What is hard.  Several threads share one database connection; several instances
share one database and one anchor.  A decision is a transaction (mutation and
audit event), but the anchor's acknowledgement comes after the commit and may be
lost.  A process may die between any two of these steps.  Every stage reads the
wall clock anew.  After a restart, the start checks compare every table with the
chain and refuse to serve on any disagreement, so a history the service itself
wrote but cannot re-read is an outage.  On a worker host several Cores share one
lease file and one worker UID; a Core may die with its instance running, the unit
may change after it was judged, a PID may be reused between a report and a signal,
and any process that holds a connection may write into it.

What makes it correct.  The work of a job is done at most once, after its
dispatch is witnessed outside and its approval is spent; a token opens a job
once; a success told to a client stays true; an interrupted job is never run
again; the history is ordered; every start accepts what the service wrote; every
request ends and gives back its slots.  A payload is read by one instance at a
time, a hardened one as far as systemd can tell, an answer comes from the instance that
was asked and is gone, no forbidden operation of a worker takes place, and nothing of an
isolated run is left behind.

The component list with the status of each part, and the hazards with their
lines, are in `PROJECT.json`.

## 2. Modules

| Module | What it is |
|---|---|
| `Pipeline` | the durable pipeline: requests, stores, chain, anchor, crashes and restarts; properties; the inductive invariant |
| `JobLifecycle` | what the pipeline promises about one job, with no threads, tokens, clocks or locks |
| `PipelineRefinement` | the refinement mapping from `Pipeline` to `JobLifecycle` |
| `RequestLocks` | the order in which a request's sections take the locks of a process and of the database |
| `AuditAnchor` | the anchor itself: which commits move it, whatever process it lives in |
| `Anchor` | the served anchor: its process, state file, socket, signals and clients; its inductive invariant and refinement mapping |
| `AnchorChild` | the anchor as a child of the service, with and without a state file |
| `AnchorKey` | the reply key file |
| `AnchorFiles` | `AnchorChild` beside `AnchorKey`: what the run `anchor_child` and the theorems share |
| `Witness` | what an anchor promises: one history that only grows, and answers that name its end |
| `HttpEntry` | the HTTP entrance: connection slots, framing, token buckets, jobs in flight |
| `LocalMode` | the service without PostgreSQL |
| `WorkerService` | Cores, lease, systemd and worker instances of a host |
| `FrameIdentity` | how the Core authenticates the response stream of an instance |
| `WorkerStream` | `FrameIdentity` under names that do not meet those of `HttpEntry`: what the run `streams` and the theorems share |
| `RootControl` | the walk that judges an installed path (TLC only: it resolves links recursively) |
| `Isolation` | one isolated run in parent and child |
| `SeccompFilter` | the seccomp program, instruction by instruction |
| `Acceptance` | the acceptance driver, its Cores and the worker |
| `PipelineProof` | the theorems about `Pipeline`: threads, ledger and effects; tables, chain and replies; the refinement |
| `AnchorProof` | the theorems about `Anchor` |
| `AnchorChildProof` | the theorems about `AnchorChild` and `AnchorKey` |
| `StreamsProof` | the theorems about `HttpEntry` and `FrameIdentity` |
| `LocalModeProof`, `WorkerServiceProof`, `IsolationProof`, `RequestLocksProof` | the theorems about the modules they are named for |
| `MC...` | instances for TLC |

Components that share no state are checked side by side in one run: an MC module
instantiates each of them, a variable (`view`, `machine`, `scenario`, `host`, `form`
or `kept`) fixes in the initial state which of them moves, and the others rest.
Their state spaces add up; they do not multiply.

### Pipeline

State and code: `job` is `public.job_ledger`; `pending` is
`public.pending_jobs`; `approval` gives for each token the record its pointer
names; `accepted` is `public.acceptance_ledger`; `chain` is
`public.audit_chain` (a record is its event and its place); `anchored` is the
length the anchor has committed; `lock` is the session advisory lock `_AUDIT_LOCK`,
which also stands for the recorder and connection locks of its holder's process;
`reanchor` is `_needs_reanchor`; `req` holds the local variables of each request
thread and where it is.  `used`, `granted`, `told` and `effects` are what the
world outside has seen: ids drawn, tokens delivered, answers delivered, runs of
the work function.

A step is what other threads cannot observe half done: one database transaction
(with its trailing audit append), one answer of the anchor, one use of the worker,
or one read.  Thus `Grant` is the whole of `PostgresApprovalStore.grant` inside
`recorder.atomic`, and `Ack`/`AckFail` the acknowledgement that follows it under
the lock.  `AddPending`, `Grant`, `AdmitPlain`, `AdmitBound`, `Dispatch`,
`Accept`, `Refuse`, `Note` and `Issue` are the nine kinds of recorded decisions.
`Recover`/`RecoverFail` pay the debt of an earlier failure first.  `DbFail` is
any failed transaction, failed wait for a lock, or store that refuses.  `Start`
carries all the start checks of `build` and `open_database`; `Crash` may come
at any time.

Abstractions.  Job ids are fresh (128 random bits) and stand for the handoff
digest; with fresh ids the `JOB_ID_REUSED` answer of a plain job's preflight is
unreachable, while that of a completion is not.  Signatures verify and wires are
canonical.  Subjects, identities (an approver is not the owner) and policy fields
are fixed before a job exists and are left out.  `revoke` has no caller in the
service.  A commit whose outcome the client library never learns is a crash of the
instance.  A clock reading is any member of `Times`: wall clocks of different
instances agree on nothing, and may step back.  A presented token is one that was
delivered, or `NoToken` for anything else.  An instance is started with the
worker its policy names (`routed`) or without it (`unrouted`): the latter is how
a pending job meets a route that no longer exists.  The upper end of time (year
2100 in the contracts) is out of reach of the bounds.

`Pipeline` leaves out the orchestrator's in-process lock: it only removes
behaviours, so the safety results stand, and the liveness run has one thread per
instance, where that lock is never contended.  What it does to two threads of one
instance is the subject of `RequestLocks`.

### RequestLocks

A request is a sequence of sections, each a list of locks in the order the code
takes them.  `AcquireLocal` waits without bound (Python locks), `AcquireAudit`
can be ended by `LockTimeout`, and `SessionEnded` is the server's
`idle_in_transaction_session_timeout`, which frees the advisory lock but not the
locks of the process.

### Anchor

`lines`, `synced` and `torn` are the state file: its whole lines, how many of them
an fsync has covered, and whether a part of a line follows.  `lease` is the pair of
abstract sockets of `_state_lock`; `sock` is what is at the socket path; `queue` is
the backlog, in the order of connecting; `srv` holds each process with its place in
`_run_server_locked` and `_answer`, the `AuditAnchor` in its memory, the client in
hand and `_Stopping.requested`; `log` is the chain in the service's database, and
`told` what answers have told.

A hash covers everything before it, so a head is the sequence it ends and the hash
at a position is a prefix; the three conditions of `AuditAnchor.commit` and those of
`verify_extension` are written over these.  A restored backup (`Restore`) sets the
log back, after which rival heads of the same length get signed: the case the anchor
exists for.  `Answer` is one connection up to the point where the memory has moved;
`Write` and `Sync` are the two halves of `_append`.  `GiveUp` is the client's
deadline: its request stays in the backlog or in hand, answered to nobody.
`DiskFails` leaves nothing, a part, or all of the line; `Kill` may tear a line in the
middle of a write; `Term` follows `_Stopping`, and kills a process that has not
installed it yet; `PowerLoss` loses any part of what was not synced.

`Pipeline` lets a failed acknowledgement move the anchor or not, at that moment.
A commit the client gave up is applied later, but the backlog is served in order and
every later question is behind it, so nobody can tell the difference.  Signatures
verify, and a request's connection stands for its nonce.  The state directory's own
entry for a new file is taken to be durable.

### AnchorChild and AnchorKey

`AnchorChild` follows `AnchorProcess`: the child is started on first use by the
thread that holds `_lock`; every exchange is one frame out and one frame in; the first
that fails, for whatever reason, closes the handle for good.  Writing is a step of its
own (`Written`, or `BrokenPipe` when nobody reads any more): `_send` computes its
deadline behind `_write_all`, a blocking write under `_lock`
(`anchor_process.py:866-868`).  A question, and the init frame, fit into the pipe
(`Fits`); a commit carries records and may not, and then its write ends only when the
child has read enough of it.  `ExchangeEnds` states what is left: an exchange ends, or
such a write to a child that lives goes on for ever (`[]Unread`), with everybody waiting
behind it.  The deadline of the reply is `Unreachable`.  The child may die, hang, answer late, or fail to write its state file.  A second life of
the service starts its own child while the first one's may still hold the leases and a
request in its pipe.  `last` remembers what the service was told, which is what
`ToldSurvives`, `OwnAnswer` and, without a state file, `NoSilentReset` speak of.

`AnchorKey` is `_reply_key`: created exclusively, filled, read back; a process may
end between any two of these.  Losses of power are left out here: whether a new key
file survives one is the file system's affair.

### HttpEntry

One thread per connection, behind a semaphore of connection slots.  A
connection with a slot parses a head, takes or refuses its body by what the head declares (a
length, none, one that cannot be read, a repeated one), and goes through the checks of
`handle` in their order: known path, media type, principal, bucket, contents, job in
flight.  `closing` is `close_connection`; `lost` notes that bytes of a body were
parsed as a head, `skipped` that a HEAD with a body went by.  The clock may jump both
ways.  A body is one token: its size only matters against its limit.

### LocalMode

Threads take the queue's lock for single operations, except in `decide`, which holds
it across the audit append.  `complete` takes the job out of the queue, and every
failure that is not final puts it back with `restore`.  Grants are dated and judged
by separate readings of one clock; those of a submission that lie next to each other
are one.  The anchor may refuse (`MaxFailures`), which sets
`reanchor`.  `revoke` has no caller here either.

### WorkerService, FrameIdentity and RootControl

A dispatching thread goes through `Preflight`, `Open`, `Lock`, `Verify`,
`AssertIdle`, `Connect`, the handshake, `Bind`, `Send`, `ReadResult`, `ExpectEof` and
`Confirm`; each deadline is a step that may be taken wherever the code waits.  systemd
is modelled as the code uses it: it accepts connections in order, starts an instance
each, ends it after `RuntimeMaxSec`, and removes what is left.  `HostChange` replaces
the lease file, or loads a drop-in or takes it away again (with a daemon-reload);
`Provision` writes the root-owned reference anew;
`Crash` takes a Core with all its locks.  What the checks of the host compare (unit
properties, mounts, namespaces, digests) is a truth value each.

`hard` is how an instance was started, `unitDef` what is loaded.  The Core can only read
the second: `systemctl show` prints the loaded configuration also for an instance that
runs (`worker_service.py:348-364`, 1041-1050), which the docstring at 691 calls
"effective instance hardening".  `since` counts the changes of the unit since the
preflight of a call.  `HardenedPayload` says that a payload is bound to an instance that
was started hardened unless there were two of them: a drop-in that comes behind the
preflight, is loaded when the instance starts and is gone again before the bind passes
every check of the code.

`FrameIdentity` looks into the read steps: `recvmsg` and the judgement of what it
returned are two steps, between which processes write, exit, are reaped and have
their PIDs reused.  `RootControl` runs the walk on every file system with a directory,
a file and a symbolic link under two names, every ownership and every small target,
and then lets users other than root change what they may.

### Isolation and SeccompFilter

Parent and child of `_run_isolated` with the pipe between them.  Any layer of
confinement may fail to install; code of the worker may try any forbidden operation
in Python or natively, and catch the refusal.  It shares the interpreter with
`child_entry`: it may write a whole answer of its own, or a part of one, into the
response pipe, whose descriptor is an ordinary one (`isolation_child.py:72`), reset the
flag of the hook (89), leave with `os._exit`, or never end; and its threads, which the
filter allows, and exit handlers run on behind the return of `run` (`WorkerRuns`).
`tampered` remembers the writes and the reset, `denied` a refusal before `child_entry`
read the flag.  `Confined` rests on none of this: no layer is ever lifted.  `OkIsClean`
says what a success is worth: four layers, status zero and one whole message, and no
refusal that was merely swallowed; a worker that forges the message, or is refused in a
thread once the flag has been read, can have been refused something all the same.  What
the message says is the worker's word in any case.  The wall time may be over at any moment.  `SeccompFilter` interprets the BPF
program with its relative jumps on every system call number of the tables and the
edges around them, and compares the verdict with the description of
`_process_filter`.

### Acceptance

What the driver still has to do is a sequence of operations; an exception, which a
failure or a signal raises at any step, keeps of it the finally blocks that were
entered (`Unwound`), and `cleanup` follows in tries of its own.  The Cores it starts
and the worker take their steps beside it.  `facts` are what has really happened on
the host, against which a PASS is judged.  A signal that waited behind the mask of
`start` (`driver.py:158-159`) is delivered before its caller enters its try; the model
counts that try as entered, so the child is ended by its finally block where the code
leaves this to `cleanup`.

## 3. Runs

A property of a run names what the run is about; where it stands for several
properties of the components, they follow in parentheses, and the type invariant of
the component goes with them.

| Run | Instance | Properties | Result |
|---|---|---|---|
| `replicas` | 2 instances with a thread each, 1 approval-bound job, 2 tokens, times 1..2, handoff TTL 2, approval TTL 1 | `TypeOK`, `IInv`, `EffectEvidence`, `StoresSound` (`Startable`, `OneLiveGrant`, `ReplyEvidence`), `OrphanNeverRuns`, `ImplementsLifecycle` | pass, 840,755 states |
| `decisions` | 2 threads of 1 instance, 2 approval-bound jobs and 2 without, 1 slot, times 1 and 3 (before and after expiry), restart with or without the worker | `HistorySound` (`Startable`, `ChainOrder`), `Evidence` (`EffectEvidence`, `ReplyEvidence`), `SlotsBounded` | pass, 574,878 states |
| `requests_end` | (a) 2 threads in one process, 1 in another; (b) 2 instances, 1 token, a job with or without approval; (c) 2 connections, 1 slot; (d) 2 threads of the process-local mode, failing anchor | (a) `LocksSound` (`ConnectionExclusive`, `CyclesAreKnown`), `ReplicaUnaffected`; (b), (c), (d) `RequestEnds` (`RequestEnds` of both modes, `SlotReturned`) | pass, 40,491 states |
| `locks_stall` | 2 threads in one process | `EveryRequestEnds` | violated: the first finding |
| `anchor_faults` | (a) 1 process at a time, 1 client with abandoned requests, backlog 2, 2 events, 2 records, kills and failing disks; (b) 2 competing processes, losses of power as well | (a) `TypeOK`, `StateFileRises`, `ToldSurvives`, `AnchorInv`, `ImplementsWitness`; (b) `PowerInv` | pass, 1,558,864 states |
| `anchor_ends` | (a) 1 process, 2 clients, only SIGTERM; (b) a child without a state file, 2 threads, 3 exchanges | (a) `Restartable`; (b) `NoSilentReset`; both `AnchorServes` (`AskingEnds`, `StopHonoured`, `ExchangeEnds`) | pass, 211,396 states |
| `anchor_unsynced` | 1 process, 1 client, 1 event; kills and losses of power | `ToldSurvives` | violated: the second finding |
| `anchor_child` | (a) a child with a state file, 2 threads, 2 lives, 3 exchanges, 2 events; (b) 3 starts of a server and 2 of the key command | (a) `OwnAnswer`, `StateKept` (`ToldSurvives`, `StateFileRises`); (b) `OneIdentity` | pass, 769,442 states |
| `worker_host` | (a) 2 Cores, 2 lease inodes, 3 connections, 2 faults; (b) every small file system, paths of up to three parts; (c) 463 call numbers, 8 first arguments, 2 architectures | (a) `OneDispatcher` (`LeaseExclusive`, `PendingHoldsLease`), `PayloadSafe` (`PayloadExclusive`, `HardenedPayload`, `AnswerConfirmed`); (b) `WalkSound` (`ApprovalHolds`, `RefusalJustified`); (c) `FilterVerdict` | pass, 2,163,522 states |
| `worker_calls` | (a) an answer of 2 pieces, 2 things the worker does beside its work, of which it may forge an "ok"; (b) 2 threads of 1 Core, 2 connections, 1 fault; (c) all five kinds of cases, 1 signal | (a) `Confined`, `RunClean` (`OkIsClean`, `NothingLeft`); (c) `PassJustified` (`PassObserved`, `PassIsClean`), `TargetsSafe` (`OnlyTheWorker`, `NothingLeftBehind`); all `CallersReturn` (`ParentReturns`, `CallEnds`, `DriverEnds`) | pass, 266,591 states |
| `streams` | (a) 2 processes, 2 PIDs, 5 bytes; (b) 3 requests on a kept connection; (c) 2 connections of one subject, clock 0..3; (d) 3 connections, 2 slots, 1 job in flight | (a) `StreamAuthentic` (`OneSender`, `ExactStream`, `DescriptorsAccounted`); (b) `LostOnlyByHead`; (c) `WithinBudget`; (d) `SlotsConserved` | pass, 5,513,328 states |
| `local` | (a) 2 threads, 1 job id minted twice, 2 grants, 1 anchor failure; (b) 3 jobs, a queue of 1 | (a) `RunsOnEvidence` (`RunsOnce`, `EvidencePrecedes`); `QueueKept` ((a) `StillWaiting`, (b) `QueueBound`) | pass, 2,297,719 states |

Bounds.  Two actors are enough for every race the code guards against: each guard
compares a thread with one other writer of the same row.  Two tokens are needed
for a replaced grant; two times for an approval that ends before its handoff (and
a clock that steps back); the pair 1 and 3 for a handoff that expires between two
readings.  `MaxRecords` caps the chain at 5 records for one job (a full run of an
approval-bound job appends 5: issued, granted, admitted, dispatched, accepted;
refusals compete for the same room, so that the full chain is reached at every
stage).  The same cap is the code's own bound (`_check_commit_size`).  In `decisions`
one job, or several without approval, are followed to a full chain, and mixes with an
approval-bound job up to three records (`JobMix`), which is enough for a queue at its
limit.  Symmetry exchanges tokens, jobs, threads of an instance, and a replica or a Core
together with its thread; it is used only where no liveness is checked.

For the anchor, two events and two records give rivals at the same length and at a
greater one; a backlog of two lets a retry stand behind the abandoned commit it
repeats, which makes one client as good as several.  The host that loses power is
bounded to one record: `FileIsOneHistory` proves the rest.  Two lives of the service
give the one overlap of two children.

At the worker host, two Cores and two inodes are what a replaced lease needs, a third
connection lets a Core dispatch again behind two others, and two faults combine a
crash with a host change, or put a drop-in there and take it away.  A frame is a header
of one byte and a body that may be empty, whole or split; two PIDs for two processes make every reuse possible.  Two
pieces make an answer that is cut short, or put together from what the worker and
`child_entry` wrote; two tries let a worker be refused and then forge, or reset.  The path bound lets a link be met first,
last, twice, and behind `..`.

Most runs say CHECK_DEADLOCK FALSE: once the bounded requests, connections,
exchanges or cases are used up, these systems have nothing more to do.  `replicas`,
`decisions` and the safety run of the served anchor check for deadlock.

Fairness.  `Pipeline`: weak fairness of each thread's next step: the thread is
scheduled, and database (statement and lock timeouts), anchor (timeouts of its socket
or pipe) and worker (wall limit) answer or time out.  Restarts are not fair: nobody
has to restart a service.  `RequestLocks`: strong fairness of a thread's step, so that
a contended lock is eventually won; the stall it exhibits is therefore not
starvation.  `Anchor`: weak fairness of a running process; starting, asking, stopping
and the client's deadline are not fair, so `AskingEnds` does not lean on the deadline.
`AnchorChild`: the thread inside an exchange runs on, the deadline of its reply
included, a write ends when its frame fits, and the lock is eventually won; nothing is
assumed of the child.  `HttpEntry`: a serving thread
runs on, its callback ends (that is `RequestEnds`), and a silent client is ended by the
socket timeout.  `LocalMode`: a thread that can go on does.  `Isolation`: the parent
runs on and the wall time passes; nothing is assumed of the child.  `WorkerService`: a
dispatching thread runs on, by its deadlines; nothing is assumed of systemd, of an
instance or of the manager.  `Acceptance`: a driver that has begun goes on by its
timeouts, and a Core it started is ended by its alarm or a deadline; nothing is assumed
of the worker.

Every property has a mutant in `PROJECT.json`: an operator named `Mutant...` right
before the definition it replaces, changed as a plausible bug would change it.  Other
`Mutant...` operators do the same for the remaining parts of a grouped property.

## 4. Findings

`locks_stall`: in one durable instance, `Orchestrator._available` holds
`Orchestrator._lock` while it asks the ledger, which needs the connection lock;
`Orchestrator._reserve` asks for `Orchestrator._lock` from inside
`recorder.atomic`, which holds the connection lock.  A preflight and an admission
that meet stop each other, and every later request of the instance, for ever:
the timeouts the connection sets bound waits in the server, not these.  The
concurrency test that asserts that both requests end runs in process-local mode,
where there is no connection.  `CyclesAreKnown` shows that this is the only
circle, `ReplicaUnaffected` that it stays within its instance.

`anchor_unsynced`: a process that dies between the write and the fsync of a line (or
whose fsync fails) leaves a whole line in the page cache.  The next process resumes
from it without syncing it; a repeated commit of that head does not move the anchor,
so it is confirmed without an fsync, against "flushed and fsynced before it answers".
A loss of power may then take the line, and the anchor resumes below a head it has
confirmed.  Syncing the file in `_load` would close the gap.  Without a loss of
power nothing told is ever lost (`ToldIsKept`).

Smaller disagreements, met while modelling and stated by a property as the exception
they are:

* `_read_body` says of a body left unread on a kept connection: "Refused, and the
  connection closed" (`http_entry.py:531-533`).  `do_HEAD` (562) answers without
  looking at a declared body and keeps the connection: the body is parsed as the next
  request.  `LostOnlyByHead` shows that no other path does this.
* `docs/APPROVER-C3.md:67-68` promises that a second active decision is refused, and
  80-81 the same for the process-local mode.  `Service.approve` reads the clock that
  judges the earlier decision before it has the queue's lock (`wiring.py:284`) and
  dates the grant by a later one (252), so two grants of a job can be usable at once.
  `RunsOnce` and `EvidencePrecedes` show that they still open the job once.
* `tools/worker_acceptance/README.md:41` says that stopped workers are cleaned up also
  after a signal.  `WorkerTarget.send` stops the worker first and notes it afterwards
  (`driver.py:91-93`): a signal in between leaves it stopped until `RuntimeMaxSec`.
  `NothingLeftBehind` holds without a signal.
* `AnchorProcess` ends the child when an answer is late, but the request is written
  before its deadline exists (`anchor_process.py:866-868`): a commit larger than the pipe,
  to a child that lives and does not read, holds `_lock` for ever.  `ExchangeEnds` shows
  that nothing else does.
* `_check_instance_settings` speaks of "effective instance hardening"
  (`worker_service.py:691`) and compares what is loaded, not what the instance was
  started with; `HardenedPayload` states the one sequence that gets past it.
* `PendingJobs.restore` (`wiring.py:151`) does not ask for room: the process-local
  queue may exceed `_MAX_PENDING` by less than the requests in flight (`QueueBound`).

## 5. Proofs

`AnchorProof` proves, from the assumptions named in `Anchor`, for any sets of
events, clients and processes, any faults and any bounds:

* `AnchorTyping`: `Spec => []TypeOK`.
* `AnchorInductive`: `Spec => []AnchorInv`.
* `FileIsOneHistory`: `Spec => []StateFileRises`, losses of power included.
* `ToldIsKept`: without "power" among the faults, `Spec => []ToldSurvives`.
* `AnchorImplementsWitness`: without "power", `Spec => ImplementsWitness`.

The invariant couples the three places a head lives in.  `OwnerHoldsLease` leaves one
process that can append.  `MemoryFollowsFile` says its memory equals the last line,
except between `Answer` and `Write`, where it strictly continues it: lemma
`CommitsExtend` turns the comparisons of `commit` and `commit_delta` into being a
prefix.  So `Write` continues the file, and every answer names its last line, of
which everything told before is a prefix (`PrefixTransitive`).

`PipelineProof` proves, from `SetsAssumption` and `TimeAssumption` only, for any
sets of jobs, tokens, threads and instances and any bounds:

* `Typing`: `Spec => []TypeOK`.
* `Inductive`: `Spec => []IInv`.
* `AtMostOneEvidencedEffect`: `Spec => []EffectEvidence`.
* `OrphansStayBurned`: `Spec => OrphanNeverRuns`.

`EffectEvidence` says nothing of the threads about to call the worker, so it does
not survive a step by itself.  `IInv` adds: a thread between admission and
acceptance is the only one for its job (`SoleCarrier`); the ledger, the chain and
the anchor stand where that thread has come (`Stages`), so that a thread at the
worker's door has a committed row, an anchored dispatch and no effect yet; an
effect is remembered by a row in an executing state (`EffectsRemembered`); an
admitted approval-bound job has a spent token (`ConsentSpent`); the anchor is
never ahead (`AnchorBehind`).  Admission starts from a row that is absent or
pending; such a row has no carrier and no effect (lemma `Uncarried`), which is why
a second admission is impossible.  Lemma `Quiet` covers the steps that leave
ledger and effects alone, lemma `Carried` those of a carrier; chain and anchor
only grow (`Growth`), so evidence is kept (`EvidenceKept`).

The second half of `PipelineProof` goes on from `IInv`, under the same assumptions:

* `HistoryInductive`: `Spec => [](IInv /\ HistoryInv)`.
* `StoresAgree`: `Spec => []StoresSound` (every start accepts what was written, one live
  grant per job, replies are durable and witnessed).
* `HistoryInOrder`: `Spec => []HistorySound`; `EvidenceFirst`: `Spec => []Evidence`.
* `QueueBounded`: `Spec => []SlotsBounded`.
* `Implements`: `Spec => ImplementsLifecycle`.

The start checks compare tables with chain in both directions, and neither direction
survives a step without the other.  `HistoryInv` states them record by record: what
an event says the tables hold (`ChainBacked`), what the tables hold the chain tells
(`ChainTells`), no event comes twice (`NoneTwice`), rows and grants are sound by
themselves (`RowsSound`, `GrantsSound`, `GrantsApart`), and a job's events are in
order (`ChainOrder`).  The tables alone do not know what a thread has read and not
yet used: `ThreadsKnow` says of each place in the code what the thread's locals still
mean there, `FreshAlone` that an id just drawn is nobody else's, `GrantsWitnessed`
that a token is delivered behind its anchored grant, and `ReplyEvidence` that an
answer is.  The refinement then takes one lemma per step of `JobLifecycle`: a step of
the pipeline that changes a stage is that step, the others stutter.

`AnchorProof` also proves `StopIsNoOutage`: with no faults, `Spec => []Restartable`.
`PowerInv` of `anchor_faults` is `AnchorInv` of an instance, so `AnchorInductive`
covers it.

`AnchorChildProof` proves, for any number of threads, lives, exchanges and events, with
and without a state file, from `ChildAssumption`:

* `ChildInductive`: `Spec => []ChildInv`.
* `ChildStateKept`: `Spec => []StateKept`; `AnswersAreOwn`: `Spec => []OwnAnswer`.
* `ToldNeverGoesBack`: `Spec => NoSilentReset`, an action property.

No frame names its request, so `OwnAnswer` rests on `PipesInv`: between two exchanges
the pipes of a child that is kept are empty, and during one the request or its answer
is all that is in them; whatever breaks this ends the handle for good.  `FileInv` says
of a child with the lease what `MemoryFollowsFile` says of the served anchor; a child of
an earlier life may still be that one.  `ToldInv` says that what
the child of this life says continues what was told last, and that without a state file its
memory does.

The same module proves, from `KeyFileAssumption`, for any number of servers, askers and
keys, `IdentityIsOne`: the specification of `AnchorKey` keeps `OneIdentity`.  `KeyInv` adds
that whoever has created the file and not filled it yet is alone in that, and that whoever
has a key has the one in the file: without it a second creator could fill the file behind
a reader.

`StreamsProof` proves, from `HttpAssumption`, for any number of connections, subjects and
requests, any limits and rates, and a clock that jumps as it likes:

* `HttpInductive`: `Spec => []HttpInv`.
* `SlotsAlwaysConserved`: `Spec => []SlotsConserved`.
* `AlwaysWithinBudget`: `Spec => []WithinBudget`.
* `BodyLostOnlyByHead`: `Spec => []LostOnlyByHead`.

`WithinBudget` forgets what is left in a bucket: `BudgetKept` bounds what was spent together
with what could still be spent at once, by the burst and the refill between the first reading
and the highest, which is the one the bucket remembers.  `LostOnlyByHead` forgets what is
still to be read: `Shaped` says that a body stands behind a head that declares it and
nowhere else, `BodyNext` and `BodyExpected` that the thread at the head of the connection is
the one that waits for it.

and, from `WorkerStreamAssumption`, for any number of processes and PIDs, any frame limit,
any number of bytes and any descriptors passed along:

* `StreamInductive`: the specification of `FrameIdentity` keeps `StreamInv`.
* `StreamAlwaysAuthentic`: it keeps `StreamAuthentic`.

A byte is judged long after it was sent, by a PID that may have changed hands in between.
`PidsUnique` and `SendersOrdered` carry over what was true when it was sent: of two senders
with one PID, the one whose byte stands first was reaped before the other wrote, and the
bound process stands before all that is not judged yet.  So a fragment with the bound PID is
from the bound process, or from one that got the PID when the bound process was gone.
`BytesCounted` and `FramesCounted` place the reader between the frames by the bytes it has
accepted; `DescriptorsHeld` counts the descriptors also between `recvmsg` and its judgement.

`LocalModeProof` proves, from `LocalAssumption`, for any number of threads, jobs, subjects
and approvers, any lifetimes and any bounds:

* `LocalInductive`: `Spec => []LocalInv`.
* `AlwaysRunsOnEvidence`: `Spec => []RunsOnEvidence`.
* `QueueAlwaysKept`: `Spec => []QueueKept`.

Everything here is in memory, so what a run rests on is known to threads only.
`ThreadsSound` says of each place in the code what the thread there may rely on: issuance
anchored (`Evidenced`), a token spent (`Paid`), the job id its own and without a run (`Owns`,
`Apart`), the entry still in the queue while a decision holds the lock (`Decides`).
`StoresSound` says the same of what lies in the stores.  `StillWaiting` needs `Pends`: what a
thread is about to add was not promised before.  `QueueBound` counts the queue and the
hands that may restore together: taking an entry moves it from one to the other, and a
thread that adds has found room and has nothing in hand.

`WorkerServiceProof` proves, from `WorkerServiceAssumption`, for any number of Cores,
threads, lease inodes, connections and faults:

* `ServiceInductive`: `Spec => []ServiceInv`.
* `DispatchIsExclusive`: `Spec => []OneDispatcher`.
* `PayloadsAreSafe`: `Spec => []PayloadSafe`.

A lock on a lease excludes nobody who locked another file of the same name: the
exclusion comes from `LeaseInv`, by which a thread past `Verify` holds the inode of the
root-owned reference, which changes only while every Core is down.  `QueueInv` says that a
connection is queued once and only an accepted one has an instance; `SentInv` that a
payload is in the instance bound for the thread that sent it, beside which no other one
with a payload is left while a thread dispatches; `UnitInv` that the loaded unit is the
fixed one when it did not change since the preflight, and not when it changed once, so
that bind lets nothing pass after one change and an instance accepted before any is
hardened; `GotInv` that what a thread
has read is what the instance of its connection wrote.

`IsolationProof` proves, from `IsolationAssumption`, for any forbidden operations, any
size of an answer and any number of tries:

* `RunInductive`: `Spec => []RunInv`.
* `WorkerIsConfined`: `Spec => []Confined`.
* `RunsAreClean`: `Spec => []RunClean`.

`RunInv` follows the message "ok" from where `child_entry` decides on it to where the
parent decodes it.  `Stages` fixes the layers by how far the child has come, `FlagTells`
ties the flag to every refusal the worker did not undo, so `child_entry` decides on "ok"
only with all layers and no refusal; the only other origin of one is code of the worker,
which runs behind all layers and is remembered as having tampered (`OkBacked`).  Neither
is lost while pieces are in the pipe, also when another answer is written before, between
or behind them.  `VerdictLast` and
`Lives` say that a success is about a child that was reaped.

`RequestLocksProof` proves, from `LocksAssumption`, for any number of threads and
processes:

* `LocksInductive`: `Spec => []LocksInv`.
* `LocksAreSound`: `Spec => []LocksSound`.

`LocksInv` says that a lock of a process is held by one thread at most, and that a
thread holds a beginning of its section.  Two threads in a circle each hold a lock
and want another; by the four sections (`WaiterShape`) both would hold the recorder's
lock, or both the orchestrator's, unless one is at `_available` and the other at
`_reserve`.  This is about circles of two, as `CyclesAreKnown` is.

`IInv` and `AnchorInv` are invariants of runs (`replicas`, `anchor_faults`); the other
inductive invariants are stated in the proof modules, and the properties they imply are
what the runs check.

Only model-checked:

* `WalkSound`: `RootControl` resolves links recursively, and what a recursive definition
  computes for every path is out of the prover's reach.
* `FilterVerdict`: a fixed program on a finite table, which TLC covers completely.
* `PassJustified` and `TargetsSafe`: what the driver of `Acceptance` has still to do is a
  sequence cut down by `SelectSeq` at every exception; that its finally blocks survive in
  order is a fact about a recursively defined operator.
* `PowerInv`, as such: it is `AnchorInv` of an instance of `Anchor` with losses of power, and
  `AnchorInductive` holds for any faults, these included.
* the liveness properties, which need fairness (`RequestEnds`, `ReplicaUnaffected`,
  `SlotReturned`, `AskingEnds`, `StopHonoured`, `ExchangeEnds`, `ParentReturns`, `CallEnds`,
  `DriverEnds`).

## 6. What could follow

1. A proof for circles of more than two threads in `RequestLocks`: the order recorder,
   connection, orchestrator is broken by `Available` only.
2. `Acceptance` with the operations of a case as positions in a fixed script instead of a
   sequence that is cut down, which would bring `PassIsClean` into the prover's reach.

Not modelled, and not planned:

* schema migrations: one transaction under an advisory lock of its own, before any
  service is started;
* configuration parsing, key derivation, cryptography and the strict decoders: pure
  functions;
* the advisory bridge (decides nothing) and the portal helpers (no caller);
* the operator's server tool: a shell of file copies and `systemctl` calls around
  external programs;
* the control deck, the pilot, clients and demonstrations: consoles around the service.

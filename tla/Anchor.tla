------------------------------- MODULE Anchor -------------------------------
(***************************************************************************)
(* The served audit anchor (geniusnew/anchor_process.py): one process that *)
(* owns a state file, answers the instances of the service over a Unix     *)
(* socket, and resumes from the file after any end; and the AuditAnchor it *)
(* runs (AuditAnchor, geniusnew/audit_chain.py).                           *)
(*                                                                         *)
(* A request's connection stands for its nonce: an answer reaches the      *)
(* client whose request it answers or, once that client has given up,      *)
(* nobody.                                                                 *)
(***************************************************************************)
EXTENDS AuditAnchor, SequencesExt

CONSTANTS
  Clients,   \* service instances, an AnchorClient each
  Servers,   \* anchor processes an operator may start on the one state file
  Nobody,    \* no process; no client
  Stale,     \* a socket path whose process died without removing it
  Faults,    \* what may happen: "kill", "disk", "power"
  Backlog,   \* anchor_process._BACKLOG
  MaxCount   \* records that still fit one commit and one state file

ASSUME SetsAssumption ==
  /\ Nobody \notin Clients \cup Servers
  /\ Stale \notin Servers \cup {Nobody}
  /\ Faults \subseteq {"kill", "disk", "power"}

ASSUME BoundsAssumption == Backlog \in Nat /\ MaxCount \in Nat

VARIABLES
  log,      \* the chain in the service's database, whose heads are signed
  lines,    \* whole lines of the state file: the heads appended to it
  synced,   \* how many of them a loss of power cannot take
  torn,     \* the state file ends in a torn line
  lease,    \* the process that holds the leases of the state file
  sock,     \* what is at the socket path: Nobody, a process, or Stale
  queue,    \* requests sent and not yet read, in the order of connecting
  srv,      \* the processes
  waiting,  \* clients waiting for an answer
  told      \* every state an answer has told a client

file == <<lines, synced, torn>>
vars == <<log, file, lease, sock, queue, srv, waiting, told>>

\* _COMMIT2_KEYS and the other two request forms; only a delta has a start.
Request == [kind : {"committed", "commit", "commit2"}, head : Heads,
            from_count : Nat, client : Clients \cup {Nobody}]

\* Where a process is: not running; before, at and after the start checks;
\* listening without its handler for SIGTERM; in accept; and in _answer, with
\* the memory moved, then with the line written but not yet synced.
PCs == {"off", "leased", "loaded", "bound", "accepting", "moved", "written"}

Off == [pc |-> "off", mem |-> <<>>, client |-> Nobody, stop |-> FALSE]

Init ==
  /\ log = <<>>
  /\ lines = <<>> /\ synced = 0 /\ torn = FALSE
  /\ lease = Nobody /\ sock = Nobody /\ queue = <<>>
  /\ srv = [s \in Servers |-> Off]
  /\ waiting = {} /\ told = {}

-----------------------------------------------------------------------------
(* The service's database *)

MutantAppend(e) ==
  /\ Len(log) <= MaxCount
  /\ log' = Append(log, e)
  /\ UNCHANGED <<file, lease, sock, queue, srv, waiting, told>>

\* The service records an event and signs the new head; _check_commit_size
\* refuses what the anchor could not take.
Append1(e) ==
  /\ Len(log) < MaxCount
  /\ log' = Append(log, e)
  /\ UNCHANGED <<file, lease, sock, queue, srv, waiting, told>>

\* An operator restores an older backup of the database.
Restore(n) ==
  /\ n < Len(log)
  /\ log' = SubSeq(log, 1, n)
  /\ UNCHANGED <<file, lease, sock, queue, srv, waiting, told>>

-----------------------------------------------------------------------------
(* The client's side: AnchorClient *)

\* _ask: connect and send the whole frame.  With nobody listening, or no room
\* in the backlog, nothing is sent and the caller is told so at once.
Send(c, kind, head, from) ==
  /\ c \notin waiting
  /\ sock \in Servers
  /\ Len(queue) < Backlog
  /\ queue' = Append(queue, [kind |-> kind, head |-> head, from_count |-> from,
                             client |-> c])
  /\ waiting' = waiting \cup {c}
  /\ UNCHANGED <<log, file, lease, sock, srv, told>>

Ask(c) == Send(c, "committed", <<>>, 0)

Commit(c) == Send(c, "commit", log, 0)

\* _commit2_request: the caller sends what it believes to be new, at most
\* MaxDelta records; the start follows from the head's count.
CommitDelta(c, from) ==
  /\ from <= Len(log)
  /\ Len(log) - from <= MaxDelta
  /\ Send(c, "commit2", log, from)

\* The client waits no longer than _REPLY_SECONDS.  Its request stays where
\* it is: in the backlog or in the server's hands, to be applied later.
GiveUp(c) ==
  /\ c \in waiting
  /\ waiting' = waiting \ {c}
  /\ queue' = [i \in DOMAIN queue |->
                 IF queue[i].client = c THEN [queue[i] EXCEPT !.client = Nobody]
                                        ELSE queue[i]]
  /\ srv' = [s \in Servers |->
               IF srv[s].client = c THEN [srv[s] EXCEPT !.client = Nobody]
                                    ELSE srv[s]]
  /\ UNCHANGED <<log, file, lease, sock, told>>

-----------------------------------------------------------------------------
(* The end of a process *)

\* The leases go with the process, and so do its connections: whoever waits
\* learns that the anchor is unreachable.  `left' is what stays at its path.
End(s, left) ==
  /\ srv' = [srv EXCEPT ![s] = Off]
  /\ lease' = Nobody
  /\ sock' = IF sock = s THEN left ELSE sock
  /\ queue' = <<>>
  /\ waiting' = {}

-----------------------------------------------------------------------------
(* Start: _run_server *)

\* _state_lock: one live process per state file; another one is refused.
MutantNoLease(s) ==
  /\ srv[s].pc = "off"
  /\ lease' = s
  /\ srv' = [srv EXCEPT ![s].pc = "leased"]
  /\ UNCHANGED <<log, file, sock, queue, waiting, told>>

Lease(s) ==
  /\ srv[s].pc = "off"
  /\ lease = Nobody
  /\ lease' = s
  /\ srv' = [srv EXCEPT ![s].pc = "leased"]
  /\ UNCHANGED <<log, file, sock, queue, waiting, told>>

LastLine == IF lines = <<>> THEN <<>> ELSE lines[Len(lines)]

\* What _load accepts: whole lines whose counts rise strictly.
Loadable ==
  /\ ~torn
  /\ \A i \in DOMAIN lines : i > 1 => Len(lines[i - 1]) < Len(lines[i])

\* A file that does not hold together is started over.
MutantLoad(s) ==
  /\ srv[s].pc = "leased"
  /\ srv' = [srv EXCEPT ![s].pc = "loaded",
                        ![s].mem = IF Loadable THEN LastLine ELSE <<>>]
  /\ UNCHANGED <<log, file, lease, sock, queue, waiting, told>>

\* A history that does not hold together is not resumed from.
Load(s) ==
  /\ srv[s].pc = "leased"
  /\ \/ /\ Loadable
        /\ srv' = [srv EXCEPT ![s].pc = "loaded", ![s].mem = LastLine]
        /\ UNCHANGED <<lease, sock, queue, waiting>>
     \/ ~Loadable /\ End(s, Stale)
  /\ UNCHANGED <<log, file, told>>

\* _listen never takes a path over.
Listen(s) ==
  /\ srv[s].pc = "loaded"
  /\ \/ /\ sock = Nobody
        /\ sock' = s
        /\ srv' = [srv EXCEPT ![s].pc = "bound"]
        /\ UNCHANGED <<lease, queue, waiting>>
     \/ sock # Nobody /\ End(s, Stale)
  /\ UNCHANGED <<log, file, told>>

\* The handler for SIGTERM is installed and the loop begins.
Serve(s) ==
  /\ srv[s].pc = "bound"
  /\ srv' = [srv EXCEPT ![s].pc = "accepting"]
  /\ UNCHANGED <<log, file, lease, sock, queue, waiting, told>>

\* systemd removes the runtime directory of a unit that has ended.
CleanSocket ==
  /\ sock = Stale
  /\ sock' = Nobody
  /\ UNCHANGED <<log, file, lease, queue, srv, waiting, told>>

-----------------------------------------------------------------------------
(* Answering: _handle, AuditAnchor.commit and commit_delta, _answer *)

\* The answer arrives at a client that still waits for it.
Deliver(c, state) ==
  /\ told' = IF c = Nobody THEN told ELSE told \cup {state}
  /\ waiting' = waiting \ {c}

\* A refused request is dropped without an answer.
MutantAnswer(s) ==
  /\ srv[s].pc = "accepting"
  /\ queue # <<>>
  /\ LET r == Head(queue)
         mem == srv[s].mem
     IN \/ /\ Moved(mem, r) # mem
           /\ srv' = [srv EXCEPT ![s].pc = "moved", ![s].mem = Moved(mem, r),
                                 ![s].client = r.client]
           /\ UNCHANGED <<told, waiting>>
        \/ /\ Accepts(mem, r) /\ Moved(mem, r) = mem
           /\ Deliver(r.client, mem)
           /\ UNCHANGED srv
        \/ ~Accepts(mem, r) /\ UNCHANGED <<told, waiting, srv>>
  /\ queue' = Tail(queue)
  /\ UNCHANGED <<log, file, lease, sock>>

\* The next connection is accepted and its request handled.  A request that
\* moves the anchor is answered only once the file holds it; any other answer
\* or refusal goes out at once.
Answer(s) ==
  /\ srv[s].pc = "accepting"
  /\ queue # <<>>
  /\ LET r == Head(queue)
         mem == srv[s].mem
     IN \/ /\ Moved(mem, r) # mem
           /\ srv' = [srv EXCEPT ![s].pc = "moved", ![s].mem = Moved(mem, r),
                                 ![s].client = r.client]
           /\ UNCHANGED <<told, waiting>>
        \/ /\ Accepts(mem, r) /\ Moved(mem, r) = mem
           /\ Deliver(r.client, mem)
           /\ UNCHANGED srv
        \/ /\ ~Accepts(mem, r)
           /\ waiting' = waiting \ {r.client}
           /\ UNCHANGED <<told, srv>>
  /\ queue' = Tail(queue)
  /\ UNCHANGED <<log, file, lease, sock>>

\* The first half of _append: the whole line is in the file.
Write(s) ==
  /\ srv[s].pc = "moved"
  /\ lines' = Append(lines, srv[s].mem)
  /\ srv' = [srv EXCEPT ![s].pc = "written"]
  /\ UNCHANGED <<log, synced, torn, lease, sock, queue, waiting, told>>

\* Takes the next connection although a stop was requested.
MutantSync(s) ==
  /\ srv[s].pc = "written"
  /\ synced' = Len(lines)
  /\ Deliver(srv[s].client, srv[s].mem)
  /\ srv' = [srv EXCEPT ![s].pc = "accepting", ![s].client = Nobody]
  /\ UNCHANGED <<log, lines, torn, lease, sock, queue>>

\* The second half: fsync, then the answer; the connection ends, and with it
\* the process if a stop was requested meanwhile.
Sync(s) ==
  /\ srv[s].pc = "written"
  /\ synced' = Len(lines)
  /\ \/ /\ ~srv[s].stop
        /\ Deliver(srv[s].client, srv[s].mem)
        /\ srv' = [srv EXCEPT ![s].pc = "accepting", ![s].client = Nobody]
        /\ UNCHANGED <<lease, sock, queue>>
     \/ /\ srv[s].stop
        /\ told' = IF srv[s].client = Nobody THEN told ELSE told \cup {srv[s].mem}
        /\ End(s, Nobody)
  /\ UNCHANGED <<log, lines, torn>>

\* The process goes on after a failed write, with its memory ahead.
MutantDiskFails(s) ==
  /\ "disk" \in Faults
  /\ srv[s].pc = "moved"
  /\ Deliver(srv[s].client, srv[s].mem)
  /\ srv' = [srv EXCEPT ![s].pc = "accepting", ![s].client = Nobody]
  /\ UNCHANGED <<log, file, lease, sock, queue>>

\* os.open, os.write or os.fsync fails: the process ends without answering.
\* The file holds nothing, a part, or all of the line.
DiskFails(s) ==
  /\ "disk" \in Faults
  /\ \/ srv[s].pc = "moved" /\ torn' \in BOOLEAN
     \/ srv[s].pc = "written" /\ UNCHANGED torn
  /\ End(s, Nobody)
  /\ UNCHANGED <<log, lines, synced, told>>

-----------------------------------------------------------------------------
(* Stops and crashes *)

\* SIGTERM ends a process wherever it is, in the middle of a line too.
MutantTerm(s) ==
  /\ srv[s].pc # "off"
  /\ torn' = (torn \/ srv[s].pc = "moved")
  /\ End(s, Nobody)
  /\ UNCHANGED <<log, lines, synced, told>>

\* SIGTERM.  Before the handler is there the signal just kills.  In accept it
\* ends the loop, whose last act is to remove the socket.  In a connection it
\* waits for the end of it.
Term(s) ==
  /\ \/ srv[s].pc \in {"leased", "loaded", "bound"} /\ End(s, Stale)
     \/ srv[s].pc = "accepting" /\ End(s, Nobody)
     \/ /\ srv[s].pc \in {"moved", "written"}
        /\ srv' = [srv EXCEPT ![s].stop = TRUE]
        /\ UNCHANGED <<lease, sock, queue, waiting>>
  /\ UNCHANGED <<log, file, told>>

\* The process is killed, perhaps in the middle of a write.  What it wrote
\* stays in the file.
Kill(s) ==
  /\ "kill" \in Faults
  /\ srv[s].pc # "off"
  /\ torn' \in IF srv[s].pc = "moved" THEN BOOLEAN ELSE {torn}
  /\ End(s, Stale)
  /\ UNCHANGED <<log, lines, synced, told>>

\* The host loses power: every process ends, the runtime directory is gone,
\* and any part of what was not synced is lost.
PowerLoss ==
  /\ "power" \in Faults
  /\ \E kept \in synced..Len(lines) :
       /\ lines' = SubSeq(lines, 1, kept)
       /\ torn' \in IF kept < Len(lines) \/ torn \/ (\E s \in Servers : srv[s].pc = "moved")
                      THEN BOOLEAN ELSE {FALSE}
  /\ synced' = Len(lines')
  /\ srv' = [s \in Servers |-> Off]
  /\ lease' = Nobody /\ sock' = Nobody
  /\ queue' = <<>> /\ waiting' = {}
  /\ UNCHANGED <<log, told>>

-----------------------------------------------------------------------------

ClientStep(c) ==
  \/ Ask(c) \/ Commit(c) \/ GiveUp(c)
  \/ \E from \in 0..MaxCount : CommitDelta(c, from)

ServerStep(s) ==
  Lease(s) \/ Load(s) \/ Listen(s) \/ Serve(s) \/ Answer(s) \/ Write(s) \/ Sync(s)

Next ==
  \/ \E e \in Events : Append1(e)
  \/ \E n \in 0..MaxCount : Restore(n)
  \/ \E c \in Clients : ClientStep(c)
  \/ \E s \in Servers : ServerStep(s) \/ DiskFails(s) \/ Term(s) \/ Kill(s)
  \/ CleanSocket \/ PowerLoss

Spec == Init /\ [][Next]_vars

\* A process that runs is scheduled and its disk answers; whether anybody
\* starts, asks, stops or gives up is not in its hands.
Fairness == \A s \in Servers : WF_vars(Serve(s) \/ Answer(s) \/ Write(s) \/ Sync(s))

-----------------------------------------------------------------------------
(* Properties *)

\* Types; the log stays within what a commit can carry, and what is synced is
\* in the file.
TypeOK ==
  /\ log \in Heads /\ Len(log) <= MaxCount
  /\ lines \in Seq(Heads)
  /\ synced \in 0..Len(lines)
  /\ torn \in BOOLEAN
  /\ lease \in Servers \cup {Nobody}
  /\ sock \in Servers \cup {Nobody, Stale}
  /\ queue \in Seq(Request)
  /\ srv \in [Servers -> [pc : PCs, mem : Heads, client : Clients \cup {Nobody},
                          stop : BOOLEAN]]
  /\ waiting \subseteq Clients
  /\ told \subseteq Heads

\* Each line of the state file continues the one before: whatever mixture of
\* processes, retries, late requests and crashes wrote it, the file is one
\* history, and _load never meets counts that do not rise.
StateFileRises ==
  \A i \in DOMAIN lines : i > 1 => IsStrictPrefix(lines[i - 1], lines[i])

\* What an answer has told a client is in the state file, and so in whatever
\* anchor resumes from it: _answer writes before it tells, commit never goes
\* back or aside, and a process whose memory ran ahead ends.
ToldSurvives == \A t \in told : IsPrefix(t, LastLine)

\* A stop is no outage: with no crash and no failing disk, the state file
\* always loads (_Stopping does not end a process in the middle of a line).
Restartable == Loadable

\* Every client that sent a request has an answer, a refusal or an error,
\* without waiting for its own deadline: no request, abandoned or refused,
\* holds up the ones behind it.
AskingEnds == \A c \in Clients : (c \in waiting) ~> (c \notin waiting)

\* A stop requested during a connection ends the process, however many
\* requests keep coming.
StopHonoured == \A s \in Servers : srv[s].stop ~> (srv[s].pc = "off")

\* A running process owns the state file.
OwnerHoldsLease == \A s \in Servers : srv[s].pc # "off" => lease = s

\* Past its start checks a process remembers what the file says; ahead of it
\* only while it is about to write the difference.
MemoryFollowsFile ==
  \A s \in Servers :
    /\ srv[s].pc \in {"loaded", "bound", "accepting", "written"} => srv[s].mem = LastLine
    /\ srv[s].pc = "moved" => IsStrictPrefix(LastLine, srv[s].mem)
    /\ srv[s].pc \in PCs \ {"off", "leased"} => ~torn

\* The inductive invariant: the file is one history because the one process
\* that may append to it compares every head with what the file ends in.
AnchorInv ==
  /\ TypeOK
  /\ OwnerHoldsLease
  /\ MemoryFollowsFile
  /\ StateFileRises
  /\ "power" \notin Faults => ToldSurvives

-----------------------------------------------------------------------------

Promise == INSTANCE Witness WITH committed <- LastLine

\* To its clients the anchor is a history that only grows and answers that
\* name its end: restarts, abandoned commits and rival heads do not show.
ImplementsWitness == Promise!Spec
=============================================================================

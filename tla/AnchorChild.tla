---------------------------- MODULE AnchorChild ----------------------------
(***************************************************************************)
(* The anchor as a child of the service (geniusnew/anchor_process.py,      *)
(* AnchorProcess and _serve): an interpreter started on first use, asked   *)
(* over a pair of pipes by whichever thread holds the lock, and ended for  *)
(* good by the first exchange that fails.  Requests carry no nonce here:   *)
(* the pipes alone say which answer belongs to which request.              *)
(*                                                                         *)
(* The service may die and be started again.  Each life of it has its own  *)
(* AnchorProcess; the child of an earlier life may still be running, with  *)
(* a request left in its pipe.                                             *)
(***************************************************************************)
EXTENDS AuditAnchor, SequencesExt

CONSTANTS
  Threads,      \* request threads of the service
  None,         \* no thread
  Durable,      \* the child was given a state file
  MaxCount,     \* bound on the records of the chain
  MaxLives,     \* bound on the service's starts
  MaxExchanges  \* bound on the exchanges begun

ASSUME ChildAssumption ==
  /\ None \notin Threads
  /\ Durable \in BOOLEAN
  /\ {MaxCount, MaxExchanges} \subseteq Nat
  /\ MaxLives \in Nat \ {0}

VARIABLES
  log,     \* the chain the service signs heads of
  lines,   \* whole lines of the state file
  torn,    \* it ends in a torn line
  lease,   \* the life whose child holds the state file's leases; 0: nobody
  life,    \* which life of the service this is
  handle,  \* AnchorProcess: "none" before the start, "open", "ended"
  closed,  \* AnchorProcess._closed
  lock,    \* AnchorProcess._lock
  th,      \* the threads
  child,   \* the child of each life
  begun,   \* how many exchanges were begun
  last     \* the state the service was told last (this life, if not Durable)

service == <<life, handle, closed, lock, th>>
file == <<lines, torn, lease>>
vars == <<log, file, service, child, begun, last>>

Lives == 1 .. MaxLives

Requests == [kind : {"committed", "commit", "commit2"}, head : Heads,
             from_count : Nat]

Asked == [kind |-> "committed", head |-> <<>>, from_count |-> 0]

Idle == [pc |-> "idle", req |-> Asked, id |-> 0]

Unborn == [pc |-> "none", mem |-> <<>>, in |-> <<>>, out |-> <<>>,
           hup |-> FALSE, id |-> 0]

Init ==
  /\ log = <<>> /\ lines = <<>> /\ torn = FALSE /\ lease = 0
  /\ life = 1 /\ handle = "none" /\ closed = FALSE /\ lock = None
  /\ th = [t \in Threads |-> Idle]
  /\ child = [c \in Lives |-> Unborn]
  /\ begun = 0 /\ last = <<>>

\* The service appends to its chain.
Append1(e) ==
  /\ Len(log) < MaxCount
  /\ log' = Append(log, e)
  /\ UNCHANGED <<file, service, child, begun, last>>

-----------------------------------------------------------------------------
(* The service's side: AnchorProcess *)

Gone(c) == child[c].pc \in {"none", "gone"}

\* The lock is kept on the way out.
MutantRelease(t) == th' = [th EXCEPT ![t] = Idle] /\ UNCHANGED lock

Release(t) == lock' = None /\ th' = [th EXCEPT ![t] = Idle]

\* _frame: the request is built, its head with it, before the lock is taken.
Begin(t) ==
  /\ th[t].pc = "idle"
  /\ begun < MaxExchanges /\ begun' = begun + 1
  /\ \E r \in {Asked,
               [kind |-> "commit", head |-> log, from_count |-> 0]}
              \cup {[kind |-> "commit2", head |-> log, from_count |-> n] :
                       n \in 0 .. Len(log)} :
       th' = [th EXCEPT ![t] = [pc |-> "begun", req |-> r, id |-> begun']]
  /\ UNCHANGED <<log, file, life, handle, closed, lock, child, last>>

\* The whole frame is in the pipe of this life's child.
Put(r, id) == [child EXCEPT ![life].in = Append(@, [req |-> r, id |-> id])]

\* The frame goes into an empty pipe whether its reader reads or not.  A commit
\* carries records, a whole chain of them at the start, and may be larger.
Fits(r) == r.kind = "committed"

\* A child that was ended is started again on the next use.
MutantStarts == handle \in {"none", "ended"} /\ ~closed

\* _started: the first use starts the child, unless close() came first.
Starts == handle = "none" /\ ~closed

\* _exchange under the lock: start the child and await its first word (the
\* init frame fits into the new pipe), or begin to write to the one that is
\* there.  Pipes that _stop has closed answer with an error at once.
Exchange(t) ==
  /\ th[t].pc = "begun" /\ lock = None
  /\ \/ /\ Starts
        /\ handle' = "open"
        /\ child' = [child EXCEPT ![life] = [Unborn EXCEPT !.pc = "init"]]
        /\ lock' = t /\ th' = [th EXCEPT ![t].pc = "starting"]
     \/ /\ ~Starts /\ handle = "open"
        /\ lock' = t /\ th' = [th EXCEPT ![t].pc = "writing"]
        /\ UNCHANGED <<handle, child>>
     \/ /\ ~Starts /\ handle # "open"
        /\ Release(t)
        /\ UNCHANGED <<handle, child>>
  /\ UNCHANGED <<log, file, life, closed, begun, last>>

Reply == Head(child[life].out)
TakeReply == [child EXCEPT ![life].out = Tail(@)]

\* The child's first word: where it stands, or why it will not start, which
\* ends it like any failure.
Started(t) ==
  /\ th[t].pc = "starting" /\ child[life].out # <<>>
  /\ child' = TakeReply
  /\ th' = [th EXCEPT ![t].pc = IF Reply.ok THEN "writing" ELSE "stopping"]
  /\ UNCHANGED <<log, file, life, handle, closed, lock, begun, last>>

\* _write_all returns once the last byte is in the pipe: at once when the
\* frame fits, else when the child has read enough of it.  There is no
\* deadline yet: until then the thread is inside os.write, with the lock.
Written(t) ==
  /\ th[t].pc = "writing" /\ ~Gone(life)
  /\ child' = Put(th[t].req, th[t].id)
  /\ th' = [th EXCEPT ![t].pc = "waiting"]
  /\ UNCHANGED <<log, file, life, handle, closed, lock, begun, last>>

\* os.write to a pipe that no process reads any more fails.
BrokenPipe(t) ==
  /\ th[t].pc = "writing" /\ Gone(life)
  /\ th' = [th EXCEPT ![t].pc = "stopping"]
  /\ UNCHANGED <<log, file, life, handle, closed, lock, child, begun, last>>

\* The answer arrives.  A refusal of the request ends nothing.
Answered(t) ==
  /\ th[t].pc = "waiting" /\ child[life].out # <<>>
  /\ last' = IF Reply.ok THEN Reply.state ELSE last
  /\ child' = TakeReply
  /\ Release(t)
  /\ UNCHANGED <<log, file, life, handle, closed, begun>>

\* The exchange is given up and the child kept for the next one.
MutantUnreachable(t) ==
  /\ th[t].pc \in {"starting", "waiting"}
  /\ Release(t)
  /\ UNCHANGED <<log, file, life, handle, closed, child, begun, last>>

\* No answer within _REPLY_SECONDS of the request's last byte, a part of one,
\* or the end of the pipe.
Unreachable(t) ==
  /\ th[t].pc \in {"starting", "waiting"}
  /\ th' = [th EXCEPT ![t].pc = "stopping"]
  /\ UNCHANGED <<log, file, life, handle, closed, lock, child, begun, last>>

\* close(), at the end of the service: under the lock, like an exchange.
CloseAnchor(t) ==
  /\ th[t].pc = "idle" /\ lock = None /\ ~closed
  /\ closed' = TRUE
  /\ lock' = t /\ th' = [th EXCEPT ![t].pc = "stopping"]
  /\ UNCHANGED <<log, file, life, handle, child, begun, last>>

\* _stop closes both pipes, which is how the child learns of it; it runs
\* once, as a finalizer.
StopPipes(t) ==
  /\ th[t].pc = "stopping"
  /\ \/ /\ handle = "open"
        /\ handle' = "ended"
        /\ child' = [child EXCEPT ![life].hup = TRUE, ![life].out = <<>>]
        /\ th' = [th EXCEPT ![t].pc = "ending"]
        /\ UNCHANGED lock
     \/ handle # "open" /\ Release(t) /\ UNCHANGED <<handle, child>>
  /\ UNCHANGED <<log, file, life, closed, begun, last>>

\* The end of child c, and of its leases.  In the middle of a line it leaves
\* a part of it.
Dies(c) ==
  /\ child' = [child EXCEPT ![c].pc = "gone", ![c].in = <<>>]
  /\ lease' = IF lease = c THEN 0 ELSE lease

\* process.wait returns.
ChildWaited(t) ==
  /\ th[t].pc = "ending" /\ Gone(life)
  /\ Release(t)
  /\ UNCHANGED <<log, file, life, handle, closed, child, begun, last>>

\* process.wait without a timeout.
MutantKillSlow(t) == FALSE

\* A child that has not ended a second later is killed.
KillSlow(t) ==
  /\ th[t].pc = "ending" /\ ~Gone(life)
  /\ Dies(life)
  /\ torn' \in IF child[life].pc = "moved" THEN BOOLEAN ELSE {torn}
  /\ UNCHANGED <<log, lines, service, begun, last>>

\* The service dies and is started again, its chain kept, lost or restored.
\* The old child finds its pipes closed once it has read what is in them.
Crash ==
  /\ life < MaxLives
  /\ life' = life + 1
  /\ handle' = "none" /\ closed' = FALSE /\ lock' = None
  /\ th' = [t \in Threads |-> Idle]
  /\ child' = [child EXCEPT ![life].hup = TRUE, ![life].out = <<>>]
  /\ \E n \in 0 .. Len(log) : log' = SubSeq(log, 1, n)
  /\ last' = IF Durable THEN last ELSE <<>>
  /\ UNCHANGED <<file, begun>>

-----------------------------------------------------------------------------
(* The child's side: _serve *)

LastLine == IF lines = <<>> THEN <<>> ELSE lines[Len(lines)]

Loadable ==
  /\ ~torn
  /\ \A i \in DOMAIN lines : i > 1 => Len(lines[i - 1]) < Len(lines[i])

\* A reply is written and the child reads on; with nobody at the other end
\* it dies of it.
Says(c, after, ok, state) ==
  IF child[c].hup
  THEN Dies(c)
  ELSE /\ child' = [child EXCEPT ![c] =
                      [after EXCEPT !.out = Append(@, [ok |-> ok, state |-> state,
                                                       id |-> after.id])]]
       /\ UNCHANGED lease

\* The state file is not locked.
MutantBootable(c) == Durable => Loadable

\* _state_lock and _load: nobody else holds the file, and it holds together.
Bootable(c) == Durable => lease = 0 /\ Loadable

\* The init frame is read, the lease taken, the file loaded and the state
\* told; or the refusal is, and the child ends.
Boot(c) ==
  /\ child[c].pc = "init"
  /\ LET start == IF Durable THEN LastLine ELSE <<>> IN
     \/ /\ Bootable(c) /\ ~child[c].hup
        /\ child' = [child EXCEPT ![c].pc = "serving", ![c].mem = start,
                        ![c].out = <<[ok |-> TRUE, state |-> start, id |-> 0]>>]
        /\ lease' = IF Durable THEN c ELSE lease
     \/ /\ ~Bootable(c) /\ ~child[c].hup
        /\ child' = [child EXCEPT ![c].pc = "gone",
                        ![c].out = <<[ok |-> FALSE, state |-> <<>>, id |-> 0]>>]
        /\ UNCHANGED lease
     \/ child[c].hup /\ Dies(c)
  /\ UNCHANGED <<log, lines, torn, service, begun, last>>

\* The state is told before the file holds it.
MutantAnswer(c) ==
  /\ child[c].pc = "serving" /\ child[c].in # <<>>
  /\ LET r == Head(child[c].in)
         next == [child[c] EXCEPT !.in = Tail(@), !.id = r.id]
         mem == Moved(child[c].mem, r.req)
     IN Says(c, [next EXCEPT !.mem = mem], Accepts(child[c].mem, r.req), mem)
  /\ UNCHANGED <<log, lines, torn, service, begun, last>>

\* _answer: a request that moves a durable anchor is written down first.
Answer(c) ==
  /\ child[c].pc = "serving" /\ child[c].in # <<>>
  /\ LET r == Head(child[c].in)
         next == [child[c] EXCEPT !.in = Tail(@), !.id = r.id]
         mem == Moved(child[c].mem, r.req)
     IN IF mem # child[c].mem /\ Durable
        THEN /\ child' = [child EXCEPT ![c] =
                            [next EXCEPT !.pc = "moved", !.mem = mem]]
             /\ UNCHANGED lease
        ELSE Says(c, [next EXCEPT !.mem = mem],
                  Accepts(child[c].mem, r.req), mem)
  /\ UNCHANGED <<log, lines, torn, service, begun, last>>

\* _append, and the answer.
Write(c) ==
  /\ child[c].pc = "moved"
  /\ lines' = Append(lines, child[c].mem)
  /\ Says(c, [child[c] EXCEPT !.pc = "serving"], TRUE, child[c].mem)
  /\ UNCHANGED <<log, torn, service, begun, last>>

\* The end of the requests, or a head that could not be written: the child
\* returns.
Returns(c) ==
  /\ \/ child[c].pc = "serving" /\ child[c].in = <<>> /\ child[c].hup
        /\ UNCHANGED torn
     \/ child[c].pc = "moved" /\ torn' \in BOOLEAN
  /\ Dies(c)
  /\ UNCHANGED <<log, lines, service, begun, last>>

\* Somebody kills it, or a signal to the whole service does.
Killed(c) ==
  /\ ~Gone(c)
  /\ torn' \in IF child[c].pc = "moved" THEN BOOLEAN ELSE {torn}
  /\ Dies(c)
  /\ UNCHANGED <<log, lines, service, begun, last>>

-----------------------------------------------------------------------------

\* What a thread does on its own, whatever the child does.
ThreadStep(t) ==
  \/ Exchange(t) \/ Started(t) \/ (Fits(th[t].req) /\ Written(t)) \/ BrokenPipe(t)
  \/ Answered(t) \/ Unreachable(t) \/ StopPipes(t) \/ ChildWaited(t) \/ KillSlow(t)

ChildStep(c) == Boot(c) \/ Answer(c) \/ Write(c) \/ Returns(c) \/ Killed(c)

Next ==
  \/ \E e \in Events : Append1(e)
  \/ \E t \in Threads : Begin(t) \/ ThreadStep(t) \/ Written(t) \/ CloseAnchor(t)
  \/ \E c \in Lives : ChildStep(c)
  \/ Crash

Spec == Init /\ [][Next]_vars

\* A thread that holds the lock runs, and one that wants it gets it in the
\* end; nothing is asked of the child, so a frame that does not fit may stay
\* unread.
Fairness == \A t \in Threads : SF_vars(Exchange(t)) /\ WF_vars(ThreadStep(t))

-----------------------------------------------------------------------------
(* Properties *)

ThreadStates ==
  [pc : {"idle", "begun", "starting", "writing", "waiting", "stopping", "ending"},
   req : Requests, id : Nat]

RequestFrames == [req : Requests, id : Nat]
ReplyFrames == [ok : BOOLEAN, state : Heads, id : Nat]

ChildStates ==
  [pc : {"none", "init", "serving", "moved", "gone"}, mem : Heads,
   in : Seq(RequestFrames), out : Seq(ReplyFrames), hup : BOOLEAN, id : Nat]

\* Types of service, child and state file; the thread that holds the lock of
\* AnchorProcess is the one inside an exchange, and there is no other.
TypeOK ==
  /\ log \in Heads /\ lines \in Seq(Heads) /\ torn \in BOOLEAN
  /\ lease \in 0 .. MaxLives /\ life \in Lives
  /\ handle \in {"none", "open", "ended"} /\ closed \in BOOLEAN
  /\ lock \in Threads \cup {None}
  /\ th \in [Threads -> ThreadStates]
  /\ \A t \in Threads : th[t].pc \notin {"idle", "begun"} <=> lock = t
  /\ child \in [Lives -> ChildStates]
  /\ begun \in 0 .. MaxExchanges /\ last \in Heads

\* The pipes are in step: the answer a thread is about to read was given to
\* its own request, whatever timed out, died or was retried before, although
\* nothing in a frame names the request it answers.
OwnAnswer ==
  /\ \A t \in Threads :
       th[t].pc = "waiting" =>
         \A i \in DOMAIN child[life].out : child[life].out[i].id = th[t].id
  /\ lock = None /\ handle = "open" =>
       child[life].in = <<>> /\ child[life].out = <<>>

\* With a state file, what the service was told is in the file: whichever
\* life's child wrote it, a later one resumes from it or refuses to start.
ToldSurvives == Durable => IsPrefix(last, LastLine)

\* The state file is one history although the child of a dead service may
\* still be appending when the next one starts its own.
StateFileRises ==
  \A i \in DOMAIN lines : i > 1 => IsStrictPrefix(lines[i - 1], lines[i])

\* The file is one history and holds all the service was told, although the child of
\* a dead service may still be appending; the thread that holds the lock of
\* AnchorProcess is the one inside an exchange.
StateKept == TypeOK /\ ToldSurvives /\ StateFileRises

\* No silent reset: what the service is told never goes back while it lives,
\* because a child that was lost is not replaced by an empty one; with a
\* state file it never goes back at all.
NoSilentReset == [][Durable \/ life' = life => IsPrefix(last, last')]_<<last, life>>

\* A thread is inside os.write, with a frame that does not fit, to a child
\* that lives and does not read.
Unread ==
  \E t \in Threads : th[t].pc = "writing" /\ ~Fits(th[t].req) /\ ~Gone(life)

\* An exchange ends, and gives the lock back, whatever the child does, with the
\* one exception that _send leaves open: a request too large for the pipe,
\* which a child that lives never reads, has no deadline, and everybody waits
\* behind it.  A child that hangs before its first word or before its answer,
\* or that dies at any point, costs a deadline and its own life.
ExchangeEnds ==
  \A t \in Threads : (th[t].pc # "idle") ~> (th[t].pc = "idle" \/ []Unread)
=============================================================================

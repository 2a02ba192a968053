-------------------------- MODULE AnchorChildProof --------------------------
(***************************************************************************)
(* Theorems about the anchor that is a child of the service, for any       *)
(* number of threads, lives and exchanges, with and without a state file,  *)
(* and about the file of an anchor's reply key, for any number of starts.  *)
(***************************************************************************)
EXTENDS AnchorFiles, TLAPS

-----------------------------------------------------------------------------
(* Heads as prefixes of one another, and what a commit does to them. *)

\* A prefix agrees with what it is a prefix of, position by position.
LEMMA PrefixPointwise ==
  ASSUME NEW S, NEW a \in Seq(S), NEW b \in Seq(S)
  PROVE  IsPrefix(a, b) <=> Len(a) <= Len(b) /\ \A i \in 1..Len(a) : a[i] = b[i]
<1>1. ASSUME Len(a) <= Len(b)
      PROVE  /\ SubSeq(a, 1, Len(a)) = [i \in 1..Len(a) |-> a[i]]
             /\ SubSeq(b, 1, Len(a)) = [i \in 1..Len(a) |-> b[i]]
  BY <1>1
<1> QED
  BY <1>1 DEF IsPrefix

\* Being a prefix is reflexive.
LEMMA PrefixReflexive ==
  ASSUME NEW S, NEW a \in Seq(S)
  PROVE  IsPrefix(a, a)
BY DEF IsPrefix

\* Being a prefix is transitive.
LEMMA PrefixTransitive ==
  ASSUME NEW S, NEW a \in Seq(S), NEW b \in Seq(S), NEW c \in Seq(S),
         IsPrefix(a, b), IsPrefix(b, c)
  PROVE  IsPrefix(a, c)
BY PrefixPointwise

\* A prefix of what is strictly continued is a prefix of the continuation.
LEMMA StrictTransitive ==
  ASSUME NEW S, NEW a \in Seq(S), NEW b \in Seq(S), NEW c \in Seq(S),
         IsPrefix(a, b), IsStrictPrefix(b, c)
  PROVE  IsPrefix(a, c)
BY PrefixTransitive DEF IsStrictPrefix

\* A commit that AuditAnchor.commit or commit_delta accepts continues the
\* committed history.
LEMMA CommitsExtend ==
  ASSUME NEW mem \in Heads, NEW r, r.head \in Heads, Accepts(mem, r)
  PROVE  Moved(mem, r) \in Heads /\ IsPrefix(mem, Moved(mem, r))
<1>1. mem \in Seq(Events) /\ r.head \in Seq(Events)
  BY DEF Heads
<1>2. CASE r.kind = "committed"
  BY <1>1, <1>2, PrefixReflexive DEF Moved, Heads
<1>3. CASE r.kind = "commit" /\ Commits(mem, r.head)
  <2>1. IsPrefix(mem, r.head)
    <3>1. CASE Len(mem) = Len(r.head)
      BY <1>1, <1>3, <3>1, PrefixReflexive DEF Commits
    <3>2. CASE Len(mem) = 0
      <4>1. Len(mem) <= Len(r.head) /\ \A i \in 1..Len(mem) : mem[i] = r.head[i]
        BY <1>1, <3>2
      <4> QED
        BY ONLY <1>1, <4>1, PrefixPointwise
    <3>3. CASE Len(mem) > 0 /\ Len(r.head) > Len(mem)
      BY <1>1, <1>3, <3>3 DEF Commits, HashAt, IsPrefix
    <3> QED
      BY <1>1, <1>3, <3>1, <3>2, <3>3 DEF Commits
  <2> QED
    BY <1>1, <1>3, <2>1 DEF Moved, Accepts, Heads
<1>4. CASE r.kind = "commit2" /\ CommitsDelta(mem, r.head, r.from_count)
  BY <1>1, <1>4 DEF Moved, Accepts, Heads, CommitsDelta, HashAt, IsPrefix
<1> QED
  BY <1>2, <1>3, <1>4 DEF Accepts

-----------------------------------------------------------------------------
(* The inductive invariant *)

\* A child between two exchanges: nothing is in its pipes.
Rests(x) == x.in = <<>> /\ x.out = <<>> /\ x.pc \in {"serving", "gone"}

\* A child whose first word is awaited.
Boots(x) ==
  /\ x.in = <<>> /\ x.pc \in {"init", "serving", "gone"} /\ Len(x.out) <= 1
  /\ x.pc = "init" => x.out = <<>>

\* A child that was asked request number id: the request, or its answer, is all there
\* is in the pipes.
Asking(x, id) ==
  /\ x.pc \in {"serving", "moved", "gone"}
  /\ Len(x.in) + Len(x.out) <= 1
  /\ x.pc = "moved" => x.in = <<>> /\ x.out = <<>> /\ x.id = id
  /\ \A i \in 1..Len(x.in) : x.in[i].id = id
  /\ \A i \in 1..Len(x.out) : x.out[i].id = id

\* One exchange at a time goes over the pipes of the child, so what is in them belongs
\* to the thread that waits, and the pipes of a child that is kept are empty between
\* two exchanges, until the whole of the next request is in them.
PipesInv ==
  /\ \A c \in Lives : c > life => child[c] = Unborn
  /\ handle = "none" => child[life] = Unborn
  /\ handle = "open" /\ lock = None => Rests(child[life])
  /\ \A t \in Threads :
       /\ th[t].pc \in {"starting", "writing", "waiting"} => handle = "open"
       /\ th[t].pc = "ending" => handle = "ended"
       /\ th[t].pc = "starting" => Boots(child[life])
       /\ th[t].pc = "writing" => Rests(child[life])
       /\ th[t].pc = "waiting" => Asking(child[life], th[t].id)

\* What the file and a child have of each other: the child that serves holds the leases
\* and stands where the file ends or one line ahead of it, and what a child says that
\* nobody has read yet the file holds.
Kept(x, holds, line) ==
  /\ x.pc \in {"serving", "moved"} => holds
  /\ x.pc = "serving" => x.mem = line
  /\ x.pc = "moved" => IsStrictPrefix(line, x.mem)
  /\ \A i \in 1..Len(x.out) : x.out[i].ok => IsPrefix(x.out[i].state, line)

FileInv ==
  /\ Durable => \A c \in Lives : Kept(child[c], lease = c, LastLine)
  /\ ~Durable => \A c \in Lives : child[c].pc # "moved"
  /\ ToldSurvives /\ StateFileRises

\* Without a state file all that is known is in the memory of the child: what the service
\* was told is a part of it, until the child is gone.
Remembers(x, told) ==
  /\ x.pc \in {"none", "init"} => told = <<>>
  /\ x.pc = "serving" =>
       /\ IsPrefix(told, x.mem)
       /\ \A i \in 1..Len(x.out) : x.out[i].ok => IsPrefix(x.out[i].state, x.mem)

\* What the child of this life says continues what was told last.
ToldInv ==
  /\ \A i \in 1..Len(child[life].out) :
       child[life].out[i].ok => IsPrefix(last, child[life].out[i].state)
  /\ ~Durable => Remembers(child[life], last)

ChildInv == TypeOK /\ PipesInv /\ FileInv /\ ToldInv

-----------------------------------------------------------------------------
(* Types *)

\* An unborn child, a child just started and an idle thread have their types.
LEMMA StartTypes ==
  /\ Unborn \in ChildStates /\ [Unborn EXCEPT !.pc = "init"] \in ChildStates
  /\ Idle \in ThreadStates /\ Asked \in Requests
<1>1. <<>> \in Heads /\ Asked \in Requests
  BY DEF Heads, Asked, Requests
<1>2. <<>> \in Seq(RequestFrames) /\ <<>> \in Seq(ReplyFrames)
  OBVIOUS
<1>3. Unborn \in ChildStates /\ [Unborn EXCEPT !.pc = "init"] \in ChildStates
  BY <1>1, <1>2 DEF Unborn, ChildStates
<1>4. Idle \in ThreadStates
  BY <1>1 DEF Idle, ThreadStates
<1> QED
  BY <1>1, <1>3, <1>4

\* The last line of the state file is a head.
LEMMA LastLineType ==
  ASSUME lines \in Seq(Heads)
  PROVE  LastLine \in Heads
BY DEF LastLine, Heads

\* A child that ends keeps its type, and so do the leases.
LEMMA DiesTypes ==
  ASSUME TypeOK, NEW c \in Lives, Dies(c)
  PROVE  child' \in [Lives -> ChildStates] /\ lease' \in 0..MaxLives
<1>1. [child[c] EXCEPT !.pc = "gone", !.in = <<>>] \in ChildStates
  <2>1. child[c] \in ChildStates /\ <<>> \in Seq(RequestFrames)
    BY DEF TypeOK
  <2> QED
    BY <2>1 DEF ChildStates
<1>2. child' = [child EXCEPT ![c] = [child[c] EXCEPT !.pc = "gone", !.in = <<>>]]
  BY DEF Dies, TypeOK, ChildStates
<1>3. child' \in [Lives -> ChildStates]
  BY <1>1, <1>2 DEF TypeOK
<1> QED
  BY <1>3, ChildAssumption DEF Dies, TypeOK

\* A child that answers keeps its type, or ends.
LEMMA SaysTypes ==
  ASSUME TypeOK, NEW c \in Lives, NEW after \in ChildStates, NEW ok \in BOOLEAN,
         NEW state \in Heads, Says(c, after, ok, state)
  PROVE  child' \in [Lives -> ChildStates] /\ lease' \in 0..MaxLives
<1>1. [ok |-> ok, state |-> state, id |-> after.id] \in ReplyFrames
  BY DEF ChildStates, ReplyFrames
<1>2. [after EXCEPT !.out = Append(@, [ok |-> ok, state |-> state, id |-> after.id])]
        \in ChildStates
  <2>1. ASSUME NEW f \in ReplyFrames PROVE [after EXCEPT !.out = Append(@, f)] \in ChildStates
    <3>1. after.out \in Seq(ReplyFrames)
      BY DEF ChildStates
    <3>2. Append(after.out, f) \in Seq(ReplyFrames)
      BY <3>1
    <3> QED
      BY <3>2 DEF ChildStates
  <2> QED
    BY <1>1, <2>1
<1> QED
  BY <1>2, DiesTypes DEF Says, TypeOK

\* A thread that leaves the lock is idle, and nobody is inside an exchange.
LEMMA ReleaseTypes ==
  ASSUME TypeOK, NEW t \in Threads, Release(t), lock \in {t, None}
  PROVE  /\ th' \in [Threads -> ThreadStates] /\ lock' = None
         /\ \A u \in Threads : th'[u].pc \in {"idle", "begun"}
         /\ \A u \in Threads : th'[u].pc \notin {"idle", "begun"} <=> lock' = u
<1>1. th' = [th EXCEPT ![t] = Idle] /\ lock' = None
  BY DEF Release
<1>2. th' \in [Threads -> ThreadStates]
  BY <1>1, StartTypes DEF TypeOK
<1>3. Idle.pc = "idle"
  BY DEF Idle
<1>4. \A u \in Threads : th'[u].pc \in {"idle", "begun"}
  BY <1>1, <1>3, ChildAssumption DEF TypeOK
<1> QED
  BY <1>1, <1>2, <1>4, ChildAssumption

\* A thread inside an exchange moves on, with the lock.
LEMMA MoveTypes ==
  ASSUME TypeOK, NEW t \in Threads,
         NEW s \in {"starting", "writing", "waiting", "stopping", "ending"},
         th' = [th EXCEPT ![t].pc = s], lock \in {t, None}, lock' = t
  PROVE  /\ th' \in [Threads -> ThreadStates]
         /\ \A u \in Threads : th'[u].pc \notin {"idle", "begun"} <=> lock' = u
         /\ \A u \in Threads : u # t => th'[u] = th[u]
         /\ th'[t].pc = s /\ th'[t].id = th[t].id
<1>1. th[t] \in ThreadStates
  BY DEF TypeOK
<1>2. [th[t] EXCEPT !.pc = s] \in ThreadStates
  BY <1>1 DEF ThreadStates
<1>3. th' = [th EXCEPT ![t] = [th[t] EXCEPT !.pc = s]]
  BY DEF TypeOK
<1>4. th' \in [Threads -> ThreadStates]
  BY <1>2, <1>3 DEF TypeOK
<1>5. /\ \A u \in Threads : u # t => th'[u] = th[u]
      /\ th'[t] = [th[t] EXCEPT !.pc = s]
  BY <1>3 DEF TypeOK
<1>6. th'[t].pc = s /\ th'[t].id = th[t].id
  BY <1>1, <1>5 DEF ThreadStates
<1> QED
  BY <1>4, <1>5, <1>6, ChildAssumption DEF TypeOK

\* A frame goes into the pipe of a child.
LEMMA PutTypes ==
  ASSUME NEW x \in ChildStates, NEW f \in RequestFrames
  PROVE  [x EXCEPT !.in = Append(@, f)] \in ChildStates
<1>1. x.in \in Seq(RequestFrames)
  BY DEF ChildStates
<1>2. Append(x.in, f) \in Seq(RequestFrames)
  BY <1>1
<1> QED
  BY <1>2 DEF ChildStates

\* A reply is taken out of the pipe of this life's child.
LEMMA TakeTypes ==
  ASSUME TypeOK, child[life].out # <<>>
  PROVE  /\ Reply \in ReplyFrames
         /\ [child[life] EXCEPT !.out = Tail(@)] \in ChildStates
         /\ TakeReply = [child EXCEPT ![life] = [child[life] EXCEPT !.out = Tail(@)]]
         /\ TakeReply \in [Lives -> ChildStates]
<1>1. child[life] \in ChildStates /\ life \in Lives
  BY DEF TypeOK
<1>2. [child[life] EXCEPT !.out = Tail(@)] \in ChildStates
  <2>1. ASSUME NEW x \in ChildStates, x.out # <<>>
        PROVE  [x EXCEPT !.out = Tail(@)] \in ChildStates
    <3>1. x.out \in Seq(ReplyFrames)
      BY DEF ChildStates
    <3>2. Tail(x.out) \in Seq(ReplyFrames)
      BY <2>1, <3>1
    <3> QED
      BY <3>2 DEF ChildStates
  <2> QED
    BY <1>1, <2>1
<1>3. Reply \in ReplyFrames
  BY <1>1 DEF ChildStates, Reply
<1>4. TakeReply = [child EXCEPT ![life] = [child[life] EXCEPT !.out = Tail(@)]]
  BY <1>1 DEF TakeReply, TypeOK
<1> QED
  BY <1>1, <1>2, <1>3, <1>4 DEF TypeOK

\* What a request asks for is a head.
LEMMA MovedTypes ==
  ASSUME NEW mem \in Heads, NEW r \in Requests
  PROVE  Moved(mem, r) \in Heads /\ r.head \in Heads
BY DEF Moved, Requests

\* A child that takes a request from its pipe and has answered it keeps its type.
LEMMA AnswerTypes ==
  ASSUME TypeOK, NEW c \in Lives, child[c].in # <<>>,
         NEW p \in {"serving", "moved"}, child[c].pc = "serving"
  PROVE  LET r == Head(child[c].in)
             mem == Moved(child[c].mem, r.req)
         IN  /\ r \in RequestFrames /\ r.req \in Requests /\ r.id \in Nat /\ mem \in Heads
             /\ [[child[c] EXCEPT !.in = Tail(@), !.id = r.id] EXCEPT !.mem = mem] \in ChildStates
             /\ [[child[c] EXCEPT !.in = Tail(@), !.id = r.id] EXCEPT !.pc = p, !.mem = mem]
                  \in ChildStates
<1> DEFINE r == Head(child[c].in)
           mem == Moved(child[c].mem, r.req)
<1>1. child[c] \in ChildStates
  BY DEF TypeOK
<1>2. r \in RequestFrames /\ Tail(child[c].in) \in Seq(RequestFrames) /\ child[c].mem \in Heads
  BY <1>1 DEF ChildStates
<1>3. r.req \in Requests /\ r.id \in Nat
  BY <1>2 DEF RequestFrames
<1>4. mem \in Heads
  BY <1>2, <1>3, MovedTypes
<1> HIDE DEF r, mem
<1>5. [[child[c] EXCEPT !.in = Tail(@), !.id = r.id] EXCEPT !.mem = mem] \in ChildStates
  BY <1>1, <1>2, <1>3, <1>4 DEF ChildStates
<1>6. [[child[c] EXCEPT !.in = Tail(@), !.id = r.id] EXCEPT !.pc = p, !.mem = mem] \in ChildStates
  BY <1>1, <1>2, <1>3, <1>4 DEF ChildStates
<1> QED
  BY <1>2, <1>3, <1>4, <1>5, <1>6 DEF r, mem

\* Every step keeps every variable in its type, and the lock with the thread inside an
\* exchange.
LEMMA TypePreserved ==
  ASSUME TypeOK, [Next]_vars
  PROVE  TypeOK'
<1>1. CASE UNCHANGED vars
  BY <1>1 DEF TypeOK, vars, file, service
<1>2. ASSUME NEW e \in Events, Append1(e) PROVE TypeOK'
  <2>1. log' \in Heads
    BY <1>2 DEF Append1, TypeOK, Heads
  <2> QED
    BY <1>2, <2>1 DEF Append1, TypeOK, file, service
<1>3. ASSUME NEW t \in Threads, Begin(t) PROVE TypeOK'
  <2>1. PICK r : /\ th' = [th EXCEPT ![t] = [pc |-> "begun", req |-> r, id |-> begun']]
                 /\ r \in {Asked, [kind |-> "commit", head |-> log, from_count |-> 0]}
                          \cup {[kind |-> "commit2", head |-> log, from_count |-> n] :
                                   n \in 0 .. Len(log)}
    BY <1>3 DEF Begin
  <2>2. log \in Heads /\ 0..Len(log) \subseteq Nat
    BY DEF TypeOK, Heads
  <2>3. r \in Requests
    BY <2>1, <2>2, StartTypes DEF Requests
  <2>4. begun' \in 0..MaxExchanges /\ begun' \in Nat
    BY <1>3, ChildAssumption DEF Begin, TypeOK
  <2>5. [pc |-> "begun", req |-> r, id |-> begun'] \in ThreadStates
    BY <2>3, <2>4 DEF ThreadStates
  <2>6. th' \in [Threads -> ThreadStates]
    BY <2>1, <2>5 DEF TypeOK
  <2>7. \A u \in Threads : th'[u].pc \notin {"idle", "begun"} <=> lock = u
    BY <1>3, <2>1 DEF Begin, TypeOK
  <2> QED
    BY <1>3, <2>4, <2>6, <2>7 DEF Begin, TypeOK, file
<1>4. ASSUME NEW t \in Threads, Exchange(t) PROVE TypeOK'
  <2>1. lock = None /\ UNCHANGED <<log, file, life, closed, begun, last>> /\ life \in Lives
    BY <1>4 DEF Exchange, TypeOK
  <2>2. CASE Starts /\ handle' = "open" /\ lock' = t /\ th' = [th EXCEPT ![t].pc = "starting"]
             /\ child' = [child EXCEPT ![life] = [Unborn EXCEPT !.pc = "init"]]
    BY <2>1, <2>2, MoveTypes, StartTypes DEF TypeOK, file
  <2>4. CASE lock' = t /\ th' = [th EXCEPT ![t].pc = "writing"] /\ UNCHANGED <<handle, child>>
    BY <2>1, <2>4, MoveTypes DEF TypeOK, file
  <2>5. CASE Release(t) /\ UNCHANGED <<handle, child>>
    BY <2>1, <2>5, ReleaseTypes DEF TypeOK, file
  <2> QED
    BY <1>4, <2>2, <2>4, <2>5 DEF Exchange
<1>5. ASSUME NEW t \in Threads, Started(t) PROVE TypeOK'
  <2>1. lock = t /\ UNCHANGED <<log, file, life, handle, closed, lock, begun, last>>
    BY <1>5 DEF Started, TypeOK
  <2>2. child[life].out # <<>> /\ life \in Lives
    BY <1>5 DEF Started, TypeOK
  <2>3. PICK p \in {"writing", "stopping"} : th' = [th EXCEPT ![t].pc = p]
    BY <1>5 DEF Started
  <2>4. child' = TakeReply
    BY <1>5 DEF Started
  <2> QED
    BY <2>1, <2>2, <2>3, <2>4, TakeTypes, MoveTypes DEF TypeOK, file
<1>5a. ASSUME NEW t \in Threads, Written(t) PROVE TypeOK'
  <2>1. /\ lock = t /\ UNCHANGED <<log, file, life, handle, closed, lock, begun, last>>
        /\ life \in Lives /\ child' = Put(th[t].req, th[t].id)
        /\ th' = [th EXCEPT ![t].pc = "waiting"]
    BY <1>5a DEF Written, TypeOK
  <2>2. [req |-> th[t].req, id |-> th[t].id] \in RequestFrames
    BY DEF TypeOK, ThreadStates, RequestFrames
  <2>3. child' \in [Lives -> ChildStates]
    <3>1. child[life] \in ChildStates
      BY DEF TypeOK
    <3>2. [child[life] EXCEPT !.in = Append(@, [req |-> th[t].req, id |-> th[t].id])]
            \in ChildStates
      BY <2>2, <3>1, PutTypes
    <3> QED
      BY <2>1, <3>2 DEF Put, TypeOK
  <2> QED
    BY <2>1, <2>3, MoveTypes DEF TypeOK, file
<1>5b. ASSUME NEW t \in Threads, BrokenPipe(t) PROVE TypeOK'
  <2>1. lock = t
    BY <1>5b DEF BrokenPipe, TypeOK
  <2> QED
    BY <1>5b, <2>1, MoveTypes DEF BrokenPipe, TypeOK, file
<1>6. ASSUME NEW t \in Threads, Answered(t) PROVE TypeOK'
  <2>1. /\ lock = t /\ UNCHANGED <<log, file, life, handle, closed, begun>>
        /\ child[life].out # <<>> /\ child' = TakeReply /\ Release(t)
    BY <1>6 DEF Answered, TypeOK
  <2>2. last' \in Heads
    BY <1>6, <2>1, TakeTypes DEF Answered, TypeOK, ReplyFrames
  <2> QED
    BY <2>1, <2>2, TakeTypes, ReleaseTypes DEF TypeOK, file
<1>7. ASSUME NEW t \in Threads, Unreachable(t) PROVE TypeOK'
  <2>1. lock = t
    BY <1>7 DEF Unreachable, TypeOK
  <2> QED
    BY <1>7, <2>1, MoveTypes DEF Unreachable, TypeOK, file
<1>8. ASSUME NEW t \in Threads, CloseAnchor(t) PROVE TypeOK'
  BY <1>8, MoveTypes DEF CloseAnchor, TypeOK, file
<1>9. ASSUME NEW t \in Threads, StopPipes(t) PROVE TypeOK'
  <2>1. lock = t /\ UNCHANGED <<log, file, life, closed, begun, last>> /\ life \in Lives
    BY <1>9 DEF StopPipes, TypeOK
  <2>2. CASE /\ handle' = "ended" /\ UNCHANGED lock /\ th' = [th EXCEPT ![t].pc = "ending"]
             /\ child' = [child EXCEPT ![life].hup = TRUE, ![life].out = <<>>]
    <3>1. child[life] \in ChildStates /\ <<>> \in Seq(ReplyFrames)
      BY <2>1 DEF TypeOK
    <3>2. [child[life] EXCEPT !.hup = TRUE, !.out = <<>>] \in ChildStates
      BY <3>1 DEF ChildStates
    <3>3. child' = [child EXCEPT ![life] = [child[life] EXCEPT !.hup = TRUE, !.out = <<>>]]
      BY <2>1, <2>2, <3>1 DEF TypeOK, ChildStates
    <3>4. child' \in [Lives -> ChildStates]
      BY <2>1, <3>2, <3>3 DEF TypeOK
    <3> QED
      BY <2>1, <2>2, <3>4, MoveTypes DEF TypeOK, file
  <2>3. CASE Release(t) /\ UNCHANGED <<handle, child>>
    BY <2>1, <2>3, ReleaseTypes DEF TypeOK, file
  <2> QED
    BY <1>9, <2>2, <2>3 DEF StopPipes
<1>10. ASSUME NEW t \in Threads, ChildWaited(t) PROVE TypeOK'
  <2>1. lock = t
    BY <1>10 DEF ChildWaited, TypeOK
  <2> QED
    BY <1>10, <2>1, ReleaseTypes DEF ChildWaited, TypeOK, file
<1>11. ASSUME NEW t \in Threads, KillSlow(t) PROVE TypeOK'
  <2>1. torn' \in BOOLEAN /\ life \in Lives
    BY <1>11 DEF KillSlow, TypeOK
  <2> QED
    BY <1>11, <2>1, DiesTypes DEF KillSlow, TypeOK, service
<1>12. ASSUME NEW c \in Lives, Boot(c) PROVE TypeOK'
  <2> DEFINE start == IF Durable THEN LastLine ELSE <<>>
  <2>1. start \in Heads /\ <<>> \in Heads
    BY LastLineType DEF TypeOK, Heads
  <2>2. UNCHANGED <<log, lines, torn, service, begun, last>>
    BY <1>12 DEF Boot
  <2>3. /\ [ok |-> TRUE, state |-> start, id |-> 0] \in ReplyFrames
        /\ [ok |-> FALSE, state |-> <<>>, id |-> 0] \in ReplyFrames
    BY <2>1 DEF ReplyFrames
  <2>4. child[c] \in ChildStates
    BY DEF TypeOK
  <2> HIDE DEF start
  <2>5. /\ <<[ok |-> TRUE, state |-> start, id |-> 0]>> \in Seq(ReplyFrames)
        /\ <<[ok |-> FALSE, state |-> <<>>, id |-> 0]>> \in Seq(ReplyFrames)
    BY <2>3
  <2>6. CASE /\ child' = [child EXCEPT ![c].pc = "serving", ![c].mem = start,
                             ![c].out = <<[ok |-> TRUE, state |-> start, id |-> 0]>>]
             /\ lease' = IF Durable THEN c ELSE lease
    <3>1. [child[c] EXCEPT !.pc = "serving", !.mem = start,
             !.out = <<[ok |-> TRUE, state |-> start, id |-> 0]>>] \in ChildStates
      BY <2>1, <2>4, <2>5 DEF ChildStates
    <3>2. child' \in [Lives -> ChildStates]
      BY <2>4, <2>6, <3>1 DEF TypeOK, ChildStates
    <3>3. lease' \in 0..MaxLives
      BY <2>6, ChildAssumption DEF TypeOK, Lives
    <3> QED
      BY <2>2, <3>2, <3>3 DEF TypeOK, service
  <2>7. CASE /\ child' = [child EXCEPT ![c].pc = "gone",
                             ![c].out = <<[ok |-> FALSE, state |-> <<>>, id |-> 0]>>]
             /\ UNCHANGED lease
    <3>1. [child[c] EXCEPT !.pc = "gone",
             !.out = <<[ok |-> FALSE, state |-> <<>>, id |-> 0]>>] \in ChildStates
      BY <2>1, <2>4, <2>5 DEF ChildStates
    <3>2. child' \in [Lives -> ChildStates]
      BY <2>4, <2>7, <3>1 DEF TypeOK, ChildStates
    <3> QED
      BY <2>2, <2>7, <3>2 DEF TypeOK, service
  <2>8. CASE Dies(c)
    BY <2>2, <2>8, DiesTypes DEF TypeOK, service
  <2> QED
    BY <1>12, <2>6, <2>7, <2>8 DEF Boot, start
<1>13. ASSUME NEW c \in Lives, Answer(c) PROVE TypeOK'
  <2> DEFINE r == Head(child[c].in)
             mem == Moved(child[c].mem, r.req)
             next == [child[c] EXCEPT !.in = Tail(@), !.id = r.id]
  <2>1. /\ UNCHANGED <<log, lines, torn, service, begun, last>>
        /\ child[c].pc = "serving" /\ child[c].in # <<>>
    BY <1>13 DEF Answer
  <2>2. /\ mem \in Heads /\ [next EXCEPT !.mem = mem] \in ChildStates
        /\ [next EXCEPT !.pc = "moved", !.mem = mem] \in ChildStates
    BY <2>1, AnswerTypes
  <2>3. CASE mem # child[c].mem /\ Durable
    <3>1. /\ child' = [child EXCEPT ![c] = [next EXCEPT !.pc = "moved", !.mem = mem]]
          /\ lease' = lease
      BY <1>13, <2>3 DEF Answer
    <3> QED
      BY <2>1, <2>2, <3>1 DEF TypeOK, service
  <2>4. CASE ~(mem # child[c].mem /\ Durable)
    <3>1. Says(c, [next EXCEPT !.mem = mem], Accepts(child[c].mem, r.req), mem)
      BY <1>13, <2>4 DEF Answer
    <3>2. Accepts(child[c].mem, r.req) \in BOOLEAN
      BY DEF Accepts, Commits, CommitsDelta
    <3> HIDE DEF r, mem, next
    <3> QED
      BY <2>1, <2>2, <3>1, <3>2, SaysTypes DEF TypeOK, service
  <2> QED
    BY <2>3, <2>4
<1>14. ASSUME NEW c \in Lives, Write(c) PROVE TypeOK'
  <2>1. child[c] \in ChildStates
    BY DEF TypeOK
  <2>2. child[c].mem \in Heads /\ [child[c] EXCEPT !.pc = "serving"] \in ChildStates
    BY <2>1 DEF ChildStates
  <2>3. lines' \in Seq(Heads)
    BY <1>14, <2>2 DEF Write, TypeOK
  <2>4. child' \in [Lives -> ChildStates] /\ lease' \in 0..MaxLives
    BY <1>14, <2>2, SaysTypes DEF Write
  <2> QED
    BY <1>14, <2>3, <2>4 DEF Write, TypeOK, service
<1>15. ASSUME NEW c \in Lives, Returns(c) \/ Killed(c) PROVE TypeOK'
  <2>1. torn' \in BOOLEAN /\ Dies(c) /\ UNCHANGED <<log, lines, service, begun, last>>
    BY <1>15 DEF Returns, Killed, TypeOK
  <2> QED
    BY <2>1, DiesTypes DEF TypeOK, service
<1>16. CASE Crash
  <2>1. life \in Lives /\ life + 1 \in Lives
    BY <1>16, ChildAssumption DEF Crash, TypeOK, Lives
  <2>2. child[life] \in ChildStates /\ <<>> \in Seq(ReplyFrames) /\ <<>> \in Heads
    BY <2>1 DEF TypeOK, Heads
  <2>3. [child[life] EXCEPT !.hup = TRUE, !.out = <<>>] \in ChildStates
    BY <2>2 DEF ChildStates
  <2>4. child' = [child EXCEPT ![life] = [child[life] EXCEPT !.hup = TRUE, !.out = <<>>]]
    BY <1>16, <2>1, <2>2 DEF Crash, TypeOK, ChildStates
  <2>5. child' \in [Lives -> ChildStates]
    BY <2>1, <2>3, <2>4 DEF TypeOK
  <2>6. log' \in Heads /\ last' \in Heads
    BY <1>16, <2>2 DEF Crash, TypeOK, Heads
  <2>7. /\ th' \in [Threads -> ThreadStates]
        /\ \A t \in Threads : th'[t].pc \notin {"idle", "begun"} <=> lock' = t
    <3>1. Idle.pc = "idle"
      BY DEF Idle
    <3> QED
      BY <1>16, <3>1, StartTypes, ChildAssumption DEF Crash
  <2> QED
    BY <1>16, <2>1, <2>5, <2>6, <2>7 DEF Crash, TypeOK, file
<1> QED
  BY <1>1, <1>2, <1>3, <1>4, <1>5, <1>6, <1>7, <1>8, <1>9, <1>10, <1>11, <1>12, <1>13, <1>14,
     <1>15, <1>16, <1>5a, <1>5b DEF Next, ThreadStep, ChildStep

-----------------------------------------------------------------------------
(* The pipes *)

\* The sequences of a child's pipes.
LEMMA PipeTypes ==
  ASSUME NEW x \in ChildStates
  PROVE  /\ x.in \in Seq(RequestFrames) /\ x.out \in Seq(ReplyFrames)
         /\ Len(x.in) \in Nat /\ Len(x.out) \in Nat
         /\ (Len(x.in) = 0 => x.in = <<>>) /\ (Len(x.out) = 0 => x.out = <<>>)
BY DEF ChildStates

\* At most one frame in two pipes.
LEMMA OneOfTwo ==
  /\ \A m, n \in Nat : n # 0 /\ m + n <= 1 => n = 1 /\ m = 0
  /\ \A m, n \in Nat : m # 0 /\ m + n <= 1 => m = 1 /\ n = 0
  /\ \A n \in Nat : n # 0 /\ n <= 1 => n = 1
  /\ \A m, n \in Nat : m + n <= 1 => 0 + n <= 1
OBVIOUS

\* A sequence without elements.
LEMMA NoFrames ==
  ASSUME NEW S, NEW s \in Seq(S), Len(s) = 0
  PROVE  s = <<>>
OBVIOUS

\* What is read of a child that was asked, or has just started, was its only word.
LEMMA OnlyWord ==
  ASSUME NEW x \in ChildStates, x.out # <<>>, NEW id, Boots(x) \/ Asking(x, id)
  PROVE  /\ x.in = <<>> /\ Len(x.out) = 1 /\ Tail(x.out) = <<>>
         /\ x.pc \in {"serving", "gone"} /\ Rests([x EXCEPT !.out = Tail(@)])
<1>1. Len(x.out) = 1 /\ Len(x.in) = 0 /\ x.pc \in {"serving", "gone"}
  <2>1. Len(x.in) \in Nat /\ Len(x.out) \in Nat /\ Len(x.out) # 0
    BY PipeTypes
  <2>2. CASE Boots(x)
    <3>1. x.in = <<>> /\ Len(x.out) <= 1 /\ x.pc \in {"serving", "gone"}
      BY <2>2 DEF Boots
    <3>2. Len(x.in) = 0
      BY <3>1
    <3> QED
      BY <2>1, <3>1, <3>2, OneOfTwo
  <2>3. CASE Asking(x, id)
    <3>1. /\ Len(x.in) + Len(x.out) <= 1
          /\ x.pc \in {"serving", "gone"}
      BY <2>3 DEF Asking
    <3> QED
      BY <2>1, <3>1, OneOfTwo
  <2> QED
    BY <2>2, <2>3
<1>2. x.in = <<>> /\ x.out \in Seq(ReplyFrames)
  BY <1>1, PipeTypes
<1>3. Tail(x.out) = <<>>
  <2>1. x.out # <<>>
    OBVIOUS
  <2>2. Tail(x.out) \in Seq(ReplyFrames) /\ Len(Tail(x.out)) = 0
    BY <1>1, <1>2, <2>1
  <2> QED
    BY <2>2, NoFrames
<1>4. Rests([x EXCEPT !.out = Tail(@)])
  BY <1>1, <1>2, <1>3 DEF Rests, ChildStates
<1> QED
  BY <1>1, <1>2, <1>3, <1>4

\* A request to a child at rest is what it is asked.
LEMMA AskedNext ==
  ASSUME NEW x \in ChildStates, Rests(x), NEW f \in RequestFrames
  PROVE  Asking([x EXCEPT !.in = Append(@, f)], f.id)
<1> DEFINE y == [x EXCEPT !.in = Append(@, f)]
<1>1. y.in = <<f>> /\ y.out = <<>> /\ y.pc \in {"serving", "gone"}
  BY DEF Rests, ChildStates
<1> HIDE DEF y
<1>2. Len(y.in) = 1 /\ Len(y.out) = 0 /\ y.in[1] = f
  BY <1>1
<1>3. Asking(y, f.id)
  BY <1>1, <1>2 DEF Asking
<1> QED
  BY <1>3 DEF y

\* A child that ends leaves what it has written, and reads no more.
LEMMA DeadPipes ==
  ASSUME NEW x \in ChildStates, NEW y \in ChildStates,
         y.pc = "gone", y.in = <<>>, y.out = x.out
  PROVE  /\ Rests(x) => Rests(y)
         /\ Boots(x) => Boots(y)
         /\ \A id : Asking(x, id) => Asking(y, id)
<1>1. Rests(x) => Rests(y)
  BY DEF Rests
<1>2. Boots(x) => Boots(y)
  BY DEF Boots
<1>3. Len(y.in) = 0
  OBVIOUS
<1>4. ASSUME NEW id, Asking(x, id) PROVE Asking(y, id)
  <2>1. Len(x.in) \in Nat /\ Len(x.out) \in Nat /\ Len(x.in) + Len(x.out) <= 1
    BY <1>4, PipeTypes DEF Asking
  <2>2. Len(y.out) = Len(x.out) /\ Len(y.in) + Len(y.out) <= 1
    BY <1>3, <2>1, OneOfTwo
  <2>3. (\A i \in 1..Len(y.out) : y.out[i].id = id) /\ \A i \in 1..Len(y.in) : y.in[i].id = id
    BY <1>3, <1>4, <2>2 DEF Asking
  <2> QED
    BY <2>2, <2>3 DEF Asking
<1> QED
  BY <1>1, <1>2, <1>4

\* The one request in the pipe is taken, and its answer owed or written.
LEMMA AnsweredPipes ==
  ASSUME NEW x \in ChildStates, NEW y \in ChildStates, NEW id, Asking(x, id), x.in # <<>>,
         y.in = Tail(x.in), y.id = Head(x.in).id
  PROVE  /\ y.pc = "moved" /\ y.out = x.out => Asking(y, id)
         /\ \A f : y.pc = "serving" /\ y.out = Append(x.out, f) /\ f.id = y.id => Asking(y, id)
<1>1. x.in \in Seq(RequestFrames) /\ x.out \in Seq(ReplyFrames)
  BY PipeTypes
<1>2. Len(x.in) = 1 /\ Len(x.out) = 0
  <2>1. Len(x.in) \in Nat /\ Len(x.out) \in Nat /\ Len(x.in) # 0
    BY PipeTypes
  <2>2. Len(x.in) + Len(x.out) <= 1
    BY DEF Asking
  <2> QED
    BY <2>1, <2>2, OneOfTwo
<1>3. y.in = <<>> /\ x.out = <<>> /\ y.id = id /\ Len(y.in) = 0
  <2>1. Tail(x.in) \in Seq(RequestFrames) /\ Len(Tail(x.in)) = 0
    BY <1>1, <1>2
  <2>2. Tail(x.in) = <<>> /\ x.out = <<>>
    BY <1>1, <1>2, <2>1, NoFrames
  <2>3. x.in[1].id = id /\ Head(x.in) = x.in[1]
    BY <1>1, <1>2 DEF Asking
  <2> QED
    BY <2>1, <2>2, <2>3
<1>4. ASSUME y.pc = "moved", y.out = x.out PROVE Asking(y, id)
  BY <1>3, <1>4 DEF Asking
<1>5. ASSUME NEW f, y.pc = "serving", y.out = Append(x.out, f), f.id = y.id
      PROVE  Asking(y, id)
  <2>1. y.out = <<f>> /\ Len(y.out) = 1 /\ y.out[1] = f
    BY <1>3, <1>5
  <2> QED
    BY <1>3, <1>5, <2>1 DEF Asking
<1> QED
  BY <1>4, <1>5

\* The owed answer is written.
LEMMA WrittenPipes ==
  ASSUME NEW x \in ChildStates, NEW y \in ChildStates, NEW id, Asking(x, id),
         x.pc = "moved", y.pc = "serving", y.in = x.in, NEW f, f.id = x.id,
         y.out = Append(x.out, f)
  PROVE  Asking(y, id)
<1>1. y.in = <<>> /\ y.out = <<f>> /\ f.id = id
  <2>1. x.in = <<>> /\ x.out = <<>> /\ x.id = id
    BY DEF Asking
  <2> QED
    BY <2>1
<1>2. Len(y.in) = 0 /\ Len(y.out) = 1 /\ y.out[1] = f
  BY <1>1
<1> QED
  BY <1>1, <1>2 DEF Asking

\* A step of one child changes that child only.
LEMMA DeathFields ==
  ASSUME TypeOK, NEW c \in Lives, Dies(c)
  PROVE  /\ child'[c] = [child[c] EXCEPT !.pc = "gone", !.in = <<>>]
         /\ child'[c].pc = "gone" /\ child'[c].in = <<>> /\ child'[c].out = child[c].out
         /\ child'[c] \in ChildStates
         /\ \A d \in Lives : d # c => child'[d] = child[d]
<1>1. child[c] \in ChildStates
  BY DEF TypeOK
<1>2. child' = [child EXCEPT ![c] = [child[c] EXCEPT !.pc = "gone", !.in = <<>>]]
  BY <1>1 DEF Dies, TypeOK, ChildStates
<1>3. child'[c] = [child[c] EXCEPT !.pc = "gone", !.in = <<>>]
  BY <1>2 DEF TypeOK
<1>4. child'[c].pc = "gone" /\ child'[c].in = <<>> /\ child'[c].out = child[c].out
  BY <1>1, <1>3 DEF ChildStates
<1>5. \A d \in Lives : d # c => child'[d] = child[d]
  BY <1>2 DEF TypeOK
<1> QED
  BY <1>3, <1>4, <1>5, DiesTypes

LEMMA SaysFields ==
  ASSUME TypeOK, NEW c \in Lives, NEW after \in ChildStates, NEW ok \in BOOLEAN,
         NEW state \in Heads, Says(c, after, ok, state), ~child[c].hup
  PROVE  /\ child'[c].pc = after.pc /\ child'[c].in = after.in /\ child'[c].mem = after.mem
         /\ child'[c].out = Append(after.out, [ok |-> ok, state |-> state, id |-> after.id])
         /\ child'[c].id = after.id /\ lease' = lease
         /\ \A d \in Lives : d # c => child'[d] = child[d]
<1> DEFINE f == [ok |-> ok, state |-> state, id |-> after.id]
<1>1. /\ child' = [child EXCEPT ![c] = [after EXCEPT !.out = Append(@, f)]]
      /\ lease' = lease
  BY DEF Says
<1> HIDE DEF f
<1>2. child'[c] = [after EXCEPT !.out = Append(@, f)]
  BY <1>1 DEF TypeOK
<1>3. /\ child'[c].pc = after.pc /\ child'[c].in = after.in /\ child'[c].mem = after.mem
      /\ child'[c].out = Append(after.out, f) /\ child'[c].id = after.id
  BY <1>2 DEF ChildStates
<1> QED
  BY <1>1, <1>3 DEF TypeOK, f

\* What Boot, Answer and Write leave of a child that lives on.
LEMMA BootFields ==
  ASSUME TypeOK, NEW c \in Lives, Boot(c), ~Dies(c)
  PROVE  /\ child'[c].pc \in {"serving", "gone"} /\ child'[c].in = child[c].in
         /\ Len(child'[c].out) = 1
         /\ child'[c].out[1].ok => /\ child'[c].pc = "serving" /\ Bootable(c)
                                   /\ child'[c].out[1].state = child'[c].mem
         /\ child'[c].pc = "serving" => /\ child'[c].mem = IF Durable THEN LastLine ELSE <<>>
                                        /\ Bootable(c) /\ lease' = IF Durable THEN c ELSE lease
         /\ child'[c].pc = "gone" => lease' = lease
         /\ \A d \in Lives : d # c => child'[d] = child[d]
<1> DEFINE s == IF Durable THEN LastLine ELSE <<>>
           f == [ok |-> TRUE, state |-> s, id |-> 0]
           g == [ok |-> FALSE, state |-> <<>>, id |-> 0]
<1>1. child[c] \in ChildStates /\ child \in [Lives -> ChildStates]
  BY DEF TypeOK
<1>2. f.ok = TRUE /\ f.state = s /\ g.ok = FALSE
  OBVIOUS
<1>3. \/ /\ Bootable(c) /\ lease' = IF Durable THEN c ELSE lease
         /\ child' = [child EXCEPT ![c].pc = "serving", ![c].mem = s, ![c].out = <<f>>]
      \/ lease' = lease /\ child' = [child EXCEPT ![c].pc = "gone", ![c].out = <<g>>]
  BY DEF Boot
<1> HIDE DEF s, f, g
<1>4. CASE /\ Bootable(c) /\ lease' = IF Durable THEN c ELSE lease
           /\ child' = [child EXCEPT ![c].pc = "serving", ![c].mem = s, ![c].out = <<f>>]
  <2>1. /\ child'[c].pc = "serving" /\ child'[c].in = child[c].in /\ child'[c].mem = s
        /\ child'[c].out = <<f>> /\ \A d \in Lives : d # c => child'[d] = child[d]
    BY <1>1, <1>4 DEF ChildStates
  <2>2. Len(child'[c].out) = 1 /\ child'[c].out[1] = f
    BY <2>1
  <2> QED
    BY <1>2, <1>4, <2>1, <2>2 DEF s
<1>5. CASE lease' = lease /\ child' = [child EXCEPT ![c].pc = "gone", ![c].out = <<g>>]
  <2>1. /\ child'[c].pc = "gone" /\ child'[c].in = child[c].in
        /\ child'[c].out = <<g>> /\ \A d \in Lives : d # c => child'[d] = child[d]
    BY <1>1, <1>5 DEF ChildStates
  <2>2. Len(child'[c].out) = 1 /\ child'[c].out[1] = g
    BY <2>1
  <2> QED
    BY <1>2, <1>5, <2>1, <2>2
<1> QED
  BY <1>3, <1>4, <1>5

LEMMA AnswerFields ==
  ASSUME TypeOK, NEW c \in Lives, Answer(c), ~Dies(c)
  PROVE  /\ child'[c] \in ChildStates /\ child'[c].in = Tail(child[c].in)
         /\ child'[c].id = Head(child[c].in).id /\ lease' = lease
         /\ child'[c].mem = Moved(child[c].mem, Head(child[c].in).req)
         /\ \/ /\ child'[c].pc = "moved" /\ child'[c].out = child[c].out /\ Durable
               /\ child'[c].mem # child[c].mem
            \/ /\ child'[c].pc = "serving" /\ (Durable => child'[c].mem = child[c].mem)
               /\ \E f : /\ child'[c].out = Append(child[c].out, f) /\ f.id = child'[c].id
                         /\ f.state = child'[c].mem
         /\ \A d \in Lives : d # c => child'[d] = child[d]
<1> DEFINE r == Head(child[c].in)
           mem == Moved(child[c].mem, r.req)
           next == [child[c] EXCEPT !.in = Tail(@), !.id = r.id]
           after == [next EXCEPT !.mem = mem]
           moved == [next EXCEPT !.pc = "moved", !.mem = mem]
           ok == Accepts(child[c].mem, r.req)
<1>1. /\ child[c].pc = "serving" /\ child[c].in # <<>>
      /\ child[c] \in ChildStates /\ child \in [Lives -> ChildStates]
  BY DEF Answer, TypeOK
<1>2. mem \in Heads /\ after \in ChildStates /\ moved \in ChildStates
  BY <1>1, AnswerTypes
<1>3. /\ after.pc = "serving" /\ after.in = Tail(child[c].in) /\ after.id = r.id
      /\ after.out = child[c].out /\ after.mem = mem
      /\ moved.pc = "moved" /\ moved.in = Tail(child[c].in) /\ moved.id = r.id
      /\ moved.out = child[c].out /\ moved.mem = mem
  BY <1>1 DEF ChildStates
<1>4. ok \in BOOLEAN
  BY DEF Accepts, Commits, CommitsDelta
<1>5. \/ mem # child[c].mem /\ Durable /\ child' = [child EXCEPT ![c] = moved] /\ lease' = lease
      \/ (Durable => mem = child[c].mem) /\ ~child[c].hup /\ Says(c, after, ok, mem)
  BY DEF Answer, Says
<1> HIDE DEF r, mem, after, moved, ok
<1>6. CASE mem # child[c].mem /\ Durable /\ child' = [child EXCEPT ![c] = moved] /\ lease' = lease
  <2>1. child'[c] = moved /\ \A d \in Lives : d # c => child'[d] = child[d]
    BY <1>1, <1>6
  <2> QED
    BY <1>2, <1>3, <1>6, <2>1 DEF mem, r
<1>7. CASE (Durable => mem = child[c].mem) /\ ~child[c].hup /\ Says(c, after, ok, mem)
  <2> DEFINE f == [ok |-> ok, state |-> mem, id |-> after.id]
  <2>1. f.state = mem /\ f.id = after.id
    OBVIOUS
  <2>2. /\ child'[c].pc = after.pc /\ child'[c].in = after.in /\ child'[c].mem = after.mem
        /\ child'[c].out = Append(after.out, f)
        /\ child'[c].id = after.id /\ lease' = lease
        /\ \A d \in Lives : d # c => child'[d] = child[d]
    BY <1>2, <1>4, <1>7, SaysFields
  <2>3. child'[c] \in ChildStates
    BY <1>2, <1>4, <1>7, SaysTypes
  <2> HIDE DEF f
  <2> QED
    BY <1>3, <1>7, <2>1, <2>2, <2>3 DEF mem, r
<1> QED
  BY <1>5, <1>6, <1>7

LEMMA WriteFields ==
  ASSUME TypeOK, NEW c \in Lives, Write(c), ~Dies(c)
  PROVE  /\ child'[c].pc = "serving" /\ child'[c].in = child[c].in
         /\ child'[c].mem = child[c].mem /\ lease' = lease
         /\ \E f : /\ child'[c].out = Append(child[c].out, f) /\ f.id = child[c].id
                   /\ f.state = child[c].mem
         /\ child'[c] \in ChildStates
         /\ \A d \in Lives : d # c => child'[d] = child[d]
<1> DEFINE after == [child[c] EXCEPT !.pc = "serving"]
           f == [ok |-> TRUE, state |-> child[c].mem, id |-> after.id]
<1>1. child[c].pc = "moved" /\ child[c] \in ChildStates
  BY DEF Write, TypeOK
<1>2. /\ child[c].mem \in Heads /\ after \in ChildStates /\ after.pc = "serving"
      /\ after.in = child[c].in /\ after.out = child[c].out /\ after.id = child[c].id
      /\ after.mem = child[c].mem
  BY <1>1 DEF ChildStates
<1>3. f.id = child[c].id /\ f.state = child[c].mem
  BY <1>2
<1>4. ~child[c].hup /\ Says(c, after, TRUE, child[c].mem)
  BY DEF Write, Says
<1> HIDE DEF after
<1>5. /\ child'[c].pc = "serving" /\ child'[c].in = child[c].in
      /\ child'[c].mem = child[c].mem /\ lease' = lease
      /\ child'[c].out = Append(child[c].out, f)
      /\ \A d \in Lives : d # c => child'[d] = child[d]
  <2>1. /\ child'[c].pc = after.pc /\ child'[c].in = after.in /\ child'[c].mem = after.mem
        /\ child'[c].out = Append(after.out, f) /\ lease' = lease
        /\ \A d \in Lives : d # c => child'[d] = child[d]
    BY <1>2, <1>4, SaysFields
  <2> HIDE DEF f
  <2> QED
    BY ONLY <1>2, <2>1
<1>6. child'[c] \in ChildStates
  BY <1>2, <1>4, SaysTypes
<1> HIDE DEF f
<1> QED
  BY <1>3, <1>5, <1>6

\* A child of this life whose pipes stay what they were keeps the invariant, and so does
\* any other child.
LEMMA ChildKeepsPipes ==
  ASSUME TypeOK, PipesInv, NEW c \in Lives, child[c].pc # "none", UNCHANGED service,
         \A d \in Lives : d # c => child'[d] = child[d],
         c = life => /\ Rests(child[life]) => Rests(child'[life])
                     /\ Boots(child[life]) => Boots(child'[life])
                     /\ \A id : Asking(child[life], id) => Asking(child'[life], id)
  PROVE  PipesInv'
<1>1. /\ life \in Lives /\ ~(c > life) /\ Unborn.pc = "none"
      /\ \A d \in Lives : d > life => child[d] = Unborn
  BY DEF PipesInv, Unborn, TypeOK
<1>2. \A d \in Lives : d > life => child'[d] = Unborn
  BY <1>1
<1>3. CASE c # life
  <2>1. child'[life] = child[life]
    BY <1>1, <1>3
  <2> QED
    BY <1>2, <2>1 DEF PipesInv, service
<1>4. CASE c = life
  <2>1. handle # "none"
    BY <1>1, <1>4 DEF PipesInv
  <2> QED
    BY <1>2, <1>4, <2>1 DEF PipesInv, service
<1> QED
  BY <1>3, <1>4

LEMMA DeathKeepsPipes ==
  ASSUME TypeOK, PipesInv, NEW c \in Lives, Dies(c), child[c].pc # "none", UNCHANGED service
  PROVE  PipesInv'
<1>1. child[c] \in ChildStates
  BY DEF TypeOK
<1>2. c = life => /\ Rests(child[life]) => Rests(child'[life])
                  /\ Boots(child[life]) => Boots(child'[life])
                  /\ \A id : Asking(child[life], id) => Asking(child'[life], id)
  BY <1>1, DeathFields, DeadPipes
<1> QED
  BY <1>2, DeathFields, ChildKeepsPipes

\* A thread that gives the lock back leaves a child whose pipes are empty, or none.
LEMMA ReleaseKeepsPipes ==
  ASSUME TypeOK, PipesInv, NEW t \in Threads, Release(t), lock \in {t, None},
         UNCHANGED <<handle, life>>, \A d \in Lives : d > life => child'[d] = child[d],
         handle = "none" => child'[life] = child[life],
         handle = "open" => Rests(child'[life])
  PROVE  PipesInv'
<1>1. lock' = None /\ \A u \in Threads : th'[u].pc \in {"idle", "begun"}
  BY ReleaseTypes
<1> QED
  BY <1>1 DEF PipesInv

\* Every step keeps the pipes in step.
LEMMA PipesPreserved ==
  ASSUME TypeOK, PipesInv, [Next]_vars
  PROVE  PipesInv'
<1>0. /\ life \in Lives /\ child[life] \in ChildStates
      /\ \A d \in Lives : d > life => d # life
  BY DEF TypeOK, Lives
<1>1. CASE UNCHANGED vars
  BY <1>1 DEF PipesInv, vars, service
<1>2. ASSUME NEW e \in Events, Append1(e) PROVE PipesInv'
  BY <1>2 DEF Append1, PipesInv, service
<1>3. ASSUME NEW t \in Threads, Begin(t) PROVE PipesInv'
  <2>1. \A u \in Threads : th'[u].pc \notin {"idle", "begun"} => th'[u] = th[u]
    BY <1>3 DEF Begin, TypeOK
  <2>2. UNCHANGED <<life, handle, lock, child>>
    BY <1>3 DEF Begin
  <2> QED
    BY <2>1, <2>2 DEF PipesInv
<1>4. ASSUME NEW t \in Threads, Exchange(t) PROVE PipesInv'
  <2>1. /\ lock = None /\ life' = life /\ t # None
        /\ \A u \in Threads : th[u].pc \in {"idle", "begun"}
    BY <1>4, ChildAssumption DEF Exchange, TypeOK
  <2>2. CASE Starts /\ handle' = "open" /\ lock' = t /\ th' = [th EXCEPT ![t].pc = "starting"]
             /\ child' = [child EXCEPT ![life] = [Unborn EXCEPT !.pc = "init"]]
    <3>1. child'[life] = [Unborn EXCEPT !.pc = "init"]
          /\ \A d \in Lives : d > life => child'[d] = child[d]
      BY <1>0, <2>2 DEF TypeOK
    <3>2. Len(<<>>) <= 1
      OBVIOUS
    <3>3. Boots(child'[life])
      BY <3>1, <3>2 DEF Unborn, Boots
    <3>4. th'[t].pc = "starting" /\ \A u \in Threads : u # t => th'[u] = th[u]
      BY <2>1, <2>2, MoveTypes
    <3> QED
      BY <2>1, <2>2, <3>1, <3>3, <3>4 DEF PipesInv
  <2>3. CASE ~Starts /\ handle = "open" /\ lock' = t
             /\ th' = [th EXCEPT ![t].pc = "writing"] /\ UNCHANGED <<handle, child>>
    <3>1. Rests(child[life])
      BY <2>1, <2>3 DEF PipesInv
    <3>2. th'[t].pc = "writing" /\ \A u \in Threads : u # t => th'[u] = th[u]
      BY <2>1, <2>3, MoveTypes
    <3> QED
      BY <2>1, <2>3, <3>1, <3>2 DEF PipesInv
  <2>5. CASE ~Starts /\ handle # "open" /\ Release(t) /\ UNCHANGED <<handle, child>>
    BY <2>1, <2>5, ReleaseKeepsPipes
  <2> QED
    BY <1>4, <2>2, <2>3, <2>5 DEF Exchange
<1>5. ASSUME NEW t \in Threads, Started(t) PROVE PipesInv'
  <2>1. /\ lock = t /\ UNCHANGED <<life, handle, lock>> /\ th[t].pc = "starting" /\ t # None
        /\ \A u \in Threads : u # t => th[u].pc \in {"idle", "begun"}
        /\ child[life].out # <<>>
    BY <1>5, ChildAssumption DEF Started, TypeOK
  <2>2. Boots(child[life]) /\ handle = "open"
    BY <2>1 DEF PipesInv
  <2>3. /\ TakeReply[life] = [child[life] EXCEPT !.out = Tail(@)]
        /\ TakeReply \in [Lives -> ChildStates]
        /\ \A d \in Lives : d > life => TakeReply[d] = child[d]
    <3>1. /\ TakeReply = [child EXCEPT ![life] = [child[life] EXCEPT !.out = Tail(@)]]
          /\ TakeReply \in [Lives -> ChildStates]
      BY <2>1, TakeTypes
    <3>2. child \in [Lives -> ChildStates]
      BY DEF TypeOK
    <3> QED
      BY <1>0, <3>1, <3>2
  <2>4. Rests(TakeReply[life])
    BY <1>0, <2>1, <2>2, <2>3, OnlyWord
  <2>5. PICK p \in {"writing", "stopping"} : th' = [th EXCEPT ![t].pc = p]
    BY <1>5 DEF Started
  <2>6. child' = TakeReply
    BY <1>5 DEF Started
  <2>7. th'[t].pc = p /\ \A u \in Threads : u # t => th'[u] = th[u]
    BY <2>1, <2>5, MoveTypes
  <2> QED
    BY <2>1, <2>2, <2>3, <2>4, <2>6, <2>7 DEF PipesInv
<1>5a. ASSUME NEW t \in Threads, Written(t) PROVE PipesInv'
  <2>1. /\ lock = t /\ UNCHANGED <<life, handle, lock>> /\ th[t].pc = "writing" /\ t # None
        /\ \A u \in Threads : u # t => th[u].pc \in {"idle", "begun"}
        /\ child' = Put(th[t].req, th[t].id) /\ th' = [th EXCEPT ![t].pc = "waiting"]
    BY <1>5a, ChildAssumption DEF Written, TypeOK
  <2> DEFINE f == [req |-> th[t].req, id |-> th[t].id]
  <2>2. Rests(child[life]) /\ handle = "open"
    BY <2>1 DEF PipesInv
  <2>3. /\ child'[life] = [child[life] EXCEPT !.in = Append(@, f)]
        /\ \A d \in Lives : d > life => child'[d] = child[d]
    BY <1>0, <2>1 DEF Put, TypeOK
  <2>4. f.id = th[t].id /\ f \in RequestFrames
    BY DEF TypeOK, ThreadStates, RequestFrames
  <2> HIDE DEF f
  <2>5. Asking(child'[life], th[t].id)
    BY <1>0, <2>2, <2>3, <2>4, AskedNext
  <2>6. /\ th'[t].pc = "waiting" /\ th'[t].id = th[t].id
        /\ \A u \in Threads : u # t => th'[u] = th[u]
    BY <2>1, MoveTypes
  <2> QED
    BY <2>1, <2>2, <2>3, <2>5, <2>6 DEF PipesInv
<1>5b. ASSUME NEW t \in Threads, BrokenPipe(t) PROVE PipesInv'
  <2>1. lock = t /\ th'[t].pc = "stopping" /\ \A u \in Threads : u # t => th'[u] = th[u]
    BY <1>5b, MoveTypes DEF BrokenPipe, TypeOK
  <2>2. UNCHANGED <<life, handle, lock, child>>
    BY <1>5b DEF BrokenPipe
  <2> QED
    BY <2>1, <2>2 DEF PipesInv
<1>6. ASSUME NEW t \in Threads, Answered(t) PROVE PipesInv'
  <2>1. /\ lock = t /\ th[t].pc = "waiting" /\ UNCHANGED <<life, handle>>
        /\ child[life].out # <<>> /\ child' = TakeReply /\ Release(t)
    BY <1>6 DEF Answered, TypeOK
  <2>2. Asking(child[life], th[t].id) /\ handle = "open"
    BY <2>1 DEF PipesInv
  <2>3. /\ child'[life] = [child[life] EXCEPT !.out = Tail(@)]
        /\ \A d \in Lives : d > life => child'[d] = child[d]
    <3>1. child' = [child EXCEPT ![life] = [child[life] EXCEPT !.out = Tail(@)]]
      BY <2>1, TakeTypes
    <3>2. child \in [Lives -> ChildStates]
      BY DEF TypeOK
    <3> QED
      BY <1>0, <3>1, <3>2
  <2>4. Rests(child'[life])
    BY <1>0, <2>1, <2>2, <2>3, OnlyWord
  <2> QED
    BY <2>1, <2>2, <2>3, <2>4, ReleaseKeepsPipes
<1>7. ASSUME NEW t \in Threads, Unreachable(t) PROVE PipesInv'
  <2>1. lock = t /\ th'[t].pc = "stopping" /\ \A u \in Threads : u # t => th'[u] = th[u]
    BY <1>7, MoveTypes DEF Unreachable, TypeOK
  <2>2. UNCHANGED <<life, handle, lock, child>>
    BY <1>7 DEF Unreachable
  <2> QED
    BY <2>1, <2>2 DEF PipesInv
<1>8. ASSUME NEW t \in Threads, CloseAnchor(t) PROVE PipesInv'
  <2>1. th'[t].pc = "stopping" /\ \A u \in Threads : u # t => th'[u] = th[u]
    BY <1>8, MoveTypes DEF CloseAnchor
  <2>2. UNCHANGED <<life, handle, child>> /\ lock' # None
    BY <1>8, ChildAssumption DEF CloseAnchor
  <2> QED
    BY <2>1, <2>2 DEF PipesInv
<1>9. ASSUME NEW t \in Threads, StopPipes(t) PROVE PipesInv'
  <2>1. /\ lock = t /\ life' = life /\ th[t].pc = "stopping"
        /\ \A u \in Threads : u # t => th[u].pc \in {"idle", "begun"}
    BY <1>9 DEF StopPipes, TypeOK
  <2>2. CASE /\ handle' = "ended" /\ UNCHANGED lock /\ th' = [th EXCEPT ![t].pc = "ending"]
             /\ child' = [child EXCEPT ![life].hup = TRUE, ![life].out = <<>>]
    <3>1. th'[t].pc = "ending" /\ \A u \in Threads : u # t => th'[u] = th[u]
      BY <2>1, <2>2, MoveTypes
    <3>2. \A d \in Lives : d > life => child'[d] = child[d]
      BY <1>0, <2>2 DEF TypeOK
    <3> QED
      BY <2>1, <2>2, <3>1, <3>2 DEF PipesInv
  <2>3. CASE handle # "open" /\ Release(t) /\ UNCHANGED <<handle, child>>
    BY <2>1, <2>3, ReleaseKeepsPipes
  <2> QED
    BY <1>9, <2>2, <2>3 DEF StopPipes
<1>10. ASSUME NEW t \in Threads, ChildWaited(t) PROVE PipesInv'
  <2>1. lock = t /\ handle = "ended"
    BY <1>10 DEF ChildWaited, TypeOK, PipesInv
  <2> QED
    BY <1>10, <2>1, ReleaseKeepsPipes DEF ChildWaited
<1>11. ASSUME NEW t \in Threads, KillSlow(t) PROVE PipesInv'
  BY <1>0, <1>11, DeathKeepsPipes DEF KillSlow, Gone
<1>12. ASSUME NEW c \in Lives, Boot(c) PROVE PipesInv'
  <2>1. UNCHANGED service /\ child[c].pc = "init" /\ child[c] \in ChildStates
    BY <1>12 DEF Boot, TypeOK
  <2>2. CASE Dies(c)
    BY <2>1, <2>2, DeathKeepsPipes
  <2>3. CASE ~Dies(c)
    <3>1. /\ child'[c].pc \in {"serving", "gone"} /\ child'[c].in = child[c].in
          /\ Len(child'[c].out) = 1
          /\ \A d \in Lives : d # c => child'[d] = child[d]
      BY <1>12, <2>1, <2>3, BootFields
    <3>2. c = life => /\ Rests(child[life]) => Rests(child'[life])
                      /\ Boots(child[life]) => Boots(child'[life])
                      /\ \A id : Asking(child[life], id) => Asking(child'[life], id)
      <4>1. ~Rests(child[c]) /\ \A id : ~Asking(child[c], id)
        BY <2>1 DEF Rests, Asking
      <4>2. Boots(child[c]) => Boots(child'[c])
        BY <3>1 DEF Boots
      <4> QED
        BY <4>1, <4>2
    <3> QED
      BY <2>1, <3>1, <3>2, ChildKeepsPipes
  <2> QED
    BY <2>2, <2>3
<1>13. ASSUME NEW c \in Lives, Answer(c) PROVE PipesInv'
  <2>1. /\ UNCHANGED service /\ child[c].pc = "serving" /\ child[c].in # <<>>
        /\ child[c] \in ChildStates
    BY <1>13 DEF Answer, TypeOK
  <2>2. CASE Dies(c)
    BY <2>1, <2>2, DeathKeepsPipes
  <2>3. CASE ~Dies(c)
    <3>1. /\ child'[c] \in ChildStates /\ child'[c].in = Tail(child[c].in)
          /\ child'[c].id = Head(child[c].in).id
          /\ \/ child'[c].pc = "moved" /\ child'[c].out = child[c].out
             \/ child'[c].pc = "serving"
                /\ \E f : child'[c].out = Append(child[c].out, f) /\ f.id = child'[c].id
          /\ \A d \in Lives : d # c => child'[d] = child[d]
      BY <1>13, <2>3, AnswerFields
    <3>2. ~Rests(child[c]) /\ ~Boots(child[c])
      BY <2>1 DEF Rests, Boots
    <3>3. \A id : Asking(child[c], id) => Asking(child'[c], id)
      BY <2>1, <3>1, AnsweredPipes
    <3> QED
      BY <2>1, <3>1, <3>2, <3>3, ChildKeepsPipes
  <2> QED
    BY <2>2, <2>3
<1>14. ASSUME NEW c \in Lives, Write(c) PROVE PipesInv'
  <2>1. UNCHANGED service /\ child[c].pc = "moved" /\ child[c] \in ChildStates
    BY <1>14 DEF Write, TypeOK
  <2>2. CASE Dies(c)
    BY <2>1, <2>2, DeathKeepsPipes
  <2>3. CASE ~Dies(c)
    <3>1. /\ child'[c].pc = "serving" /\ child'[c].in = child[c].in
          /\ \E f : child'[c].out = Append(child[c].out, f) /\ f.id = child[c].id
          /\ child'[c] \in ChildStates
          /\ \A d \in Lives : d # c => child'[d] = child[d]
      BY <1>14, <2>3, WriteFields
    <3>2. ~Rests(child[c]) /\ ~Boots(child[c])
      BY <2>1 DEF Rests, Boots
    <3>3. \A id : Asking(child[c], id) => Asking(child'[c], id)
      BY <2>1, <3>1, WrittenPipes
    <3> QED
      BY <2>1, <3>1, <3>2, <3>3, ChildKeepsPipes
  <2> QED
    BY <2>2, <2>3
<1>15. ASSUME NEW c \in Lives, Returns(c) \/ Killed(c) PROVE PipesInv'
  BY <1>15, DeathKeepsPipes DEF Returns, Killed, Gone
<1>16. CASE Crash
  <2>1. life + 1 \in Lives /\ life + 1 > life /\ life' = life + 1
    <3>1. life \in 1..MaxLives /\ life < MaxLives /\ life' = life + 1 /\ MaxLives \in Nat
      BY <1>0, <1>16, ChildAssumption DEF Crash, Lives
    <3> QED
      BY <3>1 DEF Lives
  <2>2. \A d \in Lives : d > life => child'[d] = Unborn
    BY <1>0, <1>16 DEF Crash, TypeOK, PipesInv
  <2>3. \A d \in Lives : d > life' => d > life
    BY <1>0, <2>1 DEF Lives
  <2>4. \A t \in Threads : th'[t].pc = "idle"
    BY <1>16 DEF Crash, Idle
  <2> QED
    BY <1>16, <2>1, <2>2, <2>3, <2>4 DEF Crash, PipesInv
<1> QED
  BY <1>1, <1>2, <1>3, <1>4, <1>5, <1>6, <1>7, <1>8, <1>9, <1>10, <1>11, <1>12, <1>13, <1>14,
     <1>15, <1>16, <1>5a, <1>5b DEF Next, ThreadStep, ChildStep

-----------------------------------------------------------------------------
(* The state file *)

\* What a step of the service may do to a child: start it, or take or drop what it said.
Quieter(x, y) ==
  /\ y.mem = x.mem
  /\ y.out = x.out \/ y.out = <<>>
  /\ y.pc = x.pc \/ (x.pc = "none" /\ y.pc = "init")

LEMMA QuietChildren ==
  /\ \A x : Quieter(x, x)
  /\ \A x, y, z : Quieter(x, y) /\ z.mem = y.mem /\ z.out = y.out /\ z.pc = y.pc => Quieter(x, z)
  /\ \A x, y : y.mem = x.mem /\ y.out = <<>> /\ y.pc = x.pc => Quieter(x, y)
<1>1. ASSUME NEW x PROVE Quieter(x, x)
  BY DEF Quieter
<1>2. ASSUME NEW x, NEW y, NEW z, Quieter(x, y), z.mem = y.mem, z.out = y.out, z.pc = y.pc
      PROVE  Quieter(x, z)
  BY <1>2 DEF Quieter
<1>3. ASSUME NEW x, NEW y, y.mem = x.mem, y.out = <<>>, y.pc = x.pc PROVE Quieter(x, y)
  BY <1>3 DEF Quieter
<1> QED
  BY <1>1, <1>2, <1>3

\* A request moves the anchor forward or not at all.
LEMMA MovesForward ==
  ASSUME NEW mem \in Heads, NEW r \in Requests
  PROVE  /\ Moved(mem, r) \in Heads /\ IsPrefix(mem, Moved(mem, r))
         /\ Moved(mem, r) # mem => IsStrictPrefix(mem, Moved(mem, r))
<1>1. r.head \in Heads /\ Moved(mem, r) \in Heads
  BY MovedTypes
<1>2. IsPrefix(mem, Moved(mem, r))
  <2>1. CASE Accepts(mem, r)
    BY <1>1, <2>1, CommitsExtend
  <2>2. CASE ~Accepts(mem, r)
    BY <2>2, PrefixReflexive DEF Moved, Heads
  <2> QED
    BY <2>1, <2>2
<1> QED
  BY <1>1, <1>2 DEF IsStrictPrefix

\* What is read is the first and only word of the child.
LEMMA ReadsFirst ==
  ASSUME TypeOK, child[life].out # <<>>, NEW id,
         Boots(child[life]) \/ Asking(child[life], id)
  PROVE  /\ \A c \in Lives : Quieter(child[c], TakeReply[c])
         /\ TakeReply \in [Lives -> ChildStates]
         /\ TakeReply[life].out = <<>> /\ Reply = child[life].out[1]
         /\ 1 \in 1..Len(child[life].out)
<1> DEFINE x == child[life]
<1>1. life \in Lives /\ x \in ChildStates /\ child \in [Lives -> ChildStates]
  BY DEF TypeOK
<1>2. Tail(x.out) = <<>> /\ Len(x.out) = 1
  BY <1>1, OnlyWord
<1>3. x.out \in Seq(ReplyFrames)
  BY <1>1, PipeTypes
<1>4. /\ TakeReply = [child EXCEPT ![life] = [x EXCEPT !.out = Tail(@)]]
      /\ TakeReply \in [Lives -> ChildStates]
  BY TakeTypes
<1> HIDE DEF x
<1>5. /\ [x EXCEPT !.out = Tail(@)].out = <<>> /\ [x EXCEPT !.out = Tail(@)].mem = x.mem
      /\ [x EXCEPT !.out = Tail(@)].pc = x.pc
  BY <1>1, <1>2 DEF ChildStates
<1>6. TakeReply[life] = [x EXCEPT !.out = Tail(@)]
      /\ \A c \in Lives : c # life => TakeReply[c] = child[c]
  BY <1>1, <1>4
<1>7. \A c \in Lives : Quieter(child[c], TakeReply[c])
  <2>1. Quieter(child[life], TakeReply[life])
    <3>1. /\ TakeReply[life].mem = x.mem /\ TakeReply[life].pc = x.pc
          /\ TakeReply[life].out = <<>>
      BY ONLY <1>5, <1>6
    <3> QED
      BY ONLY <3>1, QuietChildren DEF x
  <2> QED
    BY <1>6, <2>1, QuietChildren
<1>8. Reply = child[life].out[1] /\ 1 \in 1..Len(child[life].out)
  BY <1>2, <1>3 DEF Reply, x
<1> QED
  BY <1>4, <1>5, <1>6, <1>7, <1>8

\* The steps of the service leave the state file alone and quiet its own child; what they
\* take from it is the one word it has said.
LEMMA ServiceQuiets ==
  ASSUME TypeOK, PipesInv, NEW t \in Threads,
         \/ Begin(t) \/ Exchange(t) \/ Started(t) \/ Written(t) \/ BrokenPipe(t)
         \/ Answered(t) \/ Unreachable(t) \/ CloseAnchor(t) \/ StopPipes(t) \/ ChildWaited(t)
  PROVE  /\ UNCHANGED <<lines, lease, life>> /\ \A c \in Lives : Quieter(child[c], child'[c])
         /\ \/ last' = last
            \/ /\ 1 \in 1..Len(child[life].out) /\ child[life].out[1].ok
               /\ last' = child[life].out[1].state /\ child'[life].out = <<>>
               /\ child[life].pc \notin {"none", "init"}
<1>1. life \in Lives /\ child[life] \in ChildStates /\ child \in [Lives -> ChildStates]
  BY DEF TypeOK
<1>2. UNCHANGED child => \A c \in Lives : Quieter(child[c], child'[c])
  BY QuietChildren
<1>3. CASE Begin(t) \/ BrokenPipe(t) \/ Unreachable(t) \/ CloseAnchor(t) \/ ChildWaited(t)
  BY <1>2, <1>3 DEF Begin, BrokenPipe, Unreachable, CloseAnchor, ChildWaited, file
<1>4. CASE Exchange(t)
  <2>1. UNCHANGED <<lines, lease, life, last>> /\ lock = None
    BY <1>4 DEF Exchange, file
  <2>2. CASE Starts /\ child' = [child EXCEPT ![life] = [Unborn EXCEPT !.pc = "init"]]
    <3>1. child[life] = Unborn
      BY <2>2 DEF Starts, PipesInv
    <3>2. child'[life] = [Unborn EXCEPT !.pc = "init"]
          /\ \A c \in Lives : c # life => child'[c] = child[c]
      BY <1>1, <2>2
    <3>3. Quieter(child[life], child'[life])
      BY <3>1, <3>2 DEF Quieter, Unborn
    <3> QED
      BY <2>1, <3>2, <3>3, QuietChildren
  <2> QED
    BY <1>2, <1>4, <2>1, <2>2 DEF Exchange
<1>5. CASE Started(t)
  <2>1. /\ UNCHANGED <<lines, lease, life, last>> /\ child[life].out # <<>>
        /\ Boots(child[life]) /\ child' = TakeReply
    BY <1>5 DEF Started, file, PipesInv
  <2> QED
    BY <2>1, ReadsFirst
<1>5a. CASE Written(t)
  <2> DEFINE f == [req |-> th[t].req, id |-> th[t].id]
  <2>1. /\ UNCHANGED <<lines, lease, life, last>>
        /\ child'[life] = [child[life] EXCEPT !.in = Append(@, f)]
        /\ \A c \in Lives : c # life => child'[c] = child[c]
    BY <1>1, <1>5a DEF Written, Put, file
  <2> HIDE DEF f
  <2>2. /\ child'[life].mem = child[life].mem /\ child'[life].out = child[life].out
        /\ child'[life].pc = child[life].pc
    BY <1>1, <2>1 DEF ChildStates
  <2> QED
    BY <2>1, <2>2, QuietChildren
<1>6. CASE Answered(t)
  <2>1. /\ UNCHANGED <<lines, lease, life>> /\ child[life].out # <<>> /\ child' = TakeReply
        /\ Asking(child[life], th[t].id) /\ last' = IF Reply.ok THEN Reply.state ELSE last
    BY <1>6 DEF Answered, file, PipesInv
  <2>2. child[life].pc \notin {"none", "init"}
    BY <2>1 DEF Asking
  <2> QED
    BY <2>1, <2>2, ReadsFirst
<1>7. CASE StopPipes(t)
  <2>1. UNCHANGED <<lines, lease, life, last>>
    BY <1>7 DEF StopPipes, file
  <2>2. CASE child' = [child EXCEPT ![life].hup = TRUE, ![life].out = <<>>]
    <3>1. /\ child'[life].mem = child[life].mem /\ child'[life].out = <<>>
          /\ child'[life].pc = child[life].pc
          /\ \A c \in Lives : c # life => child'[c] = child[c]
      BY <1>1, <2>2 DEF ChildStates
    <3> QED
      BY <2>1, <3>1, QuietChildren
  <2> QED
    BY <1>2, <1>7, <2>1, <2>2 DEF StopPipes
<1> QED
  BY <1>3, <1>4, <1>5, <1>5a, <1>6, <1>7

\* What is kept of a child that is quieted is kept.
LEMMA QuietKept ==
  ASSUME NEW x, NEW y, Quieter(x, y), NEW holds, NEW line, Kept(x, holds, line)
  PROVE  Kept(y, holds, line)
<1>1. \A i \in 1..Len(y.out) : y.out[i].ok => IsPrefix(y.out[i].state, line)
  <2>1. CASE y.out = x.out
    BY <2>1 DEF Kept
  <2>2. CASE y.out = <<>>
    BY <2>2
  <2> QED
    BY <2>1, <2>2 DEF Quieter
<1> QED
  BY <1>1 DEF Kept, Quieter

\* An end of a child keeps what is kept of the others: the leases were its own, or of
\* somebody else.
LEMMA DeathKept ==
  ASSUME TypeOK, FileInv, Durable, NEW c \in Lives, Dies(c)
  PROVE  \A d \in Lives : Kept(child'[d], lease' = d, LastLine)
<1>1. /\ child'[c].pc = "gone" /\ child'[c].out = child[c].out
      /\ \A d \in Lives : d # c => child'[d] = child[d]
  BY DeathFields
<1>2. \A d \in Lives : Kept(child[d], lease = d, LastLine)
  BY DEF FileInv
<1>3. Kept(child'[c], lease' = c, LastLine)
  BY <1>1, <1>2 DEF Kept
<1>4. ASSUME NEW d \in Lives, d # c PROVE Kept(child'[d], lease' = d, LastLine)
  <2>1. lease = d => lease' = d
    BY <1>4 DEF Dies
  <2> QED
    BY <1>1, <1>2, <1>4, <2>1 DEF Kept
<1> QED
  BY <1>3, <1>4

\* The answer a child adds to what it has said.
LEMMA SaidKept ==
  ASSUME NEW x \in ChildStates, NEW y \in ChildStates, NEW f, y.out = Append(x.out, f),
         NEW holds, NEW line, IsPrefix(f.state, line),
         \A i \in 1..Len(x.out) : x.out[i].ok => IsPrefix(x.out[i].state, line),
         y.pc = "serving", holds, y.mem = line
  PROVE  Kept(y, holds, line)
<1>1. x.out \in Seq(ReplyFrames) /\ Len(x.out) \in Nat
  BY PipeTypes
<1>2. /\ Len(y.out) = Len(x.out) + 1 /\ y.out[Len(y.out)] = f
      /\ \A i \in 1..Len(x.out) : y.out[i] = x.out[i]
  BY <1>1
<1>3. ASSUME NEW i \in 1..Len(y.out) PROVE y.out[i].ok => IsPrefix(y.out[i].state, line)
  <2>1. CASE i \in 1..Len(x.out)
    BY <1>2, <2>1
  <2>2. CASE i = Len(y.out)
    BY <1>2, <2>2
  <2> QED
    BY <1>1, <1>2, <1>3, <2>1, <2>2
<1> QED
  BY <1>3 DEF Kept

\* Steps that leave the file alone and quiet the children keep the file.
LEMMA QuietFile ==
  ASSUME FileInv, UNCHANGED <<lines, lease>>, \A c \in Lives : Quieter(child[c], child'[c]),
         Durable => IsPrefix(last', LastLine)
  PROVE  FileInv'
<1>1. LastLine' = LastLine /\ StateFileRises'
  BY DEF LastLine, FileInv, StateFileRises
<1>2. ASSUME Durable, NEW c \in Lives PROVE Kept(child'[c], lease' = c, LastLine')
  BY <1>1, <1>2, QuietKept DEF FileInv
<1>3. ASSUME ~Durable, NEW c \in Lives PROVE child'[c].pc # "moved"
  BY <1>3 DEF FileInv, Quieter
<1> QED
  BY <1>1, <1>2, <1>3 DEF FileInv, ToldSurvives

\* A child that ends leaves the file a child wrote before it.
LEMMA DeathFile ==
  ASSUME TypeOK, FileInv, NEW c \in Lives, Dies(c), UNCHANGED <<lines, last>>
  PROVE  FileInv'
<1>1. LastLine' = LastLine /\ StateFileRises' /\ ToldSurvives'
  BY DEF LastLine, FileInv, StateFileRises, ToldSurvives
<1>2. Durable => \A d \in Lives : Kept(child'[d], lease' = d, LastLine)
  BY DeathKept
<1>3. ASSUME ~Durable, NEW d \in Lives PROVE child'[d].pc # "moved"
  BY <1>3, DeathFields DEF FileInv
<1> QED
  BY <1>1, <1>2, <1>3 DEF FileInv

\* A line that continues the last one is added.
LEMMA RisesOn ==
  ASSUME lines \in Seq(Heads), StateFileRises, NEW line \in Heads,
         IsStrictPrefix(LastLine, line), lines' = Append(lines, line)
  PROVE  LastLine' = line /\ StateFileRises'
<1>1. /\ lines' \in Seq(Heads) /\ Len(lines') = Len(lines) + 1 /\ Len(lines) \in Nat
      /\ lines'[Len(lines')] = line /\ \A i \in 1..Len(lines) : lines'[i] = lines[i]
  OBVIOUS
<1>2. LastLine' = line
  BY <1>1 DEF LastLine
<1>3. ASSUME NEW i \in DOMAIN lines', i > 1
      PROVE  IsStrictPrefix(lines'[i - 1], lines'[i])
  <2>1. i \in 1..Len(lines') /\ i - 1 \in 1..Len(lines)
    BY <1>1, <1>3
  <2>2. CASE i = Len(lines')
    <3>1. i - 1 = Len(lines) /\ Len(lines) # 0
      BY <1>1, <1>3, <2>2
    <3>2. LastLine = lines[i - 1]
      BY <3>1 DEF LastLine
    <3> QED
      BY <1>1, <2>1, <2>2, <3>2
  <2>3. CASE i # Len(lines')
    <3>1. i \in 1..Len(lines) /\ i \in DOMAIN lines
      BY <1>1, <2>1, <2>3
    <3> QED
      BY <1>1, <1>3, <2>1, <3>1 DEF StateFileRises
  <2> QED
    BY <2>2, <2>3
<1> QED
  BY <1>2, <1>3 DEF StateFileRises

\* A child that starts resumes from the file, and nobody else serves from it.
LEMMA BootFile ==
  ASSUME TypeOK, FileInv, NEW c \in Lives, Boot(c), ~Dies(c)
  PROVE  FileInv'
<1>1. UNCHANGED <<lines, last>>
  BY DEF Boot
<1>2. LastLine' = LastLine /\ StateFileRises' /\ ToldSurvives'
  BY <1>1 DEF LastLine, FileInv, StateFileRises, ToldSurvives
<1>3. LastLine \in Seq(Events) /\ c # 0
  BY LastLineType DEF Heads, TypeOK, Lives
<1>4. /\ child'[c].pc \in {"serving", "gone"} /\ Len(child'[c].out) = 1
      /\ child'[c].out[1].ok => /\ child'[c].pc = "serving" /\ Bootable(c)
                                /\ child'[c].out[1].state = child'[c].mem
      /\ child'[c].pc = "serving" => /\ child'[c].mem = IF Durable THEN LastLine ELSE <<>>
                                     /\ Bootable(c) /\ lease' = IF Durable THEN c ELSE lease
      /\ child'[c].pc = "gone" => lease' = lease
      /\ \A d \in Lives : d # c => child'[d] = child[d]
  BY BootFields
<1>5. ASSUME Durable PROVE Kept(child'[c], lease' = c, LastLine)
  <2>1. child'[c].pc = "serving" => child'[c].mem = LastLine /\ lease' = c
    BY <1>4, <1>5
  <2>2. child'[c].out[1].ok => IsPrefix(child'[c].out[1].state, LastLine)
    BY <1>3, <1>4, <2>1, PrefixReflexive
  <2>3. \A i \in 1..Len(child'[c].out) : i = 1
    BY <1>4
  <2> QED
    BY <1>4, <2>1, <2>2, <2>3 DEF Kept
<1>6. ASSUME Durable, NEW d \in Lives, d # c PROVE Kept(child'[d], lease' = d, LastLine)
  <2>1. Kept(child[d], lease = d, LastLine) /\ child'[d] = child[d]
    BY <1>4, <1>6 DEF FileInv
  <2>2. CASE child'[c].pc = "serving"
    <3>1. lease = 0 /\ d # 0
      BY <1>4, <1>6, <2>2 DEF Bootable, Lives
    <3> QED
      BY <2>1, <3>1 DEF Kept
  <2>3. CASE child'[c].pc = "gone"
    BY <1>4, <2>1, <2>3
  <2> QED
    BY <1>4, <2>2, <2>3
<1>7. ASSUME ~Durable, NEW d \in Lives PROVE child'[d].pc # "moved"
  BY <1>4, <1>7 DEF FileInv
<1> QED
  BY <1>2, <1>5, <1>6, <1>7 DEF FileInv

\* A request is answered from the file, or moves the child one line ahead of it.
LEMMA AnswerFile ==
  ASSUME TypeOK, FileInv, NEW c \in Lives, Answer(c), ~Dies(c)
  PROVE  FileInv'
<1> DEFINE r == Head(child[c].in).req
<1>1. /\ UNCHANGED <<lines, last>> /\ child[c].pc = "serving" /\ child[c].in # <<>>
      /\ child[c] \in ChildStates /\ child[c].mem \in Heads
  BY DEF Answer, TypeOK, ChildStates
<1>2. LastLine' = LastLine /\ StateFileRises' /\ ToldSurvives' /\ LastLine \in Seq(Events)
  BY <1>1, LastLineType DEF LastLine, FileInv, StateFileRises, ToldSurvives, Heads, TypeOK
<1>3. /\ child'[c] \in ChildStates /\ lease' = lease /\ child'[c].mem = Moved(child[c].mem, r)
      /\ \/ /\ child'[c].pc = "moved" /\ child'[c].out = child[c].out /\ Durable
            /\ child'[c].mem # child[c].mem
         \/ /\ child'[c].pc = "serving" /\ (Durable => child'[c].mem = child[c].mem)
            /\ \E f : /\ child'[c].out = Append(child[c].out, f) /\ f.id = child'[c].id
                      /\ f.state = child'[c].mem
      /\ \A d \in Lives : d # c => child'[d] = child[d]
  BY AnswerFields
<1>4. r \in Requests
  BY <1>1, AnswerTypes
<1> HIDE DEF r
<1>5. ASSUME Durable PROVE Kept(child'[c], lease' = c, LastLine)
  <2>1. /\ lease = c /\ child[c].mem = LastLine
        /\ \A i \in 1..Len(child[c].out) :
             child[c].out[i].ok => IsPrefix(child[c].out[i].state, LastLine)
    BY <1>1, <1>5 DEF FileInv, Kept
  <2>2. CASE /\ child'[c].pc = "moved" /\ child'[c].out = child[c].out
             /\ child'[c].mem # child[c].mem
    <3>1. IsStrictPrefix(LastLine, child'[c].mem)
      BY <1>1, <1>3, <1>4, <2>1, <2>2, MovesForward
    <3> QED
      BY <1>3, <2>1, <2>2, <3>1 DEF Kept
  <2>3. CASE child'[c].pc = "serving"
    <3>1. PICK f : child'[c].out = Append(child[c].out, f) /\ f.state = child'[c].mem
      BY <1>3, <2>3
    <3>2. child'[c].mem = LastLine /\ IsPrefix(f.state, LastLine)
      BY <1>2, <1>3, <1>5, <2>1, <2>3, <3>1, PrefixReflexive
    <3> QED
      BY <1>1, <1>3, <2>1, <2>3, <3>1, <3>2, SaidKept
  <2> QED
    BY <1>3, <2>2, <2>3
<1>6. ASSUME Durable, NEW d \in Lives, d # c PROVE Kept(child'[d], lease' = d, LastLine)
  BY <1>3, <1>6 DEF FileInv
<1>7. ASSUME ~Durable, NEW d \in Lives PROVE child'[d].pc # "moved"
  BY <1>3, <1>7 DEF FileInv
<1> QED
  BY <1>2, <1>5, <1>6, <1>7 DEF FileInv

\* A line is written by the one child that holds the leases, and told after that.
LEMMA WriteFile ==
  ASSUME TypeOK, FileInv, NEW c \in Lives, Write(c)
  PROVE  FileInv'
<1> DEFINE line == child[c].mem
<1>1. /\ lines' = Append(lines, line) /\ UNCHANGED last /\ child[c].pc = "moved"
      /\ child[c] \in ChildStates /\ lines \in Seq(Heads) /\ last \in Seq(Events)
      /\ line \in Seq(Events) /\ LastLine \in Seq(Events)
  BY LastLineType DEF Write, TypeOK, ChildStates, Heads
<1>2. Durable
  BY <1>1 DEF FileInv
<1>3. /\ \A d \in Lives : Kept(child[d], lease = d, LastLine)
      /\ lease = c /\ IsStrictPrefix(LastLine, line)
  BY <1>1, <1>2 DEF FileInv, Kept
<1>4. LastLine' = line /\ StateFileRises'
  BY <1>1, <1>3, RisesOn DEF Heads, FileInv
<1>5. ToldSurvives'
  BY <1>1, <1>2, <1>3, <1>4, StrictTransitive DEF FileInv, ToldSurvives
<1>6. ASSUME NEW d \in Lives, NEW i \in 1..Len(child[d].out), child[d].out[i].ok
      PROVE  IsPrefix(child[d].out[i].state, line)
  <2>1. child[d].out[i].state \in Seq(Events)
    <3>1. child[d].out \in Seq(ReplyFrames)
      BY PipeTypes DEF TypeOK
    <3>2. child[d].out[i] \in ReplyFrames
      BY <3>1
    <3> QED
      BY <3>2 DEF ReplyFrames, Heads
  <2>2. IsPrefix(child[d].out[i].state, LastLine)
    BY <1>3, <1>6 DEF Kept
  <2> QED
    BY <1>1, <1>3, <2>1, <2>2, StrictTransitive
<1> HIDE DEF line
<1>7. ASSUME NEW d \in Lives, d # c, child'[d] = child[d]
      PROVE  Kept(child'[d], lease' = d, line)
  <2>1. child[d].pc \notin {"serving", "moved"}
    BY <1>3, <1>7 DEF Kept
  <2> QED
    BY <1>6, <1>7, <2>1 DEF Kept
<1>8. CASE Dies(c)
  <2>1. /\ child'[c].pc = "gone" /\ child'[c].out = child[c].out
        /\ \A d \in Lives : d # c => child'[d] = child[d]
    BY <1>8, DeathFields
  <2>2. Kept(child'[c], lease' = c, line)
    BY <1>6, <2>1 DEF Kept
  <2> QED
    BY <1>2, <1>4, <1>5, <1>7, <2>1, <2>2 DEF FileInv
<1>9. CASE ~Dies(c)
  <2>1. /\ child'[c].pc = "serving" /\ child'[c].mem = line /\ lease' = lease
        /\ child'[c] \in ChildStates /\ \A d \in Lives : d # c => child'[d] = child[d]
        /\ \E f : child'[c].out = Append(child[c].out, f) /\ f.state = line
    BY <1>9, WriteFields DEF line
  <2>2. PICK f : child'[c].out = Append(child[c].out, f) /\ f.state = line
    BY <2>1
  <2>3. IsPrefix(f.state, line)
    BY <1>1, <2>2, PrefixReflexive DEF line
  <2>4. Kept(child'[c], lease' = c, line)
    BY <1>1, <1>3, <1>6, <2>1, <2>2, <2>3, SaidKept
  <2> QED
    BY <1>2, <1>4, <1>5, <1>7, <2>1, <2>4 DEF FileInv
<1> QED
  BY <1>8, <1>9

\* Every step keeps the file one history and what was told in it.
LEMMA FilePreserved ==
  ASSUME TypeOK, PipesInv, FileInv, [Next]_vars
  PROVE  FileInv'
<1>1. ASSUME UNCHANGED <<lines, lease, child, last>> PROVE FileInv'
  <2>1. \A c \in Lives : Quieter(child[c], child'[c])
    BY <1>1, QuietChildren
  <2> QED
    BY <1>1, <2>1, QuietFile DEF FileInv, ToldSurvives
<1>2. CASE UNCHANGED vars
  BY <1>1, <1>2 DEF vars, file
<1>3. ASSUME NEW e \in Events, Append1(e) PROVE FileInv'
  BY <1>1, <1>3 DEF Append1, file
<1>4. ASSUME NEW t \in Threads,
             \/ Begin(t) \/ Exchange(t) \/ Started(t) \/ Written(t) \/ BrokenPipe(t)
             \/ Answered(t) \/ Unreachable(t) \/ CloseAnchor(t) \/ StopPipes(t) \/ ChildWaited(t)
      PROVE  FileInv'
  <2>1. /\ UNCHANGED <<lines, lease, life>> /\ \A c \in Lives : Quieter(child[c], child'[c])
        /\ \/ last' = last
           \/ /\ 1 \in 1..Len(child[life].out) /\ child[life].out[1].ok
              /\ last' = child[life].out[1].state /\ child'[life].out = <<>>
    BY <1>4, ServiceQuiets
  <2>2. life \in Lives
    BY DEF TypeOK
  <2>3. Durable => IsPrefix(last', LastLine)
    BY <2>1, <2>2 DEF FileInv, ToldSurvives, Kept
  <2> QED
    BY <2>1, <2>3, QuietFile
<1>5. ASSUME NEW t \in Threads, KillSlow(t) PROVE FileInv'
  BY <1>5, DeathFile DEF KillSlow, TypeOK
<1>6. ASSUME NEW c \in Lives, Boot(c) PROVE FileInv'
  BY <1>6, BootFile, DeathFile DEF Boot
<1>7. ASSUME NEW c \in Lives, Answer(c) PROVE FileInv'
  BY <1>7, AnswerFile, DeathFile DEF Answer
<1>8. ASSUME NEW c \in Lives, Write(c) PROVE FileInv'
  BY <1>8, WriteFile
<1>9. ASSUME NEW c \in Lives, Returns(c) \/ Killed(c) PROVE FileInv'
  BY <1>9, DeathFile DEF Returns, Killed
<1>10. CASE Crash
  <2>1. /\ UNCHANGED <<lines, lease>> /\ last' = IF Durable THEN last ELSE <<>>
        /\ child' = [child EXCEPT ![life].hup = TRUE, ![life].out = <<>>]
    BY <1>10 DEF Crash, file
  <2>2. life \in Lives /\ child[life] \in ChildStates /\ child \in [Lives -> ChildStates]
    BY DEF TypeOK
  <2>3. /\ child'[life].mem = child[life].mem /\ child'[life].out = <<>>
        /\ child'[life].pc = child[life].pc
        /\ \A c \in Lives : c # life => child'[c] = child[c]
    BY <2>1, <2>2 DEF ChildStates
  <2>4. \A c \in Lives : Quieter(child[c], child'[c])
    BY <2>3, QuietChildren
  <2> QED
    BY <2>1, <2>4, QuietFile DEF FileInv, ToldSurvives
<1> QED
  BY <1>2, <1>3, <1>4, <1>5, <1>6, <1>7, <1>8, <1>9, <1>10 DEF Next, ThreadStep, ChildStep

-----------------------------------------------------------------------------
(* What the service was told *)

\* A child that ends, or is not of this life, changes nothing of it.
LEMMA DeathTold ==
  ASSUME TypeOK, ToldInv, NEW c \in Lives, Dies(c), UNCHANGED <<life, last>>
  PROVE  ToldInv'
<1>1. /\ child'[c].pc = "gone" /\ child'[c].out = child[c].out
      /\ \A d \in Lives : d # c => child'[d] = child[d]
  BY DeathFields
<1>2. life \in Lives
  BY DEF TypeOK
<1>3. CASE c = life
  BY <1>1, <1>3 DEF ToldInv, Remembers
<1>4. CASE c # life
  BY <1>1, <1>2, <1>4 DEF ToldInv
<1> QED
  BY <1>3, <1>4

\* A word is added to what a child says.
LEMMA SaidOn ==
  ASSUME NEW x \in ChildStates, NEW y \in ChildStates, NEW f, y.out = Append(x.out, f)
  PROVE  \A i \in 1..Len(y.out) : y.out[i] = f \/ \E j \in 1..Len(x.out) : y.out[i] = x.out[j]
<1>1. x.out \in Seq(ReplyFrames) /\ Len(x.out) \in Nat
  BY PipeTypes
<1>2. /\ Len(y.out) = Len(x.out) + 1 /\ y.out[Len(y.out)] = f
      /\ \A i \in 1..Len(x.out) : y.out[i] = x.out[i]
  BY <1>1
<1>3. ASSUME NEW i \in 1..Len(y.out)
      PROVE  y.out[i] = f \/ \E j \in 1..Len(x.out) : y.out[i] = x.out[j]
  <2>1. CASE i \in 1..Len(x.out)
    BY <1>2, <2>1
  <2>2. CASE i = Len(y.out)
    BY <1>2, <2>2
  <2> QED
    BY <1>1, <1>2, <1>3, <2>1, <2>2
<1> QED
  BY <1>3

\* The first word of a child is all the service may have been told.
LEMMA BootTold ==
  ASSUME TypeOK, FileInv, ToldInv, NEW c \in Lives, Boot(c), ~Dies(c)
  PROVE  ToldInv'
<1>1. UNCHANGED <<life, last>> /\ child[c].pc = "init" /\ life \in Lives /\ last \in Seq(Events)
  BY DEF Boot, service, TypeOK, Heads
<1>2. /\ child'[c].pc \in {"serving", "gone"} /\ Len(child'[c].out) = 1
      /\ child'[c].out[1].ok => /\ child'[c].pc = "serving"
                                /\ child'[c].out[1].state = child'[c].mem
      /\ child'[c].pc = "serving" => child'[c].mem = IF Durable THEN LastLine ELSE <<>>
      /\ \A d \in Lives : d # c => child'[d] = child[d]
  BY BootFields
<1>3. CASE c # life
  BY <1>1, <1>2, <1>3 DEF ToldInv
<1>4. CASE c = life
  <2>1. ~Durable => last = <<>>
    BY <1>1, <1>4 DEF ToldInv, Remembers
  <2>2. child'[c].pc = "serving" => IsPrefix(last, child'[c].mem)
    BY <1>1, <1>2, <2>1, PrefixReflexive DEF FileInv, ToldSurvives
  <2>3. ~Durable /\ child'[c].out[1].ok => IsPrefix(child'[c].out[1].state, child'[c].mem)
    <3>1. <<>> \in Seq(Events)
      OBVIOUS
    <3> QED
      BY <1>2, <3>1, PrefixReflexive
  <2>4. \A i \in 1..Len(child'[c].out) : i = 1
    BY <1>2
  <2> QED
    BY <1>1, <1>2, <1>4, <2>2, <2>3, <2>4 DEF ToldInv, Remembers
<1> QED
  BY <1>3, <1>4

\* An answer continues what was told, with a state file because that is in the file, without
\* one because it is in the memory of the child.
LEMMA AnswerTold ==
  ASSUME TypeOK, FileInv, ToldInv, NEW c \in Lives, Answer(c), ~Dies(c)
  PROVE  ToldInv'
<1> DEFINE r == Head(child[c].in).req
           m == child'[c].mem
<1>1. /\ UNCHANGED <<life, last>> /\ child[c].pc = "serving" /\ child[c].in # <<>>
      /\ child[c] \in ChildStates /\ child[c].mem \in Heads /\ life \in Lives
      /\ last \in Seq(Events)
  BY DEF Answer, service, TypeOK, ChildStates, Heads
<1>2. /\ child'[c] \in ChildStates /\ child'[c].mem = Moved(child[c].mem, r)
      /\ \/ child'[c].pc = "moved" /\ child'[c].out = child[c].out /\ Durable
         \/ /\ child'[c].pc = "serving" /\ (Durable => child'[c].mem = child[c].mem)
            /\ \E f : child'[c].out = Append(child[c].out, f) /\ f.state = child'[c].mem
      /\ \A d \in Lives : d # c => child'[d] = child[d]
  BY AnswerFields
<1>3. r \in Requests
  BY <1>1, AnswerTypes
<1> HIDE DEF r
<1>4. /\ child[c].mem \in Seq(Events) /\ m \in Seq(Events) /\ IsPrefix(child[c].mem, m)
  BY <1>1, <1>2, <1>3, MovesForward DEF Heads
<1> HIDE DEF m
<1>5. CASE c # life
  BY <1>1, <1>2, <1>5 DEF ToldInv
<1>6. CASE c = life /\ child'[c].pc = "moved" /\ child'[c].out = child[c].out /\ Durable
  BY <1>1, <1>6 DEF ToldInv
<1>7. CASE c = life /\ child'[c].pc = "serving" /\ (Durable => m = child[c].mem)
  <2>1. PICK f : child'[c].out = Append(child[c].out, f) /\ f.state = m
    BY <1>2, <1>7 DEF m
  <2>2. \A i \in 1..Len(child'[c].out) :
          child'[c].out[i] = f \/ \E j \in 1..Len(child[c].out) : child'[c].out[i] = child[c].out[j]
    BY <1>1, <1>2, <2>1, SaidOn
  <2>3. IsPrefix(last, m)
    <3>1. CASE Durable
      BY <1>1, <1>7, <3>1 DEF FileInv, ToldSurvives, Kept
    <3>2. CASE ~Durable
      BY <1>1, <1>4, <1>7, <3>2, PrefixTransitive DEF ToldInv, Remembers
    <3> QED
      BY <3>1, <3>2
  <2>4. \A i \in 1..Len(child'[c].out) :
          child'[c].out[i].ok => IsPrefix(last, child'[c].out[i].state)
    BY <1>7, <2>1, <2>2, <2>3 DEF ToldInv
  <2>5. ASSUME ~Durable, NEW i \in 1..Len(child'[c].out), child'[c].out[i].ok
        PROVE  IsPrefix(child'[c].out[i].state, m)
    <3>1. CASE child'[c].out[i] = f
      BY <1>4, <2>1, <3>1, PrefixReflexive
    <3>2. ASSUME NEW j \in 1..Len(child[c].out), child'[c].out[i] = child[c].out[j]
          PROVE  IsPrefix(child'[c].out[i].state, m)
      <4>1. child[c].out[j] \in ReplyFrames
        BY <1>1, PipeTypes
      <4>2. child[c].out[j].state \in Seq(Events)
        BY <4>1 DEF ReplyFrames, Heads
      <4>3. IsPrefix(child[c].out[j].state, child[c].mem)
        BY <1>1, <1>7, <2>5, <3>2 DEF ToldInv, Remembers
      <4> QED
        BY <1>4, <3>2, <4>2, <4>3, PrefixTransitive
    <3> QED
      BY <2>2, <3>1, <3>2
  <2> QED
    BY <1>1, <1>7, <2>3, <2>4, <2>5 DEF ToldInv, Remembers, m
<1> QED
  BY <1>2, <1>5, <1>6, <1>7 DEF m

\* What is told once it is written continues what the file held.
LEMMA WriteTold ==
  ASSUME TypeOK, FileInv, ToldInv, NEW c \in Lives, Write(c), ~Dies(c)
  PROVE  ToldInv'
<1>1. /\ UNCHANGED <<life, last>> /\ child[c].pc = "moved" /\ child[c] \in ChildStates
      /\ child[c].mem \in Seq(Events) /\ life \in Lives /\ last \in Seq(Events)
      /\ LastLine \in Seq(Events)
  BY LastLineType DEF Write, service, TypeOK, ChildStates, Heads
<1>2. /\ child'[c] \in ChildStates
      /\ \E f : child'[c].out = Append(child[c].out, f) /\ f.state = child[c].mem
      /\ \A d \in Lives : d # c => child'[d] = child[d]
  BY WriteFields
<1>3. Durable
  BY <1>1 DEF FileInv
<1>4. CASE c # life
  BY <1>1, <1>2, <1>4 DEF ToldInv
<1>5. CASE c = life
  <2>1. PICK f : child'[c].out = Append(child[c].out, f) /\ f.state = child[c].mem
    BY <1>2
  <2>2. \A i \in 1..Len(child'[c].out) :
          child'[c].out[i] = f \/ \E j \in 1..Len(child[c].out) : child'[c].out[i] = child[c].out[j]
    BY <1>1, <1>2, <2>1, SaidOn
  <2>3. IsPrefix(last, LastLine) /\ IsStrictPrefix(LastLine, child[c].mem)
    BY <1>1, <1>3 DEF FileInv, ToldSurvives, Kept
  <2>4. IsPrefix(last, child[c].mem)
    BY <1>1, <2>3, StrictTransitive
  <2>5. \A i \in 1..Len(child'[c].out) :
          child'[c].out[i].ok => IsPrefix(last, child'[c].out[i].state)
    BY <1>5, <2>1, <2>2, <2>4 DEF ToldInv
  <2> QED
    BY <1>1, <1>3, <1>5, <2>5 DEF ToldInv
<1> QED
  BY <1>4, <1>5

\* Every step keeps what is said a continuation of what was told.
LEMMA ToldPreserved ==
  ASSUME TypeOK, PipesInv, FileInv, ToldInv, [Next]_vars
  PROVE  ToldInv'
<1>1. CASE UNCHANGED vars
  BY <1>1 DEF vars, service, ToldInv
<1>2. ASSUME NEW e \in Events, Append1(e) PROVE ToldInv'
  BY <1>2 DEF Append1, service, ToldInv
<1>3. ASSUME NEW t \in Threads,
             \/ Begin(t) \/ Exchange(t) \/ Started(t) \/ Written(t) \/ BrokenPipe(t)
             \/ Answered(t) \/ Unreachable(t) \/ CloseAnchor(t) \/ StopPipes(t) \/ ChildWaited(t)
      PROVE  ToldInv'
  <2>1. /\ life' = life /\ \A c \in Lives : Quieter(child[c], child'[c])
        /\ \/ last' = last
           \/ /\ 1 \in 1..Len(child[life].out) /\ child[life].out[1].ok
              /\ last' = child[life].out[1].state /\ child'[life].out = <<>>
              /\ child[life].pc \notin {"none", "init"}
    BY <1>3, ServiceQuiets
  <2>2. Quieter(child[life], child'[life])
    BY <2>1 DEF TypeOK
  <2>3. CASE last' = last
    <3>1. CASE child'[life].out = child[life].out
      BY <2>1, <2>2, <2>3, <3>1 DEF Quieter, ToldInv, Remembers
    <3>2. CASE child'[life].out = <<>>
      <4>1. \A i \in 1..Len(child'[life].out) : FALSE
        BY <3>2
      <4> QED
        BY <2>1, <2>2, <2>3, <4>1 DEF Quieter, ToldInv, Remembers
    <3> QED
      BY <2>2, <3>1, <3>2 DEF Quieter
  <2>4. CASE /\ 1 \in 1..Len(child[life].out) /\ child[life].out[1].ok
             /\ last' = child[life].out[1].state /\ child'[life].out = <<>>
             /\ child[life].pc \notin {"none", "init"}
    <3>1. \A i \in 1..Len(child'[life].out) : FALSE
      BY <2>4
    <3>2. child'[life].pc = child[life].pc /\ child'[life].mem = child[life].mem
      BY <2>2, <2>4 DEF Quieter
    <3>3. ~Durable => Remembers(child'[life], last')
      BY <2>4, <3>1, <3>2 DEF ToldInv, Remembers
    <3> QED
      BY <2>1, <3>1, <3>3 DEF ToldInv
  <2> QED
    BY <2>1, <2>3, <2>4
<1>4. ASSUME NEW t \in Threads, KillSlow(t) PROVE ToldInv'
  BY <1>4, DeathTold DEF KillSlow, TypeOK, service
<1>5. ASSUME NEW c \in Lives, Boot(c) PROVE ToldInv'
  BY <1>5, BootTold, DeathTold DEF Boot, service
<1>6. ASSUME NEW c \in Lives, Answer(c) PROVE ToldInv'
  BY <1>6, AnswerTold, DeathTold DEF Answer, service
<1>7. ASSUME NEW c \in Lives, Write(c) PROVE ToldInv'
  BY <1>7, WriteTold, DeathTold DEF Write, service
<1>8. ASSUME NEW c \in Lives, Returns(c) \/ Killed(c) PROVE ToldInv'
  BY <1>8, DeathTold DEF Returns, Killed, service
<1>9. CASE Crash
  <2>1. life' = life + 1 /\ life + 1 \in Lives /\ life + 1 > life
    <3>1. life \in 1..MaxLives /\ life < MaxLives /\ life' = life + 1 /\ MaxLives \in Nat
      BY <1>9, ChildAssumption DEF Crash, Lives, TypeOK
    <3> QED
      BY <3>1 DEF Lives
  <2>2. child'[life + 1] = Unborn
    BY <1>9, <2>1 DEF Crash, TypeOK, PipesInv, Lives
  <2>3. \A i \in 1..Len(child'[life'].out) : FALSE
    BY <2>1, <2>2 DEF Unborn
  <2>4. ~Durable => Remembers(child'[life'], last')
    BY <1>9, <2>1, <2>2, <2>3 DEF Crash, Remembers, Unborn
  <2> QED
    BY <2>3, <2>4 DEF ToldInv
<1> QED
  BY <1>1, <1>2, <1>3, <1>4, <1>5, <1>6, <1>7, <1>8, <1>9 DEF Next, ThreadStep, ChildStep

-----------------------------------------------------------------------------
(* The theorems *)

\* The service and its child start in the invariant.
LEMMA ChildStarts ==
  ASSUME Init
  PROVE  ChildInv
<1>1. MaxLives \in Nat /\ MaxExchanges \in Nat /\ 1 \in Lives /\ 0 \in 0..MaxLives
  BY ChildAssumption DEF Lives
<1>2. \A c \in Lives : child[c] = Unborn
  BY DEF Init
<1>3. TypeOK
  <2>1. <<>> \in Heads /\ <<>> \in Seq(Heads)
    BY DEF Heads
  <2>2. th \in [Threads -> ThreadStates] /\ child \in [Lives -> ChildStates]
    BY StartTypes DEF Init
  <2>3. \A t \in Threads : th[t].pc \notin {"idle", "begun"} <=> lock = t
    BY ChildAssumption DEF Init, Idle
  <2>4. begun \in 0..MaxExchanges
    BY <1>1 DEF Init
  <2> QED
    BY <1>1, <2>1, <2>2, <2>3, <2>4 DEF Init, TypeOK
<1>4. PipesInv
  BY <1>1, <1>2 DEF Init, PipesInv, Idle
<1>5. \A c \in Lives : child[c].pc = "none" /\ \A i \in 1..Len(child[c].out) : FALSE
  BY <1>2 DEF Unborn
<1>6. FileInv
  <2>1. LastLine = <<>> /\ last = <<>> /\ <<>> \in Seq(Events)
    BY DEF Init, LastLine
  <2>2. ToldSurvives
    BY <2>1, PrefixReflexive DEF ToldSurvives
  <2>3. StateFileRises
    BY DEF Init, StateFileRises
  <2> QED
    BY <1>5, <2>2, <2>3 DEF FileInv, Kept
<1>7. ToldInv
  BY <1>1, <1>5 DEF Init, ToldInv, Remembers
<1> QED
  BY <1>3, <1>4, <1>6, <1>7 DEF ChildInv

\* In every reachable state the lock is with the thread inside an exchange, the pipes are in
\* step, the file and the child agree and nothing said falls behind what was told.
THEOREM ChildInductive == Spec => []ChildInv
<1>1. ChildInv /\ [Next]_vars => ChildInv'
  BY TypePreserved, PipesPreserved, FilePreserved, ToldPreserved DEF ChildInv
<1> QED
  BY <1>1, ChildStarts, PTL DEF Spec

\* The file of AnchorProcess is one history and holds all the service was told, whoever
\* died, was killed or kept appending for a service that is gone.
THEOREM ChildStateKept == Spec => []StateKept
<1>1. ChildInv => StateKept
  BY DEF ChildInv, FileInv, StateKept
<1> QED
  BY <1>1, ChildInductive, PTL

\* An answer a thread of AnchorProcess reads is the answer to its own request, although no
\* frame names the request it answers.
THEOREM AnswersAreOwn == Spec => []OwnAnswer
<1>1. ASSUME ChildInv PROVE OwnAnswer
  <2>1. child[life] \in ChildStates
    BY <1>1 DEF ChildInv, TypeOK
  <2>2. DOMAIN child[life].out = 1..Len(child[life].out)
    BY <2>1, PipeTypes
  <2> QED
    BY <1>1, <2>2 DEF ChildInv, PipesInv, OwnAnswer, Asking, Rests
<1> QED
  BY <1>1, ChildInductive, PTL

\* What the service is told never goes back while it lives, and with a state file never at
\* all: a child that was lost is not replaced by an empty one.
THEOREM ToldNeverGoesBack == Spec => NoSilentReset
<1>1. ASSUME ChildInv, [Next]_vars
      PROVE  [Durable \/ life' = life => IsPrefix(last, last')]_<<last, life>>
  <2>1. TypeOK /\ PipesInv /\ ToldInv /\ last \in Seq(Events)
    BY <1>1 DEF ChildInv, TypeOK, Heads
  <2>2. ASSUME last' = last PROVE IsPrefix(last, last')
    BY <2>1, <2>2, PrefixReflexive
  <2>3. ASSUME NEW t \in Threads,
               \/ Begin(t) \/ Exchange(t) \/ Started(t) \/ Written(t) \/ BrokenPipe(t)
               \/ Answered(t) \/ Unreachable(t) \/ CloseAnchor(t) \/ StopPipes(t) \/ ChildWaited(t)
        PROVE  IsPrefix(last, last')
    <3>1. \/ last' = last
          \/ /\ 1 \in 1..Len(child[life].out) /\ child[life].out[1].ok
             /\ last' = child[life].out[1].state
      BY <2>1, <2>3, ServiceQuiets
    <3> QED
      BY <2>1, <2>2, <3>1 DEF ToldInv
  <2>4. ASSUME NEW t \in Threads, KillSlow(t) PROVE last' = last
    BY <2>4 DEF KillSlow
  <2>5. ASSUME NEW c \in Lives, ChildStep(c) PROVE last' = last
    BY <2>5 DEF ChildStep, Boot, Answer, Write, Returns, Killed
  <2>6. CASE Crash
    <3>1. life \in Nat /\ life' = life + 1 /\ (Durable => last' = last)
      BY <2>1, <2>6 DEF Crash, TypeOK, Lives
    <3>2. life' # life
      BY <3>1
    <3> QED
      BY <2>2, <3>1, <3>2
  <2>7. ASSUME NEW e \in Events, Append1(e) PROVE last' = last
    BY <2>7 DEF Append1
  <2>8. CASE UNCHANGED vars
    BY <2>8 DEF vars, service
  <2> QED
    BY <1>1, <2>2, <2>3, <2>4, <2>5, <2>6, <2>7, <2>8 DEF Next, ThreadStep
<1> QED
  BY <1>1, ChildInductive, PTL DEF Spec, NoSilentReset
-----------------------------------------------------------------------------
(* The reply key. *)

\* Whoever creates the file is alone with it until it is filled, and whoever has a key
\* has the one in the file.
KeyInv ==
  /\ OneIdentity
  /\ \A p \in ReplyKey!Procs :
       /\ keyPc[p] \in {"created", "generated"} => keyFile = "partial"
       /\ keyPc[p] = "generated" => key[p] \in Keys
       /\ keyPc[p] \in {"keyed", "used"} => keyFile \in Keys /\ key[p] = keyFile
  /\ \A p, q \in ReplyKey!Procs :
       keyPc[p] \in {"created", "generated"} /\ keyPc[q] \in {"created", "generated"} => p = q

\* The key file is created once, filled by its creator, and never changed again.
LEMMA KeyStep ==
  ASSUME KeyInv, [ReplyKey!Next]_(ReplyKey!vars)
  PROVE  KeyInv'
<1> USE KeyFileAssumption DEF KeyInv, OneIdentity, ReplyKey!TypeOK, ReplyKey!OneIdentity,
        ReplyKey!KeyAssumption
<1>1. CASE UNCHANGED ReplyKey!vars
  BY <1>1 DEF ReplyKey!vars
<1>2. ASSUME NEW p \in ReplyKey!Procs, ReplyKey!Create(p) PROVE KeyInv'
  BY <1>2 DEF ReplyKey!Create, ReplyKey!Creates
<1>3. ASSUME NEW p \in ReplyKey!Procs, ReplyKey!Generate(p) PROVE KeyInv'
  BY <1>3 DEF ReplyKey!Generate
<1>4. ASSUME NEW p \in ReplyKey!Procs, ReplyKey!Fill(p) PROVE KeyInv'
  BY <1>4 DEF ReplyKey!Fill
<1>5. ASSUME NEW p \in ReplyKey!Procs, ReplyKey!FillFails(p) PROVE KeyInv'
  BY <1>5 DEF ReplyKey!FillFails
<1>6. ASSUME NEW p \in ReplyKey!Procs, ReplyKey!Exists(p) PROVE KeyInv'
  BY <1>6 DEF ReplyKey!Exists
<1>7. ASSUME NEW p \in ReplyKey!Procs, ReplyKey!Read(p) PROVE KeyInv'
  BY <1>7 DEF ReplyKey!Read
<1>8. ASSUME NEW p \in ReplyKey!Procs, ReplyKey!Use(p) PROVE KeyInv'
  BY <1>8 DEF ReplyKey!Use
<1>9. ASSUME NEW p \in ReplyKey!Procs, ReplyKey!Die(p) PROVE KeyInv'
  BY <1>9 DEF ReplyKey!Die
<1> QED
  BY <1>1, <1>2, <1>3, <1>4, <1>5, <1>6, <1>7, <1>8, <1>9 DEF ReplyKey!Next

\* However many servers and public-key commands start, race for the key file, fail to
\* fill it or end in between: they answer with one key, the one in the file (_reply_key).
THEOREM IdentityIsOne == ReplyKey!Spec => []OneIdentity
<1>1. ReplyKey!Init => KeyInv
  BY KeyFileAssumption DEF ReplyKey!Init, KeyInv, OneIdentity, ReplyKey!TypeOK,
     ReplyKey!OneIdentity, ReplyKey!KeyAssumption
<1>2. KeyInv /\ [ReplyKey!Next]_(ReplyKey!vars) => KeyInv'
  BY KeyStep
<1>3. KeyInv => OneIdentity
  BY DEF KeyInv
<1> QED
  BY <1>1, <1>2, <1>3, PTL DEF ReplyKey!Spec
=============================================================================

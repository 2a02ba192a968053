------------------------- MODULE WorkerServiceProof -------------------------
(***************************************************************************)
(* Theorems about the Cores that share a worker host, for any number of    *)
(* Cores, threads, lease inodes and connections, and any number of crashes *)
(* and changes of the host.                                                *)
(***************************************************************************)
EXTENDS WorkerService, TLAPS

-----------------------------------------------------------------------------
(* The inductive invariant *)

\* A lease is locked by the thread that opened it.  A thread at rest keeps one only
\* for a Core that refuses later calls, and a verified lease is the one of the host
\* reference, which changes while every Core is down.
LeaseInv ==
  /\ \A t \in Threads :
       /\ pc[t] \in {"preflight", "open"} => ino[t] = None
       /\ pc[t] = "lock" => ino[t] \in Inodes
       /\ pc[t] \notin {"rest", "preflight", "open", "lock"} =>
            ino[t] \in Inodes /\ lock[ino[t]] = t
       /\ pc[t] = "rest" /\ ino[t] # None => pending[CoreOf[t]] /\ lock[ino[t]] = t
  /\ \A t \in Holders : ino[t] = refIno
  /\ \A c \in Cores : pending[c] =>
       \E t \in Threads : CoreOf[t] = c /\ pc[t] = "rest" /\ ino[t] \in Inodes

\* A Core that is down runs nothing, and one that starts runs the start-up check of
\* one thread; neither has an unconfirmed instance.
BootInv ==
  /\ \A c \in Cores : boot[c] # "up" => ~pending[c]
  /\ \A t \in Threads : boot[CoreOf[t]] = "down" => pc[t] = "rest"
  /\ \A t \in Threads : boot[CoreOf[t]] = "starting" =>
       pc[t] \in {"rest", "preflight", "open", "lock", "verify", "assert"}
  /\ \A t, u \in Threads : CoreOf[t] = CoreOf[u] /\ boot[CoreOf[t]] = "starting"
                           /\ pc[t] # "rest" /\ pc[u] # "rest" => t = u

\* An exchange has a connection; nothing else has one.
MineInv ==
  \A t \in Threads : /\ pc[t] \in InExchange \cup {"await"} => mine[t] \in Conns
                     /\ pc[t] \notin InExchange \cup {"await"} => mine[t] = None /\ got[t] = None

\* Something of an instance is left on the host.
Occupied(k) == Alive(k) \/ unit[k] = "active" \/ residue[k] # {}

\* A queued connection is queued once, and only an accepted one has an instance.
QueueInv ==
  /\ \A i \in 1..Len(queue) : conn[queue[i]] = "queued"
  /\ \A i, j \in 1..Len(queue) : queue[i] = queue[j] => i = j
  /\ \A k \in Conns : conn[k] # "accepted" => /\ ~Occupied(k) /\ work[k] = "none"
                                              /\ "REQUEST" \notin wire[k]

\* A payload is in an instance that was bound for the thread that sent it; while a
\* thread dispatches under the lease, no other instance with one is left.
SentInv ==
  /\ \A k \in Conns : /\ seen[k] => "REQUEST" \in wire[k]
                      /\ work[k] \in {"eof", "sent"} => seen[k]
                      /\ "RESULT" \in wire[k] => seen[k] /\ work[k] \in {"sent", "gone"}
  /\ \A t \in Threads : pc[t] = "send" => conn[mine[t]] = "accepted"
  /\ \A t \in Holders, k \in Conns :
       pc[t] # "assert" /\ "REQUEST" \in wire[k] /\ Occupied(k) => mine[t] = k
  /\ \A j, k \in Conns :
       "REQUEST" \in wire[j] \cap wire[k] /\ Occupied(j) /\ Occupied(k) => j = k

\* What a thread has read is what the instance of its connection wrote.
GotInv ==
  /\ \A t \in Threads : got[t] # None =>
       "RESULT" \in wire[mine[t]] /\ got[t] = out[mine[t]]
  /\ \A t \in Threads : answer[t] # None =>
       /\ out[answer[t].conn] = answer[t].out
       /\ seen[answer[t].conn] /\ ~Occupied(answer[t].conn)

\* What a thread may think of the loaded unit: its preflight saw the fixed one, so
\* that an even number of changes later it is loaded again.  An instance that started
\* before any change is hardened, and bind lets nothing pass after one change.
UnitInv ==
  \A t \in Threads :
    /\ pc[t] \notin {"rest", "preflight"} =>
         (since[t] = 0 => unitDef) /\ (since[t] = 1 => ~unitDef)
    /\ bound[t] => /\ pc[t] \in {"send", "result", "eof", "await"}
                   /\ conn[mine[t]] = "accepted"
                   /\ hard[mine[t]] \/ since[t] = 2
    /\ pc[t] \in InExchange \cup {"await"} /\ conn[mine[t]] = "accepted" /\ since[t] = 0 =>
         hard[mine[t]]

-----------------------------------------------------------------------------
(* Types *)

\* The Core of a thread is one of the Cores.
LEMMA CoreOfThread == \A t \in Threads : CoreOf[t] \in Cores
BY DEF Cores

\* The names of the phases.
LEMMA PhaseNames ==
  /\ "rest" \in Phases /\ "preflight" \in Phases /\ "open" \in Phases /\ "lock" \in Phases
  /\ "verify" \in Phases /\ "assert" \in Phases /\ "connect" \in Phases /\ "ready" \in Phases
  /\ "bind" \in Phases /\ "send" \in Phases /\ "result" \in Phases /\ "eof" \in Phases
  /\ "await" \in Phases
BY DEF Phases

\* The names of the frames.
LEMMA FrameNames ==
  /\ "HELLO" \in Frames /\ "READY" \in Frames /\ "REQUEST" \in Frames /\ "CoreEOF" \in Frames
  /\ "RESULT" \in Frames /\ "WorkerEOF" \in Frames
BY DEF Frames

\* Every step keeps every variable in its type.
LEMMA TypePreserved ==
  ASSUME TypeOK, MineInv, [Next]_vars
  PROVE  TypeOK'
<1> USE CoreOfThread, WorkerServiceAssumption
<1>1. CASE UNCHANGED vars
  BY <1>1 DEF TypeOK, MineInv, Phases, InExchange, Frames, vars, hostVars, coreVars,
       instVars
<1>2. ASSUME NEW t \in Threads, Start(t) PROVE TypeOK'
  BY <1>2 DEF Start, SetPc, TypeOK, MineInv, Phases, InExchange, Frames, hostVars,
       coreVars, instVars
<1>3. ASSUME NEW t \in Threads, Call(t) PROVE TypeOK'
  BY <1>3 DEF Call, SetPc, TypeOK, MineInv, Phases, InExchange, Frames, hostVars,
       coreVars, instVars
<1>4. ASSUME NEW t \in Threads, Preflight(t) PROVE TypeOK'
  <2>1. pc' \in [Threads -> Phases]
    BY <1>4, PhaseNames DEF Preflight, SetPc, TypeOK
  <2>2. boot' \in [Cores -> {"down", "starting", "up"}]
    BY <1>4 DEF Preflight, TypeOK
  <2>3. since' \in [Threads -> 0..2]
    BY <1>4 DEF Preflight, TypeOK
  <2> QED
    BY <1>4, <2>1, <2>2, <2>3 DEF Preflight, TypeOK, hostVars, coreVars, instVars
<1>5. ASSUME NEW t \in Threads, Open(t) PROVE TypeOK'
  BY <1>5 DEF Open, SetPc, TypeOK, MineInv, Phases, InExchange, Frames, hostVars,
       coreVars, instVars
<1>6. ASSUME NEW t \in Threads, Lock(t) PROVE TypeOK'
  <2>1. lock' \in [Inodes -> Threads \cup {None}]
    BY <1>6 DEF Lock, TypeOK
  <2>2. pc' \in [Threads -> Phases]
    BY <1>6, PhaseNames DEF Lock, GiveUpLease, SetPc, TypeOK
  <2>3. ino' \in [Threads -> Inodes \cup {None}]
    BY <1>6 DEF Lock, GiveUpLease, TypeOK
  <2>4. boot' \in [Cores -> {"down", "starting", "up"}]
    BY <1>6 DEF Lock, GiveUpLease, TypeOK
  <2> QED
    BY <1>6, <2>1, <2>2, <2>3, <2>4 DEF Lock, TypeOK, hostVars, coreVars, instVars
<1>7. ASSUME NEW t \in Threads, Verify(t) PROVE TypeOK'
  <2>1. lock' \in [Inodes -> Threads \cup {None}]
    BY <1>7 DEF Verify, CloseLease, TypeOK
  <2>2. pc' \in [Threads -> Phases]
    <3>1. pc' = [pc EXCEPT ![t] = "assert"] \/ pc' = [pc EXCEPT ![t] = "rest"]
      BY <1>7 DEF Verify, GiveUpLease, SetPc
    <3> QED
      BY <1>7, <3>1, PhaseNames DEF TypeOK
  <2>3. ino' \in [Threads -> Inodes \cup {None}]
    BY <1>7 DEF Verify, GiveUpLease, TypeOK
  <2>4. boot' \in [Cores -> {"down", "starting", "up"}]
    BY <1>7 DEF Verify, GiveUpLease, TypeOK
  <2> QED
    BY <1>7, <2>1, <2>2, <2>3, <2>4 DEF Verify, TypeOK, hostVars, coreVars, instVars
<1>8. ASSUME NEW t \in Threads, AssertIdle(t) PROVE TypeOK'
  <2>1. lock' \in [Inodes -> Threads \cup {None}]
    BY <1>8 DEF AssertIdle, CloseLease, Retain, TypeOK
  <2>2. pc' \in [Threads -> Phases]
    BY <1>8, PhaseNames DEF AssertIdle, Leave, SetPc, Retain, TypeOK
  <2>3. ino' \in [Threads -> Inodes \cup {None}]
    BY <1>8 DEF AssertIdle, Retain, TypeOK
  <2>4. boot' \in [Cores -> {"down", "starting", "up"}]
    BY <1>8 DEF AssertIdle, TypeOK
  <2>5. pending' \in [Cores -> BOOLEAN]
    BY <1>8 DEF AssertIdle, Retain, TypeOK
  <2>6. mine' \in [Threads -> Conns \cup {None}]
    BY <1>8 DEF AssertIdle, Leave, Retain, TypeOK
  <2>7. bound' \in [Threads -> BOOLEAN]
    BY <1>8 DEF AssertIdle, Leave, Retain, TypeOK
  <2>8. got' \in [Threads -> Outcomes \cup {None}]
    BY <1>8 DEF AssertIdle, Leave, Retain, TypeOK
  <2> QED
    BY <1>8, <2>1, <2>2, <2>3, <2>4, <2>5, <2>6, <2>7, <2>8 DEF AssertIdle, TypeOK,
         hostVars, coreVars, instVars
<1>9. ASSUME NEW t \in Threads, Connect(t) PROVE TypeOK'
  <2>1. CASE Retain(t) /\ UNCHANGED <<conn, queue, wire>>
    <3>1. pc' \in [Threads -> Phases] /\ mine' \in [Threads -> Conns \cup {None}]
      BY <2>1, PhaseNames DEF Retain, Leave, SetPc, TypeOK
    <3>2. bound' \in [Threads -> BOOLEAN] /\ got' \in [Threads -> Outcomes \cup {None}]
      BY <2>1 DEF Retain, Leave, TypeOK
    <3>3. pending' \in [Cores -> BOOLEAN]
      BY <2>1 DEF Retain, TypeOK
    <3> QED
      BY <1>9, <2>1, <3>1, <3>2, <3>3 DEF Connect, Retain, TypeOK
  <2>2. CASE ~(Retain(t) /\ UNCHANGED <<conn, queue, wire>>)
    <3>1. PICK k \in Conns : /\ conn' = [conn EXCEPT ![k] = "queued"]
                             /\ queue' = Append(queue, k)
                             /\ mine' = [mine EXCEPT ![t] = k]
                             /\ Write(k, "HELLO") /\ SetPc(t, "ready")
                             /\ UNCHANGED <<lock, ino, pending, bound, got>>
      BY <1>9, <2>2 DEF Connect
    <3>2. pc' \in [Threads -> Phases] /\ mine' \in [Threads -> Conns \cup {None}]
      BY <3>1, PhaseNames DEF SetPc, TypeOK
    <3>3. queue' \in Seq(Conns) /\ wire' \in [Conns -> SUBSET Frames]
      BY <3>1, FrameNames DEF Write, TypeOK
    <3>4. conn' \in [Conns -> {"free", "queued", "accepted", "dropped"}]
      BY <3>1 DEF TypeOK
    <3>5. UNCHANGED <<leaseIno, refIno, unitDef, faults, boot, answer, since, unit, work,
                      hard, seen, out, residue>>
      BY <1>9 DEF Connect
    <3> QED
      BY <3>1, <3>2, <3>3, <3>4, <3>5 DEF TypeOK
  <2> QED
    BY <2>1, <2>2
<1>10. ASSUME NEW t \in Threads, ReadReady(t) PROVE TypeOK'
  BY <1>10 DEF ReadReady, SetPc, TypeOK, MineInv, Phases, InExchange, Frames,
       hostVars, coreVars, instVars
<1>11. ASSUME NEW t \in Threads, Bind(t) PROVE TypeOK'
  BY <1>11 DEF Bind, SetPc, TypeOK, MineInv, Phases, InExchange, Frames, hostVars,
       coreVars, instVars
<1>12. ASSUME NEW t \in Threads, Send(t) PROVE TypeOK'
  BY <1>12 DEF Send, SetPc, TypeOK, MineInv, Phases, InExchange, Frames, hostVars,
       coreVars, instVars
<1>13. ASSUME NEW t \in Threads, ReadResult(t) PROVE TypeOK'
  BY <1>13 DEF ReadResult, SetPc, TypeOK, MineInv, Phases, InExchange, Frames,
       hostVars, coreVars, instVars
<1>14. ASSUME NEW t \in Threads, ExpectEof(t) PROVE TypeOK'
  BY <1>14 DEF ExpectEof, SetPc, CloseConnection, Write, TypeOK, MineInv, Phases,
       InExchange, Frames, hostVars, coreVars, instVars
<1>15. ASSUME NEW t \in Threads, ExchangeFails(t) PROVE TypeOK'
  <2>1. /\ wire' = [wire EXCEPT ![mine[t]] = @ \cup {"CoreEOF"}]
        /\ UNCHANGED <<leaseIno, refIno, unitDef, faults, boot, answer, since, queue, conn,
                       unit, work, hard, seen, out, residue>>
    BY <1>15 DEF ExchangeFails, CloseConnection, Write
  <2>2. wire' \in [Conns -> SUBSET Frames]
    <3>1. mine[t] \in Conns
      BY <1>15 DEF ExchangeFails, MineInv
    <3>2. wire[mine[t]] \cup {"CoreEOF"} \in SUBSET Frames
      BY <3>1, FrameNames DEF TypeOK
    <3> QED
      BY <2>1, <3>1, <3>2 DEF TypeOK
  <2>3. CASE bound[t]
    <3>1. /\ pc' = [pc EXCEPT ![t] = "await"] /\ got' = [got EXCEPT ![t] = None]
          /\ UNCHANGED <<lock, ino, pending, mine, bound>>
      BY <1>15, <2>3 DEF ExchangeFails, SetPc
    <3>2. pc' \in [Threads -> Phases] /\ got' \in [Threads -> Outcomes \cup {None}]
      BY <3>1, PhaseNames DEF TypeOK
    <3> QED
      BY <2>1, <2>2, <3>1, <3>2 DEF TypeOK
  <2>4. CASE ~bound[t]
    <3>1. Retain(t)
      BY <1>15, <2>4 DEF ExchangeFails
    <3>2. pc' \in [Threads -> Phases] /\ mine' \in [Threads -> Conns \cup {None}]
      BY <3>1, PhaseNames DEF Retain, Leave, SetPc, TypeOK
    <3>3. bound' \in [Threads -> BOOLEAN] /\ got' \in [Threads -> Outcomes \cup {None}]
      BY <3>1 DEF Retain, Leave, TypeOK
    <3>4. pending' \in [Cores -> BOOLEAN] /\ UNCHANGED <<lock, ino>>
      BY <3>1 DEF Retain, TypeOK
    <3> QED
      BY <2>1, <2>2, <3>2, <3>3, <3>4 DEF TypeOK
  <2> QED
    BY <2>3, <2>4
<1>16. ASSUME NEW t \in Threads, Confirm(t) PROVE TypeOK'
  <2>1. /\ Leave(t) /\ lock' = [lock EXCEPT ![ino[t]] = None]
        /\ ino' = [ino EXCEPT ![t] = None]
        /\ UNCHANGED <<leaseIno, refIno, unitDef, faults, boot, pending, since, instVars>>
    BY <1>16 DEF Confirm, CloseLease
  <2>2. pc' \in [Threads -> Phases] /\ mine' \in [Threads -> Conns \cup {None}]
    BY <2>1, PhaseNames DEF Leave, SetPc, TypeOK
  <2>3. bound' \in [Threads -> BOOLEAN] /\ got' \in [Threads -> Outcomes \cup {None}]
    BY <2>1 DEF Leave, TypeOK
  <2>4. lock' \in [Inodes -> Threads \cup {None}] /\ ino' \in [Threads -> Inodes \cup {None}]
    BY <2>1 DEF TypeOK
  <2>5. answer' \in [Threads -> [conn : Conns, out : Outcomes] \cup {None}]
    <3>1. mine[t] \in Conns /\ got[t] \in Outcomes \cup {None}
      BY <1>16 DEF Confirm, MineInv, TypeOK
    <3>2. [conn |-> mine[t], out |-> got[t]] \in [conn : Conns, out : Outcomes] \/ got[t] = None
      BY <3>1
    <3> QED
      BY <1>16, <3>2 DEF Confirm, TypeOK
  <2> QED
    BY <2>1, <2>2, <2>3, <2>4, <2>5 DEF TypeOK, instVars
<1>17. ASSUME NEW t \in Threads, AwaitExpires(t) PROVE TypeOK'
  BY <1>17 DEF AwaitExpires, Leave, SetPc, Retain, TypeOK, MineInv, Phases,
       InExchange, Frames, hostVars, coreVars, instVars
<1>18. ASSUME NEW k \in Conns, WorkerReady(k) PROVE TypeOK'
  BY <1>18 DEF WorkerReady, Write, TypeOK, MineInv, Phases, InExchange, Frames,
       hostVars, coreVars, instVars
<1>19. ASSUME NEW k \in Conns, WorkerRequest(k) PROVE TypeOK'
  BY <1>19 DEF WorkerRequest, TypeOK, MineInv, Phases, InExchange, Frames, hostVars,
       coreVars, instVars
<1>20. ASSUME NEW k \in Conns, WorkerRun(k) PROVE TypeOK'
  BY <1>20 DEF WorkerRun, Write, TypeOK, MineInv, Phases, InExchange, Frames,
       hostVars, coreVars, instVars
<1>21. ASSUME NEW k \in Conns, WorkerExit(k) PROVE TypeOK'
  BY <1>21 DEF WorkerExit, Write, TypeOK, MineInv, Phases, InExchange, Frames,
       hostVars, coreVars, instVars
<1>22. ASSUME NEW k \in Conns, UnitEnds(k) PROVE TypeOK'
  <2>1. PICK left \in SUBSET {"process"} : residue' = [residue EXCEPT ![k] = @ \cup left]
    BY <1>22 DEF UnitEnds
  <2>2. residue' \in [Conns -> SUBSET {"process", "directory"}]
    BY <2>1 DEF TypeOK
  <2> QED
    BY <1>22, <2>2 DEF UnitEnds, TypeOK, hostVars, coreVars
<1>23. ASSUME NEW k \in Conns, Clean(k) PROVE TypeOK'
  BY <1>23 DEF Clean, TypeOK, MineInv, Phases, InExchange, Frames, hostVars, coreVars,
       instVars
<1>24. ASSUME NEW c \in Cores, Crash(c) PROVE TypeOK'
  BY <1>24 DEF Crash, TypeOK, MineInv, Phases, InExchange, Frames, hostVars, coreVars,
       instVars
<1>25. ASSUME Accept PROVE TypeOK'
  <2> DEFINE k == Head(queue)
  <2>1. k \in Conns /\ queue' \in Seq(Conns)
    BY <1>25 DEF Accept, TypeOK
  <2> HIDE DEF k
  <2>2. UNCHANGED <<hostVars, faults, coreVars, seen, out>>
    BY <1>25 DEF Accept
  <2>3. CASE \E j \in Conns : unit[j] = "active"
    <3>1. /\ conn' = [conn EXCEPT ![k] = "dropped"] /\ Write(k, "WorkerEOF")
          /\ UNCHANGED <<unit, work, hard, residue>>
      BY <1>25, <2>3 DEF Accept, k
    <3>2. conn' \in [Conns -> {"free", "queued", "accepted", "dropped"}]
      BY <2>1, <3>1 DEF TypeOK
    <3>3. wire' \in [Conns -> SUBSET Frames]
      BY <2>1, <3>1, FrameNames DEF TypeOK, Write
    <3> QED
      BY <2>1, <2>2, <3>1, <3>2, <3>3 DEF TypeOK, hostVars, coreVars
  <2>4. CASE ~\E j \in Conns : unit[j] = "active"
    <3>1. /\ conn' = [conn EXCEPT ![k] = "accepted"]
          /\ unit' = [unit EXCEPT ![k] = "active"] /\ work' = [work EXCEPT ![k] = "hello"]
          /\ hard' = [hard EXCEPT ![k] = unitDef]
          /\ residue' = [residue EXCEPT ![k] = {"directory"}] /\ wire' = wire
      BY <1>25, <2>4 DEF Accept, k
    <3>2. conn' \in [Conns -> {"free", "queued", "accepted", "dropped"}]
      BY <2>1, <3>1 DEF TypeOK
    <3>3. /\ unit' \in [Conns -> {"none", "active", "ended"}]
          /\ work' \in [Conns -> {"none", "hello", "request", "eof", "sent", "gone"}]
      BY <2>1, <3>1 DEF TypeOK
    <3>4. /\ hard' \in [Conns -> BOOLEAN]
          /\ residue' \in [Conns -> SUBSET {"process", "directory"}]
      BY <2>1, <3>1 DEF TypeOK
    <3> QED
      BY <2>1, <2>2, <3>1, <3>2, <3>3, <3>4 DEF TypeOK, hostVars, coreVars
  <2> QED
    BY <2>3, <2>4
<1>26. ASSUME HostChange PROVE TypeOK'
  <2>1. faults' \in 0..MaxFaults
    BY <1>26, WorkerServiceAssumption DEF HostChange, TypeOK
  <2>2. unitDef' \in BOOLEAN
    BY <1>26 DEF HostChange, TypeOK
  <2>3. leaseIno' \in Inodes
    BY <1>26 DEF HostChange, TypeOK
  <2>4. since' \in [Threads -> 0..2]
    BY <1>26 DEF HostChange, TypeOK
  <2> QED
    BY <1>26, <2>1, <2>2, <2>3, <2>4 DEF HostChange, TypeOK, instVars
<1>27. ASSUME Provision PROVE TypeOK'
  BY <1>27 DEF Provision, TypeOK, MineInv, Phases, InExchange, Frames, hostVars,
       coreVars, instVars
<1> QED
  BY <1>1, <1>2, <1>3, <1>4, <1>5, <1>6, <1>7, <1>8, <1>9, <1>10, <1>11, <1>12, <1>13,
       <1>14, <1>15, <1>16, <1>17, <1>18, <1>19, <1>20, <1>21, <1>22, <1>23, <1>24,
       <1>25, <1>26, <1>27 DEF Next, CoreStep, InstanceStep

\* Every step keeps the connections with the exchanges.
LEMMA MinePreserved ==
  ASSUME TypeOK, BootInv, MineInv, [Next]_vars
  PROVE  MineInv'
<1> USE CoreOfThread
<1>1. CASE UNCHANGED vars
  BY <1>1 DEF TypeOK, MineInv, BootInv, Phases, InExchange, vars, hostVars, coreVars,
       instVars
<1>2. ASSUME NEW t \in Threads, Start(t) PROVE MineInv'
  BY <1>2 DEF Start, SetPc, TypeOK, MineInv, BootInv, Phases, InExchange, hostVars,
       coreVars, instVars
<1>3. ASSUME NEW t \in Threads, Call(t) PROVE MineInv'
  BY <1>3 DEF Call, SetPc, TypeOK, MineInv, BootInv, Phases, InExchange, hostVars,
       coreVars, instVars
<1>4. ASSUME NEW t \in Threads, Preflight(t) PROVE MineInv'
  BY <1>4 DEF Preflight, SetPc, TypeOK, MineInv, BootInv, Phases, InExchange,
       hostVars, coreVars, instVars
<1>5. ASSUME NEW t \in Threads, Open(t) PROVE MineInv'
  BY <1>5 DEF Open, SetPc, TypeOK, MineInv, BootInv, Phases, InExchange, hostVars,
       coreVars, instVars
<1>6. ASSUME NEW t \in Threads, Lock(t) PROVE MineInv'
  BY <1>6 DEF Lock, SetPc, GiveUpLease, TypeOK, MineInv, BootInv, Phases, InExchange,
       hostVars, coreVars, instVars
<1>7. ASSUME NEW t \in Threads, Verify(t) PROVE MineInv'
  BY <1>7 DEF Verify, SetPc, GiveUpLease, CloseLease, TypeOK, MineInv, BootInv,
       Phases, InExchange, hostVars, coreVars, instVars
<1>8. ASSUME NEW t \in Threads, AssertIdle(t) PROVE MineInv'
  BY <1>8 DEF AssertIdle, SetPc, Leave, CloseLease, Retain, TypeOK, MineInv, BootInv,
       Phases, InExchange, hostVars, coreVars, instVars
<1>9. ASSUME NEW t \in Threads, Connect(t) PROVE MineInv'
  BY <1>9 DEF Connect, SetPc, Leave, Retain, Write, TypeOK, MineInv, BootInv, Phases,
       InExchange, hostVars, coreVars, instVars
<1>10. ASSUME NEW t \in Threads, ReadReady(t) PROVE MineInv'
  BY <1>10 DEF ReadReady, SetPc, TypeOK, MineInv, BootInv, Phases, InExchange,
       hostVars, coreVars, instVars
<1>11. ASSUME NEW t \in Threads, Bind(t) PROVE MineInv'
  BY <1>11 DEF Bind, SetPc, TypeOK, MineInv, BootInv, Phases, InExchange, hostVars,
       coreVars, instVars
<1>12. ASSUME NEW t \in Threads, Send(t) PROVE MineInv'
  BY <1>12 DEF Send, SetPc, TypeOK, MineInv, BootInv, Phases, InExchange, hostVars,
       coreVars, instVars
<1>13. ASSUME NEW t \in Threads, ReadResult(t) PROVE MineInv'
  BY <1>13 DEF ReadResult, SetPc, TypeOK, MineInv, BootInv, Phases, InExchange,
       hostVars, coreVars, instVars
<1>14. ASSUME NEW t \in Threads, ExpectEof(t) PROVE MineInv'
  BY <1>14 DEF ExpectEof, SetPc, CloseConnection, Write, TypeOK, MineInv, BootInv,
       Phases, InExchange, hostVars, coreVars, instVars
<1>15. ASSUME NEW t \in Threads, ExchangeFails(t) PROVE MineInv'
  BY <1>15 DEF ExchangeFails, SetPc, CloseConnection, Write, Leave, Retain, TypeOK,
       MineInv, BootInv, Phases, InExchange, hostVars, coreVars, instVars
<1>16. ASSUME NEW t \in Threads, Confirm(t) PROVE MineInv'
  BY <1>16 DEF Confirm, Leave, SetPc, CloseLease, TypeOK, MineInv, BootInv, Phases,
       InExchange, hostVars, coreVars, instVars
<1>17. ASSUME NEW t \in Threads, AwaitExpires(t) PROVE MineInv'
  BY <1>17 DEF AwaitExpires, Leave, SetPc, Retain, TypeOK, MineInv, BootInv, Phases,
       InExchange, hostVars, coreVars, instVars
<1>18. ASSUME NEW k \in Conns, WorkerReady(k) PROVE MineInv'
  BY <1>18 DEF WorkerReady, Write, TypeOK, MineInv, BootInv, Phases, InExchange,
       hostVars, coreVars, instVars
<1>19. ASSUME NEW k \in Conns, WorkerRequest(k) PROVE MineInv'
  BY <1>19 DEF WorkerRequest, TypeOK, MineInv, BootInv, Phases, InExchange, hostVars,
       coreVars, instVars
<1>20. ASSUME NEW k \in Conns, WorkerRun(k) PROVE MineInv'
  BY <1>20 DEF WorkerRun, Write, TypeOK, MineInv, BootInv, Phases, InExchange,
       hostVars, coreVars, instVars
<1>21. ASSUME NEW k \in Conns, WorkerExit(k) PROVE MineInv'
  BY <1>21 DEF WorkerExit, Write, TypeOK, MineInv, BootInv, Phases, InExchange,
       hostVars, coreVars, instVars
<1>22. ASSUME NEW k \in Conns, UnitEnds(k) PROVE MineInv'
  BY <1>22 DEF UnitEnds, TypeOK, MineInv, BootInv, Phases, InExchange, hostVars,
       coreVars, instVars
<1>23. ASSUME NEW k \in Conns, Clean(k) PROVE MineInv'
  BY <1>23 DEF Clean, TypeOK, MineInv, BootInv, Phases, InExchange, hostVars,
       coreVars, instVars
<1>24. ASSUME NEW c \in Cores, Crash(c) PROVE MineInv'
  BY <1>24 DEF Crash, TypeOK, MineInv, BootInv, Phases, InExchange, hostVars,
       coreVars, instVars
<1>25. ASSUME Accept PROVE MineInv'
  BY <1>25 DEF Accept, Write, TypeOK, MineInv, BootInv, Phases, InExchange, hostVars,
       coreVars, instVars
<1>26. ASSUME HostChange PROVE MineInv'
  BY <1>26 DEF HostChange, TypeOK, MineInv, BootInv, Phases, InExchange, hostVars,
       coreVars, instVars
<1>27. ASSUME Provision PROVE MineInv'
  BY <1>27 DEF Provision, TypeOK, MineInv, BootInv, Phases, InExchange, hostVars,
       coreVars, instVars
<1> QED
  BY <1>1, <1>2, <1>3, <1>4, <1>5, <1>6, <1>7, <1>8, <1>9, <1>10, <1>11, <1>12, <1>13,
       <1>14, <1>15, <1>16, <1>17, <1>18, <1>19, <1>20, <1>21, <1>22, <1>23, <1>24,
       <1>25, <1>26, <1>27 DEF Next, CoreStep, InstanceStep

-----------------------------------------------------------------------------
(* The Cores *)

\* A Core that is up keeps its threads' phases free; one at its start-up check moves
\* the one thread that runs it, or is down or up with every thread at rest.
LEMMA BootMoves ==
  ASSUME TypeOK, BootInv, NEW t \in Threads, NEW s, NEW b,
         pc' = [pc EXCEPT ![t] = s], boot' = [boot EXCEPT ![CoreOf[t]] = b],
         pending' = pending, pc[t] # "rest",
         \/ /\ b = boot[CoreOf[t]]
            /\ b = "starting" => s \in {"open", "lock", "verify", "assert"}
         \/ boot[CoreOf[t]] = "starting" /\ b \in {"down", "up"} /\ s = "rest"
  PROVE  BootInv'
<1> USE CoreOfThread
<1>1. boot[CoreOf[t]] # "down"
  BY DEF BootInv
<1>2. ASSUME NEW c \in Cores, boot'[c] # "up" PROVE ~pending'[c]
  BY <1>1, <1>2 DEF TypeOK, BootInv
<1>3. ASSUME NEW u \in Threads, boot'[CoreOf[u]] = "down" PROVE pc'[u] = "rest"
  BY <1>1, <1>3 DEF TypeOK, BootInv
<1>4. ASSUME NEW u \in Threads, boot'[CoreOf[u]] = "starting"
      PROVE  pc'[u] \in {"rest", "preflight", "open", "lock", "verify", "assert"}
  BY <1>1, <1>4 DEF TypeOK, BootInv
<1>5. ASSUME NEW u \in Threads, NEW v \in Threads, CoreOf[u] = CoreOf[v],
             boot'[CoreOf[u]] = "starting", pc'[u] # "rest", pc'[v] # "rest"
      PROVE  u = v
  BY <1>1, <1>5 DEF TypeOK, BootInv
<1> QED
  BY <1>2, <1>3, <1>4, <1>5 DEF BootInv

\* A Core that keeps its lease for good is up.
LEMMA BootRetains ==
  ASSUME TypeOK, BootInv, NEW t \in Threads, boot[CoreOf[t]] = "up", Retain(t), boot' = boot
  PROVE  BootInv'
<1>1. /\ pc' = [pc EXCEPT ![t] = "rest"]
      /\ pending' = [pending EXCEPT ![CoreOf[t]] = TRUE]
  BY DEF Retain, Leave, SetPc
<1> QED
  BY <1>1, CoreOfThread DEF TypeOK, BootInv

\* Every step keeps the Cores that are not up at their start-up check.
LEMMA BootPreserved ==
  ASSUME TypeOK, BootInv, [Next]_vars
  PROVE  BootInv'
<1> USE CoreOfThread
<1>1. CASE UNCHANGED vars
  BY <1>1 DEF TypeOK, BootInv, Phases, InExchange, vars, hostVars, coreVars, instVars
<1>2. ASSUME NEW t \in Threads, Start(t) PROVE BootInv'
  BY <1>2 DEF Start, SetPc, TypeOK, BootInv, Phases, InExchange, hostVars, coreVars,
       instVars
<1>3. ASSUME NEW t \in Threads, Call(t) PROVE BootInv'
  BY <1>3 DEF Call, SetPc, TypeOK, BootInv, Phases, InExchange, hostVars, coreVars,
       instVars
<1>4. ASSUME NEW t \in Threads, Preflight(t) PROVE BootInv'
  <2> DEFINE b == IF boot[CoreOf[t]] = "starting" THEN "down" ELSE boot[CoreOf[t]]
  <2>1. pc[t] # "rest" /\ pending' = pending
    BY <1>4 DEF Preflight
  <2>2. CASE HostReady
    <3>1. pc' = [pc EXCEPT ![t] = "open"] /\ boot' = [boot EXCEPT ![CoreOf[t]] = boot[CoreOf[t]]]
      BY <1>4, <2>2 DEF Preflight, SetPc, TypeOK
    <3> QED
      BY <2>1, <3>1, BootMoves
  <2>3. CASE ~(HostReady)
    <3>1. pc' = [pc EXCEPT ![t] = "rest"] /\ boot' = [boot EXCEPT ![CoreOf[t]] = b]
      BY <1>4, <2>3 DEF Preflight, SetPc
    <3>2. \/ b = boot[CoreOf[t]] /\ b # "starting"
          \/ boot[CoreOf[t]] = "starting" /\ b = "down"
      OBVIOUS
    <3> HIDE DEF b
    <3> QED
      BY <2>1, <3>1, <3>2, BootMoves
  <2> QED
    BY <2>2, <2>3
<1>5. ASSUME NEW t \in Threads, Open(t) PROVE BootInv'
  BY <1>5 DEF Open, SetPc, TypeOK, BootInv, Phases, InExchange, hostVars, coreVars,
       instVars
<1>6. ASSUME NEW t \in Threads, Lock(t) PROVE BootInv'
  <2> DEFINE b == IF boot[CoreOf[t]] = "starting" THEN "down" ELSE boot[CoreOf[t]]
  <2>1. pc[t] # "rest" /\ pending' = pending
    BY <1>6 DEF Lock
  <2>2. CASE leaseIno = ino[t] /\ lock[ino[t]] = None
    <3>1. pc' = [pc EXCEPT ![t] = "verify"] /\ boot' = [boot EXCEPT ![CoreOf[t]] = boot[CoreOf[t]]]
      BY <1>6, <2>2 DEF Lock, SetPc, TypeOK
    <3> QED
      BY <2>1, <3>1, BootMoves
  <2>3. CASE ~(leaseIno = ino[t] /\ lock[ino[t]] = None)
    <3>1. pc' = [pc EXCEPT ![t] = "rest"] /\ boot' = [boot EXCEPT ![CoreOf[t]] = b]
      BY <1>6, <2>3 DEF Lock, SetPc, GiveUpLease
    <3>2. \/ b = boot[CoreOf[t]] /\ b # "starting"
          \/ boot[CoreOf[t]] = "starting" /\ b = "down"
      OBVIOUS
    <3> HIDE DEF b
    <3> QED
      BY <2>1, <3>1, <3>2, BootMoves
  <2> QED
    BY <2>2, <2>3
<1>7. ASSUME NEW t \in Threads, Verify(t) PROVE BootInv'
  <2> DEFINE b == IF boot[CoreOf[t]] = "starting" THEN "down" ELSE boot[CoreOf[t]]
  <2>1. pc[t] # "rest" /\ pending' = pending
    BY <1>7 DEF Verify
  <2>2. CASE ReferenceMatches(ino[t])
    <3>1. pc' = [pc EXCEPT ![t] = "assert"] /\ boot' = [boot EXCEPT ![CoreOf[t]] = boot[CoreOf[t]]]
      BY <1>7, <2>2 DEF Verify, SetPc, TypeOK
    <3> QED
      BY <2>1, <3>1, BootMoves
  <2>3. CASE ~(ReferenceMatches(ino[t]))
    <3>1. pc' = [pc EXCEPT ![t] = "rest"] /\ boot' = [boot EXCEPT ![CoreOf[t]] = b]
      BY <1>7, <2>3 DEF Verify, SetPc, GiveUpLease
    <3>2. \/ b = boot[CoreOf[t]] /\ b # "starting"
          \/ boot[CoreOf[t]] = "starting" /\ b = "down"
      OBVIOUS
    <3> HIDE DEF b
    <3> QED
      BY <2>1, <3>1, <3>2, BootMoves
  <2> QED
    BY <2>2, <2>3
<1>8. ASSUME NEW t \in Threads, AssertIdle(t) PROVE BootInv'
  <2> DEFINE b == IF Idle THEN "up" ELSE "down"
  <2>1. CASE boot[CoreOf[t]] = "starting"
    <3>1. /\ pc' = [pc EXCEPT ![t] = "rest"] /\ boot' = [boot EXCEPT ![CoreOf[t]] = b]
          /\ pc[t] # "rest" /\ pending' = pending
      BY <1>8, <2>1 DEF AssertIdle, Leave, SetPc
    <3>2. b \in {"down", "up"}
      OBVIOUS
    <3> HIDE DEF b
    <3> QED
      BY <2>1, <3>1, <3>2, BootMoves
  <2>2. CASE boot[CoreOf[t]] # "starting" /\ Idle
    <3>1. /\ pc' = [pc EXCEPT ![t] = "connect"] /\ pc[t] = "assert"
          /\ UNCHANGED <<boot, pending>>
      BY <1>8, <2>2 DEF AssertIdle, SetPc
    <3>2. pc'[t] = "connect" /\ \A u \in Threads : u # t => pc'[u] = pc[u]
      BY <3>1 DEF TypeOK
    <3> QED
      BY <2>2, <3>1, <3>2 DEF BootInv
  <2>3. CASE boot[CoreOf[t]] # "starting" /\ ~Idle
    <3>1. Retain(t) /\ boot' = boot /\ boot[CoreOf[t]] = "up"
      BY <1>8, <2>3 DEF AssertIdle, BootInv, TypeOK
    <3> QED
      BY <3>1, BootRetains
  <2> QED
    BY <2>1, <2>2, <2>3
<1>9. ASSUME NEW t \in Threads, Connect(t) PROVE BootInv'
  <2>1. pc[t] \notin {"rest", "preflight", "open", "lock", "verify", "assert"} /\ boot' = boot
    BY <1>9 DEF Connect, InExchange
  <2>2. boot[CoreOf[t]] = "up"
    BY <2>1 DEF BootInv, TypeOK
  <2>3. CASE Retain(t)
    BY <2>1, <2>2, <2>3, BootRetains
  <2>4. CASE ~Retain(t)
    <3>1. pc' = [pc EXCEPT ![t] = "ready"] /\ pending' = pending
      BY <1>9, <2>4 DEF Connect, SetPc
    <3> QED
      BY <2>1, <2>2, <3>1 DEF BootInv, TypeOK
  <2> QED
    BY <2>3, <2>4
<1>10. ASSUME NEW t \in Threads, ReadReady(t) PROVE BootInv'
  BY <1>10 DEF ReadReady, SetPc, TypeOK, BootInv, Phases, InExchange, hostVars,
       coreVars, instVars
<1>11. ASSUME NEW t \in Threads, Bind(t) PROVE BootInv'
  BY <1>11 DEF Bind, SetPc, TypeOK, BootInv, Phases, InExchange, hostVars, coreVars,
       instVars
<1>12. ASSUME NEW t \in Threads, Send(t) PROVE BootInv'
  BY <1>12 DEF Send, SetPc, TypeOK, BootInv, Phases, InExchange, hostVars, coreVars,
       instVars
<1>13. ASSUME NEW t \in Threads, ReadResult(t) PROVE BootInv'
  BY <1>13 DEF ReadResult, SetPc, TypeOK, BootInv, Phases, InExchange, hostVars,
       coreVars, instVars
<1>14. ASSUME NEW t \in Threads, ExpectEof(t) PROVE BootInv'
  BY <1>14 DEF ExpectEof, SetPc, CloseConnection, Write, TypeOK, BootInv, Phases,
       InExchange, hostVars, coreVars, instVars
<1>15. ASSUME NEW t \in Threads, ExchangeFails(t) PROVE BootInv'
  <2>1. pc[t] \notin {"rest", "preflight", "open", "lock", "verify", "assert"} /\ boot' = boot
    BY <1>15 DEF ExchangeFails, InExchange
  <2>2. boot[CoreOf[t]] = "up"
    BY <2>1 DEF BootInv, TypeOK
  <2>3. CASE ~bound[t]
    BY <1>15, <2>1, <2>2, <2>3, BootRetains DEF ExchangeFails
  <2>4. CASE bound[t]
    <3>1. pc' = [pc EXCEPT ![t] = "await"] /\ pending' = pending
      BY <1>15, <2>4 DEF ExchangeFails, SetPc
    <3> QED
      BY <2>1, <2>2, <3>1 DEF BootInv, TypeOK
  <2> QED
    BY <2>3, <2>4
<1>16. ASSUME NEW t \in Threads, Confirm(t) PROVE BootInv'
  BY <1>16 DEF Confirm, Leave, SetPc, CloseLease, TypeOK, BootInv, Phases, InExchange,
       hostVars, coreVars, instVars
<1>17. ASSUME NEW t \in Threads, AwaitExpires(t) PROVE BootInv'
  <2>1. pc[t] \notin {"rest", "preflight", "open", "lock", "verify", "assert"} /\ boot' = boot
    BY <1>17 DEF AwaitExpires, InExchange
  <2>2. boot[CoreOf[t]] = "up"
    BY <2>1 DEF BootInv, TypeOK
  <2> QED
    BY <1>17, <2>1, <2>2, BootRetains DEF AwaitExpires
<1>18. ASSUME NEW k \in Conns, WorkerReady(k) PROVE BootInv'
  BY <1>18 DEF WorkerReady, Write, TypeOK, BootInv, Phases, InExchange, hostVars,
       coreVars, instVars
<1>19. ASSUME NEW k \in Conns, WorkerRequest(k) PROVE BootInv'
  BY <1>19 DEF WorkerRequest, TypeOK, BootInv, Phases, InExchange, hostVars, coreVars,
       instVars
<1>20. ASSUME NEW k \in Conns, WorkerRun(k) PROVE BootInv'
  BY <1>20 DEF WorkerRun, Write, TypeOK, BootInv, Phases, InExchange, hostVars,
       coreVars, instVars
<1>21. ASSUME NEW k \in Conns, WorkerExit(k) PROVE BootInv'
  BY <1>21 DEF WorkerExit, Write, TypeOK, BootInv, Phases, InExchange, hostVars,
       coreVars, instVars
<1>22. ASSUME NEW k \in Conns, UnitEnds(k) PROVE BootInv'
  BY <1>22 DEF UnitEnds, TypeOK, BootInv, Phases, InExchange, hostVars, coreVars,
       instVars
<1>23. ASSUME NEW k \in Conns, Clean(k) PROVE BootInv'
  BY <1>23 DEF Clean, TypeOK, BootInv, Phases, InExchange, hostVars, coreVars,
       instVars
<1>24. ASSUME NEW c \in Cores, Crash(c) PROVE BootInv'
  BY <1>24 DEF Crash, TypeOK, BootInv, Phases, InExchange, hostVars, coreVars,
       instVars
<1>25. ASSUME Accept PROVE BootInv'
  BY <1>25 DEF Accept, Write, TypeOK, BootInv, Phases, InExchange, hostVars, coreVars,
       instVars
<1>26. ASSUME HostChange PROVE BootInv'
  BY <1>26 DEF HostChange, TypeOK, BootInv, Phases, InExchange, hostVars, coreVars,
       instVars
<1>27. ASSUME Provision PROVE BootInv'
  BY <1>27 DEF Provision, TypeOK, BootInv, Phases, InExchange, hostVars, coreVars,
       instVars
<1> QED
  BY <1>1, <1>2, <1>3, <1>4, <1>5, <1>6, <1>7, <1>8, <1>9, <1>10, <1>11, <1>12, <1>13,
       <1>14, <1>15, <1>16, <1>17, <1>18, <1>19, <1>20, <1>21, <1>22, <1>23, <1>24,
       <1>25, <1>26, <1>27 DEF Next, CoreStep, InstanceStep

-----------------------------------------------------------------------------
(* The lease *)

\* A thread that works on under its lease keeps it.
LEMMA LeaseKept ==
  ASSUME TypeOK, LeaseInv, NEW t \in Threads, NEW s,
         pc[t] \notin {"rest", "preflight", "open", "lock"}, pc' = [pc EXCEPT ![t] = s],
         s \notin {"rest", "preflight", "open", "lock"}, ino[t] = refIno,
         UNCHANGED <<lock, ino, refIno, pending>>
  PROVE  LeaseInv'
BY DEF LeaseInv, Holders, TypeOK

\* A thread that gives up an exchange without confirmation keeps its lease for good.
LEMMA LeaseRetained ==
  ASSUME TypeOK, LeaseInv, NEW t \in Threads,
         pc[t] \notin {"rest", "preflight", "open", "lock"}, Retain(t), refIno' = refIno
  PROVE  LeaseInv'
<1>1. /\ pc' = [pc EXCEPT ![t] = "rest"] /\ UNCHANGED <<lock, ino>>
      /\ pending' = [pending EXCEPT ![CoreOf[t]] = TRUE]
  BY DEF Retain, Leave, SetPc
<1>2. ino[t] \in Inodes /\ lock[ino[t]] = t
  BY DEF LeaseInv
<1> QED
  BY <1>1, <1>2, CoreOfThread DEF LeaseInv, Holders, TypeOK

\* Closing a lease takes the lock of no other thread.
LEMMA LeaseClosed ==
  ASSUME TypeOK, LeaseInv, NEW t \in Threads,
         pc[t] \notin {"rest", "preflight", "open", "lock"}, CloseLease(t),
         pc' = [pc EXCEPT ![t] = "rest"], ino' = [ino EXCEPT ![t] = None],
         UNCHANGED <<refIno, pending>>
  PROVE  LeaseInv'
<1>1. lock[ino[t]] = t /\ ino[t] \in Inodes /\ t # None
  BY WorkerServiceAssumption DEF LeaseInv
<1>2. ASSUME NEW i \in Inodes, i # ino[t] PROVE lock'[i] = lock[i]
  BY <1>2 DEF CloseLease, TypeOK
<1>3. ASSUME NEW u \in Threads, u # t PROVE pc'[u] = pc[u] /\ ino'[u] = ino[u]
  BY <1>3 DEF TypeOK
<1>4. pc'[t] = "rest" /\ ino'[t] = None
  BY DEF TypeOK
<1>5. ASSUME NEW u \in Threads, u # t, ino[u] \in Inodes, lock[ino[u]] = u
      PROVE  lock'[ino'[u]] = u
  BY <1>1, <1>2, <1>3, <1>5
<1>6. ASSUME NEW u \in Threads
      PROVE  /\ pc'[u] \in {"preflight", "open"} => ino'[u] = None
             /\ pc'[u] = "lock" => ino'[u] \in Inodes
             /\ pc'[u] \notin {"rest", "preflight", "open", "lock"} =>
                  ino'[u] \in Inodes /\ lock'[ino'[u]] = u
             /\ pc'[u] = "rest" /\ ino'[u] # None =>
                  pending'[CoreOf[u]] /\ lock'[ino'[u]] = u
  <2>1. CASE u = t
    BY <1>4, <2>1
  <2>2. CASE u # t
    <3>1. ino[u] \in Inodes \cup {None}
      BY DEF TypeOK
    <3> QED
      BY <1>3, <1>5, <2>2, <3>1 DEF LeaseInv
  <2> QED
    BY <2>1, <2>2
<1>7. \A u \in Holders' : ino'[u] = refIno'
  BY <1>3, <1>4 DEF Holders, LeaseInv
<1>8. ASSUME NEW c \in Cores, pending'[c]
      PROVE  \E u \in Threads : CoreOf[u] = c /\ pc'[u] = "rest" /\ ino'[u] \in Inodes
  BY <1>3, <1>8 DEF LeaseInv
<1> QED
  BY <1>6, <1>7, <1>8 DEF LeaseInv

\* Every step keeps the leases with the threads that locked them.
LEMMA LeasePreserved ==
  ASSUME TypeOK, BootInv, LeaseInv, [Next]_vars
  PROVE  LeaseInv'
<1> USE CoreOfThread
<1>1. CASE UNCHANGED vars
  BY <1>1 DEF LeaseInv, Holders, TypeOK, BootInv, vars, hostVars, coreVars, instVars
<1>2. ASSUME NEW t \in Threads, Start(t) PROVE LeaseInv'
  BY <1>2 DEF Start, SetPc, LeaseInv, Holders, TypeOK, BootInv, hostVars, coreVars,
       instVars
<1>3. ASSUME NEW t \in Threads, Call(t) PROVE LeaseInv'
  BY <1>3 DEF Call, SetPc, LeaseInv, Holders, TypeOK, BootInv, hostVars, coreVars,
       instVars
<1>4. ASSUME NEW t \in Threads, Preflight(t) PROVE LeaseInv'
  <2>1. PICK s \in {"open", "rest"} : pc' = [pc EXCEPT ![t] = s]
    BY <1>4 DEF Preflight, SetPc
  <2>2. pc[t] = "preflight" /\ UNCHANGED <<lock, ino, refIno, pending>>
    BY <1>4 DEF Preflight, hostVars
  <2> QED
    BY <2>1, <2>2 DEF LeaseInv, Holders, TypeOK
<1>5. ASSUME NEW t \in Threads, Open(t) PROVE LeaseInv'
  BY <1>5 DEF Open, SetPc, LeaseInv, Holders, TypeOK, BootInv, hostVars, coreVars,
       instVars
<1>6. ASSUME NEW t \in Threads, Lock(t) PROVE LeaseInv'
  <2>1. pc[t] = "lock" /\ ino[t] \in Inodes /\ UNCHANGED <<refIno, pending>> /\ t # None
    BY <1>6, WorkerServiceAssumption DEF Lock, LeaseInv
  <2>2. CASE leaseIno = ino[t] /\ lock[ino[t]] = None
    <3>1. /\ lock' = [lock EXCEPT ![ino[t]] = t]
          /\ pc' = [pc EXCEPT ![t] = "verify"] /\ ino' = ino
      BY <1>6, <2>2 DEF Lock, SetPc
    <3> QED
      BY <2>1, <2>2, <3>1, WorkerServiceAssumption DEF LeaseInv, Holders, TypeOK
  <2>3. CASE ~(leaseIno = ino[t] /\ lock[ino[t]] = None)
    <3>1. /\ lock' = lock /\ pc' = [pc EXCEPT ![t] = "rest"]
          /\ ino' = [ino EXCEPT ![t] = None]
      BY <1>6, <2>3 DEF Lock, GiveUpLease, SetPc
    <3> QED
      BY <2>1, <3>1 DEF LeaseInv, Holders, TypeOK
  <2> QED
    BY <2>2, <2>3
<1>7. ASSUME NEW t \in Threads, Verify(t) PROVE LeaseInv'
  <2>1. pc[t] = "verify" /\ UNCHANGED <<refIno, pending>>
    BY <1>7 DEF Verify
  <2>2. CASE ReferenceMatches(ino[t])
    <3>1. pc' = [pc EXCEPT ![t] = "assert"] /\ UNCHANGED <<lock, ino>> /\ ino[t] = refIno
      BY <1>7, <2>2 DEF Verify, SetPc, ReferenceMatches
    <3> QED
      BY <2>1, <3>1, LeaseKept
  <2>3. CASE ~ReferenceMatches(ino[t])
    <3>1. /\ CloseLease(t) /\ pc' = [pc EXCEPT ![t] = "rest"]
          /\ ino' = [ino EXCEPT ![t] = None]
      BY <1>7, <2>3 DEF Verify, GiveUpLease, SetPc
    <3> QED
      BY <2>1, <3>1, LeaseClosed
  <2> QED
    BY <2>2, <2>3
<1>8. ASSUME NEW t \in Threads, AssertIdle(t) PROVE LeaseInv'
  <2>1. pc[t] = "assert" /\ refIno' = refIno
    BY <1>8 DEF AssertIdle
  <2>2. CASE boot[CoreOf[t]] = "starting"
    <3>1. /\ CloseLease(t) /\ pc' = [pc EXCEPT ![t] = "rest"]
          /\ ino' = [ino EXCEPT ![t] = None] /\ pending' = pending
      BY <1>8, <2>2 DEF AssertIdle, Leave, SetPc
    <3> QED
      BY <2>1, <3>1, LeaseClosed
  <2>3. CASE boot[CoreOf[t]] # "starting" /\ Idle
    <3>1. pc' = [pc EXCEPT ![t] = "connect"] /\ UNCHANGED <<lock, ino, pending>>
      BY <1>8, <2>3 DEF AssertIdle, SetPc
    <3>2. ino[t] = refIno
      BY <2>1 DEF LeaseInv, Holders
    <3> QED
      BY <2>1, <3>1, <3>2, LeaseKept
  <2>4. CASE boot[CoreOf[t]] # "starting" /\ ~Idle
    <3>1. Retain(t)
      BY <1>8, <2>4 DEF AssertIdle
    <3> QED
      BY <2>1, <3>1, LeaseRetained
  <2> QED
    BY <2>2, <2>3, <2>4
<1>9. ASSUME NEW t \in Threads, Connect(t) PROVE LeaseInv'
  <2>1. pc[t] = "connect" /\ refIno' = refIno
    BY <1>9 DEF Connect
  <2>2. CASE Retain(t)
    BY <2>1, <2>2, LeaseRetained
  <2>3. CASE ~Retain(t)
    <3>1. pc' = [pc EXCEPT ![t] = "ready"] /\ UNCHANGED <<lock, ino, pending>>
      BY <1>9, <2>3 DEF Connect, SetPc
    <3>2. ino[t] = refIno
      BY <2>1 DEF LeaseInv, Holders
    <3> QED
      BY <2>1, <3>1, <3>2, LeaseKept
  <2> QED
    BY <2>2, <2>3
<1>10. ASSUME NEW t \in Threads, ReadReady(t) PROVE LeaseInv'
  <2>1. /\ pc[t] \notin {"rest", "preflight", "open", "lock"} /\ pc' = [pc EXCEPT ![t] = "bind"]
        /\ UNCHANGED <<lock, ino, refIno, pending>>
    BY <1>10 DEF ReadReady, SetPc, hostVars
  <2>2. ino[t] = refIno
    BY <1>10 DEF ReadReady, LeaseInv, Holders
  <2> QED
    BY <2>1, <2>2, LeaseKept
<1>11. ASSUME NEW t \in Threads, Bind(t) PROVE LeaseInv'
  <2>1. /\ pc[t] \notin {"rest", "preflight", "open", "lock"} /\ pc' = [pc EXCEPT ![t] = "send"]
        /\ UNCHANGED <<lock, ino, refIno, pending>>
    BY <1>11 DEF Bind, SetPc, hostVars
  <2>2. ino[t] = refIno
    BY <1>11 DEF Bind, LeaseInv, Holders
  <2> QED
    BY <2>1, <2>2, LeaseKept
<1>12. ASSUME NEW t \in Threads, Send(t) PROVE LeaseInv'
  <2>1. /\ pc[t] \notin {"rest", "preflight", "open", "lock"} /\ pc' = [pc EXCEPT ![t] = "result"]
        /\ UNCHANGED <<lock, ino, refIno, pending>>
    BY <1>12 DEF Send, SetPc, hostVars
  <2>2. ino[t] = refIno
    BY <1>12 DEF Send, LeaseInv, Holders
  <2> QED
    BY <2>1, <2>2, LeaseKept
<1>13. ASSUME NEW t \in Threads, ReadResult(t) PROVE LeaseInv'
  <2>1. /\ pc[t] \notin {"rest", "preflight", "open", "lock"} /\ pc' = [pc EXCEPT ![t] = "eof"]
        /\ UNCHANGED <<lock, ino, refIno, pending>>
    BY <1>13 DEF ReadResult, SetPc, hostVars
  <2>2. ino[t] = refIno
    BY <1>13 DEF ReadResult, LeaseInv, Holders
  <2> QED
    BY <2>1, <2>2, LeaseKept
<1>14. ASSUME NEW t \in Threads, ExpectEof(t) PROVE LeaseInv'
  <2>1. /\ pc[t] \notin {"rest", "preflight", "open", "lock"} /\ pc' = [pc EXCEPT ![t] = "await"]
        /\ UNCHANGED <<lock, ino, refIno, pending>>
    BY <1>14 DEF ExpectEof, SetPc, hostVars
  <2>2. ino[t] = refIno
    BY <1>14 DEF ExpectEof, LeaseInv, Holders
  <2> QED
    BY <2>1, <2>2, LeaseKept
<1>15. ASSUME NEW t \in Threads, ExchangeFails(t) PROVE LeaseInv'
  <2>1. /\ pc[t] \notin {"rest", "preflight", "open", "lock", "verify"}
        /\ refIno' = refIno
    BY <1>15 DEF ExchangeFails, InExchange
  <2>2. CASE ~bound[t]
    BY <1>15, <2>1, <2>2, LeaseRetained DEF ExchangeFails
  <2>3. CASE bound[t]
    <3>1. pc' = [pc EXCEPT ![t] = "await"] /\ UNCHANGED <<lock, ino, pending>>
      BY <1>15, <2>3 DEF ExchangeFails, SetPc
    <3>2. ino[t] = refIno
      BY <2>1 DEF LeaseInv, Holders
    <3> QED
      BY <2>1, <3>1, <3>2, LeaseKept
  <2> QED
    BY <2>2, <2>3
<1>16. ASSUME NEW t \in Threads, Confirm(t) PROVE LeaseInv'
  BY <1>16, LeaseClosed DEF Confirm, Leave, SetPc
<1>17. ASSUME NEW t \in Threads, AwaitExpires(t) PROVE LeaseInv'
  BY <1>17, LeaseRetained DEF AwaitExpires
<1>18. ASSUME NEW k \in Conns, WorkerReady(k) PROVE LeaseInv'
  BY <1>18 DEF WorkerReady, LeaseInv, Holders, hostVars, coreVars
<1>19. ASSUME NEW k \in Conns, WorkerRequest(k) PROVE LeaseInv'
  BY <1>19 DEF WorkerRequest, LeaseInv, Holders, hostVars, coreVars
<1>20. ASSUME NEW k \in Conns, WorkerRun(k) PROVE LeaseInv'
  BY <1>20 DEF WorkerRun, LeaseInv, Holders, hostVars, coreVars
<1>21. ASSUME NEW k \in Conns, WorkerExit(k) PROVE LeaseInv'
  BY <1>21 DEF WorkerExit, LeaseInv, Holders, hostVars, coreVars
<1>22. ASSUME NEW k \in Conns, UnitEnds(k) PROVE LeaseInv'
  BY <1>22 DEF UnitEnds, LeaseInv, Holders, hostVars, coreVars
<1>23. ASSUME NEW k \in Conns, Clean(k) PROVE LeaseInv'
  BY <1>23 DEF Clean, LeaseInv, Holders, hostVars, coreVars
<1>24. ASSUME NEW c \in Cores, Crash(c) PROVE LeaseInv'
  <2> DEFINE gone == {t \in Threads : CoreOf[t] = c}
  <2>1. ASSUME NEW t \in gone PROVE pc'[t] = "rest" /\ ino'[t] = None
    BY <1>24 DEF Crash
  <2>2. ASSUME NEW t \in Threads \ gone PROVE pc'[t] = pc[t] /\ ino'[t] = ino[t]
    BY <1>24 DEF Crash
  <2>3. ASSUME NEW t \in Threads \ gone, ino[t] \in Inodes, lock[ino[t]] = t
        PROVE  lock'[ino[t]] = t
    BY <1>24, <2>3 DEF Crash
  <2>4. /\ refIno' = refIno /\ ~pending'[c]
        /\ \A d \in Cores \ {c} : pending'[d] = pending[d]
    BY <1>24 DEF Crash, TypeOK
  <2>5. ASSUME NEW t \in Threads
        PROVE  /\ pc'[t] \in {"preflight", "open"} => ino'[t] = None
               /\ pc'[t] = "lock" => ino'[t] \in Inodes
               /\ pc'[t] \notin {"rest", "preflight", "open", "lock"} =>
                    ino'[t] \in Inodes /\ lock'[ino'[t]] = t
               /\ pc'[t] = "rest" /\ ino'[t] # None =>
                    pending'[CoreOf[t]] /\ lock'[ino'[t]] = t
    <3>1. CASE t \in gone
      BY <2>1, <3>1
    <3>2. CASE t \notin gone
      <4>1. ino[t] \in Inodes \cup {None}
        BY DEF TypeOK
      <4>2. pending'[CoreOf[t]] = pending[CoreOf[t]]
        BY <2>4, <3>2, CoreOfThread
      <4> QED
        BY <2>2, <2>3, <3>2, <4>1, <4>2 DEF LeaseInv
    <3> QED
      BY <3>1, <3>2
  <2>6. \A t \in Holders' : ino'[t] = refIno'
    BY <2>1, <2>2, <2>4 DEF Holders, LeaseInv
  <2>7. ASSUME NEW d \in Cores, pending'[d]
        PROVE  \E t \in Threads : CoreOf[t] = d /\ pc'[t] = "rest" /\ ino'[t] \in Inodes
    BY <2>2, <2>4, <2>7 DEF LeaseInv
  <2> QED
    BY <2>5, <2>6, <2>7 DEF LeaseInv
<1>25. ASSUME Accept PROVE LeaseInv'
  BY <1>25 DEF Accept, LeaseInv, Holders, hostVars, coreVars
<1>26. ASSUME HostChange PROVE LeaseInv'
  BY <1>26 DEF HostChange, LeaseInv, Holders, coreVars
<1>27. ASSUME Provision PROVE LeaseInv'
  <2>1. Holders = {}
    BY <1>27, CoreOfThread DEF Provision, BootInv, Holders
  <2> QED
    BY <1>27, <2>1 DEF Provision, LeaseInv, Holders, coreVars
<1> QED
  BY <1>1, <1>2, <1>3, <1>4, <1>5, <1>6, <1>7, <1>8, <1>9, <1>10, <1>11, <1>12, <1>13,
       <1>14, <1>15, <1>16, <1>17, <1>18, <1>19, <1>20, <1>21, <1>22, <1>23, <1>24,
       <1>25, <1>26, <1>27 DEF Next, CoreStep, InstanceStep

\* Two verified leases are leases of the one inode that the host reference names.
LEMMA OneHolder ==
  ASSUME TypeOK, LeaseInv
  PROVE  LeaseExclusive /\ PendingHoldsLease
<1>1. LeaseExclusive
  BY DEF LeaseExclusive, LeaseInv, Holders
<1>2. ASSUME NEW c \in Cores, pending[c]
      PROVE  \E i \in Inodes : lock[i] # None /\ CoreOf[lock[i]] = c
  <2>1. PICK t \in Threads : CoreOf[t] = c /\ pc[t] = "rest" /\ ino[t] \in Inodes
    BY <1>2 DEF LeaseInv
  <2>2. lock[ino[t]] = t /\ t # None
    BY <2>1, WorkerServiceAssumption DEF LeaseInv
  <2> QED
    BY <2>1, <2>2
<1> QED
  BY <1>1, <1>2 DEF PendingHoldsLease

-----------------------------------------------------------------------------
(* The payloads *)

\* What the worker and the manager do with an instance leaves nothing on the host
\* that was not there, and takes no frame from its connection.
LEMMA OccupiedFalls ==
  ASSUME TypeOK, NEW k \in Conns, NEW j \in Conns, InstanceStep(k), Occupied(j)'
  PROVE  Occupied(j)
BY DEF InstanceStep, WorkerReady, WorkerRequest, WorkerRun, WorkerExit, UnitEnds, Clean,
       Occupied, Alive, TypeOK

\* Every step keeps a connection in the queue at most once, and instances with accepted
\* connections.
LEMMA QueuePreserved ==
  ASSUME TypeOK, MineInv, QueueInv, [Next]_vars
  PROVE  QueueInv'
<1> USE WorkerServiceAssumption
<1>1. CASE UNCHANGED vars
  BY <1>1 DEF QueueInv, Occupied, Alive, vars, hostVars, coreVars, instVars
<1>2. ASSUME NEW t \in Threads, Start(t) PROVE QueueInv'
  BY <1>2 DEF Start, QueueInv, Occupied, Alive, instVars
<1>3. ASSUME NEW t \in Threads, Call(t) PROVE QueueInv'
  BY <1>3 DEF Call, QueueInv, Occupied, Alive, instVars
<1>4. ASSUME NEW t \in Threads, Preflight(t) PROVE QueueInv'
  BY <1>4 DEF Preflight, QueueInv, Occupied, Alive, instVars
<1>5. ASSUME NEW t \in Threads, Open(t) PROVE QueueInv'
  BY <1>5 DEF Open, QueueInv, Occupied, Alive, instVars
<1>6. ASSUME NEW t \in Threads, Lock(t) PROVE QueueInv'
  BY <1>6 DEF Lock, QueueInv, Occupied, Alive, instVars
<1>7. ASSUME NEW t \in Threads, Verify(t) PROVE QueueInv'
  BY <1>7 DEF Verify, QueueInv, Occupied, Alive, instVars
<1>8. ASSUME NEW t \in Threads, AssertIdle(t) PROVE QueueInv'
  BY <1>8 DEF AssertIdle, QueueInv, Occupied, Alive, instVars
<1>9. ASSUME NEW t \in Threads, Connect(t) PROVE QueueInv'
  <2>1. CASE UNCHANGED <<conn, queue, wire>>
    BY <1>9, <2>1 DEF Connect, QueueInv, Occupied, Alive
  <2>2. CASE ~UNCHANGED <<conn, queue, wire>>
    <3>1. PICK k \in Conns : /\ conn[k] = "free" /\ conn' = [conn EXCEPT ![k] = "queued"]
                             /\ queue' = Append(queue, k)
                             /\ wire' = [wire EXCEPT ![k] = @ \cup {"HELLO"}]
      BY <1>9, <2>2 DEF Connect, Write
    <3>2. UNCHANGED <<unit, work, residue>>
      BY <1>9 DEF Connect
    <3>3. /\ Len(queue') = Len(queue) + 1 /\ queue'[Len(queue) + 1] = k
          /\ \A i \in 1..Len(queue) : queue'[i] = queue[i] /\ queue[i] \in Conns
      BY <3>1 DEF TypeOK
    <3>4. \A i \in 1..Len(queue) : queue[i] # k
      BY <3>1 DEF QueueInv
    <3>5. \A i \in 1..Len(queue') : conn'[queue'[i]] = "queued"
      BY <3>1, <3>3, <3>4 DEF QueueInv, TypeOK
    <3>6. ASSUME NEW i \in 1..Len(queue'), NEW j \in 1..Len(queue'), queue'[i] = queue'[j]
          PROVE  i = j
      <4>1. Len(queue) \in Nat /\ 1..Len(queue') = 1..Len(queue) \cup {Len(queue) + 1}
        BY <3>3 DEF TypeOK
      <4>2. CASE i \in 1..Len(queue) /\ j \in 1..Len(queue)
        BY <3>3, <3>6, <4>2 DEF QueueInv
      <4> QED
        BY <3>3, <3>4, <3>6, <4>1, <4>2
    <3> QED
      BY <3>1, <3>2, <3>5, <3>6 DEF QueueInv, Occupied, Alive, TypeOK
  <2> QED
    BY <2>1, <2>2
<1>10. ASSUME NEW t \in Threads, ReadReady(t) PROVE QueueInv'
  BY <1>10 DEF ReadReady, QueueInv, Occupied, Alive, instVars
<1>11. ASSUME NEW t \in Threads, Bind(t) PROVE QueueInv'
  BY <1>11 DEF Bind, QueueInv, Occupied, Alive, instVars
<1>12. ASSUME NEW t \in Threads, Send(t) PROVE QueueInv'
  <2>1. mine[t] \in Conns /\ Alive(mine[t])
    BY <1>12 DEF Send, MineInv, InExchange
  <2>2. conn[mine[t]] = "accepted"
    BY <2>1 DEF QueueInv, Occupied
  <2> QED
    BY <1>12, <2>1, <2>2 DEF Send, QueueInv, Occupied, Alive, TypeOK
<1>13. ASSUME NEW t \in Threads, ReadResult(t) PROVE QueueInv'
  BY <1>13 DEF ReadResult, QueueInv, Occupied, Alive, instVars
<1>14. ASSUME NEW t \in Threads, ExpectEof(t) PROVE QueueInv'
  <2>1. mine[t] \in Conns /\ wire' = [wire EXCEPT ![mine[t]] = @ \cup {"CoreEOF"}]
    BY <1>14 DEF ExpectEof, CloseConnection, Write, MineInv, InExchange
  <2> QED
    BY <1>14, <2>1 DEF ExpectEof, QueueInv, Occupied, Alive, TypeOK
<1>15. ASSUME NEW t \in Threads, ExchangeFails(t) PROVE QueueInv'
  <2>1. mine[t] \in Conns /\ wire' = [wire EXCEPT ![mine[t]] = @ \cup {"CoreEOF"}]
    BY <1>15 DEF ExchangeFails, CloseConnection, Write, MineInv, InExchange
  <2> QED
    BY <1>15, <2>1 DEF ExchangeFails, QueueInv, Occupied, Alive, TypeOK
<1>16. ASSUME NEW t \in Threads, Confirm(t) PROVE QueueInv'
  BY <1>16 DEF Confirm, QueueInv, Occupied, Alive, instVars
<1>17. ASSUME NEW t \in Threads, AwaitExpires(t) PROVE QueueInv'
  BY <1>17 DEF AwaitExpires, QueueInv, Occupied, Alive, instVars
<1>18. ASSUME NEW k \in Conns, WorkerReady(k) PROVE QueueInv'
  <2>1. /\ UNCHANGED <<queue, conn>> /\ conn[k] = "accepted"
        /\ \A j \in Conns : j # k => UNCHANGED <<work[j], wire[j], unit[j], residue[j]>>
    BY <1>18 DEF WorkerReady, Write, QueueInv, Occupied, Alive, TypeOK
  <2> QED
    BY <2>1 DEF QueueInv, Occupied, Alive
<1>19. ASSUME NEW k \in Conns, WorkerRequest(k) PROVE QueueInv'
  <2>1. /\ UNCHANGED <<queue, conn>> /\ conn[k] = "accepted"
        /\ \A j \in Conns : j # k => UNCHANGED <<work[j], wire[j], unit[j], residue[j]>>
    BY <1>19 DEF WorkerRequest, QueueInv, Occupied, Alive, TypeOK
  <2> QED
    BY <2>1 DEF QueueInv, Occupied, Alive
<1>20. ASSUME NEW k \in Conns, WorkerRun(k) PROVE QueueInv'
  <2>1. /\ UNCHANGED <<queue, conn>> /\ conn[k] = "accepted"
        /\ \A j \in Conns : j # k => UNCHANGED <<work[j], wire[j], unit[j], residue[j]>>
    BY <1>20 DEF WorkerRun, Write, QueueInv, Occupied, Alive, TypeOK
  <2> QED
    BY <2>1 DEF QueueInv, Occupied, Alive
<1>21. ASSUME NEW k \in Conns, WorkerExit(k) PROVE QueueInv'
  <2>1. /\ UNCHANGED <<queue, conn>> /\ conn[k] = "accepted"
        /\ \A j \in Conns : j # k => UNCHANGED <<work[j], wire[j], unit[j], residue[j]>>
    BY <1>21 DEF WorkerExit, Write, QueueInv, Occupied, Alive, TypeOK
  <2> QED
    BY <2>1 DEF QueueInv, Occupied, Alive
<1>22. ASSUME NEW k \in Conns, UnitEnds(k) PROVE QueueInv'
  <2>1. /\ UNCHANGED <<queue, conn>> /\ conn[k] = "accepted"
        /\ \A j \in Conns : j # k => UNCHANGED <<work[j], wire[j], unit[j], residue[j]>>
    BY <1>22 DEF UnitEnds, QueueInv, Occupied, Alive, TypeOK
  <2> QED
    BY <2>1 DEF QueueInv, Occupied, Alive
<1>23. ASSUME NEW k \in Conns, Clean(k) PROVE QueueInv'
  <2>1. /\ UNCHANGED <<queue, conn>> /\ conn[k] = "accepted"
        /\ \A j \in Conns : j # k => UNCHANGED <<work[j], wire[j], unit[j], residue[j]>>
    BY <1>23 DEF Clean, QueueInv, Occupied, Alive, TypeOK
  <2> QED
    BY <2>1 DEF QueueInv, Occupied, Alive
<1>24. ASSUME NEW c \in Cores, Crash(c) PROVE QueueInv'
  <2>1. \A k \in Conns : "REQUEST" \in wire'[k] => "REQUEST" \in wire[k]
    BY <1>24 DEF Crash
  <2> QED
    BY <1>24, <2>1 DEF Crash, QueueInv, Occupied, Alive
<1>25. ASSUME Accept PROVE QueueInv'
  <2> DEFINE h == Head(queue)
  <2>1. /\ queue # <<>> /\ h \in Conns /\ h = queue[1] /\ 1 \in 1..Len(queue)
        /\ Len(queue') = Len(queue) - 1
        /\ \A i \in 1..Len(queue') : /\ queue'[i] = queue[i + 1] /\ i + 1 \in 1..Len(queue)
                                     /\ i + 1 # 1
    BY <1>25 DEF Accept, TypeOK
  <2>2. \A i \in 1..Len(queue') : queue'[i] # h /\ queue'[i] \in Conns
    BY <2>1 DEF QueueInv, TypeOK
  <2>3. \A i, j \in 1..Len(queue') : queue'[i] = queue'[j] => i = j
    BY <2>1 DEF QueueInv, TypeOK
  <2>4. conn[h] = "queued"
    BY <2>1 DEF QueueInv
  <2> HIDE DEF h
  <2>5. \A j \in Conns : j # h => UNCHANGED <<conn[j], work[j], wire[j], unit[j], residue[j]>>
    BY <1>25, <2>1 DEF Accept, Write, TypeOK, h
  <2>6. \A i \in 1..Len(queue') : conn'[queue'[i]] = "queued"
    BY <2>1, <2>2, <2>5 DEF QueueInv
  <2>7. CASE \E j \in Conns : unit[j] = "active"
    <3>1. /\ conn'[h] = "dropped" /\ wire'[h] = wire[h] \cup {"WorkerEOF"}
          /\ UNCHANGED <<unit, work, residue>>
      BY <1>25, <2>1, <2>7 DEF Accept, Write, TypeOK, h
    <3> QED
      BY <2>3, <2>4, <2>5, <2>6, <3>1 DEF QueueInv, Occupied, Alive
  <2>8. CASE ~\E j \in Conns : unit[j] = "active"
    <3>1. conn'[h] = "accepted"
      BY <1>25, <2>1, <2>8 DEF Accept, TypeOK, h
    <3> QED
      BY <2>3, <2>5, <2>6, <3>1 DEF QueueInv, Occupied, Alive
  <2> QED
    BY <2>7, <2>8
<1>26. ASSUME HostChange PROVE QueueInv'
  BY <1>26 DEF HostChange, QueueInv, Occupied, Alive, instVars
<1>27. ASSUME Provision PROVE QueueInv'
  BY <1>27 DEF Provision, QueueInv, Occupied, Alive, instVars
<1> QED
  BY <1>1, <1>2, <1>3, <1>4, <1>5, <1>6, <1>7, <1>8, <1>9, <1>10, <1>11, <1>12, <1>13,
       <1>14, <1>15, <1>16, <1>17, <1>18, <1>19, <1>20, <1>21, <1>22, <1>23, <1>24,
       <1>25, <1>26, <1>27 DEF Next, CoreStep, InstanceStep

\* A thread that takes or leaves a phase disturbs no payload, unless it binds one or
\* comes to work under a lease it has just verified.
LEMMA SentMoves ==
  ASSUME TypeOK, SentInv, NEW t \in Threads, NEW s, pc' = [pc EXCEPT ![t] = s],
         mine' \in {mine, [mine EXCEPT ![t] = None]},
         UNCHANGED <<conn, unit, work, hard, seen, residue>>,
         \A k \in Conns : /\ "REQUEST" \in wire'[k] <=> "REQUEST" \in wire[k]
                          /\ "RESULT" \in wire'[k] <=> "RESULT" \in wire[k],
         \/ s \in {"rest", "preflight", "open", "lock", "verify", "assert"}
         \/ /\ mine' = mine /\ s # "send"
            /\ pc[t] \notin {"rest", "preflight", "open", "lock", "verify", "assert"}
  PROVE  SentInv'
<1>1. \A k \in Conns : Occupied(k)' <=> Occupied(k)
  BY DEF Occupied, Alive
<1>2. \A u \in Threads : u # t => pc'[u] = pc[u] /\ mine'[u] = mine[u]
  BY DEF TypeOK
<1>3. pc'[t] = s
  BY DEF TypeOK
<1>4. ASSUME NEW u \in Threads, pc'[u] = "send"
      PROVE  conn'[mine'[u]] = "accepted"
  BY <1>2, <1>3, <1>4 DEF SentInv
<1>5. ASSUME NEW u \in Holders', NEW k \in Conns,
             pc'[u] # "assert", "REQUEST" \in wire'[k], Occupied(k)'
      PROVE  mine'[u] = k
  BY <1>1, <1>2, <1>3, <1>5 DEF SentInv, Holders
<1>6. /\ \A k \in Conns : /\ seen'[k] => "REQUEST" \in wire'[k]
                          /\ work'[k] \in {"eof", "sent"} => seen'[k]
                          /\ "RESULT" \in wire'[k] => seen'[k] /\ work'[k] \in {"sent", "gone"}
      /\ \A j, k \in Conns :
           "REQUEST" \in wire'[j] \cap wire'[k] /\ Occupied(j)' /\ Occupied(k)' => j = k
  BY <1>1 DEF SentInv
<1> QED
  BY <1>4, <1>5, <1>6 DEF SentInv

\* Every step keeps at most one instance with a payload.
LEMMA SentPreserved ==
  ASSUME TypeOK, MineInv, LeaseInv, QueueInv, SentInv, [Next]_vars
  PROVE  SentInv'
<1>1. CASE UNCHANGED vars
  BY <1>1 DEF SentInv, Occupied, Alive, Holders, vars, hostVars, coreVars, instVars
<1>2. ASSUME NEW t \in Threads, Start(t) PROVE SentInv'
  <2>1. pc' = [pc EXCEPT ![t] = "preflight"] /\ mine' = mine /\ UNCHANGED instVars
    BY <1>2 DEF Start, SetPc
  <2> QED
    BY <1>2, <2>1, SentMoves DEF Start, instVars
<1>3. ASSUME NEW t \in Threads, Call(t) PROVE SentInv'
  <2>1. pc' = [pc EXCEPT ![t] = "preflight"] /\ mine' = mine /\ UNCHANGED instVars
    BY <1>3 DEF Call, SetPc
  <2> QED
    BY <1>3, <2>1, SentMoves DEF Call, instVars
<1>4. ASSUME NEW t \in Threads, Preflight(t) PROVE SentInv'
  <2>1. PICK s \in {"open", "rest"} : pc' = [pc EXCEPT ![t] = s]
    BY <1>4 DEF Preflight, SetPc, GiveUpLease
  <2>2. mine' = mine /\ UNCHANGED instVars
    BY <1>4 DEF Preflight
  <2> QED
    BY <2>1, <2>2, SentMoves DEF instVars
<1>5. ASSUME NEW t \in Threads, Open(t) PROVE SentInv'
  <2>1. pc' = [pc EXCEPT ![t] = "lock"] /\ mine' = mine /\ UNCHANGED instVars
    BY <1>5 DEF Open, SetPc
  <2> QED
    BY <1>5, <2>1, SentMoves DEF Open, instVars
<1>6. ASSUME NEW t \in Threads, Lock(t) PROVE SentInv'
  <2>1. PICK s \in {"verify", "rest"} : pc' = [pc EXCEPT ![t] = s]
    BY <1>6 DEF Lock, SetPc, GiveUpLease
  <2>2. mine' = mine /\ UNCHANGED instVars
    BY <1>6 DEF Lock
  <2> QED
    BY <2>1, <2>2, SentMoves DEF instVars
<1>7. ASSUME NEW t \in Threads, Verify(t) PROVE SentInv'
  <2>1. PICK s \in {"assert", "rest"} : pc' = [pc EXCEPT ![t] = s]
    BY <1>7 DEF Verify, SetPc, GiveUpLease
  <2>2. mine' = mine /\ UNCHANGED instVars
    BY <1>7 DEF Verify
  <2> QED
    BY <2>1, <2>2, SentMoves DEF instVars
<1>8. ASSUME NEW t \in Threads, AssertIdle(t) PROVE SentInv'
  <2>1. pc[t] = "assert" /\ UNCHANGED instVars
    BY <1>8 DEF AssertIdle
  <2>2. CASE boot[CoreOf[t]] # "starting" /\ Idle
    <3>1. pc' = [pc EXCEPT ![t] = "connect"] /\ mine' = mine
      BY <1>8, <2>2 DEF AssertIdle, SetPc
    <3>2. \A k \in Conns : ~Occupied(k)
      BY <2>2 DEF Idle, UnitEnded, UidProcess, Occupied
    <3>3. \A k \in Conns : ~Occupied(k)'
      BY <2>1, <3>2 DEF Occupied, Alive, instVars
    <3>4. \A u \in Threads : pc'[u] = "send" => pc[u] = "send"
      BY <3>1 DEF TypeOK
    <3> QED
      BY <2>1, <3>1, <3>3, <3>4 DEF SentInv, instVars
  <2>3. CASE ~(boot[CoreOf[t]] # "starting" /\ Idle)
    <3>1. pc' = [pc EXCEPT ![t] = "rest"] /\ mine' = [mine EXCEPT ![t] = None]
      BY <1>8, <2>3 DEF AssertIdle, Retain, Leave, SetPc
    <3> QED
      BY <2>1, <3>1, SentMoves DEF instVars
  <2> QED
    BY <2>2, <2>3
<1>9. ASSUME NEW t \in Threads, Connect(t) PROVE SentInv'
  <2>1. pc[t] = "connect" /\ UNCHANGED <<unit, work, hard, seen, residue>>
    BY <1>9 DEF Connect
  <2>2. CASE Retain(t) /\ UNCHANGED <<conn, queue, wire>>
    <3>1. pc' = [pc EXCEPT ![t] = "rest"] /\ mine' = [mine EXCEPT ![t] = None]
      BY <2>2 DEF Retain, Leave, SetPc
    <3> QED
      BY <2>1, <2>2, <3>1, SentMoves
  <2>3. CASE ~(Retain(t) /\ UNCHANGED <<conn, queue, wire>>)
    <3>1. PICK k \in Conns : /\ conn[k] = "free" /\ conn' = [conn EXCEPT ![k] = "queued"]
                             /\ mine' = [mine EXCEPT ![t] = k]
                             /\ wire' = [wire EXCEPT ![k] = @ \cup {"HELLO"}]
                             /\ pc' = [pc EXCEPT ![t] = "ready"]
      BY <1>9, <2>3 DEF Connect, Write, SetPc
    <3>2. \A j \in Conns : "REQUEST" \in wire[j] => ~Occupied(j)
      <4>1. t \in Holders /\ mine[t] = None
        BY <2>1 DEF Holders, MineInv, InExchange
      <4> QED
        BY <2>1, <4>1, WorkerServiceAssumption DEF SentInv, Conns
    <3>3. \A j \in Conns : /\ Occupied(j)' <=> Occupied(j)
                           /\ "REQUEST" \in wire'[j] <=> "REQUEST" \in wire[j]
                           /\ "RESULT" \in wire'[j] <=> "RESULT" \in wire[j]
      BY <2>1, <3>1 DEF Occupied, Alive, TypeOK
    <3>4. ASSUME NEW u \in Threads, pc'[u] = "send"
          PROVE  conn'[mine'[u]] = "accepted"
      <4>1. u # t /\ pc[u] = "send" /\ mine'[u] = mine[u] /\ mine[u] \in Conns
        BY <3>1, <3>4 DEF TypeOK, MineInv, InExchange
      <4> QED
        BY <2>1, <3>1, <4>1 DEF SentInv, TypeOK
    <3> QED
      BY <2>1, <3>2, <3>3, <3>4 DEF SentInv
  <2> QED
    BY <2>2, <2>3
<1>10. ASSUME NEW t \in Threads, ReadReady(t) PROVE SentInv'
  <2>1. pc' = [pc EXCEPT ![t] = "bind"] /\ mine' = mine /\ UNCHANGED instVars
    BY <1>10 DEF ReadReady, SetPc
  <2> QED
    BY <1>10, <2>1, SentMoves DEF ReadReady, instVars
<1>11. ASSUME NEW t \in Threads, Bind(t) PROVE SentInv'
  <2>1. /\ pc' = [pc EXCEPT ![t] = "send"] /\ mine' = mine /\ UNCHANGED instVars
        /\ pc[t] = "bind" /\ Alive(mine[t])
    BY <1>11 DEF Bind, SetPc
  <2>2. mine[t] \in Conns /\ conn[mine[t]] = "accepted"
    BY <2>1 DEF MineInv, InExchange, QueueInv, Occupied
  <2>3. \A u \in Threads : u # t => pc'[u] = pc[u]
    BY <2>1 DEF TypeOK
  <2>4. \A u \in Holders' : u \in Holders /\ (pc'[u] # "assert" => pc[u] # "assert")
    BY <2>1, <2>3 DEF Holders, TypeOK
  <2>5. \A k \in Conns : Occupied(k)' <=> Occupied(k)
    BY <2>1 DEF Occupied, Alive, instVars
  <2> QED
    BY <2>1, <2>2, <2>3, <2>4, <2>5 DEF SentInv, instVars
<1>12. ASSUME NEW t \in Threads, Send(t) PROVE SentInv'
  <2>1. /\ pc[t] = "send" /\ pc' = [pc EXCEPT ![t] = "result"] /\ mine[t] \in Conns
        /\ wire' = [wire EXCEPT ![mine[t]] = @ \cup {"REQUEST", "CoreEOF"}]
        /\ UNCHANGED <<mine, conn, unit, work, hard, seen, residue>>
    BY <1>12 DEF Send, SetPc, MineInv, InExchange
  <2>2. \A u \in Holders' : u = t
    <3>1. t \in Holders /\ \A u \in Holders' : u \in Holders
      BY <2>1 DEF Holders, TypeOK
    <3> QED
      BY <3>1, OneHolder DEF LeaseExclusive
  <2>3. \A k \in Conns : /\ Occupied(k)' <=> Occupied(k)
                         /\ k # mine[t] => wire'[k] = wire[k]
                         /\ "RESULT" \in wire'[k] <=> "RESULT" \in wire[k]
                         /\ "REQUEST" \in wire[k] => "REQUEST" \in wire'[k]
    BY <2>1 DEF Occupied, Alive, TypeOK
  <2>4. \A k \in Conns : "REQUEST" \in wire'[k] /\ Occupied(k) => mine[t] = k
    <3>1. t \in Holders
      BY <2>1 DEF Holders
    <3> QED
      BY <2>1, <2>3, <3>1 DEF SentInv
  <2>5. \A u \in Threads : pc'[u] = "send" => pc[u] = "send"
    BY <2>1 DEF TypeOK
  <2> QED
    BY <2>1, <2>2, <2>3, <2>4, <2>5 DEF SentInv
<1>13. ASSUME NEW t \in Threads, ReadResult(t) PROVE SentInv'
  <2>1. pc' = [pc EXCEPT ![t] = "eof"] /\ mine' = mine /\ UNCHANGED instVars
    BY <1>13 DEF ReadResult, SetPc
  <2> QED
    BY <1>13, <2>1, SentMoves DEF ReadResult, instVars
<1>14. ASSUME NEW t \in Threads, ExpectEof(t) PROVE SentInv'
  <2>1. /\ pc' = [pc EXCEPT ![t] = "await"] /\ mine' = mine /\ mine[t] \in Conns
        /\ wire' = [wire EXCEPT ![mine[t]] = @ \cup {"CoreEOF"}]
    BY <1>14 DEF ExpectEof, SetPc, CloseConnection, Write, MineInv, InExchange
  <2>2. \A k \in Conns : /\ "REQUEST" \in wire'[k] <=> "REQUEST" \in wire[k]
                         /\ "RESULT" \in wire'[k] <=> "RESULT" \in wire[k]
    BY <2>1 DEF TypeOK
  <2> QED
    BY <1>14, <2>1, <2>2, SentMoves DEF ExpectEof
<1>15. ASSUME NEW t \in Threads, ExchangeFails(t) PROVE SentInv'
  <2>1. /\ mine[t] \in Conns /\ wire' = [wire EXCEPT ![mine[t]] = @ \cup {"CoreEOF"}]
        /\ pc[t] \notin {"rest", "preflight", "open", "lock", "verify", "assert"}
        /\ UNCHANGED <<conn, unit, work, hard, seen, residue>>
    BY <1>15 DEF ExchangeFails, CloseConnection, Write, MineInv, InExchange
  <2>2. \A k \in Conns : /\ "REQUEST" \in wire'[k] <=> "REQUEST" \in wire[k]
                         /\ "RESULT" \in wire'[k] <=> "RESULT" \in wire[k]
    BY <2>1 DEF TypeOK
  <2>3. CASE bound[t]
    <3>1. pc' = [pc EXCEPT ![t] = "await"] /\ mine' = mine
      BY <1>15, <2>3 DEF ExchangeFails, SetPc
    <3> QED
      BY <2>1, <2>2, <3>1, SentMoves
  <2>4. CASE ~bound[t]
    <3>1. pc' = [pc EXCEPT ![t] = "rest"] /\ mine' = [mine EXCEPT ![t] = None]
      BY <1>15, <2>4 DEF ExchangeFails, Retain, Leave, SetPc
    <3> QED
      BY <2>1, <2>2, <3>1, SentMoves
  <2> QED
    BY <2>3, <2>4
<1>16. ASSUME NEW t \in Threads, Confirm(t) PROVE SentInv'
  <2>1. /\ pc' = [pc EXCEPT ![t] = "rest"] /\ mine' = [mine EXCEPT ![t] = None]
        /\ UNCHANGED instVars
    BY <1>16 DEF Confirm, Leave, SetPc
  <2> QED
    BY <2>1, SentMoves DEF instVars
<1>17. ASSUME NEW t \in Threads, AwaitExpires(t) PROVE SentInv'
  <2>1. /\ pc' = [pc EXCEPT ![t] = "rest"] /\ mine' = [mine EXCEPT ![t] = None]
        /\ UNCHANGED instVars
    BY <1>17 DEF AwaitExpires, Retain, Leave, SetPc
  <2> QED
    BY <2>1, SentMoves DEF instVars
<1>18. ASSUME NEW k \in Conns, WorkerReady(k) PROVE SentInv'
  <2>1. \A j \in Conns : Occupied(j)' => Occupied(j)
    BY <1>18, OccupiedFalls DEF InstanceStep
  <2>2. UNCHANGED <<pc, mine, conn, hard>> /\ Holders' = Holders
    BY <1>18 DEF WorkerReady, coreVars, Holders
  <2>3. \A j \in Conns : /\ "REQUEST" \in wire'[j] <=> "REQUEST" \in wire[j]
                         /\ seen'[j] => "REQUEST" \in wire[j]
                         /\ work'[j] \in {"eof", "sent"} => seen'[j]
                         /\ "RESULT" \in wire'[j] => seen'[j] /\ work'[j] \in {"sent", "gone"}
    BY <1>18 DEF WorkerReady, Write, SentInv, Alive, TypeOK
  <2> QED
    BY <2>1, <2>2, <2>3 DEF SentInv
<1>19. ASSUME NEW k \in Conns, WorkerRequest(k) PROVE SentInv'
  <2>1. \A j \in Conns : Occupied(j)' => Occupied(j)
    BY <1>19, OccupiedFalls DEF InstanceStep
  <2>2. UNCHANGED <<pc, mine, conn, hard>> /\ Holders' = Holders
    BY <1>19 DEF WorkerRequest, coreVars, Holders
  <2>3. \A j \in Conns : /\ "REQUEST" \in wire'[j] <=> "REQUEST" \in wire[j]
                         /\ seen'[j] => "REQUEST" \in wire[j]
                         /\ work'[j] \in {"eof", "sent"} => seen'[j]
                         /\ "RESULT" \in wire'[j] => seen'[j] /\ work'[j] \in {"sent", "gone"}
    BY <1>19 DEF WorkerRequest, SentInv, Alive, TypeOK
  <2> QED
    BY <2>1, <2>2, <2>3 DEF SentInv
<1>20. ASSUME NEW k \in Conns, WorkerRun(k) PROVE SentInv'
  <2>1. \A j \in Conns : Occupied(j)' => Occupied(j)
    BY <1>20, OccupiedFalls DEF InstanceStep
  <2>2. UNCHANGED <<pc, mine, conn, hard>> /\ Holders' = Holders
    BY <1>20 DEF WorkerRun, coreVars, Holders
  <2>3. \A j \in Conns : /\ "REQUEST" \in wire'[j] <=> "REQUEST" \in wire[j]
                         /\ seen'[j] => "REQUEST" \in wire[j]
                         /\ work'[j] \in {"eof", "sent"} => seen'[j]
                         /\ "RESULT" \in wire'[j] => seen'[j] /\ work'[j] \in {"sent", "gone"}
    BY <1>20 DEF WorkerRun, Write, SentInv, Alive, TypeOK
  <2> QED
    BY <2>1, <2>2, <2>3 DEF SentInv
<1>21. ASSUME NEW k \in Conns, WorkerExit(k) PROVE SentInv'
  <2>1. \A j \in Conns : Occupied(j)' => Occupied(j)
    BY <1>21, OccupiedFalls DEF InstanceStep
  <2>2. UNCHANGED <<pc, mine, conn, hard>> /\ Holders' = Holders
    BY <1>21 DEF WorkerExit, coreVars, Holders
  <2>3. \A j \in Conns : /\ "REQUEST" \in wire'[j] <=> "REQUEST" \in wire[j]
                         /\ seen'[j] => "REQUEST" \in wire[j]
                         /\ work'[j] \in {"eof", "sent"} => seen'[j]
                         /\ "RESULT" \in wire'[j] => seen'[j] /\ work'[j] \in {"sent", "gone"}
    BY <1>21 DEF WorkerExit, Write, SentInv, Alive, TypeOK
  <2> QED
    BY <2>1, <2>2, <2>3 DEF SentInv
<1>22. ASSUME NEW k \in Conns, UnitEnds(k) PROVE SentInv'
  <2>1. \A j \in Conns : Occupied(j)' => Occupied(j)
    BY <1>22, OccupiedFalls DEF InstanceStep
  <2>2. UNCHANGED <<pc, mine, conn, hard>> /\ Holders' = Holders
    BY <1>22 DEF UnitEnds, coreVars, Holders
  <2>3. \A j \in Conns : /\ "REQUEST" \in wire'[j] <=> "REQUEST" \in wire[j]
                         /\ seen'[j] => "REQUEST" \in wire[j]
                         /\ work'[j] \in {"eof", "sent"} => seen'[j]
                         /\ "RESULT" \in wire'[j] => seen'[j] /\ work'[j] \in {"sent", "gone"}
    BY <1>22 DEF UnitEnds, SentInv, Alive, TypeOK
  <2> QED
    BY <2>1, <2>2, <2>3 DEF SentInv
<1>23. ASSUME NEW k \in Conns, Clean(k) PROVE SentInv'
  <2>1. \A j \in Conns : Occupied(j)' => Occupied(j)
    BY <1>23, OccupiedFalls DEF InstanceStep
  <2>2. UNCHANGED <<pc, mine, conn, hard>> /\ Holders' = Holders
    BY <1>23 DEF Clean, coreVars, Holders
  <2>3. \A j \in Conns : /\ "REQUEST" \in wire'[j] <=> "REQUEST" \in wire[j]
                         /\ seen'[j] => "REQUEST" \in wire[j]
                         /\ work'[j] \in {"eof", "sent"} => seen'[j]
                         /\ "RESULT" \in wire'[j] => seen'[j] /\ work'[j] \in {"sent", "gone"}
    BY <1>23 DEF Clean, SentInv, Alive, TypeOK
  <2> QED
    BY <2>1, <2>2, <2>3 DEF SentInv
<1>24. ASSUME NEW c \in Cores, Crash(c) PROVE SentInv'
  <2>1. \A k \in Conns : /\ "REQUEST" \in wire'[k] <=> "REQUEST" \in wire[k]
                         /\ "RESULT" \in wire'[k] <=> "RESULT" \in wire[k]
    BY <1>24 DEF Crash
  <2>2. /\ UNCHANGED <<conn, unit, work, hard, seen, residue>>
        /\ \A t \in Threads : pc'[t] # "rest" => pc'[t] = pc[t] /\ mine'[t] = mine[t]
    BY <1>24 DEF Crash
  <2>3. \A k \in Conns : Occupied(k)' <=> Occupied(k)
    BY <2>2 DEF Occupied, Alive
  <2>4. \A t \in Holders' : t \in Holders /\ mine'[t] = mine[t] /\ pc'[t] = pc[t]
    BY <2>2 DEF Holders
  <2> QED
    BY <2>1, <2>2, <2>3, <2>4 DEF SentInv
<1>25. ASSUME Accept PROVE SentInv'
  <2> DEFINE h == Head(queue)
  <2>1. h \in Conns /\ conn[h] = "queued"
    <3>1. h \in Conns /\ h = queue[1] /\ 1 \in 1..Len(queue)
      BY <1>25 DEF Accept, TypeOK
    <3> QED
      BY <3>1 DEF QueueInv
  <2>2. "REQUEST" \notin wire[h] /\ ~seen[h] /\ "RESULT" \notin wire[h]
    BY <2>1 DEF QueueInv, SentInv
  <2> HIDE DEF h
  <2>3. /\ UNCHANGED <<pc, mine, seen>> /\ Holders' = Holders
        /\ \A j \in Conns : j # h =>
             UNCHANGED <<conn[j], work[j], wire[j], unit[j], residue[j], hard[j]>>
    BY <1>25, <2>1 DEF Accept, Write, TypeOK, h, coreVars, Holders
  <2>4. /\ "REQUEST" \notin wire'[h] /\ "RESULT" \notin wire'[h]
        /\ work'[h] \in {work[h], "hello"}
    BY <1>25, <2>1, <2>2 DEF Accept, Write, TypeOK, h
  <2>5. \A j \in Conns : "REQUEST" \in wire'[j] =>
          /\ j # h /\ "REQUEST" \in wire[j] /\ (Occupied(j)' => Occupied(j))
    BY <2>3, <2>4 DEF Occupied, Alive
  <2>6. ASSUME NEW t \in Threads, pc'[t] = "send"
        PROVE  conn'[mine'[t]] = "accepted"
    <3>1. mine[t] \in Conns /\ conn[mine[t]] = "accepted"
      BY <2>3, <2>6 DEF SentInv, MineInv, InExchange
    <3> QED
      BY <2>1, <2>3, <3>1
  <2>7. \A j \in Conns : /\ seen'[j] => "REQUEST" \in wire'[j]
                         /\ work'[j] \in {"eof", "sent"} => seen'[j]
                         /\ "RESULT" \in wire'[j] => seen'[j] /\ work'[j] \in {"sent", "gone"}
    BY <2>2, <2>3, <2>4 DEF SentInv
  <2> QED
    BY <2>3, <2>5, <2>6, <2>7 DEF SentInv
<1>26. ASSUME HostChange PROVE SentInv'
  BY <1>26 DEF HostChange, SentInv, Occupied, Alive, Holders, coreVars, instVars
<1>27. ASSUME Provision PROVE SentInv'
  BY <1>27 DEF Provision, SentInv, Occupied, Alive, Holders, coreVars, instVars
<1> QED
  BY <1>1, <1>2, <1>3, <1>4, <1>5, <1>6, <1>7, <1>8, <1>9, <1>10, <1>11, <1>12, <1>13,
       <1>14, <1>15, <1>16, <1>17, <1>18, <1>19, <1>20, <1>21, <1>22, <1>23, <1>24,
       <1>25, <1>26, <1>27 DEF Next, CoreStep, InstanceStep

-----------------------------------------------------------------------------
(* The answers *)

\* What has been read and answered stays true while outputs, payloads read and frames
\* are kept and nothing new is left of an instance.
LEMMA GotKept ==
  ASSUME TypeOK, MineInv, GotInv, UNCHANGED <<out, seen>>,
         \A k \in Conns : Occupied(k)' => Occupied(k),
         \A k \in Conns : "RESULT" \in wire[k] => "RESULT" \in wire'[k],
         \A t \in Threads : got'[t] # None => got'[t] = got[t] /\ mine'[t] = mine[t],
         \A t \in Threads : answer'[t] \in {answer[t], None}
  PROVE  GotInv'
<1>1. \A t \in Threads : got[t] # None => mine[t] \in Conns
  BY DEF MineInv
<1>2. \A t \in Threads : answer[t] # None => answer[t].conn \in Conns
  BY DEF TypeOK
<1> QED
  BY <1>1, <1>2 DEF GotInv

\* Every step keeps what was read and answered true.
LEMMA GotPreserved ==
  ASSUME TypeOK, MineInv, QueueInv, SentInv, GotInv, [Next]_vars
  PROVE  GotInv'
<1>1. CASE UNCHANGED vars
  BY <1>1 DEF GotInv, Occupied, Alive, vars, hostVars, coreVars, instVars
<1>2. ASSUME NEW t \in Threads, Start(t) PROVE GotInv'
  <2>1. \A k \in Conns : Occupied(k)' <=> Occupied(k)
    BY <1>2 DEF Start, Occupied, Alive, instVars
  <2> QED
    BY <1>2, <2>1, GotKept DEF Start, TypeOK, instVars, coreVars
<1>3. ASSUME NEW t \in Threads, Call(t) PROVE GotInv'
  <2>1. \A k \in Conns : Occupied(k)' <=> Occupied(k)
    BY <1>3 DEF Call, Occupied, Alive, instVars
  <2> QED
    BY <1>3, <2>1, GotKept DEF Call, TypeOK, instVars, coreVars
<1>4. ASSUME NEW t \in Threads, Preflight(t) PROVE GotInv'
  <2>1. \A k \in Conns : Occupied(k)' <=> Occupied(k)
    BY <1>4 DEF Preflight, Occupied, Alive, instVars
  <2> QED
    BY <1>4, <2>1, GotKept DEF Preflight, TypeOK, instVars, coreVars
<1>5. ASSUME NEW t \in Threads, Open(t) PROVE GotInv'
  <2>1. \A k \in Conns : Occupied(k)' <=> Occupied(k)
    BY <1>5 DEF Open, Occupied, Alive, instVars
  <2> QED
    BY <1>5, <2>1, GotKept DEF Open, TypeOK, instVars, coreVars
<1>6. ASSUME NEW t \in Threads, Lock(t) PROVE GotInv'
  <2>1. \A k \in Conns : Occupied(k)' <=> Occupied(k)
    BY <1>6 DEF Lock, Occupied, Alive, instVars
  <2> QED
    BY <1>6, <2>1, GotKept DEF Lock, TypeOK, instVars, coreVars
<1>7. ASSUME NEW t \in Threads, Verify(t) PROVE GotInv'
  <2>1. \A k \in Conns : Occupied(k)' <=> Occupied(k)
    BY <1>7 DEF Verify, Occupied, Alive, instVars
  <2> QED
    BY <1>7, <2>1, GotKept DEF Verify, TypeOK, instVars, coreVars
<1>8. ASSUME NEW t \in Threads, AssertIdle(t) PROVE GotInv'
  <2>1. \A k \in Conns : Occupied(k)' <=> Occupied(k)
    BY <1>8 DEF AssertIdle, Occupied, Alive, instVars
  <2>2. \A u \in Threads : got'[u] # None => got'[u] = got[u] /\ mine'[u] = mine[u]
    <3>1. CASE Leave(t)
      BY <3>1 DEF Leave, TypeOK
    <3>2. CASE ~Leave(t)
      BY <1>8, <3>2 DEF AssertIdle, Retain
    <3> QED
      BY <3>1, <3>2
  <2>3. UNCHANGED <<out, seen, wire, answer>>
    BY <1>8 DEF AssertIdle, instVars
  <2> QED
    BY <1>8, <2>1, <2>2, <2>3, GotKept
<1>9. ASSUME NEW t \in Threads, Connect(t) PROVE GotInv'
  <2>1. \A k \in Conns : Occupied(k)' <=> Occupied(k)
    BY <1>9 DEF Connect, Occupied, Alive
  <2>2. \A k \in Conns : "RESULT" \in wire[k] => "RESULT" \in wire'[k]
    <3>1. wire' = wire \/ \E k \in Conns : wire' = [wire EXCEPT ![k] = @ \cup {"HELLO"}]
      BY <1>9 DEF Connect, Write
    <3> QED
      BY <3>1 DEF TypeOK
  <2>3. got[t] = None
    BY <1>9 DEF Connect, MineInv, InExchange
  <2>4. \A u \in Threads : got'[u] # None => got'[u] = got[u] /\ mine'[u] = mine[u]
    BY <1>9, <2>3 DEF Connect, Retain, Leave, TypeOK
  <2> QED
    BY <1>9, <2>1, <2>2, <2>4, GotKept DEF Connect
<1>10. ASSUME NEW t \in Threads, ReadReady(t) PROVE GotInv'
  <2>1. \A k \in Conns : Occupied(k)' <=> Occupied(k)
    BY <1>10 DEF ReadReady, Occupied, Alive, instVars
  <2> QED
    BY <1>10, <2>1, GotKept DEF ReadReady, TypeOK, instVars, coreVars
<1>11. ASSUME NEW t \in Threads, Bind(t) PROVE GotInv'
  <2>1. \A k \in Conns : Occupied(k)' <=> Occupied(k)
    BY <1>11 DEF Bind, Occupied, Alive, instVars
  <2> QED
    BY <1>11, <2>1, GotKept DEF Bind, TypeOK, instVars, coreVars
<1>12. ASSUME NEW t \in Threads, Send(t) PROVE GotInv'
  <2>1. \A k \in Conns : Occupied(k)' <=> Occupied(k)
    BY <1>12 DEF Send, Occupied, Alive
  <2>2. \A k \in Conns : "RESULT" \in wire[k] => "RESULT" \in wire'[k]
    BY <1>12 DEF Send, TypeOK
  <2>3. \A u \in Threads : got'[u] # None => got'[u] = got[u] /\ mine'[u] = mine[u]
    BY <1>12 DEF Send, TypeOK
  <2> QED
    BY <1>12, <2>1, <2>2, <2>3, GotKept DEF Send
<1>13. ASSUME NEW t \in Threads, ReadResult(t) PROVE GotInv'
  <2>1. /\ got' = [got EXCEPT ![t] = out[mine[t]]] /\ "RESULT" \in wire[mine[t]]
        /\ UNCHANGED <<mine, answer, instVars>>
    BY <1>13 DEF ReadResult
  <2>2. \A k \in Conns : Occupied(k)' <=> Occupied(k)
    BY <2>1 DEF Occupied, Alive, instVars
  <2>3. \A u \in Threads : answer[u] # None => answer[u].conn \in Conns
    BY DEF TypeOK
  <2> QED
    BY <2>1, <2>2, <2>3 DEF GotInv, TypeOK, instVars
<1>14. ASSUME NEW t \in Threads, ExpectEof(t) PROVE GotInv'
  <2>1. \A k \in Conns : Occupied(k)' <=> Occupied(k)
    BY <1>14 DEF ExpectEof, Occupied, Alive
  <2>2. \A k \in Conns : "RESULT" \in wire[k] => "RESULT" \in wire'[k]
    BY <1>14 DEF ExpectEof, CloseConnection, Write, TypeOK
  <2>3. \A u \in Threads : got'[u] # None => got'[u] = got[u] /\ mine'[u] = mine[u]
    BY <1>14 DEF ExpectEof, TypeOK
  <2> QED
    BY <1>14, <2>1, <2>2, <2>3, GotKept DEF ExpectEof
<1>15. ASSUME NEW t \in Threads, ExchangeFails(t) PROVE GotInv'
  <2>1. \A k \in Conns : Occupied(k)' <=> Occupied(k)
    BY <1>15 DEF ExchangeFails, Occupied, Alive
  <2>2. \A k \in Conns : "RESULT" \in wire[k] => "RESULT" \in wire'[k]
    BY <1>15 DEF ExchangeFails, CloseConnection, Write, TypeOK
  <2>3. \A u \in Threads : got'[u] # None => got'[u] = got[u] /\ mine'[u] = mine[u]
    BY <1>15 DEF ExchangeFails, Retain, Leave, TypeOK
  <2> QED
    BY <1>15, <2>1, <2>2, <2>3, GotKept DEF ExchangeFails
<1>16. ASSUME NEW t \in Threads, Confirm(t) PROVE GotInv'
  <2> DEFINE a == IF got[t] = None THEN None ELSE [conn |-> mine[t], out |-> got[t]]
  <2>1. /\ mine[t] \in Conns /\ Ended(mine[t]) /\ UNCHANGED instVars
        /\ answer' = [answer EXCEPT ![t] = a] /\ got' = [got EXCEPT ![t] = None]
        /\ mine' = [mine EXCEPT ![t] = None]
    BY <1>16 DEF Confirm, Leave, MineInv
  <2>2. \A k \in Conns : Occupied(k)' <=> Occupied(k)
    BY <2>1 DEF Occupied, Alive, instVars
  <2>3. ~Occupied(mine[t])
    BY <2>1 DEF Ended, UnitEnded, Occupied
  <2>4. got[t] # None => out[mine[t]] = got[t] /\ seen[mine[t]]
    BY <2>1 DEF GotInv, SentInv
  <2>5. ASSUME NEW u \in Threads, answer'[u] # None
        PROVE  \E k \in Conns : /\ answer'[u].conn = k /\ out'[k] = answer'[u].out
                                /\ seen'[k] /\ ~Occupied(k)'
    <3>1. CASE u = t
      <4>1. answer'[u] = [conn |-> mine[t], out |-> got[t]] /\ got[t] # None
        BY <2>1, <2>5, <3>1 DEF TypeOK
      <4>2. answer'[u].conn = mine[t] /\ answer'[u].out = got[t]
        BY <4>1
      <4> QED
        BY <2>1, <2>2, <2>3, <2>4, <4>1, <4>2 DEF instVars
    <3>2. CASE u # t
      <4>1. answer'[u] = answer[u] /\ answer[u].conn \in Conns
        BY <2>1, <2>5, <3>2 DEF TypeOK
      <4> QED
        BY <2>1, <2>2, <2>5, <4>1 DEF GotInv, instVars
    <3> QED
      BY <3>1, <3>2
  <2>6. ASSUME NEW u \in Threads, got'[u] # None
        PROVE  "RESULT" \in wire'[mine'[u]] /\ got'[u] = out'[mine'[u]]
    BY <2>1, <2>6 DEF GotInv, TypeOK, instVars
  <2> QED
    BY <2>5, <2>6 DEF GotInv
<1>17. ASSUME NEW t \in Threads, AwaitExpires(t) PROVE GotInv'
  <2>1. \A k \in Conns : Occupied(k)' <=> Occupied(k)
    BY <1>17 DEF AwaitExpires, Occupied, Alive, instVars
  <2> QED
    BY <1>17, <2>1, GotKept DEF AwaitExpires, Leave, Retain, TypeOK, instVars, coreVars
<1>18. ASSUME NEW k \in Conns, WorkerReady(k) PROVE GotInv'
  <2>1. \A j \in Conns : Occupied(j)' => Occupied(j)
    BY <1>18, OccupiedFalls DEF InstanceStep
  <2>2. \A j \in Conns : "RESULT" \in wire[j] => "RESULT" \in wire'[j]
    BY <1>18 DEF WorkerReady, Write, TypeOK
  <2> QED
    BY <1>18, <2>1, <2>2, GotKept DEF WorkerReady, coreVars
<1>19. ASSUME NEW k \in Conns, WorkerRequest(k) PROVE GotInv'
  <2>1. \A j \in Conns : Occupied(j)' => Occupied(j)
    BY <1>19, OccupiedFalls DEF InstanceStep
  <2>2. /\ Occupied(k) /\ "RESULT" \notin wire[k] /\ UNCHANGED <<got, mine, answer>>
        /\ \A j \in Conns : j # k => UNCHANGED <<out[j], seen[j], wire[j]>>
    BY <1>19 DEF WorkerRequest, Occupied, Alive, SentInv, TypeOK, coreVars
  <2>3. \A t \in Threads : got[t] # None => mine[t] \in Conns
    BY DEF MineInv
  <2>4. \A t \in Threads : answer[t] # None => answer[t].conn \in Conns
    BY DEF TypeOK
  <2> QED
    BY <2>1, <2>2, <2>3, <2>4 DEF GotInv
<1>20. ASSUME NEW k \in Conns, WorkerRun(k) PROVE GotInv'
  <2>1. \A j \in Conns : Occupied(j)' => Occupied(j)
    BY <1>20, OccupiedFalls DEF InstanceStep
  <2>2. /\ Occupied(k) /\ "RESULT" \notin wire[k] /\ UNCHANGED <<got, mine, answer>>
        /\ \A j \in Conns : j # k => UNCHANGED <<out[j], seen[j], wire[j]>>
    BY <1>20 DEF WorkerRun, Write, Occupied, Alive, SentInv, TypeOK, coreVars
  <2>3. \A t \in Threads : got[t] # None => mine[t] \in Conns
    BY DEF MineInv
  <2>4. \A t \in Threads : answer[t] # None => answer[t].conn \in Conns
    BY DEF TypeOK
  <2> QED
    BY <2>1, <2>2, <2>3, <2>4 DEF GotInv
<1>21. ASSUME NEW k \in Conns, WorkerExit(k) PROVE GotInv'
  <2>1. \A j \in Conns : Occupied(j)' => Occupied(j)
    BY <1>21, OccupiedFalls DEF InstanceStep
  <2>2. \A j \in Conns : "RESULT" \in wire[j] => "RESULT" \in wire'[j]
    BY <1>21 DEF WorkerExit, Write, TypeOK
  <2> QED
    BY <1>21, <2>1, <2>2, GotKept DEF WorkerExit, coreVars
<1>22. ASSUME NEW k \in Conns, UnitEnds(k) PROVE GotInv'
  <2>1. \A j \in Conns : Occupied(j)' => Occupied(j)
    BY <1>22, OccupiedFalls DEF InstanceStep
  <2>2. \A j \in Conns : "RESULT" \in wire[j] => "RESULT" \in wire'[j]
    BY <1>22 DEF UnitEnds, TypeOK
  <2> QED
    BY <1>22, <2>1, <2>2, GotKept DEF UnitEnds, coreVars
<1>23. ASSUME NEW k \in Conns, Clean(k) PROVE GotInv'
  <2>1. \A j \in Conns : Occupied(j)' => Occupied(j)
    BY <1>23, OccupiedFalls DEF InstanceStep
  <2>2. \A j \in Conns : "RESULT" \in wire[j] => "RESULT" \in wire'[j]
    BY <1>23 DEF Clean, TypeOK
  <2> QED
    BY <1>23, <2>1, <2>2, GotKept DEF Clean, coreVars
<1>24. ASSUME NEW c \in Cores, Crash(c) PROVE GotInv'
  <2>1. \A k \in Conns : Occupied(k)' <=> Occupied(k)
    BY <1>24 DEF Crash, Occupied, Alive
  <2> QED
    BY <1>24, <2>1, GotKept DEF Crash
<1>25. ASSUME Accept PROVE GotInv'
  <2> DEFINE h == Head(queue)
  <2>1. h \in Conns /\ conn[h] = "queued"
    <3>1. h \in Conns /\ h = queue[1] /\ 1 \in 1..Len(queue)
      BY <1>25 DEF Accept, TypeOK
    <3> QED
      BY <3>1 DEF QueueInv
  <2>2. "RESULT" \notin wire[h] /\ ~seen[h]
    BY <2>1 DEF QueueInv, SentInv
  <2> HIDE DEF h
  <2>3. /\ UNCHANGED <<got, mine, answer, out, seen>>
        /\ \A j \in Conns : j # h => UNCHANGED <<work[j], wire[j], unit[j], residue[j]>>
    BY <1>25, <2>1 DEF Accept, Write, TypeOK, h, coreVars
  <2>4. \A j \in Conns : j # h => (Occupied(j)' <=> Occupied(j))
    BY <2>3 DEF Occupied, Alive
  <2>5. \A t \in Threads : got[t] # None => mine[t] \in Conns
    BY DEF MineInv
  <2>6. \A t \in Threads : answer[t] # None => answer[t].conn \in Conns
    BY DEF TypeOK
  <2> QED
    BY <2>2, <2>3, <2>4, <2>5, <2>6 DEF GotInv
<1>26. ASSUME HostChange PROVE GotInv'
  <2>1. \A k \in Conns : Occupied(k)' <=> Occupied(k)
    BY <1>26 DEF HostChange, Occupied, Alive, instVars
  <2> QED
    BY <1>26, <2>1, GotKept DEF HostChange, TypeOK, instVars
<1>27. ASSUME Provision PROVE GotInv'
  <2>1. \A k \in Conns : Occupied(k)' <=> Occupied(k)
    BY <1>27 DEF Provision, Occupied, Alive, instVars
  <2> QED
    BY <1>27, <2>1, GotKept DEF Provision, TypeOK, instVars, coreVars
<1> QED
  BY <1>1, <1>2, <1>3, <1>4, <1>5, <1>6, <1>7, <1>8, <1>9, <1>10, <1>11, <1>12, <1>13,
       <1>14, <1>15, <1>16, <1>17, <1>18, <1>19, <1>20, <1>21, <1>22, <1>23, <1>24,
       <1>25, <1>26, <1>27 DEF Next, CoreStep, InstanceStep

-----------------------------------------------------------------------------
(* The unit *)

\* A thread that leaves an exchange or goes on in it sees the same unit and the same
\* instance.
LEMMA UnitMoves ==
  ASSUME TypeOK, UnitInv, NEW t \in Threads, NEW s, pc' = [pc EXCEPT ![t] = s],
         UNCHANGED <<unitDef, since, conn, hard>>,
         \A u \in Threads : u # t => mine'[u] = mine[u] /\ bound'[u] = bound[u],
         bound'[t] => /\ bound[t] /\ mine'[t] = mine[t]
                      /\ s \in {"send", "result", "eof", "await"},
         s \notin {"rest", "preflight"} => pc[t] \notin {"rest", "preflight"},
         s \in InExchange \cup {"await"} =>
           pc[t] \in InExchange \cup {"await"} /\ mine'[t] = mine[t]
  PROVE  UnitInv'
<1>1. pc'[t] = s /\ \A u \in Threads : u # t => pc'[u] = pc[u]
  BY DEF TypeOK
<1> QED
  BY <1>1 DEF UnitInv

\* A thread whose call is over is bound to nothing.
LEMMA UnitLeaves ==
  ASSUME TypeOK, UnitInv, NEW t \in Threads, Leave(t),
         UNCHANGED <<unitDef, since, conn, hard>>
  PROVE  UnitInv'
<1>1. pc' = [pc EXCEPT ![t] = "rest"]
  BY DEF Leave, SetPc
<1>2. /\ ~bound'[t]
      /\ \A u \in Threads : u # t => mine'[u] = mine[u] /\ bound'[u] = bound[u]
  BY DEF Leave, TypeOK
<1> QED
  BY <1>1, <1>2, UnitMoves DEF InExchange

\* Every step keeps what a thread may think of the loaded unit.
LEMMA UnitPreserved ==
  ASSUME TypeOK, MineInv, BootInv, QueueInv, UnitInv, [Next]_vars
  PROVE  UnitInv'
<1>1. CASE UNCHANGED vars
  BY <1>1 DEF UnitInv, vars, hostVars, coreVars, instVars
<1>2. ASSUME NEW t \in Threads, Start(t) PROVE UnitInv'
  <2>1. /\ pc' = [pc EXCEPT ![t] = "preflight"] /\ mine' = mine /\ bound' = bound
        /\ UNCHANGED <<unitDef, since, conn, hard>>
    BY <1>2 DEF Start, SetPc, hostVars, instVars
  <2>2. ~bound[t]
    BY <1>2 DEF Start, BootInv, UnitInv
  <2> QED
    BY <2>1, <2>2, UnitMoves DEF InExchange
<1>3. ASSUME NEW t \in Threads, Call(t) PROVE UnitInv'
  <2>1. /\ pc' = [pc EXCEPT ![t] = "preflight"] /\ mine' = mine /\ bound' = bound
        /\ UNCHANGED <<unitDef, since, conn, hard>>
    BY <1>3 DEF Call, SetPc, hostVars, instVars
  <2>2. ~bound[t]
    BY <1>3 DEF Call, UnitInv
  <2> QED
    BY <2>1, <2>2, UnitMoves DEF InExchange
<1>4. ASSUME NEW t \in Threads, Preflight(t) PROVE UnitInv'
  <2>1. /\ mine' = mine /\ bound' = bound /\ ~bound[t]
        /\ UNCHANGED <<unitDef, conn, hard>>
        /\ \/ pc' = [pc EXCEPT ![t] = "open"] /\ unitDef
           \/ pc' = [pc EXCEPT ![t] = "rest"]
    BY <1>4 DEF Preflight, HostReady, FixedUnit, SetPc, UnitInv, hostVars, instVars
  <2>2. /\ pc'[t] \in {"open", "rest"} /\ (pc'[t] = "open" => unitDef)
        /\ \A u \in Threads : u # t => pc'[u] = pc[u]
    BY <2>1 DEF TypeOK
  <2>3. since'[t] = 0 /\ \A u \in Threads : u # t => since'[u] = since[u]
    BY <1>4 DEF Preflight, TypeOK
  <2> QED
    BY <2>1, <2>2, <2>3 DEF UnitInv, InExchange
<1>5. ASSUME NEW t \in Threads, Open(t) PROVE UnitInv'
  <2>1. /\ pc' = [pc EXCEPT ![t] = "lock"] /\ mine' = mine /\ bound' = bound
        /\ UNCHANGED <<unitDef, since, conn, hard>>
    BY <1>5 DEF Open, SetPc, hostVars, instVars
  <2>2. pc[t] = "open" /\ ~bound[t]
    BY <1>5 DEF Open, UnitInv
  <2> QED
    BY <2>1, <2>2, UnitMoves DEF InExchange
<1>6. ASSUME NEW t \in Threads, Lock(t) PROVE UnitInv'
  <2>1. PICK s \in {"verify", "rest"} : pc' = [pc EXCEPT ![t] = s]
    BY <1>6 DEF Lock, SetPc, GiveUpLease
  <2>2. mine' = mine /\ bound' = bound /\ UNCHANGED <<unitDef, since, conn, hard>>
    BY <1>6 DEF Lock, instVars
  <2>3. pc[t] = "lock" /\ ~bound[t]
    BY <1>6 DEF Lock, UnitInv
  <2> QED
    BY <2>1, <2>2, <2>3, UnitMoves DEF InExchange
<1>7. ASSUME NEW t \in Threads, Verify(t) PROVE UnitInv'
  <2>1. PICK s \in {"assert", "rest"} : pc' = [pc EXCEPT ![t] = s]
    BY <1>7 DEF Verify, SetPc, GiveUpLease
  <2>2. mine' = mine /\ bound' = bound /\ UNCHANGED <<unitDef, since, conn, hard>>
    BY <1>7 DEF Verify, instVars
  <2>3. pc[t] = "verify" /\ ~bound[t]
    BY <1>7 DEF Verify, UnitInv
  <2> QED
    BY <2>1, <2>2, <2>3, UnitMoves DEF InExchange
<1>8. ASSUME NEW t \in Threads, AssertIdle(t) PROVE UnitInv'
  <2>1. pc[t] = "assert" /\ ~bound[t] /\ UNCHANGED <<unitDef, since, conn, hard>>
    BY <1>8 DEF AssertIdle, UnitInv, instVars
  <2>2. CASE boot[CoreOf[t]] # "starting" /\ Idle
    <3>1. pc' = [pc EXCEPT ![t] = "connect"] /\ mine' = mine /\ bound' = bound
      BY <1>8, <2>2 DEF AssertIdle, SetPc
    <3> QED
      BY <2>1, <3>1, UnitMoves DEF InExchange
  <2>3. CASE ~(boot[CoreOf[t]] # "starting" /\ Idle)
    <3>1. Leave(t)
      BY <1>8, <2>3 DEF AssertIdle, Retain
    <3> QED
      BY <2>1, <3>1, UnitLeaves
  <2> QED
    BY <2>2, <2>3
<1>9. ASSUME NEW t \in Threads, Connect(t) PROVE UnitInv'
  <2>1. pc[t] = "connect" /\ ~bound[t] /\ UNCHANGED <<unitDef, since, hard>>
    BY <1>9 DEF Connect, UnitInv
  <2>2. CASE Retain(t) /\ UNCHANGED <<conn, queue, wire>>
    BY <2>1, <2>2, UnitLeaves DEF Retain
  <2>3. CASE ~(Retain(t) /\ UNCHANGED <<conn, queue, wire>>)
    <3>1. PICK k \in Conns : /\ conn[k] = "free" /\ conn' = [conn EXCEPT ![k] = "queued"]
                             /\ mine' = [mine EXCEPT ![t] = k]
                             /\ pc' = [pc EXCEPT ![t] = "ready"] /\ bound' = bound
      BY <1>9, <2>3 DEF Connect, SetPc
    <3>2. /\ pc'[t] = "ready" /\ mine'[t] = k /\ conn'[k] = "queued"
          /\ \A u \in Threads : u # t => pc'[u] = pc[u] /\ mine'[u] = mine[u]
      BY <3>1 DEF TypeOK
    <3>3. \A j \in Conns : conn'[j] = "accepted" => conn[j] = "accepted"
      BY <3>1 DEF TypeOK
    <3>4. \A u \in Threads : bound[u] => conn'[mine[u]] = "accepted"
      <4>1. \A u \in Threads : bound[u] => mine[u] \in Conns /\ mine[u] # k
        BY <3>1 DEF UnitInv, MineInv, InExchange
      <4> QED
        BY <3>1, <4>1 DEF UnitInv, TypeOK
    <3>5. \A u \in Threads : pc[u] \in InExchange \cup {"await"} => mine[u] \in Conns
      BY DEF MineInv
    <3> QED
      BY <2>1, <3>1, <3>2, <3>3, <3>4, <3>5 DEF UnitInv, InExchange
  <2> QED
    BY <2>2, <2>3
<1>10. ASSUME NEW t \in Threads, ReadReady(t) PROVE UnitInv'
  <2>1. /\ pc' = [pc EXCEPT ![t] = "bind"] /\ mine' = mine /\ bound' = bound
        /\ UNCHANGED <<unitDef, since, conn, hard>>
    BY <1>10 DEF ReadReady, SetPc, hostVars, instVars
  <2>2. pc[t] = "ready" /\ ~bound[t]
    BY <1>10 DEF ReadReady, UnitInv
  <2> QED
    BY <2>1, <2>2, UnitMoves DEF InExchange
<1>11. ASSUME NEW t \in Threads, Bind(t) PROVE UnitInv'
  <2>1. /\ pc' = [pc EXCEPT ![t] = "send"] /\ bound' = [bound EXCEPT ![t] = TRUE]
        /\ UNCHANGED <<mine, unitDef, since, conn, hard>>
    BY <1>11 DEF Bind, SetPc, hostVars, instVars
  <2>2. pc[t] = "bind" /\ Alive(mine[t]) /\ unitDef
    BY <1>11 DEF Bind, FixedUnit
  <2>3. mine[t] \in Conns /\ conn[mine[t]] = "accepted"
    BY <2>2 DEF MineInv, InExchange, QueueInv, Occupied
  <2>4. since[t] \in {0, 1, 2}
    BY DEF TypeOK
  <2>5. hard[mine[t]] \/ since[t] = 2
    BY <2>2, <2>3, <2>4 DEF UnitInv, InExchange
  <2>6. /\ pc'[t] = "send" /\ \A u \in Threads : u # t => pc'[u] = pc[u] /\ bound'[u] = bound[u]
    BY <2>1 DEF TypeOK
  <2> QED
    BY <2>1, <2>2, <2>3, <2>5, <2>6 DEF UnitInv, InExchange
<1>12. ASSUME NEW t \in Threads, Send(t) PROVE UnitInv'
  <2>1. /\ pc' = [pc EXCEPT ![t] = "result"] /\ mine' = mine /\ bound' = bound
        /\ UNCHANGED <<unitDef, since, conn, hard>> /\ pc[t] = "send"
    BY <1>12 DEF Send, SetPc, hostVars
  <2> QED
    BY <2>1, UnitMoves DEF InExchange
<1>13. ASSUME NEW t \in Threads, ReadResult(t) PROVE UnitInv'
  <2>1. /\ pc' = [pc EXCEPT ![t] = "eof"] /\ mine' = mine /\ bound' = bound
        /\ UNCHANGED <<unitDef, since, conn, hard>> /\ pc[t] = "result"
    BY <1>13 DEF ReadResult, SetPc, hostVars, instVars
  <2> QED
    BY <2>1, UnitMoves DEF InExchange
<1>14. ASSUME NEW t \in Threads, ExpectEof(t) PROVE UnitInv'
  <2>1. /\ pc' = [pc EXCEPT ![t] = "await"] /\ mine' = mine /\ bound' = bound
        /\ UNCHANGED <<unitDef, since, conn, hard>> /\ pc[t] = "eof"
    BY <1>14 DEF ExpectEof, SetPc, hostVars
  <2> QED
    BY <2>1, UnitMoves DEF InExchange
<1>15. ASSUME NEW t \in Threads, ExchangeFails(t) PROVE UnitInv'
  <2>1. pc[t] \in InExchange /\ UNCHANGED <<unitDef, since, conn, hard>>
    BY <1>15 DEF ExchangeFails
  <2>2. CASE bound[t]
    <3>1. pc' = [pc EXCEPT ![t] = "await"] /\ mine' = mine /\ bound' = bound
      BY <1>15, <2>2 DEF ExchangeFails, SetPc
    <3> QED
      BY <2>1, <3>1, UnitMoves DEF InExchange
  <2>3. CASE ~bound[t]
    <3>1. Leave(t)
      BY <1>15, <2>3 DEF ExchangeFails, Retain
    <3> QED
      BY <2>1, <3>1, UnitLeaves
  <2> QED
    BY <2>2, <2>3
<1>16. ASSUME NEW t \in Threads, Confirm(t) PROVE UnitInv'
  <2>1. Leave(t) /\ UNCHANGED <<unitDef, since, conn, hard>>
    BY <1>16 DEF Confirm, instVars
  <2> QED
    BY <2>1, UnitLeaves
<1>17. ASSUME NEW t \in Threads, AwaitExpires(t) PROVE UnitInv'
  <2>1. Leave(t) /\ UNCHANGED <<unitDef, since, conn, hard>>
    BY <1>17 DEF AwaitExpires, Retain, instVars
  <2> QED
    BY <2>1, UnitLeaves
<1>18. ASSUME NEW k \in Conns, WorkerReady(k) PROVE UnitInv'
  BY <1>18 DEF WorkerReady, UnitInv, hostVars, coreVars
<1>19. ASSUME NEW k \in Conns, WorkerRequest(k) PROVE UnitInv'
  BY <1>19 DEF WorkerRequest, UnitInv, hostVars, coreVars
<1>20. ASSUME NEW k \in Conns, WorkerRun(k) PROVE UnitInv'
  BY <1>20 DEF WorkerRun, UnitInv, hostVars, coreVars
<1>21. ASSUME NEW k \in Conns, WorkerExit(k) PROVE UnitInv'
  BY <1>21 DEF WorkerExit, UnitInv, hostVars, coreVars
<1>22. ASSUME NEW k \in Conns, UnitEnds(k) PROVE UnitInv'
  BY <1>22 DEF UnitEnds, UnitInv, hostVars, coreVars
<1>23. ASSUME NEW k \in Conns, Clean(k) PROVE UnitInv'
  BY <1>23 DEF Clean, UnitInv, hostVars, coreVars
<1>24. ASSUME NEW c \in Cores, Crash(c) PROVE UnitInv'
  <2>1. /\ UNCHANGED <<unitDef, since, conn, hard>>
        /\ \A u \in Threads : CoreOf[u] # c =>
             pc'[u] = pc[u] /\ mine'[u] = mine[u] /\ bound'[u] = bound[u]
        /\ \A u \in Threads : CoreOf[u] = c => pc'[u] = "rest" /\ ~bound'[u]
    BY <1>24 DEF Crash, TypeOK
  <2> QED
    BY <2>1 DEF UnitInv, InExchange
<1>25. ASSUME Accept PROVE UnitInv'
  <2> DEFINE h == Head(queue)
  <2>1. h \in Conns /\ conn[h] = "queued"
    <3>1. h \in Conns /\ h = queue[1] /\ 1 \in 1..Len(queue)
      BY <1>25 DEF Accept, TypeOK
    <3> QED
      BY <3>1 DEF QueueInv
  <2>2. /\ UNCHANGED <<pc, mine, bound, since, unitDef>>
        /\ \A j \in Conns : j # h => conn'[j] = conn[j] /\ hard'[j] = hard[j]
        /\ conn'[h] = "accepted" => hard'[h] = unitDef
    BY <1>25, <2>1 DEF Accept, TypeOK, hostVars, coreVars
  <2> HIDE DEF h
  <2>3. \A u \in Threads : bound[u] => mine[u] \in Conns /\ mine[u] # h
    BY <2>1 DEF UnitInv, MineInv, InExchange
  <2>4. \A u \in Threads : pc[u] \in InExchange \cup {"await"} => mine[u] \in Conns
    BY DEF MineInv
  <2>5. \A u \in Threads :
          bound[u] => conn'[mine[u]] = "accepted" /\ hard'[mine[u]] = hard[mine[u]]
    BY <2>2, <2>3 DEF UnitInv
  <2>6. ASSUME NEW u \in Threads, pc[u] \in InExchange \cup {"await"},
               conn'[mine[u]] = "accepted", since[u] = 0
        PROVE  hard'[mine[u]]
    <3>1. unitDef /\ mine[u] \in Conns
      BY <2>4, <2>6 DEF UnitInv, InExchange
    <3>2. CASE mine[u] = h
      BY <2>2, <2>6, <3>1, <3>2
    <3>3. CASE mine[u] # h
      <4>1. conn[mine[u]] = "accepted" /\ hard'[mine[u]] = hard[mine[u]]
        BY <2>2, <2>6, <3>1, <3>3
      <4> QED
        BY <2>6, <4>1 DEF UnitInv
    <3> QED
      BY <3>2, <3>3
  <2> QED
    BY <2>2, <2>5, <2>6 DEF UnitInv
<1>26. ASSUME HostChange PROVE UnitInv'
  <2>1. UNCHANGED <<pc, mine, bound, conn, hard>>
    BY <1>26 DEF HostChange, instVars
  <2>2. CASE UNCHANGED <<unitDef, since>>
    BY <2>1, <2>2 DEF UnitInv
  <2>3. CASE ~UNCHANGED <<unitDef, since>>
    <3>1. /\ unitDef' = ~unitDef
          /\ since' = [u \in Threads |-> IF pc[u] \in {"rest", "preflight"} THEN 0
                                         ELSE IF since[u] = 0 THEN 1 ELSE 2]
      BY <1>26, <2>3 DEF HostChange
    <3>2. ASSUME NEW u \in Threads
          PROVE  /\ pc[u] \notin {"rest", "preflight"} =>
                      since'[u] # 0 /\ (since'[u] = 1 => since[u] = 0)
                 /\ pc[u] \notin {"rest", "preflight"} /\ since[u] = 2 => since'[u] = 2
      BY <3>1
    <3> QED
      BY <2>1, <3>1, <3>2 DEF UnitInv, InExchange
  <2> QED
    BY <2>2, <2>3
<1>27. ASSUME Provision PROVE UnitInv'
  BY <1>27 DEF Provision, UnitInv, coreVars, instVars
<1> QED
  BY <1>1, <1>2, <1>3, <1>4, <1>5, <1>6, <1>7, <1>8, <1>9, <1>10, <1>11, <1>12, <1>13,
       <1>14, <1>15, <1>16, <1>17, <1>18, <1>19, <1>20, <1>21, <1>22, <1>23, <1>24,
       <1>25, <1>26, <1>27 DEF Next, CoreStep, InstanceStep

-----------------------------------------------------------------------------
(* The theorems *)

\* The inductive invariant.
ServiceInv ==
  /\ TypeOK /\ MineInv /\ BootInv /\ LeaseInv
  /\ QueueInv /\ SentInv /\ GotInv /\ UnitInv

\* Cores that are down, with free leases and no connection, satisfy the invariant.
LEMMA ServiceStarts == Init => ServiceInv
<1> SUFFICES ASSUME Init PROVE ServiceInv
  OBVIOUS
<1>1. TypeOK
  BY WorkerServiceAssumption DEF Init, TypeOK, Phases
<1>2. MineInv /\ BootInv /\ LeaseInv
  BY CoreOfThread DEF Init, MineInv, BootInv, LeaseInv, Holders, InExchange
<1>3. \A k \in Conns : ~Occupied(k) /\ wire[k] = {} /\ ~seen[k] /\ work[k] = "none"
  BY DEF Init, Occupied, Alive
<1>4. QueueInv /\ SentInv /\ GotInv
  <2>1. Len(queue) = 0 /\ Holders = {}
    BY DEF Init, Holders
  <2>2. QueueInv
    BY <1>3, <2>1 DEF QueueInv
  <2>3. SentInv
    BY <1>3, <2>1 DEF SentInv, Init
  <2>4. GotInv
    BY DEF GotInv, Init
  <2> QED
    BY <2>2, <2>3, <2>4
<1>5. UnitInv
  BY DEF Init, UnitInv, InExchange
<1> QED
  BY <1>1, <1>2, <1>4, <1>5 DEF ServiceInv

\* The inductive invariant of the dispatching Cores holds in every behaviour: threads
\* keep to their exchanges, a lease is locked by the one thread that opened it and
\* verified against the host reference, a payload is with one instance, a bound
\* instance is hardened unless the loaded unit changed twice since the preflight of
\* its call, and an answer is what a vanished instance wrote.
THEOREM ServiceInductive == Spec => []ServiceInv
<1>1. ServiceInv /\ [Next]_vars => ServiceInv'
  BY TypePreserved, MinePreserved, BootPreserved, LeasePreserved, QueuePreserved,
     SentPreserved, GotPreserved, UnitPreserved DEF ServiceInv
<1> QED
  BY ServiceStarts, <1>1, PTL DEF Spec

\* One thread dispatches at a time on the host, and a Core that refuses later calls
\* holds the lease that made it refuse: _run_worker's lease, flock, the reference
\* check of acquire and _pending, for any number of Cores, threads and replaced lease files.
THEOREM DispatchIsExclusive == Spec => []OneDispatcher
<1>1. ServiceInv => OneDispatcher
  BY OneHolder DEF ServiceInv, OneDispatcher
<1> QED
  BY ServiceInductive, <1>1, PTL

\* At most one instance works on a payload; the one a call binds is hardened, although
\* preflight and bind read only what is loaded when they look, unless the unit changed
\* twice in the course of that call; and what a call returns was computed by its own
\* instance, of which nothing is left: bind, the two idle checks and await_end,
\* whatever Core crashes or gives up in between.
THEOREM PayloadsAreSafe == Spec => []PayloadSafe
<1>1. ASSUME ServiceInv PROVE PayloadSafe
  <2>1. \A k \in Conns : Remains(k) => "REQUEST" \in wire[k] /\ Occupied(k)
    BY <1>1 DEF ServiceInv, SentInv, Remains, Occupied
  <2>2. PayloadExclusive
    BY <1>1, <2>1 DEF ServiceInv, SentInv, PayloadExclusive
  <2>3. HardenedPayload
    BY <1>1 DEF ServiceInv, UnitInv, HardenedPayload
  <2>4. AnswerConfirmed
    BY <1>1 DEF ServiceInv, GotInv, AnswerConfirmed, Remains, Occupied
  <2> QED
    BY <2>2, <2>3, <2>4 DEF PayloadSafe
<1> QED
  BY ServiceInductive, <1>1, PTL
=============================================================================

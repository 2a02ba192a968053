------------------------- MODULE RequestLocksProof -------------------------
(***************************************************************************)
(* Proofs about RequestLocks, for any number of threads and processes: the *)
(* connection of a process is used by one thread at a time, and the only   *)
(* circle of two threads that wait for each other is the known one.        *)
(*                                                                         *)
(* The inductive invariant says what the guard of AcquireLocal is for: a   *)
(* lock of a process is held by one of its threads at most.  That needs    *)
(* the depth of a thread to stay within its section, and an idle thread to *)
(* hold nothing.                                                           *)
(***************************************************************************)
EXTENDS RequestLocks, TLAPS

Sections == {Read, Available, Record, Admit}

\* The locks that live in a process; the audit lock is the database's.
LocalLocks == {"recorder", "connection", "orchestrator"}

TodoTyped == todo \in [Threads -> Seq(Sections)]
DepthTyped == depth \in [Threads -> 0..4]

\* A thread holds a beginning of its section, and nothing when it is idle.
DepthFits ==
  \A t \in Threads : /\ Busy(t) => depth[t] <= Len(Head(todo[t]))
                     /\ ~ Busy(t) => depth[t] = 0

\* A lock of a process is held by one of its threads at most.
LocalExclusive ==
  \A t, o \in Threads : \A l \in LocalLocks :
    t # o /\ Inst[t] = Inst[o] => ~ (Holds(t, l) /\ Holds(o, l))

LocksInv == TodoTyped /\ DepthTyped /\ DepthFits /\ LocalExclusive

-----------------------------------------------------------------------------
\* Every request is a sequence of sections.
LEMMA RequestsAreSections == Requests \subseteq Seq(Sections)
  BY DEF Requests, Run, Sections

\* The first section of a busy thread is one of the four.
LEMMA HeadIsSection ==
  ASSUME TodoTyped, NEW t \in Threads, Busy(t)
  PROVE  Head(todo[t]) \in Sections
  BY DEF TodoTyped, Busy

\* A section has at most four locks, the connection's among them.
LEMMA SectionShape ==
  ASSUME NEW s \in Sections
  PROVE  /\ Len(s) \in 1..4
         /\ \E n \in 1..Len(s) : s[n] = "connection"
         /\ \A n \in 1..Len(s) : s[n] \in LocalLocks \cup {"audit"}
<1>1. CASE s = Read
  BY <1>1 DEF Read, LocalLocks
<1>2. CASE s = Available
  BY <1>2 DEF Available, LocalLocks
<1>3. CASE s = Record
  BY <1>3 DEF Record, LocalLocks
<1>4. CASE s = Admit
  BY <1>4 DEF Admit, LocalLocks
<1> QED
  BY <1>1, <1>2, <1>3, <1>4 DEF Sections

-----------------------------------------------------------------------------
\* What a thread holds is decided by its own section and depth.
LEMMA HoldsKept ==
  ASSUME NEW o \in Threads, NEW l, todo'[o] = todo[o], depth'[o] = depth[o], Holds(o, l)'
  PROVE  Holds(o, l)
  BY DEF Holds, Busy

\* A thread at depth zero holds nothing.
LEMMA NothingHeld ==
  ASSUME NEW t \in Threads, NEW l, depth[t] = 0
  PROVE  ~ Holds(t, l)
  BY DEF Holds

\* A section left is held no longer, and the others are not touched.
LEMMA LeaveKeeps ==
  ASSUME LocksInv, NEW t \in Threads, NEW rest \in Seq(Sections), Leave(t, rest)
  PROVE  LocksInv'
<1>1. TodoTyped'
  BY DEF LocksInv, TodoTyped, Leave
<1>2. DepthTyped'
  BY DEF LocksInv, DepthTyped, Leave
<1>3. \A o \in Threads \ {t} : todo'[o] = todo[o] /\ depth'[o] = depth[o]
  BY DEF LocksInv, TodoTyped, DepthTyped, Leave
<1>4. depth'[t] = 0
  BY DEF LocksInv, DepthTyped, Leave
<1>5. DepthFits'
  <2> SUFFICES ASSUME NEW o \in Threads
               PROVE  /\ Busy(o)' => depth'[o] <= Len(Head(todo'[o]))
                      /\ ~ Busy(o)' => depth'[o] = 0
    BY DEF DepthFits
  <2>1. CASE o = t
    <3>1. ASSUME Busy(o)' PROVE Len(Head(todo'[o])) \in 1..4
      <4>1. Head(todo'[o]) \in Sections
        BY <1>1, <3>1 DEF TodoTyped, Busy
      <4> QED
        BY <4>1, SectionShape
    <3> QED
      BY <2>1, <1>4, <3>1
  <2>2. CASE o # t
    BY <2>2, <1>3 DEF LocksInv, DepthFits, Busy
  <2> QED
    BY <2>1, <2>2
<1>6. LocalExclusive'
  <2> SUFFICES ASSUME NEW u \in Threads, NEW o \in Threads, NEW l \in LocalLocks,
                      u # o, Inst[u] = Inst[o], Holds(u, l)', Holds(o, l)'
               PROVE  FALSE
    BY DEF LocalExclusive
  <2>1. ~ Holds(t, l)'
    BY <1>4 DEF Holds
  <2>2. u # t /\ o # t
    BY <2>1
  <2>3. Holds(u, l) /\ Holds(o, l)
    BY <1>3, <2>2, HoldsKept
  <2> QED
    BY <2>3 DEF LocksInv, LocalExclusive
<1> QED
  BY <1>1, <1>2, <1>5, <1>6 DEF LocksInv

\* A lock is taken only when no thread of the process has it.
LEMMA AcquireKeeps ==
  ASSUME LocksInv, NEW t \in Threads, Busy(t), ~ Inside(t), todo' = todo,
         depth' = [depth EXCEPT ![t] = @ + 1],
         Wanted(t) \in LocalLocks =>
           ~ \E o \in Threads \ {t} : Inst[o] = Inst[t] /\ Holds(o, Wanted(t))
  PROVE  LocksInv'
<1>1. TodoTyped'
  BY DEF LocksInv, TodoTyped
<1>2. /\ Len(Head(todo[t])) \in 1..4
      /\ depth[t] \in 0..4
      /\ depth[t] < Len(Head(todo[t]))
  <2>1. Len(Head(todo[t])) \in 1..4
    BY HeadIsSection, SectionShape DEF LocksInv
  <2>2. depth[t] \in 0..4
    BY DEF LocksInv, DepthTyped
  <2>3. depth[t] <= Len(Head(todo[t])) /\ depth[t] # Len(Head(todo[t]))
    BY DEF LocksInv, DepthFits, Inside
  <2> QED
    BY <2>1, <2>2, <2>3
<1>3. /\ depth'[t] = depth[t] + 1
      /\ \A o \in Threads \ {t} : todo'[o] = todo[o] /\ depth'[o] = depth[o]
  BY DEF LocksInv, DepthTyped
<1>4. DepthTyped'
  <2>1. depth[t] + 1 \in 0..4
    <3>1. ASSUME NEW n \in 1..4, NEW d \in 0..4, d < n PROVE d + 1 \in 0..4
      BY ONLY <3>1
    <3> QED
      BY ONLY <1>2, <3>1
  <2>2. depth \in [Threads -> 0..4]
    BY DEF LocksInv, DepthTyped
  <2> QED
    BY <2>1, <2>2 DEF DepthTyped
<1>5. DepthFits'
  <2> SUFFICES ASSUME NEW o \in Threads
               PROVE  /\ Busy(o)' => depth'[o] <= Len(Head(todo'[o]))
                      /\ ~ Busy(o)' => depth'[o] = 0
    BY DEF DepthFits
  <2>1. CASE o = t
    BY <2>1, <1>2, <1>3 DEF Busy
  <2>2. CASE o # t
    BY <2>2, <1>3 DEF LocksInv, DepthFits, Busy
  <2> QED
    BY <2>1, <2>2
<1>6. ASSUME NEW l, Holds(t, l)' PROVE Holds(t, l) \/ l = Wanted(t)
  <2>1. PICK n \in 1..(depth[t] + 1) : Head(todo[t])[n] = l
    BY <1>3, <1>6 DEF Holds
  <2>2. n \in 1..depth[t] \/ n = depth[t] + 1
    BY <1>2, <2>1
  <2> QED
    BY <2>1, <2>2 DEF Holds, Wanted
<1>7. LocalExclusive'
  <2>1. ASSUME NEW o \in Threads, NEW l \in LocalLocks, o # t, Inst[o] = Inst[t],
               Holds(t, l)', Holds(o, l)'
        PROVE  FALSE
    <3>1. Holds(o, l)
      BY <1>3, <2>1, HoldsKept
    <3>2. CASE Holds(t, l)
      BY <2>1, <3>1, <3>2 DEF LocksInv, LocalExclusive
    <3>3. CASE l = Wanted(t)
      BY <2>1, <3>1, <3>3
    <3> QED
      BY <1>6, <2>1, <3>2, <3>3
  <2> SUFFICES ASSUME NEW u \in Threads, NEW o \in Threads, NEW l \in LocalLocks,
                      u # o, Inst[u] = Inst[o], Holds(u, l)', Holds(o, l)'
               PROVE  FALSE
    BY DEF LocalExclusive
  <2>2. CASE u = t \/ o = t
    BY <2>1, <2>2
  <2>3. CASE u # t /\ o # t
    <3>1. Holds(u, l) /\ Holds(o, l)
      BY <1>3, <2>3, HoldsKept
    <3> QED
      BY <3>1 DEF LocksInv, LocalExclusive
  <2> QED
    BY <2>2, <2>3
<1> QED
  BY <1>1, <1>4, <1>5, <1>7 DEF LocksInv

\* An arriving request holds nothing yet.
LEMMA ArriveKeeps ==
  ASSUME LocksInv, NEW t \in Threads, NEW q \in Requests, Arrive(t, q)
  PROVE  LocksInv'
<1>1. q \in Seq(Sections)
  BY RequestsAreSections
<1>2. TodoTyped'
  BY <1>1 DEF LocksInv, TodoTyped, Arrive
<1>3. depth' = depth /\ depth[t] = 0
  BY DEF LocksInv, DepthFits, Arrive
<1>4. \A o \in Threads \ {t} : todo'[o] = todo[o] /\ depth'[o] = depth[o]
  BY DEF LocksInv, TodoTyped, Arrive
<1>5. DepthFits'
  <2> SUFFICES ASSUME NEW o \in Threads
               PROVE  /\ Busy(o)' => depth'[o] <= Len(Head(todo'[o]))
                      /\ ~ Busy(o)' => depth'[o] = 0
    BY DEF DepthFits
  <2>1. CASE o = t
    <3>1. ASSUME Busy(o)' PROVE Len(Head(todo'[o])) \in 1..4
      <4>1. Head(todo'[o]) \in Sections
        BY <1>2, <3>1 DEF TodoTyped, Busy
      <4> QED
        BY <4>1, SectionShape
    <3> QED
      BY <2>1, <1>3, <3>1
  <2>2. CASE o # t
    BY <2>2, <1>4 DEF LocksInv, DepthFits, Busy
  <2> QED
    BY <2>1, <2>2
<1>6. LocalExclusive'
  <2> SUFFICES ASSUME NEW u \in Threads, NEW o \in Threads, NEW l \in LocalLocks,
                      u # o, Inst[u] = Inst[o], Holds(u, l)', Holds(o, l)'
               PROVE  FALSE
    BY DEF LocalExclusive
  <2>1. ~ Holds(t, l)'
    BY <1>3 DEF Holds
  <2>2. u # t /\ o # t
    BY <2>1
  <2>3. Holds(u, l) /\ Holds(o, l)
    BY <1>4, <2>2, HoldsKept
  <2> QED
    BY <2>3 DEF LocksInv, LocalExclusive
<1> QED
  BY <1>2, <1>3, <1>5, <1>6 DEF LocksInv, DepthTyped

-----------------------------------------------------------------------------
\* Locks of a process are exclusive in every behaviour, whatever arrives, fails,
\* is refused or times out, and although the server may end a waiting session.
THEOREM LocksInductive == Spec => []LocksInv
<1>1. Init => LocksInv
  <2> SUFFICES ASSUME Init PROVE LocksInv
    OBVIOUS
  <2>1. TodoTyped /\ DepthTyped /\ DepthFits
    BY DEF Init, TodoTyped, DepthTyped, DepthFits, Busy
  <2>2. LocalExclusive
    BY DEF Init, LocalExclusive, Holds, Busy
  <2> QED
    BY <2>1, <2>2 DEF LocksInv
<1>2. LocksInv /\ [Next]_vars => LocksInv'
  <2> SUFFICES ASSUME LocksInv, [Next]_vars PROVE LocksInv'
    OBVIOUS
  <2>1. ASSUME todo' = todo, depth' = depth PROVE LocksInv'
    BY <2>1 DEF LocksInv, TodoTyped, DepthTyped, DepthFits, LocalExclusive, Busy, Holds
  <2>2. CASE UNCHANGED vars
    BY <2>1, <2>2 DEF vars
  <2>3. ASSUME NEW t \in Threads, NEW q \in Requests, Arrive(t, q) PROVE LocksInv'
    BY <2>3, ArriveKeeps
  <2>4. ASSUME NEW t \in Threads, AcquireLocal(t) PROVE LocksInv'
    BY <2>4, AcquireKeeps DEF AcquireLocal
  <2>5. ASSUME NEW t \in Threads, AcquireAudit(t) PROVE LocksInv'
    <3>1. Wanted(t) \notin LocalLocks
      BY <2>5 DEF AcquireAudit, LocalLocks
    <3> QED
      BY <2>5, <3>1, AcquireKeeps DEF AcquireAudit
  <2>6. ASSUME NEW t \in Threads, Finish(t) PROVE LocksInv'
    <3>1. Tail(todo[t]) \in Seq(Sections)
      BY <2>6 DEF LocksInv, TodoTyped, Finish, Inside, Busy
    <3> QED
      BY <2>6, <3>1, LeaveKeeps DEF Finish
  <2>7. ASSUME NEW t \in Threads, Fail(t) \/ LockTimeout(t) PROVE LocksInv'
    <3>1. << >> \in Seq(Sections) /\ Leave(t, << >>)
      BY <2>7 DEF Fail, LockTimeout
    <3> QED
      BY <3>1, LeaveKeeps
  <2>8. ASSUME NEW t \in Threads, Refuse(t) PROVE LocksInv'
    <3>1. <<Record>> \in Seq(Sections)
      BY DEF Sections
    <3> QED
      BY <2>8, <3>1, LeaveKeeps DEF Refuse
  <2>9. ASSUME NEW t \in Threads, SessionEnded(t) PROVE LocksInv'
    BY <2>1, <2>9 DEF SessionEnded
  <2> QED
    BY <2>2, <2>3, <2>4, <2>5, <2>6, <2>7, <2>8, <2>9 DEF Next, Step
<1> QED
  BY <1>1, <1>2, PTL DEF Spec

-----------------------------------------------------------------------------
\* What a waiting thread that holds a lock can be: the section tells which locks
\* it has and which one it wants.
LEMMA WaiterShape ==
  ASSUME LocksInv, NEW t \in Threads, NEW l, Busy(t), ~ Inside(t), Holds(t, l)
  PROVE  \/ /\ Head(todo[t]) = Available
            /\ Wanted(t) = "connection" /\ l = "orchestrator"
         \/ /\ Head(todo[t]) = Record
            /\ Wanted(t) \in {"connection", "audit"} /\ l \in {"recorder", "connection"}
            /\ Holds(t, "recorder")
         \/ /\ Head(todo[t]) = Admit
            /\ Wanted(t) \in {"connection", "audit", "orchestrator"}
            /\ l \in {"recorder", "connection", "audit"}
            /\ Holds(t, "recorder")
<1> DEFINE s == Head(todo[t])
           d == depth[t]
<1>1. s \in Sections
  BY HeadIsSection DEF LocksInv
<1>2. Len(s) \in 1..4 /\ d \in 0..4 /\ d <= Len(s) /\ d # Len(s)
  BY <1>1, SectionShape DEF LocksInv, DepthTyped, DepthFits, Inside
<1>3. PICK n \in 1..d : s[n] = l
  BY DEF Holds
<1>4. n \in Nat /\ 1 <= n /\ n <= d /\ d < Len(s)
  BY <1>2, <1>3
<1>5. Wanted(t) = s[d + 1]
  BY DEF Wanted
<1>6. s[1] = "recorder" => Holds(t, "recorder")
  <2>1. 1 \in 1..d
    BY <1>2, <1>4
  <2> QED
    BY <2>1 DEF Holds
<1> HIDE DEF s, d
<1>7. CASE s = Read
  <2>1. Len(s) = 1
    BY <1>7 DEF Read
  <2> QED
    BY <1>2, <1>4, <2>1
<1>8. CASE s = Available
  <2>1. Len(s) = 2 /\ s[1] = "orchestrator" /\ s[2] = "connection"
    BY <1>8 DEF Available
  <2>2. n = 1 /\ d = 1
    BY <1>2, <1>4, <2>1
  <2>3. l = "orchestrator" /\ Wanted(t) = "connection"
    BY <1>3, <1>5, <2>1, <2>2
  <2> QED
    BY <1>8, <2>3 DEF s
<1>9. CASE s = Record
  <2>1. Len(s) = 3 /\ s[1] = "recorder" /\ s[2] = "connection" /\ s[3] = "audit"
    BY <1>9 DEF Record
  <2>2. n \in {1, 2} /\ d \in {1, 2}
    BY <1>2, <1>4, <2>1
  <2>3. l \in {"recorder", "connection"} /\ Wanted(t) \in {"connection", "audit"}
    BY <1>3, <1>5, <2>1, <2>2
  <2> QED
    BY <1>6, <1>9, <2>1, <2>3 DEF s
<1>10. CASE s = Admit
  <2>1. /\ Len(s) = 4 /\ s[1] = "recorder" /\ s[2] = "connection" /\ s[3] = "audit"
        /\ s[4] = "orchestrator"
    BY <1>10 DEF Admit
  <2>2. n \in {1, 2, 3} /\ d \in {1, 2, 3}
    BY <1>2, <1>4, <2>1
  <2>3. /\ l \in {"recorder", "connection", "audit"}
        /\ Wanted(t) \in {"connection", "audit", "orchestrator"}
    BY <1>3, <1>5, <2>1, <2>2
  <2> QED
    BY <1>6, <1>10, <2>1, <2>3 DEF s
<1> QED
  BY <1>1, <1>7, <1>8, <1>9, <1>10 DEF Sections

\* A thread inside its section has the connection, so no other thread has it.
LEMMA ExclusiveConnection == LocksInv => ConnectionExclusive
<1> SUFFICES ASSUME LocksInv, NEW t \in Threads, NEW o \in Threads,
                    t # o, Inst[t] = Inst[o], Inside(t), Holds(o, "connection")
             PROVE  FALSE
  BY DEF ConnectionExclusive
<1>1. Busy(t) /\ depth[t] = Len(Head(todo[t]))
  BY DEF Inside
<1>2. Head(todo[t]) \in Sections
  BY <1>1, HeadIsSection DEF LocksInv
<1>3. Holds(t, "connection")
  BY <1>1, <1>2, SectionShape DEF Holds
<1>4. "connection" \in LocalLocks
  BY DEF LocalLocks
<1> QED
  BY <1>3, <1>4 DEF LocksInv, LocalExclusive

\* Two threads in a circle cannot both have the recorder's lock, nor both the
\* orchestrator's: one of them asks _available, the other one is at _reserve.
LEMMA KnownCycles == LocksInv => CyclesAreKnown
<1> SUFFICES ASSUME LocksInv, NEW t \in Threads, NEW o \in Threads,
                    WaitsFor(t, o), WaitsFor(o, t)
             PROVE  {Head(todo[t]), Head(todo[o])} = {Available, Admit}
  BY DEF CyclesAreKnown
<1>1. /\ Busy(t) /\ ~ Inside(t) /\ Holds(t, Wanted(o))
      /\ Busy(o) /\ ~ Inside(o) /\ Holds(o, Wanted(t))
      /\ t # o /\ Inst[t] = Inst[o]
  BY DEF WaitsFor
<1>2. ~ (Holds(t, "recorder") /\ Holds(o, "recorder"))
  BY <1>1 DEF LocksInv, LocalExclusive, LocalLocks
<1>3. CASE Head(todo[t]) = Available
  <2>1. Wanted(t) = "connection" /\ Wanted(o) = "orchestrator"
    BY <1>1, <1>3, WaiterShape DEF Available, Record, Admit
  <2>2. Head(todo[o]) = Admit
    BY <1>1, <2>1, WaiterShape
  <2> QED
    BY <1>3, <2>2
<1>4. CASE Head(todo[o]) = Available
  <2>1. Wanted(o) = "connection" /\ Wanted(t) = "orchestrator"
    BY <1>1, <1>4, WaiterShape DEF Available, Record, Admit
  <2>2. Head(todo[t]) = Admit
    BY <1>1, <2>1, WaiterShape
  <2> QED
    BY <1>4, <2>2
<1>5. CASE Head(todo[t]) # Available /\ Head(todo[o]) # Available
  BY <1>1, <1>2, <1>5, WaiterShape
<1> QED
  BY <1>3, <1>4, <1>5

\* Two threads of a process are never inside its one connection together, and two
\* of them wait for each other in one way only.
THEOREM LocksAreSound == Spec => []LocksSound
<1>1. LocksInv => LocksSound
  BY ExclusiveConnection, KnownCycles DEF LocksSound
<1> QED
  BY <1>1, LocksInductive, PTL
=============================================================================

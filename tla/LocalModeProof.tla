--------------------------- MODULE LocalModeProof ---------------------------
(***************************************************************************)
(* The process-local mode for any number of threads, jobs, subjects and    *)
(* approvers, any lifetimes and any bounds: no job id runs twice, nothing  *)
(* runs before its evidence is anchored, a job that was promised to wait   *)
(* is not dropped, and the queue exceeds its bound by less than the number *)
(* of requests in flight.                                                  *)
(***************************************************************************)
EXTENDS LocalMode, FiniteSetTheorems, TLAPS

-----------------------------------------------------------------------------
(* The inductive invariant. *)

Evidence(a, h) == [action |-> a, h |-> h] \in anchored

\* Where a thread holds a handoff whose issuance is anchored, where it has been
\* admitted, where it owns the job id, and where the worker has been called.
PastIssue == {"add", "dispatch", "denied", "admit", "refused", "restore", "admitted",
              "reserve", "commit", "committed", "run"}
PastAdmission == {"admitted", "reserve", "commit", "committed", "run"}
Owning == {"commit", "committed", "run"}
PastRun == {"verify", "attempted", "rejected", "accepted"}

\* The grant that an admitted run of h has used up.
Paid(h) == IsBound(h) => \E g \in delivered : grants[g].h = h /\ grants[g].state = "CONSUMED"

\* What a thread holds is a handoff that was issued, a reading of the clock that has
\* passed, a decision within the life of the handoff, and a token.
Holds(t) ==
  th[t].pc # "idle" =>
    /\ th[t].h \in Known /\ th[t].at <= clock
    /\ th[t].pc \in {"issued", "dispatch", "admit", "refused", "restore"} =>
         th[t].waited <= handoffs[th[t].h].exp
    /\ th[t].pc \in {"issued", "dispatch", "admit"} => th[t].token \in delivered \cup {0}
    /\ th[t].pc = "granted" =>
         th[t].token \in 1..Len(grants) /\ grants[th[t].token].h = th[t].h

\* What is queued for approval is approval-bound, and not promised before it is added.
Pends(t) ==
  /\ th[t].pc \in {"issued", "add"} => th[t].h \notin promised
  /\ th[t].pc \in {"add", "restore"} => IsBound(th[t].h)

\* A decision holds the lock, and its entry is in the queue.
Decides(t) ==
  th[t].pc \in {"grant", "granted"} =>
    /\ lock = t
    /\ queue[JobOf(th[t].h)] # None /\ queue[JobOf(th[t].h)].h = th[t].h

\* The evidence for every step towards a run.
Evidenced(t) ==
  /\ th[t].pc \in PastIssue => Evidence("HANDOFF_ISSUED", th[t].h)
  /\ th[t].pc \in PastAdmission => Paid(th[t].h)
  /\ th[t].pc \in PastAdmission \ {"admitted"} => Evidence("HANDOFF_ADMITTED", th[t].h)
  /\ th[t].pc = "run" => Evidence("HANDOFF_DISPATCHED", th[t].h)

\* A thread on its way to the worker owns the job id, which has not run.
Owns(t) ==
  /\ th[t].pc = "commit" => ledger[JobOf(th[t].h)] = "RESERVED"
  /\ th[t].pc \in {"committed", "run"} => ledger[JobOf(th[t].h)] = "EXECUTION_COMMITTED"
  /\ th[t].pc \in Owning => \A k \in Known : JobOf(k) = JobOf(th[t].h) => runs[k] = 0
  /\ th[t].pc \in PastRun => runs[th[t].h] > 0

\* Two threads neither add the same handoff nor own the same job id.
Apart(t, u) ==
  /\ th[t].pc \in {"issued", "add"} /\ th[u].pc \in {"issued", "add"} => th[t].h # th[u].h
  /\ th[t].pc \in Owning /\ th[u].pc \in Owning => JobOf(th[t].h) # JobOf(th[u].h)

ThreadsSound ==
  /\ \A t \in Threads : Holds(t) /\ Pends(t) /\ Decides(t) /\ Evidenced(t) /\ Owns(t)
  /\ \A t, u \in Threads : t # u => Apart(t, u)

\* What waits was issued, what an approver was given was recorded, what is promised is
\* approval-bound, and what ran has burned its job id.
StoresSound ==
  /\ \A j \in Jobs : queue[j] # None => Evidence("HANDOFF_ISSUED", queue[j].h)
  /\ \A g \in delivered : Evidence("APPROVAL_GRANTED", grants[g].h)
  /\ \A h \in promised : IsBound(h)
  /\ \A h \in 1..MaxHandoffs : runs[h] > 0 => h \in Known /\ ledger[JobOf(h)] # "free"
  /\ IsFiniteSet(accepted) /\ IsFiniteSet(Queued(queue))

LocalInv ==
  /\ TypeOK /\ ThreadsSound /\ StoresSound
  /\ RunsOnce /\ EvidencePrecedes /\ StillWaiting /\ QueueBound
-----------------------------------------------------------------------------
(* What every step keeps. *)

\* Handoffs, readings of the clock, anchored events and grants are never taken back.
Grows ==
  /\ Len(handoffs) <= Len(handoffs') /\ clock <= clock' /\ anchored \subseteq anchored'
  /\ Len(grants) <= Len(grants') /\ delivered \subseteq delivered'
  /\ \A h \in 1..Len(handoffs) : handoffs'[h] = handoffs[h]
  /\ \A g \in 1..Len(grants) :
       /\ grants'[g].h = grants[g].h
       /\ grants[g].state = "CONSUMED" => grants'[g].state = "CONSUMED"

\* The bounds of the model as numbers.
LEMMA Numbers ==
  /\ MaxPending \in Nat \ {0} /\ MaxAccepted \in Nat \ {0} /\ HandoffTtl \in Nat \ {0}
  /\ ApprovalTtl \in Nat \ {0}
  /\ MaxHandoffs \in Nat /\ MaxClock \in Nat
BY LocalAssumption

\* Clock, grants and threads by their types.
LEMMA ClockTyped ==
  ASSUME TypeOK
  PROVE  /\ clock \in Nat /\ grants \in Seq(GrantType) /\ Len(grants) \in Nat
         /\ \A u \in Threads : th[u] \in ThreadType
<1>1. clock \in Nat
  BY Numbers DEF TypeOK
<1>2. grants \in Seq(GrantType) /\ Len(grants) \in Nat
  BY DEF TypeOK
<1> QED
  BY <1>1, <1>2 DEF TypeOK

\* A handoff that was issued has a job and a life.
LEMMA HandoffTyped ==
  ASSUME TypeOK, NEW h \in Known
  PROVE  handoffs[h].exp \in Nat /\ JobOf(h) \in Jobs /\ h \in 1..MaxHandoffs /\ h \in Nat
<1>1. handoffs[h] \in HandoffType /\ Len(handoffs) \in Nat /\ Len(handoffs) <= MaxHandoffs
  BY DEF TypeOK, Known
<1> QED
  BY <1>1, Numbers DEF HandoffType, JobOf, Known

\* What is known of a handoff stays so.
LEMMA KnownKept ==
  ASSUME TypeOK, Grows, handoffs' \in Seq(HandoffType)
  PROVE  /\ Known \subseteq Known'
         /\ \A h \in Known : handoffs'[h] = handoffs[h] /\ handoffs[h] \in HandoffType
         /\ \A h \in Known : JobOf(h)' = JobOf(h) /\ IsBound(h)' = IsBound(h)
         /\ \A h \in Known : handoffs'[h].exp = handoffs[h].exp /\ JobOf(h) \in Jobs
<1>1. Len(handoffs) \in Nat /\ Len(handoffs') \in Nat
  BY DEF TypeOK
<1>2. Known \subseteq Known'
  BY <1>1 DEF Grows, Known
<1>3. \A h \in Known : handoffs'[h] = handoffs[h] /\ handoffs[h] \in HandoffType
  BY DEF Grows, Known, TypeOK
<1> QED
  BY <1>2, <1>3 DEF JobOf, IsBound, HandoffType

\* A thread that does not move keeps what it holds ...
LEMMA HoldsKept ==
  ASSUME TypeOK, Grows, handoffs' \in Seq(HandoffType), clock' \in Nat, grants' \in Seq(GrantType),
         NEW u \in Threads, th'[u] = th[u], Holds(u)
  PROVE  Holds(u)'
<1>1. /\ th[u].at \in Nat /\ clock \in Nat /\ Len(grants) \in Nat /\ Len(grants') \in Nat
  <2>1. th[u] \in ThreadType /\ clock \in Nat /\ Len(grants) \in Nat
    BY ClockTyped
  <2>2. th[u].at \in Nat
    BY <2>1 DEF ThreadType
  <2>3. Len(grants') \in Nat
    OBVIOUS
  <2> QED
    BY <2>1, <2>2, <2>3
<1>2. ASSUME th[u].pc # "idle"
      PROVE  /\ th[u].h \in Known' /\ th[u].at <= clock'
             /\ th[u].pc \in {"issued", "dispatch", "admit", "refused", "restore"} =>
                  th[u].waited <= handoffs'[th[u].h].exp
  BY <1>1, <1>2, KnownKept DEF Holds, Grows
<1>3. ASSUME th[u].pc \in {"issued", "dispatch", "admit"}
      PROVE  th[u].token \in delivered' \cup {0}
  BY <1>3 DEF Holds, Grows
<1>4. ASSUME th[u].pc = "granted"
      PROVE  th[u].token \in 1..Len(grants') /\ grants'[th[u].token].h = th[u].h
  BY <1>1, <1>4 DEF Holds, Grows
<1> QED
  BY <1>2, <1>3, <1>4 DEF Holds

\* ... and its evidence.
LEMMA EvidencedKept ==
  ASSUME TypeOK, Grows, handoffs' \in Seq(HandoffType), NEW u \in Threads, th'[u] = th[u],
         Holds(u), Evidenced(u)
  PROVE  Evidenced(u)'
<1>1. \A a, h : Evidence(a, h) => Evidence(a, h)'
  BY DEF Evidence, Grows
<1>2. ASSUME NEW h \in Known, Paid(h) PROVE Paid(h)'
  <2>1. IsBound(h)' = IsBound(h)
    BY KnownKept
  <2>2. delivered \subseteq 1..Len(grants)
    BY DEF TypeOK
  <2> QED
    BY <1>2, <2>1, <2>2 DEF Paid, Grows
<1>3. th[u].pc # "idle" => th[u].h \in Known
  BY DEF Holds
<1>4. th[u].pc \in PastAdmission => Paid(th[u].h)'
  <2> SUFFICES ASSUME th[u].pc \in PastAdmission PROVE Paid(th[u].h)'
    OBVIOUS
  <2>1. PICK h \in Known : h = th[u].h
    BY <1>3 DEF PastAdmission
  <2>2. Paid(h)
    BY <2>1 DEF Evidenced
  <2>3. Paid(h)'
    BY <1>2, <2>2
  <2>4. th'[u].h = h
    BY <2>1
  <2> QED
    BY <2>3, <2>4 DEF Paid, IsBound
<1> QED
  BY <1>1, <1>4 DEF Evidenced, Evidence
\* What a step of another thread must leave alone for thread u: the handoff it is going
\* to add, the lock and the entry of a decision, and the job id it owns.
Spares(u) ==
  /\ th[u].pc \in {"issued", "add"} => th[u].h \notin promised'
  /\ th[u].pc \in {"grant", "granted"} =>
       /\ lock' = lock
       /\ queue'[JobOf(th[u].h)] # None /\ queue'[JobOf(th[u].h)].h = th[u].h
  /\ th[u].pc \in Owning =>
       /\ ledger'[JobOf(th[u].h)] = ledger[JobOf(th[u].h)]
       /\ \A k \in Known : JobOf(k) = JobOf(th[u].h) => runs'[k] = 0

\* A thread that is spared keeps its part of the invariant.
LEMMA ThreadKept ==
  ASSUME LocalInv, Grows, handoffs' \in Seq(HandoffType), clock' \in Nat,
         grants' \in Seq(GrantType), Len(handoffs') <= MaxHandoffs,
         \A k \in 1..MaxHandoffs : runs'[k] > 0 => k \in Known,
         \A k \in 1..MaxHandoffs : runs[k] > 0 => runs'[k] > 0,
         runs' \in [1..MaxHandoffs -> Nat],
         NEW u \in Threads, th'[u] = th[u], Spares(u)
  PROVE  Holds(u)' /\ Pends(u)' /\ Decides(u)' /\ Evidenced(u)' /\ Owns(u)'
<1>0. TypeOK /\ Holds(u) /\ Pends(u) /\ Decides(u) /\ Evidenced(u) /\ Owns(u)
  BY DEF LocalInv, ThreadsSound
<1>1. Holds(u)' /\ Evidenced(u)'
  BY <1>0, HoldsKept, EvidencedKept
<1>2. th[u].pc # "idle" => th[u].h \in Known
  BY <1>0 DEF Holds
<1>3. th[u].pc # "idle" =>
        /\ handoffs'[th[u].h].job = JobOf(th[u].h)
        /\ (handoffs'[th[u].h].subject \in Bound) = IsBound(th[u].h)
  BY <1>0, <1>2, KnownKept DEF JobOf, IsBound
<1>4. Pends(u)'
  BY <1>0, <1>3 DEF Pends, Spares, IsBound
<1>5. Decides(u)'
  BY <1>0, <1>3 DEF Decides, Spares, JobOf
<1>6. Owns(u)'
  <2>1. ASSUME th[u].pc \in {"commit", "committed", "run"}
        PROVE  ledger'[handoffs'[th[u].h].job] = ledger[JobOf(th[u].h)]
    BY <1>3, <2>1 DEF Spares, Owning
  <2>2. ASSUME th[u].pc \in Owning, NEW k \in Known', handoffs'[k].job = JobOf(th[u].h)
        PROVE  runs'[k] = 0
    <3>1. CASE k \in Known
      <4>1. JobOf(k) = JobOf(th[u].h)
        BY <1>0, <2>2, <3>1, KnownKept DEF JobOf
      <4> QED
        BY <2>2, <3>1, <4>1 DEF Spares
    <3>2. CASE k \notin Known
      <4>1. k \in 1..MaxHandoffs
        BY Numbers DEF Known
      <4> QED
        BY <3>2, <4>1
    <3> QED
      BY <3>1, <3>2
  <2>3. ASSUME th[u].pc \in PastRun PROVE runs'[th[u].h] > 0
    <3>1. th[u].h \in 1..MaxHandoffs
      BY <1>0, <1>2, <2>3, Numbers DEF PastRun, Known, TypeOK
    <3> QED
      BY <1>0, <2>3, <3>1 DEF Owns
  <2>4. th[u].pc \in Owning => handoffs'[th[u].h].job = JobOf(th[u].h)
    BY <1>3 DEF Owning
  <2> QED
    BY <1>0, <2>1, <2>2, <2>3, <2>4 DEF Owns, JobOf, Owning
<1> QED
  BY <1>1, <1>4, <1>5, <1>6

\* Threads that do not move stay apart.
LEMMA ApartKept ==
  ASSUME LocalInv, Grows, handoffs' \in Seq(HandoffType),
         NEW t \in Threads, NEW u \in Threads, t # u, th'[t] = th[t], th'[u] = th[u]
  PROVE  Apart(t, u)'
<1>1. TypeOK /\ Apart(t, u) /\ Holds(t) /\ Holds(u)
  BY DEF LocalInv, ThreadsSound
<1>2. th[t].pc \in Owning => handoffs'[th[t].h].job = JobOf(th[t].h)
  BY <1>1, KnownKept DEF Holds, Owning, JobOf
<1>3. th[u].pc \in Owning => handoffs'[th[u].h].job = JobOf(th[u].h)
  BY <1>1, KnownKept DEF Holds, Owning, JobOf
<1> QED
  BY <1>1, <1>2, <1>3 DEF Apart, JobOf

\* A step of thread t that spares the others and leaves t sound keeps all threads sound.
LEMMA ThreadsKept ==
  ASSUME LocalInv, Grows, handoffs' \in Seq(HandoffType), clock' \in Nat,
         grants' \in Seq(GrantType), Len(handoffs') <= MaxHandoffs,
         \A k \in 1..MaxHandoffs : runs'[k] > 0 => k \in Known,
         \A k \in 1..MaxHandoffs : runs[k] > 0 => runs'[k] > 0,
         runs' \in [1..MaxHandoffs -> Nat],
         NEW t \in Threads, \A u \in Threads \ {t} : th'[u] = th[u] /\ Spares(u),
         Holds(t)', Pends(t)', Decides(t)', Evidenced(t)', Owns(t)',
         \A u \in Threads \ {t} : Apart(t, u)' /\ Apart(u, t)'
  PROVE  ThreadsSound'
<1>1. ASSUME NEW u \in Threads
      PROVE  Holds(u)' /\ Pends(u)' /\ Decides(u)' /\ Evidenced(u)' /\ Owns(u)'
  <2>1. CASE u = t
    BY <2>1
  <2>2. CASE u # t
    BY <2>2, ThreadKept
  <2> QED
    BY <2>1, <2>2
<1>2. ASSUME NEW u \in Threads, NEW v \in Threads, u # v PROVE Apart(u, v)'
  <2>1. CASE u = t
    BY <1>2, <2>1
  <2>2. CASE v = t
    BY <1>2, <2>2
  <2>3. CASE u # t /\ v # t
    BY <1>2, <2>3, ApartKept
  <2> QED
    BY <2>1, <2>2, <2>3
<1> QED
  BY <1>1, <1>2 DEF ThreadsSound
\* What has run keeps its evidence, and a step that calls no worker runs nothing twice.
LEMMA PastKept ==
  ASSUME LocalInv, Grows, handoffs' \in Seq(HandoffType), Len(handoffs') <= MaxHandoffs,
         UNCHANGED runs
  PROVE  RunsOnce' /\ EvidencePrecedes'
<1>0. TypeOK /\ StoresSound /\ RunsOnce /\ EvidencePrecedes
  BY DEF LocalInv
<1>1. \A h \in Known' : h \in 1..MaxHandoffs /\ runs[h] \in Nat
  BY <1>0, Numbers DEF Known, TypeOK
<1>2. \A h \in Known' : runs[h] > 0 => h \in Known
  BY <1>0, <1>1 DEF StoresSound
<1>3. RunsOnce'
  <2> SUFFICES ASSUME NEW h \in Known', NEW k \in Known'
               PROVE  /\ runs'[h] <= 1
                      /\ h # k /\ JobOf(h)' = JobOf(k)' => runs'[h] + runs'[k] <= 1
    BY DEF RunsOnce, JobOf
  <2>1. runs[h] <= 1 /\ runs[k] <= 1
    BY <1>0, <1>1, <1>2 DEF RunsOnce
  <2>2. CASE h \in Known /\ k \in Known
    BY <1>0, <2>1, <2>2, KnownKept DEF RunsOnce
  <2>3. CASE runs[h] = 0 \/ runs[k] = 0
    BY <1>1, <2>1, <2>3
  <2> QED
    BY <1>1, <1>2, <2>1, <2>2, <2>3
<1>4. EvidencePrecedes'
  <2> SUFFICES ASSUME NEW h \in Known', runs[h] > 0
               PROVE  /\ \A a \in {"HANDOFF_ISSUED", "HANDOFF_ADMITTED", "HANDOFF_DISPATCHED"} :
                           [action |-> a, h |-> h] \in anchored'
                      /\ IsBound(h)' =>
                           /\ [action |-> "APPROVAL_GRANTED", h |-> h] \in anchored'
                           /\ \E g \in delivered' :
                                grants'[g].h = h /\ grants'[g].state = "CONSUMED"
    BY DEF EvidencePrecedes, IsBound
  <2>1. h \in Known /\ IsBound(h)' = IsBound(h)
    BY <1>0, <1>2, KnownKept
  <2>2. delivered \subseteq 1..Len(grants)
    BY <1>0 DEF TypeOK
  <2> QED
    BY <1>0, <2>1, <2>2 DEF EvidencePrecedes, Grows
<1> QED
  BY <1>3, <1>4

\* A handoff that was promised to wait: in the queue, in hand, run, or over.
Waits(h) ==
  \/ queue[JobOf(h)] # None /\ queue[JobOf(h)].h = h
  \/ InHand(h) \/ runs[h] > 0 \/ clock >= handoffs[h].exp

\* Promised handoffs go on waiting when neither the queue nor thread t drops one.
LEMMA WaitingKept ==
  ASSUME LocalInv, Grows, handoffs' \in Seq(HandoffType), clock' \in Nat,
         \A k \in 1..MaxHandoffs : runs[k] > 0 => runs'[k] > 0,
         NEW t \in Threads, \A u \in Threads \ {t} : th'[u] = th[u],
         \A h \in promised' \ promised : Waits(h)', mishap \subseteq mishap',
         \A h \in promised \ mishap' :
           queue[JobOf(h)] # None /\ queue[JobOf(h)].h = h => Waits(h)',
         \A h \in promised \ mishap' :
           th[t].h = h /\ th[t].pc \notin {"idle", "decide"} => Waits(h)'
  PROVE  StillWaiting'
<1>0. TypeOK /\ StillWaiting /\ promised \subseteq Known
  BY DEF LocalInv, TypeOK
<1> SUFFICES ASSUME NEW h \in promised' \ mishap' PROVE Waits(h)'
  BY DEF StillWaiting, Waits, InHand, JobOf
<1>1. CASE h \notin promised
  BY <1>1
<1>2. CASE h \in promised
  <2>1. Waits(h) /\ h \in Known /\ h \in 1..MaxHandoffs
    BY <1>0, <1>2, Numbers DEF StillWaiting, Waits, InHand, TypeOK, Known
  <2>2. CASE queue[JobOf(h)] # None /\ queue[JobOf(h)].h = h
    BY <1>2, <2>2
  <2>3. CASE InHand(h)
    <3>1. PICK u \in Threads : th[u].h = h /\ th[u].pc \notin {"idle", "decide"}
      BY <2>3 DEF InHand
    <3>2. CASE u = t
      BY <1>2, <3>1, <3>2
    <3>3. CASE u # t
      <4>1. InHand(h)'
        BY <3>1, <3>3 DEF InHand
      <4> QED
        BY <4>1 DEF Waits
    <3> QED
      BY <3>2, <3>3
  <2>4. CASE runs[h] > 0
    BY <2>1, <2>4 DEF Waits
  <2>5. CASE clock >= handoffs[h].exp
    <3>1. handoffs'[h].exp = handoffs[h].exp /\ handoffs[h].exp \in Nat
      BY <1>0, <2>1, KnownKept DEF HandoffType
    <3>2. clock \in Nat /\ clock <= clock'
      BY <1>0, Numbers DEF TypeOK, Grows
    <3> QED
      BY <2>5, <3>1, <3>2 DEF Waits
  <2> QED
    BY <2>1, <2>2, <2>3, <2>4, <2>5 DEF Waits
<1> QED
  BY <1>1, <1>2

\* The requests that may still put a job back.
Returning == {u \in Threads : Completing(u)}

\* The queue stays within its bound when it gains no job, and when no more requests
\* than before may put one back.
LEMMA BoundKept ==
  ASSUME LocalInv, Queued(queue') \subseteq Queued(queue), Returning' \subseteq Returning
  PROVE  QueueBound' /\ IsFiniteSet(Queued(queue'))
<1>1. IsFiniteSet(Queued(queue)) /\ IsFiniteSet(Returning) /\ IsFiniteSet(Threads)
  BY LocalAssumption, FS_Subset DEF LocalInv, StoresSound, Returning
<1>2. /\ IsFiniteSet(Queued(queue')) /\ Cardinality(Queued(queue')) <= Cardinality(Queued(queue))
      /\ Cardinality(Returning') <= Cardinality(Returning)
  BY <1>1, FS_Subset
<1>3. /\ Cardinality(Queued(queue)) \in Nat /\ Cardinality(Queued(queue')) \in Nat
      /\ Cardinality(Returning) \in Nat /\ Cardinality(Returning') \in Nat
      /\ Cardinality(Threads) \in Nat /\ MaxPending \in Nat
  BY <1>1, <1>2, FS_CardinalityType, FS_Subset, Numbers
<1>4. QueueBound
  BY DEF LocalInv
<1> QED
  BY <1>2, <1>3, <1>4 DEF QueueBound, Returning
-----------------------------------------------------------------------------
(* Steps that change no store. *)

Actions == {"HANDOFF_ISSUED", "APPROVAL_GRANTED", "HANDOFF_ADMITTED", "HANDOFF_DISPATCHED",
            "HANDOFF_REJECTED", "RESULT_ACCEPTED", "RESULT_REJECTED"}

\* What append leaves in the chain and at the anchor, whether it returns or raises.
LEMMA Recorded ==
  ASSUME TypeOK, NEW t \in Threads, Holds(t), th[t].pc # "idle", NEW a \in Actions,
         Logged(Event(t, a)) \/ NotLogged(Event(t, a))
  PROVE  /\ chain' \subseteq Events /\ anchored \subseteq anchored' /\ anchored' \subseteq chain'
         /\ Logged(Event(t, a)) => [action |-> a, h |-> th[t].h] \in anchored'
<1>1. Event(t, a) \in Events
  BY Numbers DEF Event, Events, Actions, Holds, Known, TypeOK
<1>2. Logged(Event(t, a)) => Event(t, a) \in anchored'
  BY DEF Logged
<1>3. chain' \subseteq Events /\ anchored \subseteq anchored' /\ anchored' \subseteq chain'
  BY <1>1 DEF Logged, NotLogged, TypeOK
<1> QED
  BY <1>2, <1>3 DEF Event

\* Nothing is asked of an idle thread.
LEMMA IdleSound ==
  ASSUME NEW t \in Threads, th'[t].pc = "idle"
  PROVE  /\ Holds(t)' /\ Pends(t)' /\ Decides(t)' /\ Evidenced(t)' /\ Owns(t)'
         /\ \A u \in Threads : Apart(t, u)' /\ Apart(u, t)'
<1>1. Holds(t)' /\ Pends(t)' /\ Decides(t)'
  BY DEF Holds, Pends, Decides
<1>2. Evidenced(t)' /\ Owns(t)'
  BY DEF Evidenced, Owns, PastIssue, PastAdmission, Owning, PastRun
<1>3. \A u \in Threads : Apart(t, u)' /\ Apart(u, t)'
  BY DEF Apart, Owning
<1> QED
  BY <1>1, <1>2, <1>3

\* A step that changes the thread, the chain and the anchor only.
LEMMA QuietStep ==
  ASSUME LocalInv, NEW t \in Threads, NEW q \in ThreadType, th' = [th EXCEPT ![t] = q],
         UNCHANGED <<clock, handoffs, stores, promised, runs>>,
         chain' \subseteq Events, anchored \subseteq anchored', anchored' \subseteq chain',
         mishap \subseteq mishap',
         Holds(t)', Pends(t)', Decides(t)', Evidenced(t)', Owns(t)',
         \A u \in Threads \ {t} : Apart(t, u)' /\ Apart(u, t)',
         \A h \in promised \ mishap' :
           th[t].h = h /\ th[t].pc \notin {"idle", "decide"} => Waits(h)',
         Completing(t)' => Completing(t)
  PROVE  LocalInv'
<1>0. TypeOK /\ ThreadsSound /\ StoresSound /\ UNCHANGED <<queue, lock, grants, delivered, ledger, accepted>>
  BY DEF LocalInv, stores
<1>1. TypeOK'
  BY <1>0 DEF TypeOK, Known, JobOf, IsBound
<1>2. Grows
  BY <1>0, Numbers DEF Grows, TypeOK
<1>3. /\ clock' \in Nat /\ grants' \in Seq(GrantType) /\ handoffs' \in Seq(HandoffType)
      /\ Len(handoffs') <= MaxHandoffs /\ runs' \in [1..MaxHandoffs -> Nat]
      /\ \A k \in 1..MaxHandoffs : runs'[k] > 0 => k \in Known
      /\ \A k \in 1..MaxHandoffs : runs[k] > 0 => runs'[k] > 0
  BY <1>0, Numbers DEF TypeOK, StoresSound
<1>4. \A u \in Threads \ {t} : th'[u] = th[u]
  BY <1>0 DEF TypeOK
<1>5. \A u \in Threads \ {t} : Spares(u)
  BY <1>0 DEF Spares, ThreadsSound, Pends, Decides, Owns
<1>6. ThreadsSound'
  BY <1>2, <1>3, <1>4, <1>5, ThreadsKept
<1>7. StoresSound'
  BY <1>0 DEF StoresSound, Evidence, Known, JobOf, IsBound
<1>8. RunsOnce' /\ EvidencePrecedes'
  BY <1>2, <1>3, PastKept
<1>9. StillWaiting'
  <2>1. ASSUME NEW h \in promised \ mishap', queue[JobOf(h)] # None, queue[JobOf(h)].h = h
        PROVE  Waits(h)'
    BY <1>0, <2>1 DEF Waits, JobOf
  <2> QED
    BY <1>2, <1>3, <1>4, <2>1, WaitingKept
<1>10. QueueBound'
  <2>1. Queued(queue') \subseteq Queued(queue)
    BY <1>0
  <2>2. Returning' \subseteq Returning
    BY <1>0, <1>4 DEF Returning, Completing, IsBound
  <2> QED
    BY <2>1, <2>2, BoundKept
<1> QED
  BY <1>1, <1>6, <1>7, <1>8, <1>9, <1>10 DEF LocalInv
\* A thread that becomes idle is as it was at the start.
LEMMA GotoIdle ==
  ASSUME TypeOK, NEW t \in Threads, Goto(t, "idle")
  PROVE  Idle \in ThreadType /\ th' = [th EXCEPT ![t] = Idle] /\ th'[t].pc = "idle"
<1>1. Idle \in ThreadType
  BY Numbers DEF Idle, ThreadType
<1>2. th' = [th EXCEPT ![t] = Idle]
  BY DEF Goto, Become, TypeOK, ThreadType
<1> QED
  BY <1>1, <1>2 DEF TypeOK, Idle

\* A thread that goes on holds what it held.
LEMMA GotoNext ==
  ASSUME TypeOK, NEW t \in Threads, NEW s, s # "idle", Goto(t, s),
         [th[t] EXCEPT !.pc = s] \in ThreadType
  PROVE  \E q \in ThreadType : /\ th' = [th EXCEPT ![t] = q] /\ th'[t] = q
                               /\ q.pc = s /\ q.h = th[t].h /\ q.at = th[t].at
                               /\ q.token = th[t].token /\ q.waited = th[t].waited
<1> DEFINE q == [th[t] EXCEPT !.pc = s]
<1>1. th[t] \in ThreadType
  BY DEF TypeOK
<1>2. /\ q.pc = s /\ q.h = th[t].h /\ q.at = th[t].at
      /\ q.token = th[t].token /\ q.waited = th[t].waited
  BY <1>1 DEF ThreadType
<1>3. q \in ThreadType /\ th' = [th EXCEPT ![t] = q] /\ th'[t] = q
  BY <1>2 DEF Goto, Become, TypeOK
<1> QED
  BY <1>2, <1>3

\* A thread ends with an event, or without it: what it had promised is given up, or ran.
LEMMA EndsRecorded ==
  ASSUME LocalInv, NEW t \in Threads, th[t].pc # "idle", NEW a \in Actions,
         Logged(Event(t, a)) \/ NotLogged(Event(t, a)), Goto(t, "idle"),
         UNCHANGED <<clock, handoffs, stores, promised, runs>>, mishap \subseteq mishap',
         th[t].h \in promised \ mishap' => runs[th[t].h] > 0
  PROVE  LocalInv'
<1>0. TypeOK /\ Holds(t)
  BY DEF LocalInv, ThreadsSound
<1>1. chain' \subseteq Events /\ anchored \subseteq anchored' /\ anchored' \subseteq chain'
  BY <1>0, Recorded
<1>2. Idle \in ThreadType /\ th' = [th EXCEPT ![t] = Idle] /\ th'[t].pc = "idle"
  BY <1>0, GotoIdle
<1>3. \A h \in promised \ mishap' : th[t].h = h => Waits(h)'
  BY DEF Waits
<1>4. Completing(t)' => Completing(t)
  BY <1>2 DEF Completing
<1>5. /\ Holds(t)' /\ Pends(t)' /\ Decides(t)' /\ Evidenced(t)' /\ Owns(t)'
      /\ \A u \in Threads : Apart(t, u)' /\ Apart(u, t)'
  BY <1>2, IdleSound
<1> QED
  BY <1>1, <1>2, <1>3, <1>4, <1>5, QuietStep

\* append_orchestrator_refusal.
LEMMA RecordDenialInv ==
  ASSUME LocalInv, NEW t \in Threads, RecordDenial(t)
  PROVE  LocalInv'
<1>1. /\ th[t].pc # "idle" /\ Goto(t, "idle") /\ mishap' = mishap \cup {th[t].h}
      /\ UNCHANGED <<clock, handoffs, stores, promised, runs>>
      /\ Logged(Event(t, "HANDOFF_REJECTED")) \/ NotLogged(Event(t, "HANDOFF_REJECTED"))
  BY DEF RecordDenial
<1>2. "HANDOFF_REJECTED" \in Actions
  BY DEF Actions
<1> QED
  BY <1>1, <1>2, EndsRecorded

\* The event of an outcome.
LEMMA RecordOutcomeInv ==
  ASSUME LocalInv, NEW t \in Threads, RecordOutcome(t)
  PROVE  LocalInv'
<1>1. PICK a \in {"HANDOFF_REJECTED", "RESULT_REJECTED", "RESULT_ACCEPTED"} :
        /\ th[t].pc \in PastRun /\ Record(t, a, "idle")
        /\ UNCHANGED <<clock, handoffs, stores, promised, runs>>
  BY DEF RecordOutcome, PastRun
<1>2. /\ Logged(Event(t, a)) \/ NotLogged(Event(t, a))
      /\ Goto(t, "idle") /\ mishap \subseteq mishap'
  BY <1>1 DEF Record
<1>3. a \in Actions /\ th[t].pc # "idle"
  BY <1>1 DEF Actions, PastRun
<1>4. runs[th[t].h] > 0
  BY <1>1 DEF LocalInv, ThreadsSound, Owns
<1> QED
  BY <1>1, <1>2, <1>3, <1>4, EndsRecorded

\* An event that cannot be anchored ends the request.
LEMMA RecordFails ==
  ASSUME LocalInv, NEW t \in Threads, th[t].pc # "idle", NEW a \in Actions,
         NotLogged(Event(t, a)), Goto(t, "idle"), mishap' = mishap \cup {th[t].h},
         UNCHANGED <<clock, handoffs, stores, promised, runs>>
  PROVE  LocalInv'
BY EndsRecorded

\* A thread goes on with the event of its step at the anchor.
LEMMA GoesOnRecorded ==
  ASSUME LocalInv, NEW t \in Threads, th[t].pc \notin {"idle", "decide"}, NEW a \in Actions,
         Logged(Event(t, a)), NEW s, s \notin {"idle", "decide"}, Goto(t, s),
         [th[t] EXCEPT !.pc = s] \in ThreadType,
         UNCHANGED <<clock, handoffs, stores, promised, runs, mishap>>,
         \/ th[t].pc = "issued" /\ s = "add" /\ a = "HANDOFF_ISSUED" /\ IsBound(th[t].h)
         \/ th[t].pc = "issued" /\ s = "dispatch" /\ a = "HANDOFF_ISSUED" /\ ~IsBound(th[t].h)
         \/ th[t].pc = "refused" /\ s = "restore" /\ IsBound(th[t].h)
         \/ th[t].pc = "admitted" /\ s = "reserve" /\ a = "HANDOFF_ADMITTED"
         \/ th[t].pc = "committed" /\ s = "run" /\ a = "HANDOFF_DISPATCHED"
  PROVE  LocalInv'
<1>0. /\ TypeOK /\ Holds(t) /\ Pends(t) /\ Decides(t) /\ Evidenced(t) /\ Owns(t)
      /\ UNCHANGED <<queue, lock, grants, delivered, ledger, accepted>>
  BY DEF LocalInv, ThreadsSound, stores
<1>1. /\ chain' \subseteq Events /\ anchored \subseteq anchored' /\ anchored' \subseteq chain'
      /\ [action |-> a, h |-> th[t].h] \in anchored'
  BY <1>0, Recorded
<1>2. PICK q \in ThreadType : /\ th' = [th EXCEPT ![t] = q] /\ th'[t] = q
                              /\ q.pc = s /\ q.h = th[t].h /\ q.at = th[t].at
                              /\ q.token = th[t].token /\ q.waited = th[t].waited
  BY <1>0, GotoNext
<1>3. Holds(t)'
  BY <1>0, <1>2 DEF Holds, Known
<1>4. Pends(t)' /\ Decides(t)'
  BY <1>0, <1>2 DEF Pends, Decides, IsBound
<1>5. Evidenced(t)'
  BY <1>0, <1>1, <1>2 DEF Evidenced, Evidence, Paid, IsBound, PastIssue, PastAdmission
<1>6. Owns(t)'
  BY <1>0, <1>2 DEF Owns, JobOf, Owning, PastRun, Known
<1>7. ASSUME NEW u \in Threads \ {t} PROVE Apart(t, u)' /\ Apart(u, t)'
  <2>1. Apart(t, u) /\ Apart(u, t) /\ th'[u] = th[u]
    BY <1>0, <1>2 DEF LocalInv, ThreadsSound, TypeOK
  <2> QED
    BY <1>2, <2>1 DEF Apart, JobOf, Owning
<1>8. \A h \in promised \ mishap' : th[t].h = h => Waits(h)'
  <2>1. ASSUME NEW h, th[t].h = h PROVE InHand(h)'
    BY <1>2, <2>1 DEF InHand
  <2> QED
    BY <2>1 DEF Waits
<1>9. Completing(t)' => Completing(t)
  BY <1>2 DEF Completing, IsBound
<1> QED
  BY <1>1, <1>2, <1>3, <1>4, <1>5, <1>6, <1>7, <1>8, <1>9, QuietStep

\* The places of a request.
LEMMA PcTyped ==
  ASSUME TypeOK, NEW t \in Threads,
         NEW s \in {"add", "dispatch", "denied", "admit", "refused", "restore", "admitted",
                    "reserve", "commit", "committed", "run", "verify", "attempted", "rejected",
                    "accepted"}
  PROVE  [th[t] EXCEPT !.pc = s] \in ThreadType
<1>1. th[t] \in ThreadType
  BY DEF TypeOK
<1> QED
  BY <1>1 DEF ThreadType

\* The event of the issuance.
LEMMA RecordIssuedInv ==
  ASSUME LocalInv, NEW t \in Threads, RecordIssued(t)
  PROVE  LocalInv'
<1> DEFINE s == IF IsBound(th[t].h) THEN "add" ELSE "dispatch"
<1>1. /\ th[t].pc = "issued" /\ Record(t, "HANDOFF_ISSUED", s)
      /\ UNCHANGED <<clock, handoffs, stores, promised, runs>>
      /\ "HANDOFF_ISSUED" \in Actions /\ TypeOK
  BY DEF RecordIssued, Actions, LocalInv
<1>2. CASE NotLogged(Event(t, "HANDOFF_ISSUED")) /\ Goto(t, "idle")
           /\ mishap' = mishap \cup {th[t].h}
  BY <1>1, <1>2, RecordFails
<1>3. CASE Logged(Event(t, "HANDOFF_ISSUED")) /\ Goto(t, s) /\ UNCHANGED mishap
  <2>1. CASE IsBound(th[t].h)
    <3>1. Goto(t, "add") /\ [th[t] EXCEPT !.pc = "add"] \in ThreadType
      BY <1>1, <1>3, <2>1, PcTyped
    <3> QED
      BY <1>1, <1>3, <2>1, <3>1, GoesOnRecorded
  <2>2. CASE ~IsBound(th[t].h)
    <3>1. Goto(t, "dispatch") /\ [th[t] EXCEPT !.pc = "dispatch"] \in ThreadType
      BY <1>1, <1>3, <2>2, PcTyped
    <3> QED
      BY <1>1, <1>3, <2>2, <3>1, GoesOnRecorded
  <2> QED
    BY <2>1, <2>2
<1> QED
  BY <1>1, <1>2, <1>3 DEF Record

\* append_gateway_refusal.
LEMMA RecordRefusalInv ==
  ASSUME LocalInv, NEW t \in Threads, RecordRefusal(t)
  PROVE  LocalInv'
<1> DEFINE s == IF IsBound(th[t].h) THEN "restore" ELSE "idle"
<1>1. /\ th[t].pc = "refused" /\ Record(t, "HANDOFF_REJECTED", s)
      /\ UNCHANGED <<clock, handoffs, stores, promised, runs>>
      /\ "HANDOFF_REJECTED" \in Actions /\ TypeOK
  BY DEF RecordRefusal, Actions, LocalInv
<1>2. CASE NotLogged(Event(t, "HANDOFF_REJECTED")) /\ Goto(t, "idle")
           /\ mishap' = mishap \cup {th[t].h}
  BY <1>1, <1>2, RecordFails
<1>3. CASE Logged(Event(t, "HANDOFF_REJECTED")) /\ Goto(t, s) /\ UNCHANGED mishap
  <2>1. CASE IsBound(th[t].h)
    <3>1. Goto(t, "restore") /\ [th[t] EXCEPT !.pc = "restore"] \in ThreadType
      BY <1>1, <1>3, <2>1, PcTyped
    <3> QED
      BY <1>1, <1>3, <2>1, <3>1, GoesOnRecorded
  <2>2. CASE ~IsBound(th[t].h)
    <3>1. Goto(t, "idle")
      BY <1>3, <2>2
    <3>2. th[t].h \notin promised
      BY <2>2 DEF LocalInv, StoresSound
    <3> QED
      BY <1>1, <1>3, <3>1, <3>2, EndsRecorded
  <2> QED
    BY <2>1, <2>2
<1> QED
  BY <1>1, <1>2, <1>3 DEF Record

\* _admission_recorder.
LEMMA RecordAdmittedInv ==
  ASSUME LocalInv, NEW t \in Threads, RecordAdmitted(t)
  PROVE  LocalInv'
<1>1. /\ th[t].pc = "admitted" /\ Record(t, "HANDOFF_ADMITTED", "reserve")
      /\ UNCHANGED <<clock, handoffs, stores, promised, runs>>
      /\ "HANDOFF_ADMITTED" \in Actions /\ TypeOK
      /\ [th[t] EXCEPT !.pc = "reserve"] \in ThreadType
  BY PcTyped DEF RecordAdmitted, Actions, LocalInv
<1>2. CASE NotLogged(Event(t, "HANDOFF_ADMITTED")) /\ Goto(t, "idle")
           /\ mishap' = mishap \cup {th[t].h}
  BY <1>1, <1>2, RecordFails
<1>3. CASE Logged(Event(t, "HANDOFF_ADMITTED")) /\ Goto(t, "reserve") /\ UNCHANGED mishap
  BY <1>1, <1>3, GoesOnRecorded
<1> QED
  BY <1>1, <1>2, <1>3 DEF Record

\* _dispatch_recorder.
LEMMA RecordDispatchedInv ==
  ASSUME LocalInv, NEW t \in Threads, RecordDispatched(t)
  PROVE  LocalInv'
<1>1. /\ th[t].pc = "committed" /\ Record(t, "HANDOFF_DISPATCHED", "run")
      /\ UNCHANGED <<clock, handoffs, stores, promised, runs>>
      /\ "HANDOFF_DISPATCHED" \in Actions /\ TypeOK
      /\ [th[t] EXCEPT !.pc = "run"] \in ThreadType
  BY PcTyped DEF RecordDispatched, Actions, LocalInv
<1>2. CASE NotLogged(Event(t, "HANDOFF_DISPATCHED")) /\ Goto(t, "idle")
           /\ mishap' = mishap \cup {th[t].h}
  BY <1>1, <1>2, RecordFails
<1>3. CASE Logged(Event(t, "HANDOFF_DISPATCHED")) /\ Goto(t, "run") /\ UNCHANGED mishap
  BY <1>1, <1>3, GoesOnRecorded
<1> QED
  BY <1>1, <1>2, <1>3 DEF Record

\* A thread that begins, or takes up more.
LEMMA BecomeNext ==
  ASSUME TypeOK, NEW t \in Threads, NEW q \in ThreadType, q.pc # "idle", Become(t, q)
  PROVE  /\ th' = [th EXCEPT ![t] = q] /\ th'[t] = q /\ th' \in [Threads -> ThreadType]
         /\ \A u \in Threads \ {t} : th'[u] = th[u]
<1>1. th \in [Threads -> ThreadType] /\ th' = [th EXCEPT ![t] = q]
  BY DEF TypeOK, Become
<1> QED
  BY <1>1

\* A request to approve takes up an entry of the queue.
LEMMA ApproveInv ==
  ASSUME LocalInv, NEW t \in Threads, Approve(t)
  PROVE  LocalInv'
<1>0. TypeOK /\ UNCHANGED <<clock, handoffs, stores, promised, runs, mishap, chain, anchored>>
  BY DEF LocalInv, Approve, audit, seen
<1>1. PICK j \in Jobs :
        /\ th[t].pc = "idle" /\ queue[j] # None
        /\ Become(t, [Idle EXCEPT !.pc = "decide", !.h = queue[j].h, !.at = clock])
  BY DEF Approve
<1> DEFINE q == [Idle EXCEPT !.pc = "decide", !.h = queue[j].h, !.at = clock]
<1>2. queue[j].h \in Known /\ queue[j].h \in 0..MaxHandoffs /\ clock \in Nat
  BY <1>0, <1>1, Numbers DEF TypeOK, Known
<1>3. /\ q \in ThreadType /\ q.pc = "decide" /\ q.h = queue[j].h /\ q.at = clock
      /\ q.token = 0 /\ q.waited = 0
  BY <1>2 DEF ThreadType, Idle
<1> HIDE DEF q
<1>4. th' = [th EXCEPT ![t] = q] /\ th'[t] = q
  BY <1>0, <1>1, <1>3, BecomeNext DEF q
<1>5. Holds(t)'
  <2>1. handoffs[q.h].exp \in Nat
    BY <1>0, <1>2, <1>3, HandoffTyped
  <2> QED
    BY <1>0, <1>2, <1>3, <1>4, <2>1 DEF Holds, Known
<1>6. Pends(t)' /\ Decides(t)' /\ Evidenced(t)' /\ Owns(t)'
  BY <1>3, <1>4 DEF Pends, Decides, Evidenced, Owns, PastIssue, PastAdmission, Owning, PastRun
<1>7. \A u \in Threads : Apart(t, u)' /\ Apart(u, t)'
  BY <1>3, <1>4 DEF Apart, Owning
<1>8. ~Completing(t)'
  BY <1>3, <1>4 DEF Completing
<1>9. chain' \subseteq Events /\ anchored \subseteq anchored' /\ anchored' \subseteq chain'
  BY <1>0 DEF TypeOK
<1> QED
  BY <1>0, <1>1, <1>3, <1>4, <1>5, <1>6, <1>7, <1>8, <1>9, QuietStep

\* _available.
LEMMA DispatchInv ==
  ASSUME LocalInv, NEW t \in Threads, Dispatch(t)
  PROVE  LocalInv'
<1>0. /\ TypeOK /\ Holds(t) /\ Pends(t) /\ Decides(t) /\ Evidenced(t) /\ Owns(t)
      /\ UNCHANGED <<clock, handoffs, stores, promised, runs, mishap, chain, anchored>>
      /\ UNCHANGED <<queue, lock, grants, delivered, ledger, accepted>>
  BY DEF LocalInv, ThreadsSound, Dispatch, audit, seen, stores
<1>1. PICK s \in {"denied", "admit"} :
        th[t].pc = "dispatch" /\ Become(t, [th[t] EXCEPT !.pc = s, !.at = clock])
  BY DEF Dispatch
<1> DEFINE q == [th[t] EXCEPT !.pc = s, !.at = clock]
<1>2. th[t] \in ThreadType /\ clock \in Nat
  BY <1>0, Numbers DEF TypeOK
<1>3. /\ q \in ThreadType /\ q.pc = s /\ q.h = th[t].h /\ q.at = clock
      /\ q.token = th[t].token /\ q.waited = th[t].waited
  BY <1>1, <1>2 DEF ThreadType
<1> HIDE DEF q
<1>4. th' = [th EXCEPT ![t] = q] /\ th'[t] = q
  BY <1>0, <1>1, <1>3, BecomeNext DEF q
<1>5. Holds(t)'
  BY <1>0, <1>1, <1>2, <1>3, <1>4 DEF Holds, Known
<1>6. Pends(t)' /\ Decides(t)' /\ Owns(t)'
  BY <1>3, <1>4 DEF Pends, Decides, Owns, Owning, PastRun
<1>7. Evidenced(t)'
  BY <1>0, <1>1, <1>3, <1>4 DEF Evidenced, Evidence, PastIssue, PastAdmission
<1>8. \A u \in Threads : Apart(t, u)' /\ Apart(u, t)'
  BY <1>3, <1>4 DEF Apart, Owning
<1>9. Completing(t)' => Completing(t)
  BY <1>0, <1>1, <1>3, <1>4 DEF Completing, IsBound
<1>10. \A h \in promised \ mishap' : th[t].h = h => Waits(h)'
  <2>1. ASSUME NEW h, th[t].h = h PROVE InHand(h)'
    BY <1>3, <1>4, <2>1 DEF InHand
  <2> QED
    BY <2>1 DEF Waits
<1>11. chain' \subseteq Events /\ anchored \subseteq anchored' /\ anchored' \subseteq chain'
  BY <1>0 DEF TypeOK
<1> QED
  BY <1>0, <1>3, <1>4, <1>5, <1>6, <1>7, <1>8, <1>9, <1>10, <1>11, QuietStep
-----------------------------------------------------------------------------
(* Steps that change a store. *)

\* A step that leaves the queue, its lock, the ledger and the runs alone spares everyone.
LEMMA AllSpared ==
  ASSUME LocalInv, NEW u \in Threads, UNCHANGED <<queue, lock, ledger, runs, promised>>
  PROVE  Spares(u)
<1>1. Pends(u) /\ Decides(u) /\ Owns(u)
  BY DEF LocalInv, ThreadsSound
<1> QED
  BY <1>1 DEF Spares, Pends, Decides, Owns

\* Time passes.
LEMMA TickInv ==
  ASSUME LocalInv, Tick
  PROVE  LocalInv'
<1>0. /\ TypeOK /\ StoresSound /\ StillWaiting
      /\ clock \in Nat /\ clock' = clock + 1 /\ clock' \in 0..MaxClock
      /\ UNCHANGED <<handoffs, queue, lock, grants, delivered, ledger, accepted>>
      /\ UNCHANGED <<chain, anchored, th, promised, mishap, runs>>
  BY Numbers DEF LocalInv, TypeOK, Tick, stores, audit, seen
<1>1. TypeOK'
  BY <1>0 DEF TypeOK, Known, JobOf, IsBound
<1>2. Grows
  BY <1>0 DEF Grows, TypeOK
<1>3. /\ clock' \in Nat /\ grants' \in Seq(GrantType) /\ handoffs' \in Seq(HandoffType)
      /\ Len(handoffs') <= MaxHandoffs /\ runs' \in [1..MaxHandoffs -> Nat]
      /\ \A k \in 1..MaxHandoffs : runs'[k] > 0 => k \in Known
      /\ \A k \in 1..MaxHandoffs : runs[k] > 0 => runs'[k] > 0
  BY <1>0 DEF TypeOK, StoresSound
<1>4. ThreadsSound'
  <2>1. ASSUME NEW u \in Threads
        PROVE  Holds(u)' /\ Pends(u)' /\ Decides(u)' /\ Evidenced(u)' /\ Owns(u)'
    BY <1>0, <1>2, <1>3, AllSpared, ThreadKept
  <2>2. ASSUME NEW u \in Threads, NEW v \in Threads, u # v PROVE Apart(u, v)'
    BY <1>0, <1>2, <1>3, <2>2, ApartKept
  <2> QED
    BY <2>1, <2>2 DEF ThreadsSound
<1>5. StoresSound'
  BY <1>0 DEF StoresSound, Evidence, Known, JobOf, IsBound
<1>6. RunsOnce' /\ EvidencePrecedes'
  BY <1>0, <1>2, <1>3, PastKept
<1>7. StillWaiting'
  <2> SUFFICES ASSUME NEW h \in promised \ mishap PROVE Waits(h)'
    BY <1>0 DEF StillWaiting, Waits, InHand, JobOf
  <2>1. Waits(h) /\ handoffs[h].exp \in Nat
    BY <1>0, HandoffTyped DEF StillWaiting, Waits, TypeOK
  <2> QED
    BY <1>0, <2>1 DEF Waits, InHand, JobOf
<1>8. QueueBound'
  <2>1. Queued(queue') \subseteq Queued(queue)
    BY <1>0
  <2>2. Returning' \subseteq Returning
    BY <1>0 DEF Returning, Completing, IsBound
  <2> QED
    BY <2>1, <2>2, BoundKept
<1> QED
  BY <1>1, <1>4, <1>5, <1>6, <1>7, <1>8 DEF LocalInv

\* A step of thread t that calls no worker keeps the invariant when it keeps the types, the
\* stores and the bound of the queue, spares the others, leaves t sound, and drops nothing
\* that was promised to wait.
LEMMA StepKept ==
  ASSUME LocalInv, TypeOK', Grows, StoresSound', QueueBound', UNCHANGED runs,
         NEW t \in Threads, \A u \in Threads \ {t} : th'[u] = th[u] /\ Spares(u),
         Holds(t)', Pends(t)', Decides(t)', Evidenced(t)', Owns(t)',
         \A u \in Threads \ {t} : Apart(t, u)' /\ Apart(u, t)',
         \A h \in promised' \ promised : Waits(h)', mishap \subseteq mishap',
         \A h \in promised \ mishap' :
           queue[JobOf(h)] # None /\ queue[JobOf(h)].h = h => Waits(h)',
         \A h \in promised \ mishap' :
           th[t].h = h /\ th[t].pc \notin {"idle", "decide"} => Waits(h)'
  PROVE  LocalInv'
<1>1. /\ clock' \in Nat /\ grants' \in Seq(GrantType) /\ handoffs' \in Seq(HandoffType)
      /\ Len(handoffs') <= MaxHandoffs /\ runs' \in [1..MaxHandoffs -> Nat]
  BY Numbers DEF TypeOK
<1>2. /\ \A k \in 1..MaxHandoffs : runs'[k] > 0 => k \in Known
      /\ \A k \in 1..MaxHandoffs : runs[k] > 0 => runs'[k] > 0
  BY DEF LocalInv, StoresSound
<1>3. ThreadsSound'
  BY <1>1, <1>2, ThreadsKept
<1>4. RunsOnce' /\ EvidencePrecedes'
  BY <1>1, PastKept
<1>5. StillWaiting'
  BY <1>1, <1>2, WaitingKept
<1> QED
  BY <1>3, <1>4, <1>5 DEF LocalInv

\* The queue is left alone, and thread t puts nothing back that it did not hold before.
LEMMA SameQueue ==
  ASSUME LocalInv, Grows, handoffs' \in Seq(HandoffType), UNCHANGED queue, NEW t \in Threads,
         \A u \in Threads \ {t} : th'[u] = th[u], Completing(t)' => Completing(t)
  PROVE  /\ QueueBound' /\ IsFiniteSet(Queued(queue'))
         /\ \A h \in promised : queue[JobOf(h)] # None /\ queue[JobOf(h)].h = h => Waits(h)'
<1>0. TypeOK /\ \A u \in Threads : Holds(u)
  BY DEF LocalInv, ThreadsSound
<1>1. ASSUME NEW u \in Threads, u # t, Completing(u)' PROVE Completing(u)
  BY <1>0, <1>1, KnownKept DEF Completing, Holds, IsBound
<1>2. Returning' \subseteq Returning
  BY <1>1 DEF Returning
<1>3. QueueBound' /\ IsFiniteSet(Queued(queue'))
  BY <1>2, BoundKept
<1>4. ASSUME NEW h \in promised, queue[JobOf(h)] # None, queue[JobOf(h)].h = h
      PROVE  Waits(h)'
  <2>1. JobOf(h)' = JobOf(h)
    BY <1>0, KnownKept DEF TypeOK
  <2> QED
    BY <1>4, <2>1 DEF Waits
<1> QED
  BY <1>3, <1>4

\* A request is issued its handoff.
LEMMA SubmitInv ==
  ASSUME LocalInv, NEW t \in Threads, Submit(t)
  PROVE  LocalInv'
<1>0. /\ TypeOK /\ StoresSound /\ \A u \in Threads : Holds(u)
      /\ th[t].pc = "idle" /\ Len(handoffs) < MaxHandoffs
      /\ UNCHANGED <<clock, queue, lock, grants, delivered, ledger, accepted>>
      /\ UNCHANGED <<chain, anchored, promised, mishap, runs>>
  BY DEF LocalInv, ThreadsSound, Submit, stores, audit, seen
<1>1. /\ handoffs' \in Seq(HandoffType) /\ Len(handoffs') = Len(handoffs) + 1
      /\ \A h \in 1..Len(handoffs) : handoffs'[h] = handoffs[h]
      /\ Len(handoffs) \in Nat /\ clock \in Nat
  <2>1. PICK j \in Jobs, s \in Subjects :
          handoffs' = Append(handoffs, [job |-> j, subject |-> s, exp |-> clock + HandoffTtl])
    BY DEF Submit
  <2>2. [job |-> j, subject |-> s, exp |-> clock + HandoffTtl] \in HandoffType
        /\ handoffs \in Seq(HandoffType) /\ clock \in Nat
    BY <1>0, Numbers DEF HandoffType, TypeOK
  <2> QED
    BY <2>1, <2>2
<1>2. Grows
  BY <1>0, <1>1 DEF Grows, TypeOK
<1> DEFINE q == [Idle EXCEPT !.pc = "issued", !.h = Len(handoffs'), !.at = clock]
<1>3. /\ q \in ThreadType /\ q.pc = "issued" /\ q.h = Len(handoffs') /\ q.at = clock
      /\ q.token = 0 /\ q.waited = 0
  <2>1. Len(handoffs') \in 0..MaxHandoffs
    BY <1>0, <1>1, Numbers
  <2> QED
    BY <1>1, <2>1 DEF ThreadType, Idle
<1>4. Become(t, q)
  BY DEF Submit
<1> HIDE DEF q
<1>5. /\ th' = [th EXCEPT ![t] = q] /\ th'[t] = q /\ \A u \in Threads \ {t} : th'[u] = th[u]
      /\ \A u \in Threads \ {t} : th'[u] = th[u] /\ Spares(u)
  BY <1>0, <1>3, <1>4, BecomeNext, AllSpared
<1>6. TypeOK'
  <2>1. th' \in [Threads -> ThreadType]
    BY <1>0, <1>3, <1>5 DEF TypeOK
  <2>2. ASSUME NEW j \in Jobs, queue[j] # None
        PROVE  /\ queue[j].h \in Known' /\ handoffs'[queue[j].h].job = j
               /\ handoffs'[queue[j].h].subject \in Bound
               /\ queue[j].decided <= handoffs'[queue[j].h].exp
    <3>1. /\ queue[j].h \in Known /\ JobOf(queue[j].h) = j /\ IsBound(queue[j].h)
          /\ queue[j].decided <= handoffs[queue[j].h].exp
      BY <1>0, <2>2 DEF TypeOK
    <3> QED
      BY <1>0, <1>1, <1>2, <3>1, KnownKept DEF JobOf, IsBound
  <2>3. /\ Known \subseteq Known' /\ Len(handoffs') <= MaxHandoffs
    BY <1>0, <1>1, <1>2, KnownKept, Numbers
  <2>4. \A g \in 1..Len(grants) : grants[g].h \in Known' /\ grants[g].exp > grants[g].issued
    BY <1>0, <2>3 DEF TypeOK
  <2> QED
    BY <1>0, <1>1, <2>1, <2>2, <2>3, <2>4 DEF TypeOK, JobOf, IsBound
<1>7. Holds(t)'
  <2>1. q.h \in Known'
    BY <1>1, <1>3 DEF Known
  <2>2. handoffs'[q.h] \in HandoffType
    BY <1>1, <2>1 DEF Known
  <2>3. handoffs'[q.h].exp \in Nat
    BY <2>2 DEF HandoffType
  <2> QED
    BY <1>0, <1>1, <1>3, <1>5, <2>1, <2>3 DEF Holds
<1>8. Pends(t)' /\ Decides(t)' /\ Evidenced(t)' /\ Owns(t)'
  <2>1. q.h \notin promised
    BY <1>0, <1>1, <1>3 DEF TypeOK, Known
  <2> QED
    BY <1>0, <1>3, <1>5, <2>1
    DEF Pends, Decides, Evidenced, Owns, PastIssue, PastAdmission, Owning, PastRun
<1>9. ASSUME NEW u \in Threads \ {t} PROVE Apart(t, u)' /\ Apart(u, t)'
  <2>1. th[u].pc \in {"issued", "add"} => th[u].h # q.h
    BY <1>0, <1>1, <1>3 DEF Holds, Known
  <2> QED
    BY <1>3, <1>5, <2>1 DEF Apart, Owning
<1>10. /\ QueueBound' /\ IsFiniteSet(Queued(queue'))
       /\ \A h \in promised : queue[JobOf(h)] # None /\ queue[JobOf(h)].h = h => Waits(h)'
  <2>1. ~Completing(t)'
    BY <1>3, <1>5 DEF Completing
  <2> QED
    BY <1>0, <1>1, <1>2, <1>5, <2>1, SameQueue
<1>11. StoresSound'
  <2>1. \A h \in Known : h \in Known' /\ JobOf(h)' = JobOf(h) /\ IsBound(h)' = IsBound(h)
    BY <1>0, <1>1, <1>2, KnownKept
  <2>2. promised \subseteq Known
    BY <1>0 DEF TypeOK
  <2> QED
    BY <1>0, <1>10, <2>1, <2>2 DEF StoresSound, Evidence
<1> QED
  BY <1>0, <1>2, <1>5, <1>6, <1>7, <1>8, <1>9, <1>10, <1>11, StepKept

\* A step of thread t that leaves clock, handoffs, queue and runs alone: t goes on with its
\* handoff, or it was deciding on an entry that stays in the queue.
LEMMA StoreStep ==
  ASSUME LocalInv, TypeOK', Grows, StoresSound', NEW t \in Threads, NEW q \in ThreadType,
         th' = [th EXCEPT ![t] = q],
         UNCHANGED <<clock, handoffs, queue, promised, mishap, runs>>,
         \A u \in Threads \ {t} : Spares(u),
         Holds(t)', Pends(t)', Decides(t)', Evidenced(t)', Owns(t)',
         \A u \in Threads \ {t} : Apart(t, u)' /\ Apart(u, t)',
         \/ q.pc \notin {"idle", "decide"} /\ q.h = th[t].h
         \/ th[t].pc \in {"grant", "granted"},
         Completing(t)' => Completing(t)
  PROVE  LocalInv'
<1>0. TypeOK /\ Decides(t) /\ handoffs' \in Seq(HandoffType)
  BY DEF LocalInv, ThreadsSound, TypeOK
<1>1. th'[t] = q /\ \A u \in Threads \ {t} : th'[u] = th[u]
  BY <1>0 DEF TypeOK
<1>2. /\ QueueBound'
      /\ \A h \in promised : queue[JobOf(h)] # None /\ queue[JobOf(h)].h = h => Waits(h)'
  BY <1>0, <1>1, SameQueue
<1>3. ASSUME NEW h \in promised \ mishap', th[t].h = h, th[t].pc \notin {"idle", "decide"}
      PROVE  Waits(h)'
  <2>1. CASE q.pc \notin {"idle", "decide"} /\ q.h = th[t].h
    <3>1. InHand(h)'
      BY <1>1, <1>3, <2>1 DEF InHand
    <3> QED
      BY <3>1 DEF Waits
  <2>2. CASE th[t].pc \in {"grant", "granted"}
    BY <1>0, <1>2, <1>3, <2>2 DEF Decides
  <2> QED
    BY <2>1, <2>2
<1> QED
  BY <1>1, <1>2, <1>3, StepKept

\* _reserve.
LEMMA ReserveInv ==
  ASSUME LocalInv, NEW t \in Threads, Reserve(t)
  PROVE  LocalInv'
<1> DEFINE j == JobOf(th[t].h)
<1>0. /\ TypeOK /\ StoresSound /\ \A u \in Threads : Holds(u) /\ Owns(u) /\ Evidenced(u)
      /\ th[t].pc = "reserve"
      /\ UNCHANGED <<clock, handoffs, queue, lock, grants, delivered, accepted>>
      /\ UNCHANGED <<chain, anchored, promised, mishap, runs>>
  BY DEF LocalInv, ThreadsSound, Reserve, audit, seen
<1>1. th[t].h \in Known /\ j \in Jobs
  BY <1>0, HandoffTyped DEF Holds
<1>2. PICK s \in {"commit", "denied"} :
        /\ Goto(t, s)
        /\ s = "commit" => ledger[j] = "free" /\ ledger' = [ledger EXCEPT ![j] = "RESERVED"]
        /\ s = "denied" => ledger' = ledger
  BY DEF Reserve, Reservable, Burned
<1>3. PICK q \in ThreadType : /\ th' = [th EXCEPT ![t] = q] /\ th'[t] = q
                              /\ q.pc = s /\ q.h = th[t].h /\ q.at = th[t].at
                              /\ q.token = th[t].token /\ q.waited = th[t].waited
  BY <1>0, <1>2, PcTyped, GotoNext
<1>4. th' \in [Threads -> ThreadType] /\ \A u \in Threads \ {t} : th'[u] = th[u]
  BY <1>0, <1>3 DEF TypeOK
<1>5. /\ ledger' \in [Jobs -> {"free", "RESERVED", "EXECUTION_COMMITTED"}]
      /\ \A i \in Jobs : ledger[i] # "free" => ledger'[i] = ledger[i]
      /\ s = "commit" => ledger'[j] = "RESERVED"
  BY <1>0, <1>1, <1>2 DEF TypeOK
<1>6. TypeOK'
  BY <1>0, <1>4, <1>5 DEF TypeOK, Known, JobOf, IsBound
<1>7. Grows
  BY <1>0, Numbers DEF Grows, TypeOK
<1>8. StoresSound'
  <2>1. ASSUME NEW h \in 1..MaxHandoffs, runs[h] > 0
        PROVE  h \in Known /\ ledger'[JobOf(h)] # "free"
    BY <1>0, <1>5, <2>1, HandoffTyped DEF StoresSound
  <2> QED
    BY <1>0, <2>1 DEF StoresSound, Evidence, Known, JobOf, IsBound
<1>9. ASSUME NEW u \in Threads \ {t} PROVE Spares(u)
  <2>1. th[u].pc \in Owning => ledger'[JobOf(th[u].h)] = ledger[JobOf(th[u].h)]
    BY <1>0, <1>5, HandoffTyped DEF Holds, Owns, Owning
  <2>2. Pends(u) /\ Decides(u) /\ Owns(u)
    BY DEF LocalInv, ThreadsSound
  <2> QED
    BY <1>0, <2>1, <2>2 DEF Spares, Pends, Decides, Owns
<1>10. Holds(t)'
  BY <1>0, <1>3 DEF Holds, Known
<1>11. Pends(t)' /\ Decides(t)'
  BY <1>3 DEF Pends, Decides
<1>12. Evidenced(t)'
  BY <1>0, <1>3 DEF Evidenced, Evidence, Paid, IsBound, PastIssue, PastAdmission
<1>13. Owns(t)'
  <2>1. ASSUME s = "commit", NEW k \in Known, JobOf(k) = j PROVE runs[k] = 0
    <3>1. k \in 1..MaxHandoffs /\ runs[k] \in Nat
      BY <1>0, HandoffTyped DEF TypeOK
    <3> QED
      BY <1>0, <1>2, <2>1, <3>1 DEF StoresSound
  <2> QED
    BY <1>0, <1>3, <1>5, <2>1 DEF Owns, JobOf, Known, Owning, PastRun
<1>14. ASSUME NEW u \in Threads \ {t} PROVE Apart(t, u)' /\ Apart(u, t)'
  <2>1. ASSUME s = "commit", th[u].pc \in Owning PROVE JobOf(th[u].h) # j
    BY <1>0, <1>2, <2>1 DEF Owns, Owning
  <2> QED
    BY <1>0, <1>3, <1>4, <2>1 DEF Apart, JobOf, Owning
<1>15. ~Completing(t)'
  BY <1>3 DEF Completing
<1> QED
  BY <1>0, <1>3, <1>6, <1>7, <1>8, <1>9, <1>10, <1>11, <1>12, <1>13, <1>14, <1>15, StoreStep

\* commit_execution.
LEMMA CommitInv ==
  ASSUME LocalInv, NEW t \in Threads, Commit(t)
  PROVE  LocalInv'
<1> DEFINE j == JobOf(th[t].h)
<1>0. /\ TypeOK /\ StoresSound /\ \A u \in Threads : Holds(u) /\ Owns(u) /\ Evidenced(u)
      /\ \A u \in Threads \ {t} : Apart(t, u) /\ Apart(u, t)
      /\ th[t].pc = "commit"
      /\ UNCHANGED <<clock, handoffs, queue, lock, grants, delivered, accepted>>
      /\ UNCHANGED <<chain, anchored, promised, mishap, runs>>
  BY DEF LocalInv, ThreadsSound, Commit, audit, seen
<1>1. th[t].h \in Known /\ j \in Jobs /\ ledger[j] = "RESERVED"
  BY <1>0, HandoffTyped DEF Holds, Owns
<1>2. Goto(t, "committed") /\ ledger' = [ledger EXCEPT ![j] = "EXECUTION_COMMITTED"]
  BY <1>1 DEF Commit
<1>3. PICK q \in ThreadType : /\ th' = [th EXCEPT ![t] = q] /\ th'[t] = q
                              /\ q.pc = "committed" /\ q.h = th[t].h /\ q.at = th[t].at
                              /\ q.token = th[t].token /\ q.waited = th[t].waited
  <2>1. [th[t] EXCEPT !.pc = "committed"] \in ThreadType
    BY <1>0, PcTyped
  <2> QED
    BY <1>0, <1>2, <2>1, GotoNext
<1>4. th' \in [Threads -> ThreadType] /\ \A u \in Threads \ {t} : th'[u] = th[u]
  BY <1>0, <1>3 DEF TypeOK
<1>5. /\ ledger' \in [Jobs -> {"free", "RESERVED", "EXECUTION_COMMITTED"}]
      /\ \A i \in Jobs \ {j} : ledger'[i] = ledger[i]
      /\ ledger'[j] = "EXECUTION_COMMITTED"
  BY <1>0, <1>1, <1>2 DEF TypeOK
<1>6. TypeOK'
  BY <1>0, <1>4, <1>5 DEF TypeOK, Known, JobOf, IsBound
<1>7. Grows
  BY <1>0, Numbers DEF Grows, TypeOK
<1>8. StoresSound'
  <2>1. ASSUME NEW h \in 1..MaxHandoffs, runs[h] > 0
        PROVE  h \in Known /\ ledger'[JobOf(h)] # "free"
    BY <1>0, <1>5, <2>1, HandoffTyped DEF StoresSound
  <2> QED
    BY <1>0, <2>1 DEF StoresSound, Evidence, Known, JobOf, IsBound
<1>9. ASSUME NEW u \in Threads \ {t} PROVE Spares(u)
  <2>1. th[u].pc \in Owning => JobOf(th[u].h) \in Jobs \ {j}
    BY <1>0, HandoffTyped DEF Holds, Apart, Owning
  <2>2. Pends(u) /\ Decides(u) /\ Owns(u)
    BY DEF LocalInv, ThreadsSound
  <2> QED
    BY <1>0, <1>5, <2>1, <2>2 DEF Spares, Pends, Decides, Owns
<1>10. Holds(t)'
  BY <1>0, <1>3 DEF Holds, Known
<1>11. Pends(t)' /\ Decides(t)'
  BY <1>3 DEF Pends, Decides
<1>12. Evidenced(t)'
  BY <1>0, <1>3 DEF Evidenced, Evidence, Paid, IsBound, PastIssue, PastAdmission
<1>13. Owns(t)'
  BY <1>0, <1>3, <1>5 DEF Owns, JobOf, Known, Owning, PastRun
<1>14. ASSUME NEW u \in Threads \ {t} PROVE Apart(t, u)' /\ Apart(u, t)'
  BY <1>0, <1>3, <1>4 DEF Apart, JobOf, Owning
<1>15. ~Completing(t)'
  BY <1>3 DEF Completing
<1> QED
  BY <1>0, <1>3, <1>6, <1>7, <1>8, <1>9, <1>10, <1>11, <1>12, <1>13, <1>14, <1>15, StoreStep

\* A result is accepted once, and no more of them than the ledger holds.
LEMMA AcceptInv ==
  ASSUME LocalInv, NEW t \in Threads, Accept(t)
  PROVE  LocalInv'
<1>0. /\ TypeOK /\ StoresSound /\ Holds(t) /\ Owns(t) /\ th[t].pc = "verify"
      /\ UNCHANGED <<clock, handoffs, queue, lock, grants, delivered, ledger>>
      /\ UNCHANGED <<chain, anchored, promised, mishap, runs>>
  BY DEF LocalInv, ThreadsSound, Accept, audit, seen
<1>1. PICK s \in {"accepted", "rejected"} :
        /\ Goto(t, s)
        /\ \/ accepted' = accepted
           \/ /\ accepted' = accepted \cup {th[t].h} /\ th[t].h \notin accepted
              /\ Cardinality(accepted) < MaxAccepted
  BY DEF Accept
<1>2. accepted' \subseteq Known /\ IsFiniteSet(accepted') /\ Cardinality(accepted') <= MaxAccepted
  <2>1. IsFiniteSet(accepted) /\ accepted \subseteq Known /\ th[t].h \in Known
    BY <1>0 DEF StoresSound, TypeOK, Holds
  <2>2. CASE accepted' = accepted
    BY <1>0, <2>1, <2>2 DEF TypeOK
  <2>3. CASE /\ accepted' = accepted \cup {th[t].h} /\ th[t].h \notin accepted
             /\ Cardinality(accepted) < MaxAccepted
    <3>1. IsFiniteSet(accepted') /\ Cardinality(accepted') = Cardinality(accepted) + 1
      BY <2>1, <2>3, FS_AddElement
    <3>2. Cardinality(accepted) \in Nat /\ MaxAccepted \in Nat
      BY <2>1, FS_CardinalityType, Numbers
    <3> QED
      BY <2>1, <2>3, <3>1, <3>2
  <2> QED
    BY <1>1, <2>2, <2>3
<1>3. PICK q \in ThreadType : /\ th' = [th EXCEPT ![t] = q] /\ th'[t] = q
                              /\ q.pc = s /\ q.h = th[t].h /\ q.at = th[t].at
                              /\ q.token = th[t].token /\ q.waited = th[t].waited
  BY <1>0, <1>1, PcTyped, GotoNext
<1>4. th' \in [Threads -> ThreadType]
  BY <1>0, <1>3 DEF TypeOK
<1>5. TypeOK'
  BY <1>0, <1>2, <1>4 DEF TypeOK, Known, JobOf, IsBound
<1>6. Grows
  BY <1>0, Numbers DEF Grows, TypeOK
<1>7. StoresSound'
  BY <1>0, <1>2 DEF StoresSound, Evidence, Known, JobOf, IsBound
<1>8. \A u \in Threads : Spares(u)
  BY <1>0, AllSpared
<1>9. Holds(t)'
  BY <1>0, <1>3 DEF Holds, Known
<1>10. Pends(t)' /\ Decides(t)' /\ Evidenced(t)'
  BY <1>3 DEF Pends, Decides, Evidenced, PastIssue, PastAdmission
<1>11. Owns(t)'
  BY <1>0, <1>3 DEF Owns, Owning, PastRun
<1>12. \A u \in Threads : Apart(t, u)' /\ Apart(u, t)'
  BY <1>3 DEF Apart, Owning
<1>13. ~Completing(t)'
  BY <1>3 DEF Completing
<1> QED
  BY <1>0, <1>3, <1>5, <1>6, <1>7, <1>8, <1>9, <1>10, <1>11, <1>12, <1>13, StoreStep

\* grant, under the lock, for the entry that was decided on.
LEMMA GrantInv ==
  ASSUME LocalInv, NEW t \in Threads, Grant(t)
  PROVE  LocalInv'
<1>0. /\ TypeOK /\ StoresSound /\ \A u \in Threads : Holds(u) /\ Pends(u) /\ Decides(u) /\ Owns(u)
      /\ th[t].pc = "grant" /\ clock \in Nat
      /\ UNCHANGED <<clock, handoffs, queue, delivered, ledger, accepted>>
      /\ UNCHANGED <<chain, anchored, promised, mishap, runs>>
  BY ClockTyped DEF LocalInv, ThreadsSound, Grant, audit, seen
<1>1. th[t].h \in Known /\ handoffs[th[t].h].exp \in Nat /\ th[t].h \in 1..MaxHandoffs
  BY <1>0, HandoffTyped DEF Holds
<1>2. ASSUME NEW u \in Threads \ {t} PROVE Spares(u)
  <2>1. lock = t /\ th[u].pc \notin {"grant", "granted"}
    BY <1>0 DEF Decides
  <2> QED
    BY <1>0, <2>1 DEF Spares, Pends, Owns
<1>3. CASE clock < handoffs[th[t].h].exp
  <2> DEFINE g == [h |-> th[t].h, issued |-> clock, state |-> "GRANTED",
                   exp |-> Sooner(clock + ApprovalTtl, handoffs[th[t].h].exp)]
             q == [th[t] EXCEPT !.pc = "granted", !.token = Len(grants')]
  <2>1. grants' = Append(grants, g) /\ Become(t, q) /\ UNCHANGED lock
    BY <1>3 DEF Grant
  <2>2. g \in GrantType /\ g.h = th[t].h /\ g.exp > g.issued
    BY <1>0, <1>1, <1>3, Numbers DEF GrantType, Sooner
  <2> HIDE DEF g
  <2>3. /\ grants' \in Seq(GrantType) /\ Len(grants') = Len(grants) + 1 /\ Len(grants) \in Nat
        /\ \A i \in 1..Len(grants) : grants'[i] = grants[i]
        /\ grants'[Len(grants')] = g
    BY <1>0, <2>1, <2>2 DEF TypeOK
  <2>4. th[t] \in ThreadType
    BY <1>0 DEF TypeOK
  <2>5. /\ q \in ThreadType /\ q.pc = "granted" /\ q.h = th[t].h /\ q.at = th[t].at
        /\ q.token = Len(grants') /\ q.waited = th[t].waited
    <3>1. Len(grants') \in Nat
      BY <2>3
    <3> QED
      BY <2>4, <3>1 DEF ThreadType
  <2> HIDE DEF q
  <2>6. th' = [th EXCEPT ![t] = q] /\ th'[t] = q /\ th' \in [Threads -> ThreadType]
    BY <1>0, <2>1, <2>5, BecomeNext
  <2>7. TypeOK'
    <3>1. ASSUME NEW i \in 1..Len(grants')
          PROVE  grants'[i].h \in Known /\ grants'[i].exp > grants'[i].issued
      <4>1. CASE i \in 1..Len(grants)
        BY <1>0, <2>3, <4>1 DEF TypeOK
      <4>2. CASE i = Len(grants')
        BY <1>1, <2>2, <2>3, <4>2
      <4> QED
        BY <2>3, <4>1, <4>2
    <3>2. delivered \subseteq 1..Len(grants')
      BY <1>0, <2>3 DEF TypeOK
    <3> QED
      BY <1>0, <2>1, <2>3, <2>6, <3>1, <3>2 DEF TypeOK, Known, JobOf, IsBound
  <2>8. Grows
    <3>1. /\ Len(handoffs) <= Len(handoffs') /\ clock <= clock'
      BY <1>0 DEF TypeOK
    <3>2. Len(grants) <= Len(grants')
      BY <2>3
    <3> QED
      BY <1>0, <2>3, <3>1, <3>2 DEF Grows
  <2>9. StoresSound'
    <3>1. \A i \in delivered : grants'[i] = grants[i]
      BY <1>0, <2>3 DEF TypeOK
    <3> QED
      BY <1>0, <3>1 DEF StoresSound, Evidence, Known, JobOf, IsBound
  <2>10. Holds(t)'
    BY <1>0, <2>2, <2>3, <2>5, <2>6 DEF Holds, Known
  <2>11. Pends(t)' /\ Evidenced(t)' /\ Owns(t)'
    BY <2>5, <2>6 DEF Pends, Evidenced, Owns, PastIssue, PastAdmission, Owning, PastRun
  <2>12. Decides(t)'
    BY <1>0, <2>1, <2>5, <2>6 DEF Decides, JobOf
  <2>13. (\A u \in Threads : Apart(t, u)' /\ Apart(u, t)') /\ ~Completing(t)'
    BY <2>5, <2>6 DEF Apart, Owning, Completing
  <2> QED
    BY <1>0, <1>2, <2>5, <2>6, <2>7, <2>8, <2>9, <2>10, <2>11, <2>12, <2>13, StoreStep
<1>4. CASE ~(clock < handoffs[th[t].h].exp)
  <2>1. Goto(t, "idle") /\ lock' = None /\ UNCHANGED grants
    BY <1>4 DEF Grant
  <2>2. /\ Idle \in ThreadType /\ th' = [th EXCEPT ![t] = Idle] /\ th'[t].pc = "idle"
        /\ th' \in [Threads -> ThreadType]
    BY <1>0, <2>1, GotoIdle DEF TypeOK
  <2>3. TypeOK'
    BY <1>0, <2>1, <2>2 DEF TypeOK, Known, JobOf, IsBound
  <2>4. Grows
    BY <1>0, <2>1 DEF Grows, TypeOK
  <2>5. StoresSound'
    BY <1>0, <2>1 DEF StoresSound, Evidence, Known, JobOf, IsBound
  <2>6. ~Completing(t)'
    BY <2>2 DEF Completing
  <2> QED
    BY <1>0, <1>2, <2>2, <2>3, <2>4, <2>5, <2>6, IdleSound, StoreStep
<1> QED
  BY <1>3, <1>4

\* The token is handed out with its evidence, and the lock is released.
LEMMA RecordGrantInv ==
  ASSUME LocalInv, NEW t \in Threads, RecordGrant(t)
  PROVE  LocalInv'
<1>0. /\ TypeOK /\ StoresSound /\ \A u \in Threads : Holds(u) /\ Pends(u) /\ Decides(u) /\ Owns(u)
      /\ th[t].pc = "granted" /\ clock \in Nat /\ Goto(t, "idle") /\ lock' = None
      /\ UNCHANGED <<clock, handoffs, queue, grants, ledger, accepted>>
      /\ UNCHANGED <<promised, mishap, runs>>
  BY ClockTyped DEF LocalInv, ThreadsSound, RecordGrant, audit, seen
<1>1. /\ Logged(Event(t, "APPROVAL_GRANTED")) \/ NotLogged(Event(t, "APPROVAL_GRANTED"))
      /\ "APPROVAL_GRANTED" \in Actions
  BY DEF RecordGrant, Actions
<1>2. /\ chain' \subseteq Events /\ anchored \subseteq anchored' /\ anchored' \subseteq chain'
      /\ Logged(Event(t, "APPROVAL_GRANTED"))
           => [action |-> "APPROVAL_GRANTED", h |-> th[t].h] \in anchored'
  BY <1>0, <1>1, Recorded
<1>3. /\ delivered \subseteq delivered'
      /\ \A g \in delivered' \ delivered :
           /\ g \in 1..Len(grants) /\ grants[g].h = th[t].h
           /\ [action |-> "APPROVAL_GRANTED", h |-> th[t].h] \in anchored'
  BY <1>0, <1>2 DEF RecordGrant, Holds
<1>4. ASSUME NEW u \in Threads \ {t} PROVE Spares(u)
  <2>1. lock = t /\ th[u].pc \notin {"grant", "granted"}
    BY <1>0 DEF Decides
  <2> QED
    BY <1>0, <2>1 DEF Spares, Pends, Owns
<1>5. /\ Idle \in ThreadType /\ th' = [th EXCEPT ![t] = Idle] /\ th'[t].pc = "idle"
      /\ th' \in [Threads -> ThreadType]
  BY <1>0, GotoIdle DEF TypeOK
<1>6. TypeOK'
  <2>1. delivered' \subseteq 1..Len(grants)
    BY <1>0, <1>3 DEF TypeOK
  <2> QED
    BY <1>0, <1>2, <1>5, <2>1 DEF TypeOK, Known, JobOf, IsBound
<1>7. Grows
  BY <1>0, <1>2, <1>3 DEF Grows, TypeOK
<1>8. StoresSound'
  <2>1. \A g \in delivered' : [action |-> "APPROVAL_GRANTED", h |-> grants[g].h] \in anchored'
    BY <1>0, <1>2, <1>3 DEF StoresSound, Evidence
  <2> QED
    BY <1>0, <1>2, <2>1 DEF StoresSound, Evidence, Known, JobOf, IsBound
<1>9. ~Completing(t)'
  BY <1>5 DEF Completing
<1> QED
  BY <1>0, <1>4, <1>5, <1>6, <1>7, <1>8, <1>9, IdleSound, StoreStep

\* Gateway.admit, with the grant it uses up.
LEMMA AdmitInv ==
  ASSUME LocalInv, NEW t \in Threads, Admit(t)
  PROVE  LocalInv'
<1> DEFINE g == th[t].token
<1>0. /\ TypeOK /\ StoresSound /\ \A u \in Threads : Holds(u) /\ Evidenced(u)
      /\ th[t].pc = "admit" /\ clock \in Nat /\ grants \in Seq(GrantType)
      /\ UNCHANGED <<clock, handoffs, queue, lock, delivered, ledger, accepted>>
      /\ UNCHANGED <<chain, anchored, promised, mishap, runs>>
  BY ClockTyped DEF LocalInv, ThreadsSound, Admit, audit, seen
<1>1. PICK s \in {"admitted", "refused"} :
        /\ Goto(t, s)
        /\ \/ grants' = grants /\ (s = "admitted" => ~IsBound(th[t].h))
           \/ /\ grants' = [grants EXCEPT ![g].state = "CONSUMED"] /\ g # 0
              /\ grants[g].h = th[t].h
  BY DEF Admit, Consumable
<1>2. g \in delivered \cup {0} /\ delivered \subseteq 1..Len(grants) /\ Len(grants) \in Nat
  BY <1>0 DEF Holds, TypeOK
<1>3. /\ grants' \in Seq(GrantType) /\ Len(grants') = Len(grants)
      /\ \A i \in 1..Len(grants) :
           /\ grants'[i].h = grants[i].h /\ grants'[i].issued = grants[i].issued
           /\ grants'[i].exp = grants[i].exp
           /\ grants[i].state = "CONSUMED" => grants'[i].state = "CONSUMED"
  <2>1. CASE grants' = grants
    BY <1>0, <2>1
  <2>2. CASE grants' = [grants EXCEPT ![g].state = "CONSUMED"] /\ g # 0
    <3>1. g \in 1..Len(grants)
      BY <1>2, <2>2
    <3>2. \A i \in 1..Len(grants) : grants[i] \in GrantType
      BY <1>0
    <3>3. [grants[g] EXCEPT !.state = "CONSUMED"] \in GrantType
      BY <3>1, <3>2 DEF GrantType
    <3>4. grants' = [grants EXCEPT ![g] = [grants[g] EXCEPT !.state = "CONSUMED"]]
      BY <2>2
    <3>5. grants' \in Seq(GrantType) /\ Len(grants') = Len(grants)
      BY <1>0, <3>1, <3>3, <3>4
    <3>6. ASSUME NEW i \in 1..Len(grants)
          PROVE  /\ grants'[i].h = grants[i].h /\ grants'[i].issued = grants[i].issued
                 /\ grants'[i].exp = grants[i].exp
                 /\ grants[i].state = "CONSUMED" => grants'[i].state = "CONSUMED"
      <4>1. CASE i = g
        BY <1>0, <3>1, <3>2, <3>4, <4>1 DEF GrantType
      <4>2. CASE i # g
        BY <1>0, <3>4, <4>2
      <4> QED
        BY <4>1, <4>2
    <3> QED
      BY <3>5, <3>6
  <2> QED
    BY <1>1, <2>1, <2>2
<1>4. s = "admitted" /\ IsBound(th[t].h) =>
        g \in delivered /\ grants'[g].h = th[t].h /\ grants'[g].state = "CONSUMED"
  <2> SUFFICES ASSUME s = "admitted", IsBound(th[t].h)
               PROVE  g \in delivered /\ grants'[g].h = th[t].h /\ grants'[g].state = "CONSUMED"
    OBVIOUS
  <2>1. /\ grants' = [grants EXCEPT ![g].state = "CONSUMED"] /\ g \in delivered
        /\ g \in 1..Len(grants) /\ grants[g].h = th[t].h /\ grants[g] \in GrantType
    BY <1>0, <1>1, <1>2
  <2> QED
    BY <1>0, <1>3, <2>1 DEF GrantType
<1>5. PICK q \in ThreadType : /\ th' = [th EXCEPT ![t] = q] /\ th'[t] = q
                              /\ q.pc = s /\ q.h = th[t].h /\ q.at = th[t].at
                              /\ q.token = th[t].token /\ q.waited = th[t].waited
  BY <1>0, <1>1, PcTyped, GotoNext
<1>6. th' \in [Threads -> ThreadType]
  BY <1>0, <1>5 DEF TypeOK
<1>7. TypeOK'
  <2>1. /\ delivered \subseteq 1..Len(grants')
        /\ \A i \in 1..Len(grants') : grants'[i].h \in Known /\ grants'[i].exp > grants'[i].issued
    BY <1>0, <1>3 DEF TypeOK
  <2> QED
    BY <1>0, <1>3, <1>6, <2>1 DEF TypeOK, Known, JobOf, IsBound
<1>8. Grows
  BY <1>0, <1>2, <1>3 DEF Grows, TypeOK
<1>9. StoresSound'
  <2>1. \A i \in delivered : grants'[i].h = grants[i].h
    BY <1>2, <1>3
  <2> QED
    BY <1>0, <2>1 DEF StoresSound, Evidence, Known, JobOf, IsBound
<1>10. \A u \in Threads : Spares(u)
  BY <1>0, AllSpared
<1>11. Holds(t)'
  BY <1>0, <1>5 DEF Holds, Known
<1>12. Pends(t)' /\ Decides(t)' /\ Owns(t)'
  BY <1>5 DEF Pends, Decides, Owns, Owning, PastRun
<1>13. Evidenced(t)'
  <2>1. q.pc = "admitted" => Paid(q.h)'
    BY <1>0, <1>4, <1>5 DEF Paid, IsBound
  <2>2. Evidence("HANDOFF_ISSUED", q.h)'
    BY <1>0, <1>5 DEF Evidenced, Evidence, PastIssue
  <2> QED
    BY <1>0, <1>5, <2>1, <2>2 DEF Evidenced, Evidence, Paid, IsBound, PastAdmission
<1>14. \A u \in Threads : Apart(t, u)' /\ Apart(u, t)'
  BY <1>5 DEF Apart, Owning
<1>15. Completing(t)' => Completing(t)
  BY <1>0, <1>5 DEF Completing, IsBound
<1> QED
  BY <1>0, <1>5, <1>7, <1>8, <1>9, <1>10, <1>11, <1>12, <1>13, <1>14, <1>15, StoreStep

\* The worker is called: for a job id that has not run, with all its evidence.
LEMMA RunInv ==
  ASSUME LocalInv, NEW t \in Threads, Run(t)
  PROVE  LocalInv'
<1> DEFINE h == th[t].h
<1>0. /\ TypeOK /\ StoresSound /\ RunsOnce /\ EvidencePrecedes
      /\ \A u \in Threads : Holds(u) /\ Pends(u) /\ Decides(u) /\ Evidenced(u) /\ Owns(u)
      /\ \A u \in Threads \ {t} : Apart(t, u) /\ Apart(u, t)
      /\ th[t].pc = "run" /\ clock \in Nat
  BY ClockTyped DEF LocalInv, ThreadsSound, Run
<1>1. /\ UNCHANGED <<clock, handoffs, queue, lock, grants, delivered, ledger, accepted>>
      /\ UNCHANGED <<chain, anchored, promised, mishap>>
  BY DEF Run, stores, audit
<1>2. /\ h \in Known /\ h \in 1..MaxHandoffs
      /\ \A k \in Known : JobOf(k) = JobOf(h) => runs[k] = 0
      /\ ledger[JobOf(h)] = "EXECUTION_COMMITTED"
  BY <1>0, HandoffTyped DEF Holds, Owns, Owning
<1>3. /\ runs' \in [1..MaxHandoffs -> Nat] /\ runs'[h] = 1 /\ runs[h] = 0
      /\ \A k \in 1..MaxHandoffs \ {h} : runs'[k] = runs[k]
  BY <1>0, <1>2 DEF Run, TypeOK
<1>4. PICK s \in {"verify", "attempted"} : Goto(t, s)
  BY DEF Run
<1>5. PICK q \in ThreadType : /\ th' = [th EXCEPT ![t] = q] /\ th'[t] = q
                              /\ q.pc = s /\ q.h = th[t].h /\ q.at = th[t].at
                              /\ q.token = th[t].token /\ q.waited = th[t].waited
  BY <1>0, <1>4, PcTyped, GotoNext
<1>6. th' \in [Threads -> ThreadType] /\ \A u \in Threads \ {t} : th'[u] = th[u]
  BY <1>0, <1>5 DEF TypeOK
<1>7. TypeOK'
  BY <1>0, <1>1, <1>3, <1>6 DEF TypeOK, Known, JobOf, IsBound
<1>8. Grows
  BY <1>0, <1>1 DEF Grows, TypeOK
<1>9. /\ clock' \in Nat /\ grants' \in Seq(GrantType) /\ handoffs' \in Seq(HandoffType)
      /\ Len(handoffs') <= MaxHandoffs
      /\ \A k \in 1..MaxHandoffs : runs'[k] > 0 => k \in Known
      /\ \A k \in 1..MaxHandoffs : runs[k] > 0 => runs'[k] > 0
  <2>1. /\ clock' \in Nat /\ grants' \in Seq(GrantType) /\ handoffs' \in Seq(HandoffType)
        /\ Len(handoffs') <= MaxHandoffs
    BY <1>0, <1>1 DEF TypeOK
  <2>2. ASSUME NEW k \in 1..MaxHandoffs
        PROVE  /\ runs'[k] > 0 => k \in Known
               /\ runs[k] > 0 => runs'[k] > 0
    <3>1. runs[k] > 0 => k \in Known
      BY <1>0 DEF StoresSound
    <3> QED
      BY <1>2, <1>3, <3>1
  <2> QED
    BY <2>1, <2>2
<1>10. ThreadsSound'
  <2>1. ASSUME NEW u \in Threads \ {t} PROVE Spares(u)
    <3>1. ASSUME th[u].pc \in Owning, NEW k \in Known, JobOf(k) = JobOf(th[u].h)
          PROVE  runs'[k] = 0
      <4>1. JobOf(k) # JobOf(h) /\ runs[k] = 0
        BY <1>0, <3>1 DEF Apart, Owning, Owns
      <4>2. k \in 1..MaxHandoffs /\ k # h
        BY <1>0, <4>1, HandoffTyped
      <4> QED
        BY <1>3, <4>1, <4>2
    <3> QED
      BY <1>0, <1>1, <3>1 DEF Spares, Pends, Decides
  <2>2. Holds(t)'
    BY <1>0, <1>1, <1>5 DEF Holds, Known
  <2>3. Pends(t)' /\ Decides(t)' /\ Evidenced(t)'
    BY <1>5 DEF Pends, Decides, Evidenced, PastIssue, PastAdmission
  <2>4. Owns(t)'
    BY <1>3, <1>5 DEF Owns, Owning, PastRun
  <2>5. \A u \in Threads : Apart(t, u)' /\ Apart(u, t)'
    BY <1>5 DEF Apart, Owning
  <2> QED
    BY <1>3, <1>6, <1>8, <1>9, <2>1, <2>2, <2>3, <2>4, <2>5, ThreadsKept
<1>11. StoresSound'
  <2>1. ASSUME NEW k \in 1..MaxHandoffs, runs'[k] > 0 PROVE k \in Known /\ ledger[JobOf(k)] # "free"
    BY <1>0, <1>2, <1>3, <2>1 DEF StoresSound
  <2> QED
    BY <1>0, <1>1, <2>1 DEF StoresSound, Evidence, Known, JobOf, IsBound
<1>12. RunsOnce'
  <2> SUFFICES ASSUME NEW i \in Known, NEW k \in Known
               PROVE  runs'[i] <= 1 /\ (i # k /\ JobOf(i) = JobOf(k) => runs'[i] + runs'[k] <= 1)
    BY <1>1 DEF RunsOnce, Known, JobOf
  <2>1. i \in 1..MaxHandoffs /\ k \in 1..MaxHandoffs
    BY <1>0, HandoffTyped
  <2>2. runs[i] \in Nat /\ runs[k] \in Nat /\ runs[i] <= 1 /\ runs[k] <= 1
    BY <1>0, <2>1 DEF TypeOK, RunsOnce
  <2>3. CASE i = h
    BY <1>2, <1>3, <2>1, <2>2, <2>3
  <2>4. CASE k = h
    BY <1>2, <1>3, <2>1, <2>2, <2>4
  <2>5. CASE i # h /\ k # h
    BY <1>0, <1>3, <2>1, <2>2, <2>5 DEF RunsOnce
  <2> QED
    BY <2>3, <2>4, <2>5
<1>13. EvidencePrecedes'
  <2> SUFFICES ASSUME NEW k \in Known, runs'[k] > 0
               PROVE  /\ \A a \in {"HANDOFF_ISSUED", "HANDOFF_ADMITTED", "HANDOFF_DISPATCHED"} :
                           [action |-> a, h |-> k] \in anchored
                      /\ IsBound(k) =>
                           /\ [action |-> "APPROVAL_GRANTED", h |-> k] \in anchored
                           /\ \E g \in delivered : grants[g].h = k /\ grants[g].state = "CONSUMED"
    BY <1>1 DEF EvidencePrecedes, Known, IsBound
  <2>1. CASE k = h
    <3>1. /\ Evidence("HANDOFF_ISSUED", k) /\ Evidence("HANDOFF_ADMITTED", k)
          /\ Evidence("HANDOFF_DISPATCHED", k) /\ Paid(k)
      BY <1>0, <2>1 DEF Evidenced, PastIssue, PastAdmission
    <3>2. IsBound(k) =>
            \E g \in delivered : /\ grants[g].h = k /\ grants[g].state = "CONSUMED"
                                 /\ Evidence("APPROVAL_GRANTED", k)
      BY <1>0, <3>1 DEF Paid, StoresSound
    <3> QED
      BY <3>1, <3>2 DEF Evidence
  <2>2. CASE k # h
    <3>1. runs[k] > 0
      BY <1>0, <1>3, <2>2, HandoffTyped
    <3> QED
      BY <1>0, <3>1 DEF EvidencePrecedes
  <2> QED
    BY <2>1, <2>2
<1>14. StillWaiting'
  <2>1. ASSUME NEW k \in promised, queue[JobOf(k)] # None, queue[JobOf(k)].h = k PROVE Waits(k)'
    BY <1>1, <2>1 DEF Waits, JobOf
  <2>2. ASSUME NEW k, th[t].h = k PROVE Waits(k)'
    BY <1>3, <2>2 DEF Waits
  <2> QED
    BY <1>1, <1>6, <1>8, <1>9, <2>1, <2>2, WaitingKept
<1>15. QueueBound'
  <2>1. ~Completing(t)'
    BY <1>5 DEF Completing
  <2> QED
    BY <1>1, <1>6, <1>8, <1>9, <2>1, SameQueue
<1> QED
  BY <1>7, <1>10, <1>11, <1>12, <1>13, <1>14, <1>15 DEF LocalInv
-----------------------------------------------------------------------------
(* Steps that change the queue. *)

\* While nobody decides, a change of the queue disturbs nobody.
LEMMA FreeSpared ==
  ASSUME LocalInv, lock = None, NEW u \in Threads, UNCHANGED <<ledger, runs>>,
         th[u].pc \in {"issued", "add"} => th[u].h \notin promised'
  PROVE  Spares(u)
<1>1. Decides(u) /\ Owns(u) /\ None \notin Threads
  BY LocalAssumption DEF LocalInv, ThreadsSound
<1> QED
  BY <1>1 DEF Spares, Decides, Owns

\* PendingJobs.decide takes the lock for the entry it decides on.
LEMMA DecideInv ==
  ASSUME LocalInv, NEW t \in Threads, Decide(t)
  PROVE  LocalInv'
<1> DEFINE j == JobOf(th[t].h)
           w == queue[j]
<1>0. /\ TypeOK /\ StoresSound /\ \A u \in Threads : Holds(u) /\ Pends(u)
      /\ th[t].pc = "decide" /\ lock = None /\ clock \in Nat
      /\ UNCHANGED <<clock, handoffs, grants, delivered, ledger, accepted>>
      /\ UNCHANGED <<chain, anchored, promised, mishap, runs>>
  BY ClockTyped DEF LocalInv, ThreadsSound, Decide, audit, seen
<1>1. th[t].h \in Known /\ j \in Jobs /\ th[t].at <= clock /\ th[t] \in ThreadType
  BY <1>0, HandoffTyped DEF Holds, TypeOK
<1>2. CASE Goto(t, "idle") /\ UNCHANGED <<queue, lock>>
  <2>1. Idle \in ThreadType /\ th' = [th EXCEPT ![t] = Idle] /\ th'[t].pc = "idle"
    BY <1>0, <1>2, GotoIdle
  <2>2. /\ chain' \subseteq Events /\ anchored \subseteq anchored' /\ anchored' \subseteq chain'
        /\ ~Completing(t)' /\ UNCHANGED stores
    BY <1>0, <1>2, <2>1 DEF TypeOK, Completing, stores
  <2> QED
    BY <1>0, <2>1, <2>2, IdleSound, QuietStep
<1>3. CASE /\ queue' = [queue EXCEPT ![j].decided =
                          Sooner(th[t].at + ApprovalTtl, handoffs[w.h].exp)]
           /\ w # None /\ lock' = t /\ Become(t, [th[t] EXCEPT !.pc = "grant", !.h = w.h])
  <2> DEFINE e == [w EXCEPT !.decided = Sooner(th[t].at + ApprovalTtl, handoffs[w.h].exp)]
             q == [th[t] EXCEPT !.pc = "grant", !.h = w.h]
  <2>1. queue' = [queue EXCEPT ![j] = e] /\ w # None /\ lock' = t /\ Become(t, q)
    BY <1>3
  <2>2. /\ w \in EntryType /\ w.h \in Known /\ JobOf(w.h) = j /\ IsBound(w.h)
        /\ w.h \in 1..MaxHandoffs
    BY <1>0, <1>1, <2>1, HandoffTyped DEF TypeOK
  <2>3. handoffs[w.h].exp \in Nat
    BY <1>0, <2>2, HandoffTyped
  <2>4. /\ Sooner(th[t].at + ApprovalTtl, handoffs[w.h].exp) \in Nat
        /\ Sooner(th[t].at + ApprovalTtl, handoffs[w.h].exp) <= handoffs[w.h].exp
    <3>1. th[t].at \in Nat
      BY <1>1 DEF ThreadType
    <3> QED
      BY <2>3, <3>1, Numbers DEF Sooner
  <2>5. e \in EntryType /\ e.h = w.h /\ e.decided <= handoffs[w.h].exp /\ e # None
    <3>1. e \in EntryType /\ e.h = w.h /\ e.decided <= handoffs[w.h].exp
      BY <2>2, <2>4 DEF EntryType
    <3> QED
      BY <3>1, LocalAssumption
  <2>6. q \in ThreadType /\ q.pc = "grant" /\ q.h = w.h /\ q.at = th[t].at
    <3>1. \A k \in 0..MaxHandoffs :
            /\ [th[t] EXCEPT !.pc = "grant", !.h = k] \in ThreadType
            /\ [th[t] EXCEPT !.pc = "grant", !.h = k].pc = "grant"
            /\ [th[t] EXCEPT !.pc = "grant", !.h = k].h = k
            /\ [th[t] EXCEPT !.pc = "grant", !.h = k].at = th[t].at
      BY <1>1 DEF ThreadType
    <3>2. w.h \in 0..MaxHandoffs
      BY <2>2
    <3> QED
      BY <3>1, <3>2
  <2> HIDE DEF e, q, w
  <2>7. /\ th' = [th EXCEPT ![t] = q] /\ th'[t] = q /\ th' \in [Threads -> ThreadType]
        /\ \A u \in Threads \ {t} : th'[u] = th[u]
    BY <1>0, <2>1, <2>6, BecomeNext
  <2>8. /\ queue' \in [Jobs -> EntryType \cup {None}] /\ queue'[j] = e
        /\ \A i \in Jobs \ {j} : queue'[i] = queue[i]
    BY <1>0, <1>1, <2>1, <2>5 DEF TypeOK
  <2>9. \A i \in Jobs : /\ (queue'[i] # None) = (queue[i] # None)
                        /\ queue[i] # None => queue'[i].h = queue[i].h
    BY <1>1, <2>1, <2>5, <2>8 DEF w
  <2>10. TypeOK'
    <3>1. ASSUME NEW i \in Jobs, queue'[i] # None
          PROVE  /\ queue'[i].h \in Known /\ JobOf(queue'[i].h) = i /\ IsBound(queue'[i].h)
                 /\ queue'[i].decided <= handoffs[queue'[i].h].exp
      <4>1. CASE i = j
        BY <2>2, <2>5, <2>8, <4>1
      <4>2. CASE i # j
        BY <1>0, <2>8, <3>1, <4>2 DEF TypeOK
      <4> QED
        BY <4>1, <4>2
    <3> QED
      BY <1>0, <2>1, <2>7, <2>8, <3>1 DEF TypeOK, Known, JobOf, IsBound
  <2>11. Grows
    BY <1>0 DEF Grows, TypeOK
  <2>12. Queued(queue') = Queued(queue)
    BY <2>9 DEF Queued
  <2>13. QueueBound' /\ IsFiniteSet(Queued(queue'))
    <3>1. Returning' \subseteq Returning
      BY <1>0, <2>6, <2>7 DEF Returning, Completing, IsBound
    <3> QED
      BY <2>12, <3>1, BoundKept
  <2>14. StoresSound'
    <3>1. \A i \in Jobs : queue'[i] # None => Evidence("HANDOFF_ISSUED", queue'[i].h)
      BY <1>0, <2>9 DEF StoresSound
    <3> QED
      BY <1>0, <2>13, <3>1 DEF StoresSound, Evidence, Known, JobOf, IsBound
  <2>15. Holds(t)'
    BY <1>0, <1>1, <2>2, <2>6, <2>7 DEF Holds, Known
  <2>16. Pends(t)' /\ Evidenced(t)' /\ Owns(t)'
    BY <2>6, <2>7 DEF Pends, Evidenced, Owns, PastIssue, PastAdmission, Owning, PastRun
  <2>17. Decides(t)'
    BY <1>0, <2>1, <2>2, <2>5, <2>6, <2>7, <2>8 DEF Decides, JobOf
  <2>18. \A u \in Threads : Apart(t, u)' /\ Apart(u, t)'
    BY <2>6, <2>7 DEF Apart, Owning
  <2>19. \A u \in Threads \ {t} : Spares(u)
    BY <1>0, FreeSpared DEF Pends
  <2>20. ASSUME NEW h \in promised, queue[JobOf(h)] # None, queue[JobOf(h)].h = h
         PROVE  Waits(h)'
    BY <1>0, <2>9, <2>20, HandoffTyped DEF Waits, JobOf, TypeOK
  <2> QED
    BY <1>0, <2>7, <2>10, <2>11, <2>13, <2>14, <2>15, <2>16, <2>17, <2>18, <2>19, <2>20, StepKept
<1> QED
  BY <1>2, <1>3 DEF Decide, Undecided

\* PendingJobs.take: the entry moves from the queue into the hands of thread t.
LEMMA CompleteInv ==
  ASSUME LocalInv, NEW t \in Threads, Complete(t)
  PROVE  LocalInv'
<1>0. /\ TypeOK /\ StoresSound /\ \A u \in Threads : Holds(u) /\ Pends(u)
      /\ th[t].pc = "idle" /\ lock = None /\ clock \in Nat
      /\ UNCHANGED <<clock, handoffs, lock, grants, delivered, ledger, accepted>>
      /\ UNCHANGED <<chain, anchored, promised, mishap, runs>>
  BY ClockTyped DEF LocalInv, ThreadsSound, Complete, audit, seen
<1>1. PICK j \in Jobs, g \in delivered \cup {0} :
        /\ queue[j] # None /\ queue' = [queue EXCEPT ![j] = None]
        /\ Become(t, [Idle EXCEPT !.pc = "dispatch", !.h = queue[j].h, !.token = g,
                                   !.waited = queue[j].decided])
  BY DEF Complete
<1>2. /\ queue[j] \in EntryType /\ queue[j].h \in Known /\ JobOf(queue[j].h) = j
      /\ IsBound(queue[j].h) /\ queue[j].decided <= handoffs[queue[j].h].exp
      /\ Evidence("HANDOFF_ISSUED", queue[j].h) /\ g \in Nat
  BY <1>0, <1>1 DEF TypeOK, StoresSound
<1> DEFINE q == [Idle EXCEPT !.pc = "dispatch", !.h = queue[j].h, !.token = g,
                             !.waited = queue[j].decided]
<1>3. /\ q \in ThreadType /\ q.pc = "dispatch" /\ q.h = queue[j].h /\ q.at = 0
      /\ q.token = g /\ q.waited = queue[j].decided
  <2>1. queue[j].h \in 0..MaxHandoffs /\ queue[j].decided \in Nat
    BY <1>2, Numbers DEF EntryType
  <2> QED
    BY <1>2, <2>1 DEF ThreadType, Idle
<1> HIDE DEF q
<1>4. /\ th' = [th EXCEPT ![t] = q] /\ th'[t] = q /\ th' \in [Threads -> ThreadType]
      /\ \A u \in Threads \ {t} : th'[u] = th[u]
  <2>1. Become(t, q)
    BY <1>1 DEF q
  <2> QED
    BY <1>0, <1>3, <2>1, BecomeNext
<1>5. /\ queue' \in [Jobs -> EntryType \cup {None}] /\ queue'[j] = None
      /\ \A i \in Jobs \ {j} : queue'[i] = queue[i]
  BY <1>0, <1>1 DEF TypeOK
<1>6. TypeOK'
  <2>1. \A i \in Jobs : queue'[i] # None => queue'[i] = queue[i]
    BY <1>5
  <2> QED
    BY <1>0, <1>4, <1>5, <2>1 DEF TypeOK, Known, JobOf, IsBound
<1>7. Grows
  BY <1>0 DEF Grows, TypeOK
<1>8. QueueBound' /\ IsFiniteSet(Queued(queue'))
  <2>1. IsFiniteSet(Queued(queue)) /\ IsFiniteSet(Returning) /\ IsFiniteSet(Threads)
    BY <1>0, LocalAssumption, FS_Subset DEF StoresSound, Returning
  <2>2. Queued(queue') = Queued(queue) \ {j} /\ j \in Queued(queue)
    BY <1>1, <1>5 DEF Queued
  <2>3. Returning' = Returning \cup {t} /\ t \notin Returning
    BY <1>0, <1>2, <1>3, <1>4 DEF Returning, Completing, IsBound
  <2>4. IsFiniteSet(Queued(queue')) /\ Cardinality(Queued(queue')) = Cardinality(Queued(queue)) - 1
    BY <2>1, <2>2, FS_RemoveElement
  <2>5. Cardinality(Returning') = Cardinality(Returning) + 1
    BY <2>1, <2>3, FS_AddElement
  <2>6. /\ Cardinality(Queued(queue)) \in Nat /\ Cardinality(Returning) \in Nat
        /\ Cardinality(Threads) \in Nat /\ MaxPending \in Nat
    BY <2>1, FS_CardinalityType, Numbers
  <2>7. Cardinality(Queued(queue)) + Cardinality(Returning) < MaxPending + Cardinality(Threads)
    BY DEF LocalInv, QueueBound, Returning
  <2>8. Cardinality(Queued(queue')) + Cardinality(Returning') < MaxPending + Cardinality(Threads)
    BY <2>4, <2>5, <2>6, <2>7
  <2> QED
    BY <2>4, <2>8 DEF QueueBound, Returning
<1>9. StoresSound'
  <2>1. \A i \in Jobs : queue'[i] # None => Evidence("HANDOFF_ISSUED", queue'[i].h)
    BY <1>0, <1>5 DEF StoresSound
  <2> QED
    BY <1>0, <1>8, <2>1 DEF StoresSound, Evidence, Known, JobOf, IsBound
<1>10. Holds(t)'
  BY <1>0, <1>2, <1>3, <1>4 DEF Holds, Known
<1>11. Pends(t)' /\ Decides(t)' /\ Owns(t)'
  BY <1>3, <1>4 DEF Pends, Decides, Owns, Owning, PastRun
<1>12. Evidenced(t)'
  BY <1>0, <1>2, <1>3, <1>4 DEF Evidenced, Evidence, PastIssue, PastAdmission
<1>13. \A u \in Threads : Apart(t, u)' /\ Apart(u, t)'
  BY <1>3, <1>4 DEF Apart, Owning
<1>14. \A u \in Threads \ {t} : Spares(u)
  BY <1>0, FreeSpared DEF Pends
<1>15. ASSUME NEW h \in promised, queue[JobOf(h)] # None, queue[JobOf(h)].h = h
       PROVE  Waits(h)'
  <2>1. JobOf(h) \in Jobs
    BY <1>0, HandoffTyped DEF TypeOK
  <2>2. CASE JobOf(h) = j
    <3>1. InHand(h)'
      BY <1>3, <1>4, <1>15, <2>2 DEF InHand
    <3> QED
      BY <3>1 DEF Waits
  <2>3. CASE JobOf(h) # j
    BY <1>0, <1>5, <1>15, <2>1, <2>3 DEF Waits, JobOf
  <2> QED
    BY <2>2, <2>3
<1> QED
  BY <1>0, <1>4, <1>6, <1>7, <1>8, <1>9, <1>10, <1>11, <1>12, <1>13, <1>14, <1>15, StepKept

\* PendingJobs.restore: the job returns to the queue, unless its id was taken meanwhile.
LEMMA RestoreInv ==
  ASSUME LocalInv, NEW t \in Threads, Restore(t)
  PROVE  LocalInv'
<1> DEFINE j == JobOf(th[t].h)
           e == [h |-> th[t].h, decided |-> th[t].waited]
<1>0. /\ TypeOK /\ StoresSound /\ Evidenced(t) /\ \A u \in Threads : Holds(u) /\ Pends(u)
      /\ th[t].pc = "restore" /\ lock = None /\ Goto(t, "idle") /\ clock \in Nat
      /\ UNCHANGED <<clock, handoffs, lock, grants, delivered, ledger, accepted>>
      /\ UNCHANGED <<chain, anchored, promised, runs>>
  <2>1. /\ th[t].pc = "restore" /\ lock = None /\ Goto(t, "idle")
        /\ UNCHANGED <<clock, handoffs, lock, grants, delivered, ledger, accepted>>
        /\ UNCHANGED <<chain, anchored, promised, runs>>
    BY DEF Restore, audit
  <2>2. clock \in Nat
    BY ClockTyped DEF LocalInv
  <2> QED
    BY <2>1, <2>2 DEF LocalInv, ThreadsSound
<1>1. /\ th[t].h \in Known /\ j \in Jobs /\ th[t].h \in 1..MaxHandoffs /\ IsBound(th[t].h)
      /\ th[t].waited <= handoffs[th[t].h].exp /\ th[t].waited \in Nat
  BY <1>0, HandoffTyped DEF Holds, Pends, TypeOK, ThreadType
<1>2. /\ Idle \in ThreadType /\ th' = [th EXCEPT ![t] = Idle] /\ th'[t].pc = "idle"
      /\ th' \in [Threads -> ThreadType] /\ \A u \in Threads \ {t} : th'[u] = th[u]
  BY <1>0, GotoIdle DEF TypeOK
<1>3. ~Completing(t)' /\ Completing(t)
  BY <1>0, <1>1, <1>2 DEF Completing
<1>4. CASE queue[j] # None
  <2>1. mishap' = mishap \cup {th[t].h} /\ UNCHANGED queue
    BY <1>4 DEF Restore
  <2>2. /\ chain' \subseteq Events /\ anchored \subseteq anchored' /\ anchored' \subseteq chain'
        /\ UNCHANGED stores
    BY <1>0, <2>1 DEF TypeOK, stores
  <2> QED
    BY <1>0, <1>2, <1>3, <2>1, <2>2, IdleSound, QuietStep
<1>5. CASE queue[j] = None
  <2>1. queue' = [queue EXCEPT ![j] = e] /\ UNCHANGED mishap
    BY <1>5 DEF Restore
  <2>2. e \in EntryType /\ e.h = th[t].h /\ e.decided = th[t].waited /\ e # None
    <3>1. e \in EntryType /\ e.h = th[t].h /\ e.decided = th[t].waited
      BY <1>1 DEF EntryType
    <3> QED
      BY <3>1, LocalAssumption
  <2> HIDE DEF e
  <2>3. /\ queue' \in [Jobs -> EntryType \cup {None}] /\ queue'[j] = e
        /\ \A i \in Jobs \ {j} : queue'[i] = queue[i]
    BY <1>0, <1>1, <2>1, <2>2 DEF TypeOK
  <2>4. TypeOK'
    <3>1. ASSUME NEW i \in Jobs, queue'[i] # None
          PROVE  /\ queue'[i].h \in Known /\ JobOf(queue'[i].h) = i /\ IsBound(queue'[i].h)
                 /\ queue'[i].decided <= handoffs[queue'[i].h].exp
      <4>1. CASE i = j
        BY <1>1, <2>2, <2>3, <4>1
      <4>2. CASE i # j
        BY <1>0, <2>3, <3>1, <4>2 DEF TypeOK
      <4> QED
        BY <4>1, <4>2
    <3> QED
      BY <1>0, <1>2, <2>3, <3>1 DEF TypeOK, Known, JobOf, IsBound
  <2>5. Grows
    BY <1>0 DEF Grows, TypeOK
  <2>6. QueueBound' /\ IsFiniteSet(Queued(queue'))
    <3>1. IsFiniteSet(Queued(queue)) /\ IsFiniteSet(Returning) /\ IsFiniteSet(Threads)
      BY <1>0, LocalAssumption, FS_Subset DEF StoresSound, Returning
    <3>2. Queued(queue') = Queued(queue) \cup {j} /\ j \notin Queued(queue)
      BY <1>1, <1>5, <2>2, <2>3 DEF Queued
    <3>3. Returning' = Returning \ {t} /\ t \in Returning
      BY <1>0, <1>2, <1>3 DEF Returning, Completing, IsBound
    <3>4. /\ IsFiniteSet(Queued(queue'))
          /\ Cardinality(Queued(queue')) = Cardinality(Queued(queue)) + 1
      BY <3>1, <3>2, FS_AddElement
    <3>5. Cardinality(Returning') = Cardinality(Returning) - 1
      BY <3>1, <3>3, FS_RemoveElement
    <3>6. /\ Cardinality(Queued(queue)) \in Nat /\ Cardinality(Returning) \in Nat
          /\ Cardinality(Threads) \in Nat /\ MaxPending \in Nat
      BY <3>1, FS_CardinalityType, Numbers
    <3>7. Cardinality(Queued(queue)) + Cardinality(Returning) < MaxPending + Cardinality(Threads)
      BY DEF LocalInv, QueueBound, Returning
    <3>8. Cardinality(Queued(queue')) + Cardinality(Returning') < MaxPending + Cardinality(Threads)
      BY <3>4, <3>5, <3>6, <3>7
    <3> QED
      BY <3>4, <3>8 DEF QueueBound, Returning
  <2>7. StoresSound'
    <3>1. Evidence("HANDOFF_ISSUED", th[t].h)
      BY <1>0 DEF Evidenced, PastIssue
    <3>2. \A i \in Jobs : queue'[i] # None => Evidence("HANDOFF_ISSUED", queue'[i].h)
      BY <1>0, <2>2, <2>3, <3>1 DEF StoresSound
    <3> QED
      BY <1>0, <2>6, <3>2 DEF StoresSound, Evidence, Known, JobOf, IsBound
  <2>8. \A u \in Threads \ {t} : Spares(u)
    BY <1>0, FreeSpared DEF Pends
  <2>9. ASSUME NEW h \in promised, queue[JobOf(h)] # None, queue[JobOf(h)].h = h
        PROVE  Waits(h)'
    <3>1. JobOf(h) \in Jobs \ {j}
      BY <1>0, <1>5, <2>9, HandoffTyped DEF TypeOK
    <3> QED
      BY <1>0, <2>3, <2>9, <3>1 DEF Waits, JobOf
  <2>10. ASSUME NEW h, th[t].h = h PROVE Waits(h)'
    BY <1>0, <2>2, <2>3, <2>10 DEF Waits, JobOf
  <2> QED
    BY <1>0, <1>2, <2>1, <2>4, <2>5, <2>6, <2>7, <2>8, <2>9, <2>10, IdleSound, StepKept
<1> QED
  BY <1>4, <1>5

\* What add drops is over.
LEMMA DroppedIsOver ==
  ASSUME TypeOK, NEW now \in Nat
  PROVE  /\ Unexpired(now) \in [Jobs -> EntryType \cup {None}]
         /\ \A i \in Jobs : \/ Unexpired(now)[i] = queue[i]
                            \/ /\ Unexpired(now)[i] = None /\ queue[i] # None
                               /\ handoffs[queue[i].h].exp <= now
BY DEF TypeOK, Unexpired

\* PendingJobs.add: entries that are over leave, and the job enters when there is room.
LEMMA AddInv ==
  ASSUME LocalInv, NEW t \in Threads, Add(t)
  PROVE  LocalInv'
<1> DEFINE q == Unexpired(th[t].at)
           j == JobOf(th[t].h)
           e == [h |-> th[t].h, decided |-> 0]
<1>0. /\ TypeOK /\ StoresSound /\ Evidenced(t) /\ \A u \in Threads : Holds(u) /\ Pends(u)
      /\ \A u \in Threads \ {t} : Apart(t, u)
      /\ th[t].pc = "add" /\ lock = None /\ Goto(t, "idle")
      /\ UNCHANGED <<clock, handoffs, lock, grants, delivered, ledger, accepted>>
      /\ UNCHANGED <<chain, anchored, mishap, runs>>
  <2>1. /\ th[t].pc = "add" /\ lock = None /\ Goto(t, "idle")
        /\ UNCHANGED <<clock, handoffs, lock, grants, delivered, ledger, accepted>>
        /\ UNCHANGED <<chain, anchored, mishap, runs>>
    BY DEF Add, audit
  <2> QED
    BY <2>1 DEF LocalInv, ThreadsSound
<1>1. /\ th[t].h \in Known /\ j \in Jobs /\ th[t].h \in 1..MaxHandoffs /\ IsBound(th[t].h)
      /\ th[t].h \notin promised /\ handoffs[th[t].h].exp \in Nat
      /\ th[t].at <= clock /\ th[t].at \in Nat /\ clock \in Nat
  <2>1. th[t].h \in Known /\ th[t].at <= clock /\ IsBound(th[t].h) /\ th[t].h \notin promised
    BY <1>0 DEF Holds, Pends
  <2>2. j \in Jobs /\ th[t].h \in 1..MaxHandoffs /\ handoffs[th[t].h].exp \in Nat
    BY <1>0, <2>1, HandoffTyped
  <2>3. th[t].at \in Nat /\ clock \in Nat
    BY <1>0, Numbers DEF TypeOK, ThreadType
  <2> QED
    BY <2>1, <2>2, <2>3
<1>2. /\ Idle \in ThreadType /\ th' = [th EXCEPT ![t] = Idle] /\ th'[t].pc = "idle"
      /\ th' \in [Threads -> ThreadType] /\ \A u \in Threads \ {t} : th'[u] = th[u]
  BY <1>0, GotoIdle DEF TypeOK
<1>3. /\ q \in [Jobs -> EntryType \cup {None}]
      /\ \A i \in Jobs : \/ q[i] = queue[i]
                         \/ q[i] = None /\ queue[i] # None /\ handoffs[queue[i].h].exp <= th[t].at
  BY <1>0, <1>1, DroppedIsOver
<1>4. e \in EntryType /\ e.h = th[t].h /\ e.decided = 0 /\ e # None
  <2>1. e \in EntryType /\ e.h = th[t].h /\ e.decided = 0
    BY <1>1 DEF EntryType
  <2> QED
    BY <2>1, LocalAssumption
<1>5. \/ HasRoom(q, j) /\ queue' = [q EXCEPT ![j] = e] /\ promised' = promised \cup {th[t].h}
      \/ queue' = q /\ promised' = promised
  BY DEF Add
<1> HIDE DEF q, e
<1>6. /\ queue' \in [Jobs -> EntryType \cup {None}]
      /\ \A i \in Jobs : \/ queue'[i] = q[i]
                         \/ i = j /\ q[j] = None /\ queue'[j] = e
      /\ promised \subseteq promised' /\ promised' \subseteq promised \cup {th[t].h}
      /\ th[t].h \in promised' => queue'[j] = e
  BY <1>1, <1>3, <1>4, <1>5 DEF HasRoom
<1>7. TypeOK'
  <2>1. ASSUME NEW i \in Jobs, queue'[i] # None
        PROVE  /\ queue'[i].h \in Known /\ JobOf(queue'[i].h) = i /\ IsBound(queue'[i].h)
               /\ queue'[i].decided <= handoffs[queue'[i].h].exp
    <3>1. CASE queue'[i] = q[i]
      <4>1. queue'[i] = queue[i]
        BY <1>3, <2>1, <3>1
      <4> QED
        BY <1>0, <2>1, <4>1 DEF TypeOK
    <3>2. CASE i = j /\ queue'[j] = e
      BY <1>1, <1>4, <3>2
    <3> QED
      BY <1>6, <3>1, <3>2
  <2>2. promised' \subseteq Known
    BY <1>0, <1>1, <1>6 DEF TypeOK
  <2> QED
    BY <1>0, <1>2, <1>6, <2>1, <2>2 DEF TypeOK, Known, JobOf, IsBound
<1>8. Grows
  BY <1>0, <1>1 DEF Grows, TypeOK
<1>9. QueueBound' /\ IsFiniteSet(Queued(queue'))
  <2>1. IsFiniteSet(Queued(queue)) /\ IsFiniteSet(Threads)
    BY <1>0, LocalAssumption DEF StoresSound
  <2>2. ASSUME NEW u \in Threads, Completing(u)' PROVE Completing(u) /\ u # t
    BY <1>0, <1>2, <2>2 DEF Completing, IsBound
  <2>3. Queued(q) \subseteq Queued(queue)
    BY <1>3 DEF Queued
  <2>4. CASE queue' = q
    <3>1. Returning' \subseteq Returning
      BY <2>2 DEF Returning
    <3> QED
      BY <2>3, <2>4, <3>1, BoundKept
  <2>5. CASE HasRoom(q, j) /\ queue' = [q EXCEPT ![j] = e]
    <3>1. Queued(queue') = Queued(q) \cup {j} /\ j \notin Queued(q)
      BY <1>1, <1>3, <1>4, <2>5 DEF Queued, HasRoom
    <3>2. IsFiniteSet(Queued(q)) /\ Cardinality(Queued(q)) \in Nat
      BY <2>1, <2>3, FS_Subset, FS_CardinalityType
    <3>3. IsFiniteSet(Queued(queue')) /\ Cardinality(Queued(queue')) = Cardinality(Queued(q)) + 1
      BY <3>1, <3>2, FS_AddElement
    <3>4. Returning' \subseteq Threads \ {t}
      BY <2>2 DEF Returning
    <3>5. IsFiniteSet(Threads \ {t}) /\ Cardinality(Threads \ {t}) = Cardinality(Threads) - 1
      BY <2>1, FS_RemoveElement
    <3>6. Cardinality(Returning') \in Nat /\ Cardinality(Returning') <= Cardinality(Threads \ {t})
      BY <3>4, <3>5, FS_Subset, FS_CardinalityType
    <3>7. Cardinality(Threads) \in Nat /\ MaxPending \in Nat /\ Cardinality(Queued(q)) < MaxPending
      BY <2>1, <2>5, FS_CardinalityType, Numbers DEF HasRoom
    <3>8. Cardinality(Queued(queue')) + Cardinality(Returning') < MaxPending + Cardinality(Threads)
      BY <3>2, <3>3, <3>5, <3>6, <3>7
    <3> QED
      BY <3>3, <3>8 DEF QueueBound, Returning
  <2> QED
    BY <1>5, <2>4, <2>5
<1>10. StoresSound'
  <2>1. Evidence("HANDOFF_ISSUED", th[t].h)
    BY <1>0 DEF Evidenced, PastIssue
  <2>2. \A i \in Jobs : queue'[i] # None => Evidence("HANDOFF_ISSUED", queue'[i].h)
    BY <1>0, <1>3, <1>4, <1>6, <2>1 DEF StoresSound
  <2>3. \A h \in promised' : IsBound(h)
    BY <1>0, <1>1, <1>6 DEF StoresSound
  <2> QED
    BY <1>0, <1>9, <2>2, <2>3 DEF StoresSound, Evidence, Known, JobOf, IsBound
<1>11. ASSUME NEW u \in Threads \ {t} PROVE Spares(u)
  <2>1. th[u].pc \in {"issued", "add"} => th[u].h \notin promised'
    BY <1>0, <1>6 DEF Pends, Apart
  <2> QED
    BY <1>0, <2>1, FreeSpared
<1>12. ASSUME NEW h \in promised' \ promised PROVE Waits(h)'
  <2>1. h = th[t].h /\ queue'[j] = e
    BY <1>6, <1>12
  <2> QED
    BY <1>0, <1>4, <2>1 DEF Waits, JobOf
<1>13. ASSUME NEW h \in promised, queue[JobOf(h)] # None, queue[JobOf(h)].h = h
       PROVE  Waits(h)'
  <2>1. JobOf(h) \in Jobs /\ handoffs[h].exp \in Nat
    BY <1>0, HandoffTyped DEF TypeOK
  <2>2. CASE q[JobOf(h)] = queue[JobOf(h)]
    <3>1. queue'[JobOf(h)] = queue[JobOf(h)]
      BY <1>6, <1>13, <2>1, <2>2
    <3> QED
      BY <1>0, <1>13, <3>1 DEF Waits, JobOf
  <2>3. CASE handoffs[queue[JobOf(h)].h].exp <= th[t].at
    <3>1. clock >= handoffs[h].exp
      BY <1>1, <1>13, <2>1, <2>3
    <3> QED
      BY <1>0, <3>1 DEF Waits
  <2> QED
    BY <1>3, <2>1, <2>2, <2>3
<1> QED
  BY <1>0, <1>1, <1>2, <1>7, <1>8, <1>9, <1>10, <1>11, <1>12, <1>13, IdleSound, StepKept
-----------------------------------------------------------------------------
(* The theorems. *)

\* The service starts with nothing issued, queued, granted or run.
LEMMA InitLocal == Init => LocalInv
<1> SUFFICES ASSUME Init PROVE LocalInv
  OBVIOUS
<1>0. Idle \in ThreadType /\ IsFiniteSet(Threads)
  BY Numbers, LocalAssumption DEF Idle, ThreadType
<1>1. Known = {} /\ Len(handoffs) = 0 /\ Len(grants) = 0
  BY DEF Init, Known
<1>2. IsFiniteSet({}) /\ Cardinality({}) = 0
  BY FS_EmptySet
<1>3. TypeOK
  <2>1. /\ clock \in 0..MaxClock /\ Len(handoffs) <= MaxHandoffs
        /\ handoffs \in Seq(HandoffType) /\ grants \in Seq(GrantType) /\ delivered = {}
    BY <1>1, Numbers DEF Init
  <2>2. /\ queue \in [Jobs -> EntryType \cup {None}] /\ \A j \in Jobs : queue[j] = None
        /\ th \in [Threads -> ThreadType] /\ lock = None
        /\ ledger \in [Jobs -> {"free", "RESERVED", "EXECUTION_COMMITTED"}]
        /\ runs \in [1..MaxHandoffs -> Nat]
    BY <1>0 DEF Init
  <2>3. accepted = {} /\ chain = {} /\ anchored = {} /\ promised = {} /\ 0 <= MaxAccepted
    BY Numbers DEF Init
  <2> QED
    BY <1>1, <1>2, <2>1, <2>2, <2>3 DEF TypeOK
<1>4. ThreadsSound
  <2>1. \A t \in Threads : th[t].pc = "idle"
    BY DEF Init, Idle
  <2> QED
    BY <2>1 DEF ThreadsSound, Holds, Pends, Decides, Evidenced, Owns, Apart, PastIssue,
                PastAdmission, Owning, PastRun
<1>5. Queued(queue) = {}
  BY DEF Queued, Init
<1>6. StoresSound
  <2>1. /\ \A j \in Jobs : queue[j] = None
        /\ \A h \in 1..MaxHandoffs : ~(runs[h] > 0)
        /\ delivered = {} /\ promised = {} /\ accepted = {}
    BY DEF Init
  <2> QED
    BY <1>2, <1>5, <2>1 DEF StoresSound
<1>7. RunsOnce /\ EvidencePrecedes /\ StillWaiting
  BY <1>1 DEF RunsOnce, EvidencePrecedes, StillWaiting, Init
<1>8. QueueBound
  <2>1. {t \in Threads : Completing(t)} = {}
    BY DEF Completing, Init, Idle
  <2>2. Cardinality(Threads) \in Nat /\ MaxPending \in Nat \ {0}
    BY <1>0, FS_CardinalityType, Numbers
  <2> QED
    BY <1>2, <1>5, <2>1, <2>2 DEF QueueBound
<1> QED
  BY <1>3, <1>4, <1>6, <1>7, <1>8 DEF LocalInv

\* A step that changes nothing.
LEMMA StutterLocal ==
  ASSUME LocalInv, UNCHANGED vars
  PROVE  LocalInv'
<1>0. /\ UNCHANGED <<clock, handoffs, queue, lock, grants, delivered, ledger, accepted>>
      /\ UNCHANGED <<chain, anchored, th, promised, mishap, runs>>
  BY DEF vars, stores, audit, seen
<1>1. TypeOK'
  BY <1>0 DEF LocalInv, TypeOK, Known, JobOf, IsBound
<1>2. ThreadsSound'
  <2>1. ASSUME NEW t \in Threads PROVE Holds(t)' /\ Pends(t)' /\ Decides(t)'
    BY <1>0 DEF LocalInv, ThreadsSound, Holds, Pends, Decides, Known, JobOf, IsBound
  <2>2. ASSUME NEW t \in Threads PROVE Evidenced(t)'
    BY <1>0 DEF LocalInv, ThreadsSound, Evidenced, Evidence, Paid, IsBound
  <2>3. ASSUME NEW t \in Threads PROVE Owns(t)'
    BY <1>0 DEF LocalInv, ThreadsSound, Owns, Known, JobOf
  <2>4. ASSUME NEW t \in Threads, NEW u \in Threads, t # u PROVE Apart(t, u)'
    BY <1>0, <2>4 DEF LocalInv, ThreadsSound, Apart, JobOf
  <2> QED
    BY <2>1, <2>2, <2>3, <2>4 DEF ThreadsSound
<1>3. StoresSound' /\ RunsOnce' /\ EvidencePrecedes'
  BY <1>0 DEF LocalInv, StoresSound, RunsOnce, EvidencePrecedes, Evidence, Known, JobOf, IsBound
<1>4. StillWaiting' /\ QueueBound'
  BY <1>0 DEF LocalInv, StillWaiting, QueueBound, InHand, Completing, JobOf, IsBound
<1> QED
  BY <1>1, <1>2, <1>3, <1>4 DEF LocalInv

\* Every step of the service keeps the invariant.
LEMMA NextLocal ==
  ASSUME LocalInv, [Next]_vars
  PROVE  LocalInv'
<1>1. CASE Tick
  BY <1>1, TickInv
<1>2. ASSUME NEW t \in Threads, Submit(t) \/ Approve(t) \/ Complete(t) PROVE LocalInv'
  BY <1>2, SubmitInv, ApproveInv, CompleteInv
<1>3. ASSUME NEW t \in Threads, Continue(t) PROVE LocalInv'
  <2>1. CASE RecordIssued(t) \/ Add(t) \/ Decide(t) \/ Grant(t) \/ RecordGrant(t)
    BY <2>1, RecordIssuedInv, AddInv, DecideInv, GrantInv, RecordGrantInv
  <2>2. CASE RecordRefusal(t) \/ Restore(t) \/ Dispatch(t) \/ RecordDenial(t) \/ Admit(t)
    BY <2>2, RecordRefusalInv, RestoreInv, DispatchInv, RecordDenialInv, AdmitInv
  <2>3. CASE RecordAdmitted(t) \/ Reserve(t) \/ Commit(t) \/ RecordDispatched(t) \/ Run(t)
    BY <2>3, RecordAdmittedInv, ReserveInv, CommitInv, RecordDispatchedInv, RunInv
  <2>4. CASE Accept(t) \/ RecordOutcome(t)
    BY <2>4, AcceptInv, RecordOutcomeInv
  <2> QED
    BY <1>3, <2>1, <2>2, <2>3, <2>4 DEF Continue
<1>4. CASE UNCHANGED vars
  BY <1>4, StutterLocal
<1> QED
  BY <1>1, <1>2, <1>3, <1>4 DEF Next

\* The invariant holds in every state of the service.
THEOREM LocalInductive == Spec => []LocalInv
<1>1. Init => LocalInv
  BY InitLocal
<1>2. LocalInv /\ [Next]_vars => LocalInv'
  BY NextLocal
<1> QED
  BY <1>1, <1>2, PTL DEF Spec

\* No job id is handed to a worker twice however the requests interleave, and nothing runs
\* before its issuance, its admission, its dispatch and, for an approval-bound job, the spent
\* grant are anchored: _available, _reserve, commit_execution and the recorders.
THEOREM AlwaysRunsOnEvidence == Spec => []RunsOnEvidence
<1>1. LocalInv => RunsOnEvidence
  BY DEF LocalInv, RunsOnEvidence
<1> QED
  BY <1>1, LocalInductive, PTL

\* PendingJobs never loses a job it promised to keep, and exceeds its bound by less than the
\* number of requests in flight: add, take and restore.
THEOREM QueueAlwaysKept == Spec => []QueueKept
<1>1. LocalInv => QueueKept
  BY DEF LocalInv, QueueKept
<1> QED
  BY <1>1, LocalInductive, PTL
=============================================================================

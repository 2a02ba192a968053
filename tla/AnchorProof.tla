---------------------------- MODULE AnchorProof -----------------------------
(***************************************************************************)
(* Theorems about the served anchor, for any number of processes, clients  *)
(* and events and any bounds.                                              *)
(***************************************************************************)
EXTENDS Anchor, TLAPS

-----------------------------------------------------------------------------
(* Heads as prefixes of one another, and what a commit does to them. *)

\* A prefix agrees with what it is a prefix of, position by position.
LEMMA PrefixPointwise ==
  ASSUME NEW S, NEW a \in Seq(S), NEW b \in Seq(S)
  PROVE  IsPrefix(a, b) <=> Len(a) <= Len(b) /\ \A i \in 1..Len(a) : a[i] = b[i]
<1>1. ASSUME Len(a) <= Len(b)
      PROVE  /\ SubSeq(a, 1, Len(a)) = [i \in 1..Len(a) |-> a[i]]
             /\ SubSeq(b, 1, Len(a)) = [i \in 1..Len(a) |-> b[i]]
  BY <1>1
<1> QED
  BY <1>1 DEF IsPrefix

\* Being a prefix is reflexive.
LEMMA PrefixReflexive ==
  ASSUME NEW S, NEW a \in Seq(S)
  PROVE  IsPrefix(a, a)
BY DEF IsPrefix

\* Being a prefix is transitive.
LEMMA PrefixTransitive ==
  ASSUME NEW S, NEW a \in Seq(S), NEW b \in Seq(S), NEW c \in Seq(S),
         IsPrefix(a, b), IsPrefix(b, c)
  PROVE  IsPrefix(a, c)
BY PrefixPointwise

\* A strict continuation is longer.
LEMMA StrictLonger ==
  ASSUME NEW S, NEW a \in Seq(S), NEW b \in Seq(S), IsStrictPrefix(a, b)
  PROVE  Len(a) < Len(b)
<1>1. Len(a) <= Len(b) /\ (\A i \in 1..Len(a) : a[i] = b[i]) /\ a # b
  BY PrefixPointwise DEF IsStrictPrefix
<1>2. ASSUME Len(a) = Len(b) PROVE FALSE
  <2>1. a = [i \in 1..Len(a) |-> a[i]] /\ b = [i \in 1..Len(b) |-> b[i]]
    OBVIOUS
  <2> QED
    BY <1>1, <1>2, <2>1
<1> QED
  BY <1>1, <1>2

\* A commit that AuditAnchor.commit or commit_delta accepts continues the
\* committed history.
LEMMA CommitsExtend ==
  ASSUME NEW mem \in Heads, NEW r, r.head \in Heads, Accepts(mem, r)
  PROVE  Moved(mem, r) \in Heads /\ IsPrefix(mem, Moved(mem, r))
<1>1. mem \in Seq(Events) /\ r.head \in Seq(Events)
  BY DEF Heads
<1>2. CASE r.kind = "committed"
  BY <1>1, <1>2, PrefixReflexive DEF Moved, Heads
<1>3. CASE r.kind = "commit" /\ Commits(mem, r.head)
  <2>1. IsPrefix(mem, r.head)
    <3>1. CASE Len(mem) = Len(r.head)
      BY <1>1, <1>3, <3>1, PrefixReflexive DEF Commits
    <3>2. CASE Len(mem) = 0
      <4>1. Len(mem) <= Len(r.head) /\ \A i \in 1..Len(mem) : mem[i] = r.head[i]
        BY <1>1, <3>2
      <4> QED
        BY ONLY <1>1, <4>1, PrefixPointwise
    <3>3. CASE Len(mem) > 0 /\ Len(r.head) > Len(mem)
      BY <1>1, <1>3, <3>3 DEF Commits, HashAt, IsPrefix
    <3> QED
      BY <1>1, <1>3, <3>1, <3>2, <3>3 DEF Commits
  <2> QED
    BY <1>1, <1>3, <2>1 DEF Moved, Accepts, Heads
<1>4. CASE r.kind = "commit2" /\ CommitsDelta(mem, r.head, r.from_count)
  BY <1>1, <1>4 DEF Moved, Accepts, Heads, CommitsDelta, HashAt, IsPrefix
<1> QED
  BY <1>2, <1>3, <1>4 DEF Accepts

-----------------------------------------------------------------------------
(* Types *)

\* The last line of the state file is a head.
LEMMA LastLineType ==
  ASSUME lines \in Seq(Heads)
  PROVE  LastLine \in Heads
BY DEF LastLine, Heads

\* A process that has ended keeps every variable in its type.
LEMMA EndTypes ==
  ASSUME TypeOK, NEW s \in Servers, NEW left \in {Nobody, Stale}, End(s, left)
  PROVE  /\ srv' \in [Servers -> [pc : PCs, mem : Heads, client : Clients \cup {Nobody},
                                  stop : BOOLEAN]]
         /\ lease' \in Servers \cup {Nobody}
         /\ sock' \in Servers \cup {Nobody, Stale}
         /\ queue' \in Seq(Request)
         /\ waiting' \subseteq Clients
<1>1. Off \in [pc : PCs, mem : Heads, client : Clients \cup {Nobody}, stop : BOOLEAN]
  BY DEF Off, PCs, Heads
<1> QED
  BY <1>1 DEF End, TypeOK

\* Every step keeps every variable in its type.
LEMMA TypePreserved ==
  ASSUME TypeOK, [Next]_vars
  PROVE  TypeOK'
<1> USE SetsAssumption, BoundsAssumption, DeltaAssumption
<1>1. CASE UNCHANGED vars
  BY <1>1 DEF TypeOK, vars, file
<1>2. ASSUME NEW e \in Events, Append1(e) PROVE TypeOK'
  BY <1>2 DEF Append1, TypeOK, file, Heads
<1>3. ASSUME NEW n \in 0..MaxCount, Restore(n) PROVE TypeOK'
  <2>1. log' \in Heads /\ Len(log') <= MaxCount
    BY <1>3 DEF Restore, TypeOK, Heads
  <2> QED
    BY <1>3, <2>1 DEF Restore, TypeOK, file
<1>4. ASSUME NEW c \in Clients, NEW kind \in {"committed", "commit", "commit2"},
             NEW head \in Heads, NEW from \in Nat, Send(c, kind, head, from)
      PROVE  TypeOK'
  <2>1. [kind |-> kind, head |-> head, from_count |-> from, client |-> c] \in Request
    BY DEF Request
  <2>2. queue' \in Seq(Request)
    BY <1>4, <2>1 DEF Send, TypeOK
  <2> QED
    BY <1>4, <2>2 DEF Send, TypeOK, file
<1>5. ASSUME NEW c \in Clients, ClientStep(c) PROVE TypeOK'
  <2>1. CASE Ask(c)
    <3>1. <<>> \in Heads
      BY DEF Heads
    <3> QED
      BY <1>4, <2>1, <3>1 DEF Ask
  <2>2. CASE Commit(c)
    BY <1>4, <2>2 DEF Commit, TypeOK
  <2>3. ASSUME NEW from \in 0..MaxCount, CommitDelta(c, from) PROVE TypeOK'
    BY <1>4, <2>3 DEF CommitDelta, TypeOK
  <2>4. CASE GiveUp(c)
    <3>1. queue' \in Seq(Request)
      <4>1. DOMAIN queue = 1..Len(queue) /\ Len(queue) \in Nat
        BY DEF TypeOK
      <4>2. \A i \in 1..Len(queue) :
              (IF queue[i].client = c THEN [queue[i] EXCEPT !.client = Nobody]
                                      ELSE queue[i]) \in Request
        <5>1. ASSUME NEW i \in 1..Len(queue) PROVE queue[i] \in Request
          BY <4>1 DEF TypeOK
        <5> QED
          BY <5>1 DEF Request
      <4> QED
        BY <2>4, <4>1, <4>2 DEF GiveUp
    <3>2. srv' \in [Servers -> [pc : PCs, mem : Heads, client : Clients \cup {Nobody},
                                stop : BOOLEAN]]
      BY <2>4 DEF GiveUp, TypeOK
    <3> QED
      BY <2>4, <3>1, <3>2 DEF GiveUp, TypeOK, file
  <2> QED
    BY <1>5, <2>1, <2>2, <2>3, <2>4 DEF ClientStep
<1>6. ASSUME NEW s \in Servers, ServerStep(s) PROVE TypeOK'
  <2>1. CASE Lease(s)
    BY <2>1 DEF Lease, TypeOK, file, PCs
  <2>2. CASE Load(s)
    <3>1. CASE /\ srv' = [srv EXCEPT ![s].pc = "loaded", ![s].mem = LastLine]
               /\ UNCHANGED <<lease, sock, queue, waiting>>
      <4>1. LastLine \in Heads
        BY LastLineType DEF TypeOK
      <4>2. srv' \in [Servers -> [pc : PCs, mem : Heads, client : Clients \cup {Nobody},
                                  stop : BOOLEAN]]
        <5>1. srv \in [Servers -> [pc : PCs, mem : Heads, client : Clients \cup {Nobody},
                                   stop : BOOLEAN]]
          BY DEF TypeOK
        <5> HIDE DEF LastLine, Heads
        <5> QED
          BY ONLY <3>1, <4>1, <5>1, s \in Servers DEF PCs
      <4> QED
        BY <2>2, <3>1, <4>2 DEF Load, TypeOK, file
    <3>2. CASE End(s, Stale)
      BY <2>2, <3>2, EndTypes DEF Load, TypeOK, file
    <3> QED
      BY <2>2, <3>1, <3>2 DEF Load
  <2>3. CASE Listen(s)
    <3>1. CASE sock = Nobody
      <4>1. srv' \in [Servers -> [pc : PCs, mem : Heads, client : Clients \cup {Nobody},
                                  stop : BOOLEAN]]
        <5>1. srv \in [Servers -> [pc : PCs, mem : Heads, client : Clients \cup {Nobody},
                                   stop : BOOLEAN]]
          BY DEF TypeOK
        <5>2. srv' = [srv EXCEPT ![s].pc = "bound"]
          BY <2>3, <3>1 DEF Listen
        <5> HIDE DEF Heads
        <5> QED
          BY ONLY <5>1, <5>2, s \in Servers DEF PCs
      <4> QED
        BY <2>3, <3>1, <4>1 DEF Listen, TypeOK, file
    <3>2. CASE End(s, Stale)
      BY <2>3, <3>2, EndTypes DEF Listen, TypeOK, file
    <3> QED
      BY <2>3, <3>1, <3>2 DEF Listen
  <2>4. CASE Serve(s)
    BY <2>4 DEF Serve, TypeOK, file, PCs
  <2>5. CASE Answer(s)
    <3> DEFINE r == Head(queue)
               mem == srv[s].mem
    <3>1. r \in Request /\ queue' \in Seq(Request)
      BY <2>5 DEF Answer, TypeOK
    <3>2. mem \in Heads /\ r.client \in Clients \cup {Nobody}
      BY <3>1 DEF TypeOK, Request
    <3>3. Moved(mem, r) \in Heads
      BY <3>1, <3>2 DEF Moved, Request
    <3> HIDE DEF r, mem
    <3>4. srv' \in [Servers -> [pc : PCs, mem : Heads, client : Clients \cup {Nobody},
                                stop : BOOLEAN]]
      <4>1. srv' = srv \/ srv' = [srv EXCEPT ![s].pc = "moved", ![s].mem = Moved(mem, r),
                                             ![s].client = r.client]
        BY <2>5 DEF Answer, r, mem
      <4> QED
        BY <3>2, <3>3, <4>1 DEF TypeOK, PCs
    <3>5. told' \subseteq Heads /\ waiting' \subseteq Clients
      BY <2>5, <3>2 DEF Answer, Deliver, TypeOK, r, mem
    <3> QED
      BY <2>5, <3>1, <3>4, <3>5 DEF Answer, TypeOK, file
  <2>6. CASE Write(s)
    <3>1. srv[s].mem \in Heads
      BY DEF TypeOK
    <3>2. lines' \in Seq(Heads) /\ synced' \in 0..Len(lines')
      BY <2>6, <3>1 DEF Write, TypeOK
    <3>3. srv' \in [Servers -> [pc : PCs, mem : Heads, client : Clients \cup {Nobody},
                                stop : BOOLEAN]]
      <4>1. srv \in [Servers -> [pc : PCs, mem : Heads, client : Clients \cup {Nobody},
                                 stop : BOOLEAN]]
        BY DEF TypeOK
      <4>2. srv' = [srv EXCEPT ![s].pc = "written"]
        BY <2>6 DEF Write
      <4> HIDE DEF Heads
      <4> QED
        BY ONLY <4>1, <4>2, s \in Servers DEF PCs
    <3> QED
      BY <2>6, <3>2, <3>3 DEF Write, TypeOK
  <2>7. CASE Sync(s)
    <3>1. srv[s].mem \in Heads
      BY DEF TypeOK
    <3>2. CASE ~srv[s].stop
      <4>1. srv' \in [Servers -> [pc : PCs, mem : Heads, client : Clients \cup {Nobody},
                                  stop : BOOLEAN]]
        BY <2>7, <3>2 DEF Sync, TypeOK, PCs
      <4>2. told' \subseteq Heads /\ waiting' \subseteq Clients
        BY <2>7, <3>1, <3>2 DEF Sync, Deliver, TypeOK
      <4> QED
        BY <2>7, <3>2, <4>1, <4>2 DEF Sync, TypeOK
    <3>3. CASE srv[s].stop
      BY <2>7, <3>1, <3>3, EndTypes DEF Sync, TypeOK, file
    <3> QED
      BY <3>2, <3>3
  <2> QED
    BY <1>6, <2>1, <2>2, <2>3, <2>4, <2>5, <2>6, <2>7 DEF ServerStep
<1>7. ASSUME NEW s \in Servers, DiskFails(s) PROVE TypeOK'
  BY <1>7, EndTypes DEF DiskFails, TypeOK
<1>8. ASSUME NEW s \in Servers, Term(s) PROVE TypeOK'
  <2>1. CASE End(s, Stale) \/ End(s, Nobody)
    BY <1>8, <2>1, EndTypes DEF Term, TypeOK, file
  <2>2. CASE srv' = [srv EXCEPT ![s].stop = TRUE] /\ UNCHANGED <<lease, sock, queue, waiting>>
    BY <1>8, <2>2 DEF Term, TypeOK, file
  <2> QED
    BY <1>8, <2>1, <2>2 DEF Term
<1>9. ASSUME NEW s \in Servers, Kill(s) PROVE TypeOK'
  BY <1>9, EndTypes DEF Kill, TypeOK
<1>10. CASE CleanSocket
  BY <1>10 DEF CleanSocket, TypeOK, file
<1>11. CASE PowerLoss
  <2>1. PICK kept \in synced..Len(lines) : lines' = SubSeq(lines, 1, kept) /\ torn' \in BOOLEAN
    BY <1>11 DEF PowerLoss, TypeOK
  <2>2. lines' \in Seq(Heads) /\ Len(lines') \in Nat
    BY <2>1 DEF TypeOK
  <2>3. Off \in [pc : PCs, mem : Heads, client : Clients \cup {Nobody}, stop : BOOLEAN]
    BY DEF Off, PCs, Heads
  <2> QED
    BY <1>11, <2>1, <2>2, <2>3 DEF PowerLoss, TypeOK
<1> QED
  BY <1>1, <1>2, <1>3, <1>5, <1>6, <1>7, <1>8, <1>9, <1>10, <1>11 DEF Next

-----------------------------------------------------------------------------
(* The inductive invariant *)

\* Only the holder of the leases runs, so after its end nothing runs.
LEMMA EndLeavesNobody ==
  ASSUME TypeOK, OwnerHoldsLease, NEW s \in Servers, srv[s].pc # "off",
         NEW left, End(s, left)
  PROVE  OwnerHoldsLease' /\ MemoryFollowsFile'
<1>1. \A o \in Servers : srv'[o].pc = "off"
  BY DEF End, OwnerHoldsLease, TypeOK, Off
<1> QED
  BY <1>1 DEF OwnerHoldsLease, MemoryFollowsFile, PCs

\* A step that changes neither the file nor, of any process, where it is and
\* what it remembers, keeps what relates them.
LEMMA QuietKeeps ==
  ASSUME AnchorInv, UNCHANGED <<lines, torn, lease, told>>,
         \A s \in Servers : srv'[s].pc = srv[s].pc /\ srv'[s].mem = srv[s].mem
  PROVE  /\ OwnerHoldsLease' /\ MemoryFollowsFile' /\ StateFileRises'
         /\ "power" \notin Faults => ToldSurvives'
BY DEF AnchorInv, OwnerHoldsLease, MemoryFollowsFile, StateFileRises, ToldSurvives, LastLine

\* The whole lines of the file and what was told stay: so do their properties.
LEMMA FileKeeps ==
  ASSUME AnchorInv, UNCHANGED <<lines, told>>
  PROVE  StateFileRises' /\ ("power" \notin Faults => ToldSurvives')
BY DEF AnchorInv, StateFileRises, ToldSurvives, LastLine

\* Steps of a process keep the invariant: Load takes what the file says,
\* Answer goes forward from it, Write makes the file follow.
LEMMA ServerKeeps ==
  ASSUME AnchorInv, NEW s \in Servers, ServerStep(s)
  PROVE  /\ OwnerHoldsLease' /\ MemoryFollowsFile' /\ StateFileRises'
         /\ "power" \notin Faults => ToldSurvives'
<1> USE SetsAssumption DEF AnchorInv
<1>1. CASE Lease(s)
  <2>1. /\ \A o \in Servers : srv[o].pc = "off"
        /\ \A o \in Servers : o # s => srv'[o] = srv[o]
        /\ srv'[s].pc = "leased"
    BY <1>1 DEF Lease, OwnerHoldsLease, TypeOK
  <2>2. OwnerHoldsLease' /\ MemoryFollowsFile'
    BY <1>1, <2>1 DEF Lease, OwnerHoldsLease, MemoryFollowsFile, PCs
  <2> QED
    BY <1>1, <2>2, FileKeeps DEF Lease, file
<1>2. CASE Load(s)
  <2>1. StateFileRises' /\ ("power" \notin Faults => ToldSurvives')
    BY <1>2, FileKeeps DEF Load, file
  <2>2. CASE End(s, Stale)
    BY <1>2, <2>1, <2>2, EndLeavesNobody DEF Load
  <2>3. CASE /\ Loadable /\ UNCHANGED <<lease, sock, queue, waiting>>
             /\ srv' = [srv EXCEPT ![s].pc = "loaded", ![s].mem = LastLine]
    <3>1. LastLine' = LastLine /\ torn' = FALSE
      BY <1>2, <2>3 DEF Load, file, LastLine, Loadable, TypeOK
    <3>2. /\ \A o \in Servers : o # s => srv'[o] = srv[o]
          /\ srv'[s].pc = "loaded" /\ srv'[s].mem = LastLine
      BY <2>3 DEF TypeOK
    <3>3. \A o \in Servers : o # s => srv[o].pc = "off"
      BY <1>2 DEF Load, OwnerHoldsLease
    <3>4. lease = s
      BY <1>2 DEF Load, OwnerHoldsLease
    <3> QED
      BY <2>1, <2>3, <3>1, <3>2, <3>3, <3>4 DEF OwnerHoldsLease, MemoryFollowsFile, PCs
  <2> QED
    BY <1>2, <2>2, <2>3 DEF Load
<1>3. CASE Listen(s)
  <2>1. StateFileRises' /\ ("power" \notin Faults => ToldSurvives')
    BY <1>3, FileKeeps DEF Listen, file
  <2>2. CASE End(s, Stale)
    BY <1>3, <2>1, <2>2, EndLeavesNobody DEF Listen
  <2>3. CASE srv' = [srv EXCEPT ![s].pc = "bound"] /\ UNCHANGED <<lease, queue, waiting>>
    <3>1. LastLine' = LastLine /\ torn' = torn
      BY <1>3 DEF Listen, file, LastLine
    <3>2. /\ \A o \in Servers : o # s => srv'[o] = srv[o]
          /\ srv'[s].pc = "bound" /\ srv'[s].mem = srv[s].mem
          /\ srv[s].pc = "loaded"
      BY <1>3, <2>3 DEF TypeOK, Listen
    <3> QED
      BY <2>1, <2>3, <3>1, <3>2 DEF OwnerHoldsLease, MemoryFollowsFile, PCs
  <2> QED
    BY <1>3, <2>2, <2>3 DEF Listen
<1>4. CASE Serve(s)
  <2>1. StateFileRises' /\ ("power" \notin Faults => ToldSurvives')
    BY <1>4, FileKeeps DEF Serve, file
  <2>2. LastLine' = LastLine /\ torn' = torn /\ lease' = lease
    BY <1>4 DEF Serve, file, LastLine
  <2>3. /\ \A o \in Servers : o # s => srv'[o] = srv[o]
        /\ srv'[s].pc = "accepting" /\ srv'[s].mem = srv[s].mem
        /\ srv[s].pc = "bound"
    BY <1>4 DEF TypeOK, Serve
  <2> QED
    BY <2>1, <2>2, <2>3 DEF OwnerHoldsLease, MemoryFollowsFile, PCs
<1>5. CASE Answer(s)
  <2> DEFINE r == Head(queue)
             mem == srv[s].mem
  <2>1. r \in Request
    BY <1>5 DEF Answer, TypeOK
  <2>2. mem \in Heads /\ LastLine \in Heads
    BY LastLineType DEF TypeOK
  <2>3. mem = LastLine /\ ~torn /\ lease = s
    BY <1>5 DEF Answer, MemoryFollowsFile, OwnerHoldsLease, PCs
  <2>4. LastLine' = LastLine /\ torn' = torn /\ lease' = lease /\ lines' = lines
    BY <1>5 DEF Answer, file, LastLine
  <2> HIDE DEF r, mem
  <2>5. CASE /\ Moved(mem, r) # mem /\ UNCHANGED told
             /\ srv' = [srv EXCEPT ![s].pc = "moved", ![s].mem = Moved(mem, r),
                                   ![s].client = r.client]
    <3>1. IsStrictPrefix(LastLine, Moved(mem, r))
      <4>1. Accepts(mem, r)
        BY <2>5 DEF Moved
      <4> QED
        BY <2>1, <2>2, <2>3, <2>5, <4>1, CommitsExtend DEF IsStrictPrefix, Request
    <3>2. /\ \A o \in Servers : o # s => srv'[o] = srv[o]
          /\ srv'[s].pc = "moved" /\ srv'[s].mem = Moved(mem, r)
      BY <2>5 DEF TypeOK
    <3>3. \A o \in Servers : o # s => srv[o].pc = "off"
      BY <2>3 DEF OwnerHoldsLease
    <3> QED
      BY <2>3, <2>4, <2>5, <3>1, <3>2, <3>3, FileKeeps
      DEF OwnerHoldsLease, MemoryFollowsFile, PCs
  <2>6. CASE srv' = srv /\ told' \subseteq told \cup {mem}
    <3>1. OwnerHoldsLease' /\ MemoryFollowsFile' /\ StateFileRises'
      BY <2>4, <2>6 DEF OwnerHoldsLease, MemoryFollowsFile, StateFileRises
    <3>2. IsPrefix(mem, LastLine)
      BY <2>2, <2>3, PrefixReflexive DEF Heads
    <3> QED
      BY <2>4, <2>6, <3>1, <3>2 DEF ToldSurvives
  <2> QED
    BY <1>5, <2>5, <2>6 DEF Answer, Deliver, r, mem
<1>6. CASE Write(s)
  <2> DEFINE mem == srv[s].mem
  <2>1. mem \in Heads /\ LastLine \in Heads /\ lines \in Seq(Heads) /\ told \subseteq Heads
    BY LastLineType DEF TypeOK
  <2>2. IsStrictPrefix(LastLine, mem) /\ ~torn /\ lease = s
    BY <1>6 DEF Write, MemoryFollowsFile, OwnerHoldsLease, PCs
  <2>3. lines' = Append(lines, mem) /\ torn' = torn /\ lease' = lease /\ told' = told
    BY <1>6 DEF Write
  <2>4. /\ \A o \in Servers : o # s => srv'[o] = srv[o]
        /\ srv'[s].pc = "written" /\ srv'[s].mem = mem
    BY <1>6 DEF Write, TypeOK
  <2>5. \A o \in Servers : o # s => srv[o].pc = "off"
    BY <2>2 DEF OwnerHoldsLease
  <2> HIDE DEF mem
  <2>6. LastLine' = mem
    BY <2>1, <2>3 DEF LastLine
  <2>7. StateFileRises'
    <3>1. Len(lines') = Len(lines) + 1 /\ lines'[Len(lines) + 1] = mem
      BY <2>1, <2>3
    <3>2. \A i \in 1..Len(lines) : lines'[i] = lines[i]
      BY <2>1, <2>3
    <3>3. Len(lines) > 0 => LastLine = lines[Len(lines)]
      BY <2>1 DEF LastLine
    <3>4. ASSUME NEW i \in DOMAIN lines', i > 1
          PROVE  IsStrictPrefix(lines'[i - 1], lines'[i])
      <4>1. i \in 1..(Len(lines) + 1)
        BY <2>1, <2>3
      <4>2. CASE i = Len(lines) + 1
        BY <2>1, <2>2, <3>1, <3>2, <3>3, <3>4, <4>2
      <4>3. CASE i \in 1..Len(lines)
        BY <2>1, <3>2, <3>4, <4>3 DEF StateFileRises
      <4> QED
        BY <2>1, <4>1, <4>2, <4>3
    <3> QED
      BY <3>4 DEF StateFileRises
  <2>8. ASSUME "power" \notin Faults, NEW t \in told PROVE IsPrefix(t, mem)
    <3>1. IsPrefix(t, LastLine) /\ IsPrefix(LastLine, mem)
      BY <2>2, <2>8 DEF ToldSurvives, IsStrictPrefix
    <3> QED
      BY ONLY <2>1, <2>8, <3>1, PrefixTransitive DEF Heads
  <2> QED
    BY <2>2, <2>3, <2>4, <2>5, <2>6, <2>7, <2>8
    DEF OwnerHoldsLease, MemoryFollowsFile, ToldSurvives, PCs
<1>7. CASE Sync(s)
  <2> DEFINE mem == srv[s].mem
  <2>1. mem \in Heads /\ LastLine \in Heads
    BY LastLineType DEF TypeOK
  <2>2. mem = LastLine /\ ~torn /\ lease = s /\ srv[s].pc = "written"
    BY <1>7 DEF Sync, MemoryFollowsFile, OwnerHoldsLease, PCs
  <2>3. LastLine' = LastLine /\ torn' = torn /\ lines' = lines
    BY <1>7 DEF Sync, LastLine
  <2>4. StateFileRises'
    BY <2>3 DEF StateFileRises
  <2>5. "power" \notin Faults => ToldSurvives'
    <3>1. told' \subseteq told \cup {mem}
      BY <1>7 DEF Sync, Deliver
    <3>2. IsPrefix(mem, LastLine)
      BY <2>1, <2>2, PrefixReflexive DEF Heads
    <3> HIDE DEF mem
    <3> QED
      BY <2>3, <3>1, <3>2 DEF ToldSurvives
  <2>6. CASE End(s, Nobody)
    BY <2>2, <2>4, <2>5, <2>6, EndLeavesNobody
  <2>7. CASE /\ srv' = [srv EXCEPT ![s].pc = "accepting", ![s].client = Nobody]
             /\ UNCHANGED <<lease, sock, queue>>
    <3>1. /\ \A o \in Servers : o # s => srv'[o] = srv[o]
          /\ srv'[s].pc = "accepting" /\ srv'[s].mem = mem
      BY <2>7 DEF TypeOK
    <3>2. \A o \in Servers : o # s => srv[o].pc = "off"
      BY <2>2 DEF OwnerHoldsLease
    <3> HIDE DEF mem
    <3> QED
      BY <2>2, <2>3, <2>4, <2>5, <2>7, <3>1, <3>2
      DEF OwnerHoldsLease, MemoryFollowsFile, PCs
  <2> QED
    BY <1>7, <2>6, <2>7 DEF Sync
<1> QED
  BY <1>1, <1>2, <1>3, <1>4, <1>5, <1>6, <1>7 DEF ServerStep

\* A loss of power ends every process and cuts the file at a whole line.
LEMMA PowerKeeps ==
  ASSUME AnchorInv, PowerLoss
  PROVE  /\ OwnerHoldsLease' /\ MemoryFollowsFile' /\ StateFileRises'
         /\ "power" \notin Faults => ToldSurvives'
<1>1. \A s \in Servers : srv'[s].pc = "off"
  BY DEF PowerLoss, Off
<1>2. PICK kept \in synced..Len(lines) : lines' = SubSeq(lines, 1, kept)
  BY DEF PowerLoss
<1>3. lines \in Seq(Heads) /\ kept \in 0..Len(lines)
  BY <1>2 DEF AnchorInv, TypeOK
<1>4. DOMAIN lines' = 1..kept /\ \A i \in 1..kept : lines'[i] = lines[i]
  BY <1>2, <1>3
<1>5. StateFileRises'
  BY <1>3, <1>4 DEF StateFileRises, AnchorInv
<1> QED
  BY <1>1, <1>5 DEF OwnerHoldsLease, MemoryFollowsFile, PCs, PowerLoss

\* Every step keeps the invariant.
LEMMA StepKeeps ==
  ASSUME AnchorInv, [Next]_vars
  PROVE  AnchorInv'
<1> USE SetsAssumption
<1>1. TypeOK'
  BY TypePreserved DEF AnchorInv
<1>2. SUFFICES /\ OwnerHoldsLease' /\ MemoryFollowsFile' /\ StateFileRises'
               /\ "power" \notin Faults => ToldSurvives'
  BY <1>1 DEF AnchorInv
<1>3. CASE UNCHANGED vars
  BY <1>3, QuietKeeps DEF vars, file
<1>4. CASE \/ \E e \in Events : Append1(e)
           \/ \E n \in 0..MaxCount : Restore(n)
           \/ CleanSocket
  BY <1>4, QuietKeeps DEF Append1, Restore, CleanSocket, file
<1>5. CASE \E c \in Clients : ClientStep(c)
  <2>1. PICK c \in Clients : ClientStep(c)
    BY <1>5
  <2>2. UNCHANGED <<lines, torn, lease, told>>
    BY <2>1 DEF ClientStep, Ask, Commit, CommitDelta, Send, GiveUp, file
  <2>3. \A s \in Servers : srv'[s].pc = srv[s].pc /\ srv'[s].mem = srv[s].mem
    <3>1. CASE srv' = srv
      BY <3>1
    <3>2. CASE GiveUp(c)
      BY <3>2 DEF GiveUp, AnchorInv, TypeOK
    <3> QED
      BY <2>1, <3>1, <3>2 DEF ClientStep, Ask, Commit, CommitDelta, Send
  <2> QED
    BY <2>2, <2>3, QuietKeeps
<1>6. CASE \E s \in Servers : ServerStep(s)
  BY <1>6, ServerKeeps
<1>7. CASE \E s \in Servers : DiskFails(s)
  <2>1. PICK s \in Servers : DiskFails(s)
    BY <1>7
  <2>2. srv[s].pc # "off" /\ End(s, Nobody) /\ UNCHANGED <<lines, told>>
    BY <2>1 DEF DiskFails
  <2> QED
    BY <2>2, EndLeavesNobody, FileKeeps DEF AnchorInv
<1>8. CASE \E s \in Servers : Term(s)
  <2>1. PICK s \in Servers : Term(s)
    BY <1>8
  <2>2. UNCHANGED <<lines, torn, told>>
    BY <2>1 DEF Term, file
  <2>3. CASE srv[s].pc # "off" /\ (End(s, Stale) \/ End(s, Nobody))
    BY <2>2, <2>3, EndLeavesNobody, FileKeeps DEF AnchorInv
  <2>4. CASE srv' = [srv EXCEPT ![s].stop = TRUE] /\ UNCHANGED lease
    <3>1. \A o \in Servers : srv'[o].pc = srv[o].pc /\ srv'[o].mem = srv[o].mem
      BY <2>4 DEF AnchorInv, TypeOK
    <3> QED
      BY <2>2, <2>4, <3>1, QuietKeeps
  <2> QED
    BY <2>1, <2>3, <2>4 DEF Term
<1>9. CASE \E s \in Servers : Kill(s)
  <2>1. PICK s \in Servers : Kill(s)
    BY <1>9
  <2>2. srv[s].pc # "off" /\ End(s, Stale) /\ UNCHANGED <<lines, told>>
    BY <2>1 DEF Kill
  <2> QED
    BY <2>2, EndLeavesNobody, FileKeeps DEF AnchorInv
<1>10. CASE PowerLoss
  BY <1>10, PowerKeeps
<1> QED
  BY <1>3, <1>4, <1>5, <1>6, <1>7, <1>8, <1>9, <1>10 DEF Next

\* The invariant holds of a fresh anchor.
LEMMA InitHolds ==
  ASSUME Init
  PROVE  AnchorInv
<1> USE SetsAssumption, BoundsAssumption, DeltaAssumption
<1>1. TypeOK
  <2>1. Off \in [pc : PCs, mem : Heads, client : Clients \cup {Nobody}, stop : BOOLEAN]
    BY DEF Off, PCs, Heads
  <2>2. log \in Heads /\ lines \in Seq(Heads) /\ queue \in Seq(Request) /\ Len(log) = 0
    BY DEF Init, Heads
  <2>3. synced \in 0..Len(lines)
    BY DEF Init
  <2>4. srv \in [Servers -> [pc : PCs, mem : Heads, client : Clients \cup {Nobody},
                             stop : BOOLEAN]]
    BY <2>1 DEF Init
  <2>5. torn \in BOOLEAN /\ waiting \subseteq Clients /\ told \subseteq Heads
    BY DEF Init
  <2>6. lease \in Servers \cup {Nobody} /\ sock \in Servers \cup {Nobody, Stale}
    BY DEF Init
  <2> QED
    BY <2>2, <2>3, <2>4, <2>5, <2>6 DEF TypeOK
<1>2. \A s \in Servers : srv[s].pc = "off"
  BY DEF Init, Off
<1> QED
  BY <1>1, <1>2
  DEF Init, AnchorInv, OwnerHoldsLease, MemoryFollowsFile, StateFileRises, ToldSurvives, PCs

-----------------------------------------------------------------------------
(* Theorems *)

\* The inductive invariant of the served anchor holds in every behaviour: the
\* one running process remembers what the state file says, or is about to
\* write the difference.
THEOREM AnchorInductive == Spec => []AnchorInv
<1>1. Init => AnchorInv
  BY InitHolds
<1>2. AnchorInv /\ [Next]_vars => AnchorInv'
  BY StepKeeps
<1> QED
  BY <1>1, <1>2, PTL DEF Spec

\* Typing of the served anchor: whatever fails, the file never has fewer lines than
\* an fsync has covered, and the database's log stays within its bound.
THEOREM AnchorTyping == Spec => []TypeOK
<1>1. AnchorInv => TypeOK
  BY DEF AnchorInv
<1> QED
  BY <1>1, AnchorInductive, PTL

\* Whatever crashes, retries, losses of power and competing starts there are,
\* the state file is one history whose counts rise: _load never refuses a file
\* for its order.
THEOREM FileIsOneHistory == Spec => []StateFileRises
<1>1. AnchorInv => StateFileRises
  BY DEF AnchorInv
<1> QED
  BY <1>1, AnchorInductive, PTL

\* As long as the host keeps power, no state an answer has told is ever lost
\* or contradicted, whatever rival heads are sent and whichever process is
\* killed or runs out of disk.
THEOREM ToldIsKept == "power" \notin Faults => (Spec => []ToldSurvives)
<1> SUFFICES ASSUME "power" \notin Faults PROVE Spec => []ToldSurvives
  OBVIOUS
<1>1. AnchorInv => ToldSurvives
  BY DEF AnchorInv
<1> QED
  BY <1>1, AnchorInductive, PTL

\* Without crashes and failing disks the file is whole at every moment, so that a
\* process that was stopped, wherever SIGTERM met it, is followed by one that loads
\* what it left.
THEOREM StopIsNoOutage == Faults = {} => (Spec => []Restartable)
<1> SUFFICES ASSUME Faults = {} PROVE Spec => []Restartable
  OBVIOUS
<1>1. Init => ~torn
  BY DEF Init
<1>2. ~torn /\ [Next]_vars => ~torn'
  <2> SUFFICES ASSUME ~torn, [Next]_vars PROVE torn' = torn
    OBVIOUS
  <2>1. ASSUME NEW s \in Servers, ServerStep(s) \/ Term(s) PROVE torn' = torn
    BY <2>1 DEF ServerStep, Lease, Load, Listen, Serve, Answer, Write, Sync, Term, file
  <2>2. ASSUME NEW c \in Clients, ClientStep(c) PROVE torn' = torn
    BY <2>2 DEF ClientStep, Ask, Commit, CommitDelta, Send, GiveUp, file
  <2>3. ~PowerLoss /\ \A s \in Servers : ~DiskFails(s) /\ ~Kill(s)
    BY DEF PowerLoss, DiskFails, Kill
  <2> QED
    BY <2>1, <2>2, <2>3 DEF Next, Append1, Restore, CleanSocket, vars, file
<1>3. AnchorInv /\ ~torn => Restartable
  <2> SUFFICES ASSUME AnchorInv, ~torn, NEW i \in DOMAIN lines, i > 1
               PROVE  Len(lines[i - 1]) < Len(lines[i])
    BY DEF Restartable, Loadable
  <2>1. lines \in Seq(Seq(Events)) /\ IsStrictPrefix(lines[i - 1], lines[i])
    BY DEF AnchorInv, TypeOK, StateFileRises, Heads
  <2>2. lines[i - 1] \in Seq(Events) /\ lines[i] \in Seq(Events)
    BY <2>1
  <2> QED
    BY <2>1, <2>2, StrictLonger
<1> QED
  BY <1>1, <1>2, <1>3, AnchorInductive, PTL DEF Spec

\* As long as the host keeps power, the anchor implements Witness: every step
\* of a process, a client or a fault extends the history the file ends in,
\* tells its end, or does not show.
THEOREM AnchorImplementsWitness == "power" \notin Faults => (Spec => ImplementsWitness)
<1> SUFFICES ASSUME "power" \notin Faults PROVE Spec => ImplementsWitness
  OBVIOUS
<1>1. Init => Promise!Init
  BY DEF Init, Promise!Init, LastLine
<1>2. ASSUME AnchorInv, [Next]_vars
      PROVE  [Promise!Next]_<<LastLine, told>>
  <2>1. CASE UNCHANGED <<lines, told>>
    BY <2>1 DEF LastLine
  <2>2. ASSUME NEW s \in Servers, Answer(s) PROVE [Promise!Next]_<<LastLine, told>>
    <3>1. srv[s].mem = LastLine
      BY <1>2, <2>2 DEF Answer, AnchorInv, MemoryFollowsFile
    <3>2. told' = told \/ told' = told \cup {LastLine}
      BY <2>2, <3>1 DEF Answer, Deliver
    <3> QED
      BY <2>2, <3>2 DEF Answer, file, LastLine, Promise!Next, Promise!Tell
  <2>3. ASSUME NEW s \in Servers, Sync(s) PROVE [Promise!Next]_<<LastLine, told>>
    <3>1. srv[s].mem = LastLine
      BY <1>2, <2>3 DEF Sync, AnchorInv, MemoryFollowsFile
    <3>2. told' = told \/ told' = told \cup {LastLine}
      BY <2>3, <3>1 DEF Sync, Deliver
    <3> QED
      BY <2>3, <3>2 DEF Sync, LastLine, Promise!Next, Promise!Tell
  <2>4. ASSUME NEW s \in Servers, Write(s) PROVE [Promise!Next]_<<LastLine, told>>
    <3>1. IsStrictPrefix(LastLine, srv[s].mem) /\ srv[s].mem \in Heads
      BY <1>2, <2>4 DEF Write, AnchorInv, MemoryFollowsFile, TypeOK
    <3>2. lines \in Seq(Heads) /\ lines' = Append(lines, srv[s].mem) /\ told' = told
      BY <1>2, <2>4 DEF Write, AnchorInv, TypeOK
    <3>3. LastLine' = srv[s].mem
      BY <3>1, <3>2 DEF LastLine
    <3> QED
      BY <3>1, <3>2, <3>3
      DEF Promise!Next, Promise!Extend, Promise!IsStrictPrefix, Promise!IsPrefix,
          IsStrictPrefix, IsPrefix, Heads
  <2> QED
    BY <1>2, <2>1, <2>2, <2>3, <2>4
    DEF Next, vars, file, Append1, Restore, ClientStep, Ask, Commit, CommitDelta, Send,
        GiveUp, ServerStep, Lease, Load, Listen, Serve, DiskFails, Term, Kill, CleanSocket,
        PowerLoss
<1> QED
  BY <1>1, <1>2, AnchorInductive, PTL DEF Spec, ImplementsWitness, Promise!Spec

=============================================================================

---------------------------- MODULE StreamsProof ----------------------------
(***************************************************************************)
(* What the service makes of bytes from outside.  The HTTP entrance, for   *)
(* any number of connections, subjects and requests, any limits, any       *)
(* refill rate, and a clock that jumps as it likes: slots are conserved,   *)
(* no subject exceeds its budget, and bytes of a body are taken for a      *)
(* request only behind a HEAD.  The response stream of a worker, for any   *)
(* number of processes and PIDs and any lengths: what is accepted is two   *)
(* whole frames of one authenticated sender.                               *)
(***************************************************************************)
EXTENDS HttpEntry, WorkerStream, FiniteSetTheorems, TLAPS

-----------------------------------------------------------------------------
(* The inductive invariant. *)

\* A thread that is past a head knows the request it serves.
Served ==
  \A c \in Clients : pc[c] \in {"body", "handle", "run", "reply"} => cur[c] # None

\* What is free and what is held make up the limit.
SlotsHeld == slots + Cardinality(Serving) = MaxSlots
FlightsHeld == flights + Cardinality(Running) = MaxInFlight

\* What a subject was granted and what it could still be granted at once, against its
\* burst and the time between its readings; a subject without a bucket was granted
\* nothing.
BudgetOf(s) ==
  IF bucket[s] = None
  THEN first[s] = None /\ spent[s] = 0
  ELSE /\ first[s] \in 0..highest[s] /\ highest[s] = bucket[s].last
       /\ spent[s] + bucket[s].tokens <= Burst + Rate * (highest[s] - first[s])
BudgetKept == \A s \in Subjects : BudgetOf(s)

\* The requests in the tokens q: a body follows a head that declares one, and such a
\* head is followed by its body unless the client has stopped sending.
Follows(q) == \A i \in 2..Len(q) : q[i] = Body => q[i-1] # Body /\ q[i-1].body
Followed(q, stopped) ==
  \A i \in 1..Len(q) : q[i] # Body /\ q[i].body =>
    IF i < Len(q) THEN q[i+1] = Body ELSE stopped
Shaped ==
  \A c \in Clients : Follows(stream[c]) /\ Followed(stream[c], sent[c] = MaxRequests)

\* Who waits for a body finds it at the head of the tokens, or will never get it.
BodyNext ==
  \A c \in Clients : pc[c] = "body" =>
    IF stream[c] = <<>> THEN sent[c] = MaxRequests ELSE stream[c][1] = Body

\* A body at the head of the tokens is being waited for, belongs to a HEAD, or is on a
\* connection that is not read any more.
BodyExpected ==
  \A c \in Clients : stream[c] # <<>> /\ stream[c][1] = Body =>
    \/ pc[c] \in {"body", "closed"} \/ skipped[c]
    \/ pc[c] = "reply" /\ closing[c]

HttpInv ==
  /\ TypeOK /\ Served /\ SlotsHeld /\ FlightsHeld /\ BudgetKept
  /\ Shaped /\ BodyNext /\ BodyExpected /\ LostOnlyByHead
-----------------------------------------------------------------------------
(* Counting the threads. *)

\* Adding one member to a finite set, or taking one away, changes its size by one.
LEMMA Count ==
  ASSUME NEW S, IsFiniteSet(S), NEW c
  PROVE  /\ Cardinality(S) \in Nat
         /\ Cardinality(S \cup {c}) = IF c \in S THEN Cardinality(S) ELSE Cardinality(S) + 1
         /\ Cardinality(S \ {c}) = IF c \in S THEN Cardinality(S) - 1 ELSE Cardinality(S)
         /\ c \in S => Cardinality(S) > 0
<1>1. Cardinality(S) \in Nat
  BY FS_CardinalityType
<1>2. Cardinality(S \cup {c}) = IF c \in S THEN Cardinality(S) ELSE Cardinality(S) + 1
  BY FS_AddElement
<1>3. Cardinality(S \ {c}) = IF c \in S THEN Cardinality(S) - 1 ELSE Cardinality(S)
  BY FS_RemoveElement
<1>4. c \in S => Cardinality(S \ {c}) \in Nat
  BY FS_RemoveElement, FS_CardinalityType
<1> QED
  BY <1>1, <1>2, <1>3, <1>4

\* The sets of threads are finite.
LEMMA ThreadsFinite == IsFiniteSet(Serving) /\ IsFiniteSet(Running)
BY HttpAssumption, FS_Subset DEF Serving, Running

\* What a step of one thread does to the two sets.
LEMMA PcChange ==
  ASSUME TypeOK, NEW c \in Clients, NEW s, SetPc(c, s)
  PROVE  /\ Serving' = IF s \in {"new", "closed"} THEN Serving \ {c} ELSE Serving \cup {c}
         /\ Running' = IF s = "run" THEN Running \cup {c} ELSE Running \ {c}
BY DEF TypeOK, SetPc, Serving, Running

\* A step of a thread that goes on with another thing to do keeps its slot; it holds a
\* slot in flight before and after, or neither.
LEMMA GoesOn ==
  ASSUME TypeOK, SlotsHeld, FlightsHeld, NEW c \in Clients, NEW s, SetPc(c, s),
         pc[c] \notin {"new", "closed", "run"}, s \notin {"new", "closed", "run"},
         UNCHANGED <<slots, flights>>
  PROVE  SlotsHeld' /\ FlightsHeld'
<1>1. Serving' = Serving
  BY PcChange DEF Serving
<1>2. Running' = Running
  BY PcChange DEF Running
<1> QED
  BY <1>1, <1>2 DEF SlotsHeld, FlightsHeld

\* A thread that ends gives its slot back.
LEMMA Ends ==
  ASSUME TypeOK, SlotsHeld, FlightsHeld, NEW c \in Clients, EndThread(c),
         pc[c] \notin {"new", "closed"},
         flights' = IF pc[c] = "run" THEN flights + 1 ELSE flights
  PROVE  /\ SlotsHeld' /\ FlightsHeld'
         /\ slots' \in 0..MaxSlots /\ flights' \in 0..MaxInFlight
<1>1. Serving' = Serving \ {c} /\ c \in Serving /\ Running' = Running \ {c}
  BY PcChange DEF EndThread, Serving
<1>2. pc[c] = "run" <=> c \in Running
  BY DEF Running
<1>3. SlotsHeld' /\ slots' \in 0..MaxSlots
  <2>1. /\ Cardinality(Serving) \in Nat /\ Cardinality(Serving) > 0
        /\ Cardinality(Serving') = Cardinality(Serving) - 1
    BY <1>1, Count, ThreadsFinite
  <2>2. slots \in 0..MaxSlots /\ MaxSlots \in Nat /\ slots' = slots + 1
    BY HttpAssumption DEF TypeOK, EndThread
  <2> QED
    BY <2>1, <2>2 DEF SlotsHeld
<1>4. FlightsHeld' /\ flights' \in 0..MaxInFlight
  <2>1. /\ Cardinality(Running) \in Nat
        /\ c \in Running => Cardinality(Running) > 0
        /\ Cardinality(Running') = IF c \in Running THEN Cardinality(Running) - 1
                                    ELSE Cardinality(Running)
    BY <1>1, Count, ThreadsFinite
  <2>2. /\ flights \in 0..MaxInFlight /\ MaxInFlight \in Nat
        /\ flights' = IF c \in Running THEN flights + 1 ELSE flights
    BY <1>2, HttpAssumption DEF TypeOK
  <2> QED
    BY <2>1, <2>2 DEF FlightsHeld
<1> QED
  BY <1>3, <1>4

\* Both kinds of slots are conserved by every step.
LEMMA SlotsStep ==
  ASSUME HttpInv, Next
  PROVE  /\ SlotsHeld' /\ FlightsHeld'
         /\ slots' \in 0..MaxSlots /\ flights' \in 0..MaxInFlight
<1> USE DEF HttpInv
<1>0. slots \in 0..MaxSlots /\ flights \in 0..MaxInFlight
  BY DEF TypeOK
<1>1. ASSUME NEW c \in Clients, SendRequest(c)
      PROVE  SlotsHeld' /\ FlightsHeld' /\ UNCHANGED <<slots, flights>>
  <2>1. UNCHANGED <<pc, slots, flights>>
    BY <1>1 DEF SendRequest
  <2> QED
    BY <2>1 DEF SlotsHeld, FlightsHeld, Serving, Running
<1>2. ASSUME NEW c \in Clients, Connect(c)
      PROVE  SlotsHeld' /\ FlightsHeld' /\ slots' \in 0..MaxSlots /\ flights' = flights
  <2>1. c \notin Serving /\ c \notin Running /\ flights' = flights
    BY <1>2 DEF Connect, Serving, Running
  <2>2. CASE SetPc(c, "closed") /\ UNCHANGED slots
    <3>1. Serving' = Serving /\ Running' = Running
      BY <2>1, <2>2, PcChange
    <3> QED
      BY <1>0, <2>1, <2>2, <3>1 DEF SlotsHeld, FlightsHeld
  <2>3. CASE slots > 0 /\ SetPc(c, "parse") /\ slots' = slots - 1
    <3>1. Serving' = Serving \cup {c} /\ Running' = Running
      BY <2>1, <2>3, PcChange
    <3>2. Cardinality(Serving') = Cardinality(Serving) + 1
      BY <2>1, <3>1, Count, ThreadsFinite
    <3> QED
      BY <1>0, <2>1, <2>3, <3>1, <3>2, Count, ThreadsFinite, HttpAssumption
         DEF SlotsHeld, FlightsHeld
  <2> QED
    BY <1>2, <2>2, <2>3 DEF Connect
<1>3. ASSUME NEW c \in Clients, Hangup(c) \/ ParseLeftover(c)
      PROVE  SlotsHeld' /\ FlightsHeld' /\ slots' \in 0..MaxSlots /\ flights' \in 0..MaxInFlight
  BY <1>3, Ends DEF Hangup, ParseLeftover
<1>4. ASSUME NEW c \in Clients, ParseHead(c)
      PROVE  SlotsHeld' /\ FlightsHeld' /\ UNCHANGED <<slots, flights>>
  <2>1. PICK s \in {"reply", "body", "handle"} : SetPc(c, s)
    BY <1>4 DEF ParseHead
  <2> QED
    BY <1>4, <2>1, GoesOn DEF ParseHead
<1>5. ASSUME NEW c \in Clients, ReadBody(c) \/ ReadShortBody(c)
      PROVE  SlotsHeld' /\ FlightsHeld' /\ UNCHANGED <<slots, flights>>
  BY <1>5, GoesOn DEF ReadBody, ReadShortBody
<1>6. ASSUME NEW c \in Clients, Handle(c)
      PROVE  SlotsHeld' /\ FlightsHeld' /\ slots' = slots /\ flights' \in 0..MaxInFlight
  <2>1. pc[c] = "handle" /\ slots' = slots
    BY <1>6 DEF Handle
  <2>2. CASE SetPc(c, "reply") /\ UNCHANGED flights
    BY <1>0, <2>1, <2>2, GoesOn
  <2>3. CASE SetPc(c, "run") /\ flights > 0 /\ flights' = flights - 1
    <3>1. Serving' = Serving /\ Running' = Running \cup {c} /\ c \notin Running
      BY <2>1, <2>3, PcChange DEF Serving, Running
    <3>2. Cardinality(Running') = Cardinality(Running) + 1
      BY <3>1, Count, ThreadsFinite
    <3> QED
      BY <1>0, <2>1, <2>3, <3>1, <3>2, Count, ThreadsFinite, HttpAssumption
         DEF SlotsHeld, FlightsHeld
  <2> QED
    BY <1>6, <2>2, <2>3 DEF Handle
<1>7. ASSUME NEW c \in Clients, Return(c)
      PROVE  SlotsHeld' /\ FlightsHeld' /\ slots' = slots /\ flights' \in 0..MaxInFlight
  <2>1. Serving' = Serving /\ Running' = Running \ {c} /\ c \in Running
    BY <1>7, PcChange DEF Return, Serving, Running
  <2>2. /\ Cardinality(Running) \in Nat /\ Cardinality(Running) > 0
        /\ Cardinality(Running') = Cardinality(Running) - 1
    BY <2>1, Count, ThreadsFinite
  <2>3. slots' = slots /\ flights' = flights + 1 /\ MaxInFlight \in Nat
    BY <1>7, HttpAssumption DEF Return
  <2> QED
    BY <1>0, <2>1, <2>2, <2>3 DEF SlotsHeld, FlightsHeld
<1>8. ASSUME NEW c \in Clients, Raise(c)
      PROVE  SlotsHeld' /\ FlightsHeld' /\ slots' \in 0..MaxSlots /\ flights' \in 0..MaxInFlight
  BY <1>8, Ends DEF Raise
<1>9. ASSUME NEW c \in Clients, Reply(c)
      PROVE  SlotsHeld' /\ FlightsHeld' /\ slots' \in 0..MaxSlots /\ flights' \in 0..MaxInFlight
  <2>1. CASE EndThread(c)
    BY <1>9, <2>1, Ends DEF Reply
  <2>2. CASE SetPc(c, "parse") /\ UNCHANGED slots
    BY <1>0, <1>9, <2>2, GoesOn DEF Reply
  <2> QED
    BY <1>9, <2>1, <2>2 DEF Reply
<1>10. CASE Tick
  <2>1. UNCHANGED <<pc, slots, flights>>
    BY <1>10 DEF Tick
  <2> QED
    BY <1>0, <2>1 DEF SlotsHeld, FlightsHeld, Serving, Running
<1> QED
  BY <1>0, <1>1, <1>2, <1>3, <1>4, <1>5, <1>6, <1>7, <1>8, <1>9, <1>10
     DEF Next, ThreadStep
-----------------------------------------------------------------------------
(* Types, but for the slots; and the request a thread serves. *)

\* The request at the head of a connection, and what is behind it.
LEMMA HeadType ==
  ASSUME TypeOK, NEW c \in Clients, stream[c] # <<>>
  PROVE  /\ Head(stream[c]) = stream[c][1] /\ Len(stream[c]) \in Nat \ {0}
         /\ Head(stream[c]) # Body => Head(stream[c]) \in RequestType
         /\ Tail(stream[c]) \in Seq(Requests \cup {Body})
         /\ Len(Tail(stream[c])) = Len(stream[c]) - 1
         /\ \A i \in 1..Len(stream[c]) - 1 : Tail(stream[c])[i] = stream[c][i + 1]
<1>1. stream[c] \in Seq(Requests \cup {Body})
  BY DEF TypeOK
<1>2. Head(stream[c]) \in Requests \cup {Body}
  BY <1>1
<1> QED
  BY <1>1, <1>2, HttpAssumption

\* What a request that is being handled is charged to.
LEMMA Charged ==
  ASSUME TypeOK, Served, NEW c \in Clients, pc[c] = "handle"
  PROVE  cur[c] \in RequestType /\ (~RefusedUncharged(cur[c]) => cur[c].auth \in Subjects)
<1>1. cur[c] \in RequestType
  BY DEF TypeOK, Served
<1> QED
  BY <1>1 DEF RefusedUncharged, RequestType

\* The tokens of a subject and its last reading after a call of take.
LEMMA TakeType ==
  ASSUME TypeOK, NEW s \in Subjects, NEW granted \in BOOLEAN, granted => Granted(s)
  PROVE  /\ TokensNow(s) \in 0..Burst /\ LastReading(s) \in 0..MaxClock
         /\ [tokens |-> IF granted THEN TokensNow(s) - Cost ELSE TokensNow(s),
             last |-> LastReading(s)] \in BucketType
<1>1. /\ clock \in 0..MaxClock /\ MaxClock \in Nat /\ Burst \in Nat /\ Rate \in Nat
      /\ Cost \in Nat \ {0}
  BY HttpAssumption DEF TypeOK
<1>2. bucket[s] # None => bucket[s].tokens \in 0..Burst /\ bucket[s].last \in 0..MaxClock
  BY DEF TypeOK, BucketType
<1>3. LastReading(s) \in 0..MaxClock
  BY <1>1, <1>2 DEF LastReading, Larger
<1>4. TokensNow(s) \in 0..Burst
  <2>1. CASE bucket[s] = None
    BY <1>1, <2>1 DEF TokensNow
  <2>2. CASE bucket[s] # None
    <3> DEFINE d == Larger(0, clock - bucket[s].last)
    <3>1. d \in Nat
      BY <1>1, <1>2, <2>2 DEF Larger
    <3>2. d * Rate \in Nat
      BY <1>1, <3>1
    <3>3. TokensNow(s) = Smaller(Burst, bucket[s].tokens + d * Rate)
      BY <2>2 DEF TokensNow
    <3> HIDE DEF d
    <3> QED
      BY <1>1, <1>2, <2>2, <3>2, <3>3 DEF Smaller
  <2> QED
    BY <2>1, <2>2
<1>5. (IF granted THEN TokensNow(s) - Cost ELSE TokensNow(s)) \in 0..Burst
  BY <1>1, <1>4 DEF Granted
<1> QED
  BY <1>3, <1>4, <1>5 DEF BucketType

\* Every step keeps the types, and a thread past a head knows its request.
LEMMA TypeStep ==
  ASSUME HttpInv, Next
  PROVE  TypeOK' /\ Served'
<1> USE DEF HttpInv
<1>0. slots' \in 0..MaxSlots /\ flights' \in 0..MaxInFlight
  BY SlotsStep
<1>1. ASSUME NEW c \in Clients, SendRequest(c) PROVE TypeOK' /\ Served'
  <2>1. PICK r \in Requests :
          \/ stream' = [stream EXCEPT ![c] = @ \o (IF r.body THEN <<r, Body>> ELSE <<r>>)]
          \/ stream' = [stream EXCEPT ![c] = Append(@, r)]
    BY <1>1 DEF SendRequest
  <2>2. PICK q \in Seq(Requests \cup {Body}) : stream' = [stream EXCEPT ![c] = @ \o q]
    <3>1. Append(stream[c], r) = stream[c] \o <<r>>
      BY DEF TypeOK
    <3>2. <<r>> \in Seq(Requests \cup {Body}) /\ <<r, Body>> \in Seq(Requests \cup {Body})
      OBVIOUS
    <3> QED
      BY <2>1, <3>1, <3>2
  <2>3. stream[c] \o q \in Seq(Requests \cup {Body})
    BY DEF TypeOK
  <2>4. stream' \in [Clients -> Seq(Requests \cup {Body})]
    BY <2>2, <2>3 DEF TypeOK
  <2>5. sent' \in [Clients -> 0..MaxRequests]
    <3>1. sent[c] \in 0..MaxRequests /\ sent[c] < MaxRequests /\ MaxRequests \in Nat
      BY <1>1, HttpAssumption DEF SendRequest, TypeOK
    <3>2. PICK n \in {sent[c] + 1, MaxRequests} : sent' = [sent EXCEPT ![c] = n]
      BY <1>1 DEF SendRequest
    <3>3. n \in 0..MaxRequests
      BY <3>1, <3>2
    <3> QED
      BY <3>2, <3>3 DEF TypeOK
  <2> QED
    BY <1>0, <1>1, <2>4, <2>5 DEF SendRequest, TypeOK, Served, bucketVars
<1>2. CASE Tick
  BY <1>0, <1>2 DEF Tick, TypeOK, Served, streamVars, bucketVars
<1>3. ASSUME NEW c \in Clients, Connect(c) \/ Hangup(c) \/ ParseLeftover(c)
      PROVE  TypeOK' /\ Served'
  BY <1>0, <1>3 DEF Connect, Hangup, ParseLeftover, EndThread, SetPc, TypeOK, Served,
                    streamVars, bucketVars
<1>4. ASSUME NEW c \in Clients, ParseHead(c) PROVE TypeOK' /\ Served'
  <2> DEFINE r == Head(stream[c])
  <2>1. r \in RequestType /\ Tail(stream[c]) \in Seq(Requests \cup {Body})
    BY <1>4, HeadType DEF ParseHead
  <2>2. ClosesAfter(r) \in BOOLEAN /\ (r.body /\ r.method = "HEAD") \in BOOLEAN
    BY <2>1 DEF ClosesAfter, RefusedUnread
  <2>3. stream' \in [Clients -> Seq(Requests \cup {Body})]
    BY <1>4, <2>1 DEF ParseHead, TypeOK
  <2>4. /\ cur' = [cur EXCEPT ![c] = r] /\ r # None
        /\ cur' \in [Clients -> RequestType \cup {None}]
    BY <1>4, <2>1, HttpAssumption DEF ParseHead, TypeOK
  <2>5. closing' \in [Clients -> BOOLEAN] /\ skipped' \in [Clients -> BOOLEAN]
    BY <1>4, <2>2 DEF ParseHead, TypeOK
  <2>6. PICK s \in {"reply", "body", "handle"} : pc' = [pc EXCEPT ![c] = s]
    BY <1>4 DEF ParseHead, SetPc
  <2>7. Served'
    BY <2>4, <2>6 DEF TypeOK, Served
  <2> QED
    BY <1>0, <1>4, <2>3, <2>4, <2>5, <2>6, <2>7 DEF ParseHead, TypeOK, bucketVars
<1>5. ASSUME NEW c \in Clients, ReadBody(c) PROVE TypeOK' /\ Served'
  <2>1. Tail(stream[c]) \in Seq(Requests \cup {Body})
    BY <1>5, HeadType DEF ReadBody
  <2> QED
    BY <1>0, <1>5, <2>1 DEF ReadBody, SetPc, TypeOK, Served, bucketVars
<1>6. ASSUME NEW c \in Clients, ReadShortBody(c) PROVE TypeOK' /\ Served'
  <2>1. cur[c] \in RequestType /\ cur[c] # None
    BY <1>6 DEF ReadShortBody, TypeOK, Served
  <2>2. [cur[c] EXCEPT !.valid = FALSE] \in RequestType
    BY <2>1 DEF RequestType
  <2>3. PICK q \in RequestType : cur' = [cur EXCEPT ![c] = q]
    <3>1. CASE cur' = cur
      BY <2>1, <3>1 DEF TypeOK
    <3>2. CASE cur' = [cur EXCEPT ![c].valid = FALSE]
      BY <2>2, <3>2
    <3> QED
      BY <1>6, <3>1, <3>2 DEF ReadShortBody
  <2>4. cur' \in [Clients -> RequestType \cup {None}] /\ Served'
    BY <1>6, <2>3, HttpAssumption DEF ReadShortBody, SetPc, TypeOK, Served
  <2> QED
    BY <1>0, <1>6, <2>4 DEF ReadShortBody, SetPc, TypeOK, streamVars, bucketVars
<1>7. ASSUME NEW c \in Clients, Handle(c) PROVE TypeOK' /\ Served'
  <2>1. PICK s \in {"reply", "run"} : pc' = [pc EXCEPT ![c] = s]
    BY <1>7 DEF Handle, SetPc
  <2>2. /\ bucket' \in [Subjects -> BucketType \cup {None}] /\ spent' \in [Subjects -> Nat]
        /\ first' \in [Subjects -> 0..MaxClock \cup {None}]
        /\ highest' \in [Subjects -> 0..MaxClock]
    <3>1. CASE UNCHANGED bucketVars
      BY <3>1 DEF TypeOK, bucketVars
    <3>2. CASE ~RefusedUncharged(cur[c]) /\ Take(cur[c].auth, Granted(cur[c].auth))
      <4> DEFINE a == cur[c].auth
                 g == Granted(a)
      <4>1. a \in Subjects
        BY <1>7, <3>2, Charged DEF Handle
      <4>2. PICK b \in BucketType : bucket' = [bucket EXCEPT ![a] = b]
        BY <3>2, <4>1, TakeType DEF Take, Granted
      <4>3. LastReading(a) \in 0..MaxClock
        BY <4>1, TakeType
      <4>4. (IF g THEN spent[a] + Cost ELSE spent[a]) \in Nat
        BY <4>1, HttpAssumption DEF TypeOK
      <4>5. (IF first[a] = None THEN clock ELSE first[a]) \in 0..MaxClock \cup {None}
        BY <4>1 DEF TypeOK
      <4>6. bucket' \in [Subjects -> BucketType \cup {None}]
        BY <4>2 DEF TypeOK
      <4>7. spent' \in [Subjects -> Nat]
        BY <3>2, <4>4 DEF TypeOK, Take
      <4>8. first' \in [Subjects -> 0..MaxClock \cup {None}]
        BY <3>2, <4>5 DEF TypeOK, Take
      <4>9. highest' \in [Subjects -> 0..MaxClock]
        BY <3>2, <4>3 DEF TypeOK, Take
      <4> QED
        BY <4>6, <4>7, <4>8, <4>9
    <3> QED
      BY <1>7, <3>1, <3>2 DEF Handle
  <2>3. Served'
    BY <1>7, <2>1 DEF Handle, TypeOK, Served
  <2> QED
    BY <1>0, <1>7, <2>1, <2>2, <2>3 DEF Handle, TypeOK, streamVars
<1>8. ASSUME NEW c \in Clients, Return(c) \/ Raise(c) PROVE TypeOK' /\ Served'
  BY <1>0, <1>8 DEF Return, Raise, EndThread, SetPc, TypeOK, Served, streamVars, bucketVars
<1>9. ASSUME NEW c \in Clients, Reply(c) PROVE TypeOK' /\ Served'
  <2>1. PICK s \in {"parse", "closed"} : pc' = [pc EXCEPT ![c] = s]
    BY <1>9 DEF Reply, EndThread, SetPc
  <2> QED
    BY <1>0, <1>9, <2>1 DEF Reply, TypeOK, Served, streamVars, bucketVars
<1> QED
  BY <1>1, <1>2, <1>3, <1>4, <1>5, <1>6, <1>7, <1>8, <1>9 DEF Next, ThreadStep
-----------------------------------------------------------------------------
(* The budget of a subject. *)

\* What refills between two readings adds up.
LEMMA Refill ==
  ASSUME NEW rate \in Nat, NEW a \in Int, NEW b \in Int, NEW d \in Int
  PROVE  rate * (b - a) + (d - b) * rate = rate * (d - a)
OBVIOUS

\* One call of take keeps the account of its subject.
LEMMA TakeBudget ==
  ASSUME TypeOK, NEW s \in Subjects, BudgetOf(s), Take(s, Granted(s))
  PROVE  BudgetOf(s)'
<1> DEFINE g == Granted(s)
           t == IF g THEN TokensNow(s) - Cost ELSE TokensNow(s)
<1>1. /\ bucket'[s] = [tokens |-> t, last |-> LastReading(s)]
      /\ spent'[s] = IF g THEN spent[s] + Cost ELSE spent[s]
      /\ first'[s] = IF first[s] = None THEN clock ELSE first[s]
      /\ highest'[s] = LastReading(s)
  BY DEF Take, TypeOK
<1>2. bucket'[s] # None
  BY <1>1, TakeType, HttpAssumption DEF Granted
<1>3. /\ clock \in 0..MaxClock /\ MaxClock \in Nat /\ Burst \in Nat /\ Rate \in Nat
      /\ Cost \in Nat /\ spent[s] \in Nat
  BY HttpAssumption DEF TypeOK
<1>4. TokensNow(s) \in Int /\ LastReading(s) \in 0..MaxClock
  <2>1. TokensNow(s) \in 0..Burst /\ LastReading(s) \in 0..MaxClock
    BY TakeType
  <2> QED
    BY <1>3, <2>1
<1>5. spent'[s] + bucket'[s].tokens = spent[s] + TokensNow(s) /\ bucket'[s].last = LastReading(s)
  BY <1>1, <1>3, <1>4
<1>6. CASE bucket[s] = None
  <2>1. first[s] = None /\ spent[s] = 0 /\ TokensNow(s) = Burst /\ LastReading(s) = clock
    BY <1>6 DEF BudgetOf, TokensNow, LastReading
  <2>2. first'[s] = clock /\ highest'[s] = clock
    BY <1>1, <2>1
  <2>3. Rate * (highest'[s] - first'[s]) = 0
    BY <1>3, <2>2
  <2> QED
    BY <1>2, <1>3, <1>5, <2>1, <2>2, <2>3 DEF BudgetOf
<1>7. CASE bucket[s] # None
  <2> DEFINE last == bucket[s].last
             next == LastReading(s)
  <2>1. /\ first[s] \in 0..last /\ last \in 0..MaxClock /\ bucket[s].tokens \in 0..Burst
        /\ spent[s] + bucket[s].tokens <= Burst + Rate * (last - first[s])
    BY <1>7 DEF BudgetOf, TypeOK, BucketType
  <2>2. first[s] # None
    BY <1>3, <2>1, HttpAssumption
  <2>3. first'[s] = first[s] /\ highest'[s] = next
    BY <1>1, <2>2
  <2>4. next \in Nat /\ last <= next /\ Larger(0, clock - last) = next - last
    BY <1>3, <1>7, <2>1 DEF LastReading, Larger
  <2>5. TokensNow(s) = Smaller(Burst, bucket[s].tokens + (next - last) * Rate)
    BY <1>7, <2>4 DEF TokensNow
  <2>6. Rate * (last - first[s]) + (next - last) * Rate = Rate * (next - first[s])
    BY <1>3, <2>1, <2>4, Refill
  <2>7. /\ Rate * (last - first[s]) \in Int /\ (next - last) * Rate \in Int
        /\ Rate * (next - first[s]) \in Int
    BY <1>3, <2>1, <2>4
  <2>8. TokensNow(s) <= bucket[s].tokens + (next - last) * Rate
    BY <1>3, <2>1, <2>5, <2>7 DEF Smaller
  <2>9. spent[s] + TokensNow(s) <= Burst + Rate * (next - first[s])
    BY <1>3, <1>4, <2>1, <2>6, <2>7, <2>8
  <2>10. first[s] \in 0..next
    BY <2>1, <2>4
  <2> QED
    BY <1>2, <1>5, <2>3, <2>9, <2>10 DEF BudgetOf
<1> QED
  BY <1>6, <1>7

\* No step exceeds the budget of a subject.
LEMMA BudgetStep ==
  ASSUME HttpInv, Next
  PROVE  BudgetKept'
<1> USE DEF HttpInv
<1>1. CASE UNCHANGED bucketVars
  BY <1>1 DEF BudgetKept, BudgetOf, bucketVars
<1>2. ASSUME NEW c \in Clients, Handle(c), ~RefusedUncharged(cur[c]),
             Take(cur[c].auth, Granted(cur[c].auth))
      PROVE  BudgetKept'
  <2> DEFINE a == cur[c].auth
  <2>1. a \in Subjects
    BY <1>2, Charged DEF Handle
  <2>2. ASSUME NEW s \in Subjects PROVE BudgetOf(s)'
    <3>1. CASE s = a
      <4>1. BudgetOf(s) /\ Take(s, Granted(s))
        BY <1>2, <3>1 DEF BudgetKept
      <4> QED
        BY <4>1, TakeBudget
    <3>2. CASE s # a
      <4>1. /\ bucket'[s] = bucket[s] /\ spent'[s] = spent[s]
            /\ first'[s] = first[s] /\ highest'[s] = highest[s]
        BY <1>2, <3>2 DEF Take, TypeOK
      <4> QED
        BY <4>1 DEF BudgetKept, BudgetOf
    <3> QED
      BY <3>1, <3>2
  <2> QED
    BY <2>2 DEF BudgetKept
<1>3. UNCHANGED bucketVars \/ \E c \in Clients : Handle(c)
  BY DEF Next, ThreadStep, SendRequest, Tick, Connect, Hangup, ParseLeftover, ParseHead,
         ReadBody, ReadShortBody, Return, Raise, Reply
<1> QED
  BY <1>1, <1>2, <1>3 DEF Handle
-----------------------------------------------------------------------------
(* The framing of a kept connection. *)

\* What the invariant says of one connection.
FramedOf(q, n, s, close, skip, lose) ==
  /\ Follows(q) /\ Followed(q, n = MaxRequests)
  /\ s = "body" => IF q = <<>> THEN n = MaxRequests ELSE q[1] = Body
  /\ q # <<>> /\ q[1] = Body =>
       s \in {"body", "closed"} \/ skip \/ (s = "reply" /\ close)
  /\ lose => skip
Framed(c) == FramedOf(stream[c], sent[c], pc[c], closing[c], skipped[c], lost[c])

\* The invariant's parts about the framing, connection by connection.
LEMMA FramedAll ==
  (\A c \in Clients : Framed(c)) <=> Shaped /\ BodyNext /\ BodyExpected /\ LostOnlyByHead
BY DEF Framed, FramedOf, Shaped, BodyNext, BodyExpected, LostOnlyByHead

\* Without its first token a stream, q, is t, and keeps its shape; when the first token
\* was a body or declared none, the next one is no body.
LEMMA TailShape ==
  ASSUME NEW q \in Seq(Requests \cup {Body}), NEW t \in Seq(Requests \cup {Body}),
         Len(q) > 0, Len(t) = Len(q) - 1, \A i \in 1..Len(q) - 1 : t[i] = q[i + 1],
         NEW stopped \in BOOLEAN, Follows(q), Followed(q, stopped)
  PROVE  /\ Follows(t) /\ Followed(t, stopped)
         /\ t # <<>> /\ t[1] = Body => q[1] # Body /\ q[1].body
         /\ q[1] # Body /\ q[1].body => IF t = <<>> THEN stopped ELSE t[1] = Body
<1>1. Len(q) \in Nat
  OBVIOUS
<1>2. Follows(t)
  <2> SUFFICES ASSUME NEW i \in 2..Len(t), t[i] = Body PROVE t[i-1] # Body /\ t[i-1].body
    BY DEF Follows
  <2>1. /\ i \in 1..Len(q) - 1 /\ i - 1 \in 1..Len(q) - 1 /\ i + 1 \in 2..Len(q)
        /\ (i - 1) + 1 = i /\ (i + 1) - 1 = i
    BY <1>1
  <2>2. t[i] = q[i + 1] /\ t[i - 1] = q[i]
    BY <2>1
  <2>3. q[(i + 1) - 1] # Body /\ q[(i + 1) - 1].body
    BY <2>1, <2>2 DEF Follows
  <2> QED
    BY <2>1, <2>2, <2>3
<1>3. Followed(t, stopped)
  <2> SUFFICES ASSUME NEW i \in 1..Len(q) - 1, q[i + 1] # Body, q[i + 1].body
               PROVE  IF i < Len(q) - 1 THEN t[i + 1] = Body ELSE stopped
    BY <1>1 DEF Followed
  <2>1. IF i + 1 < Len(q) THEN q[i + 2] = Body ELSE stopped
    BY <1>1 DEF Followed
  <2> QED
    BY <1>1, <2>1
<1>4. t # <<>> => Len(q) > 1 /\ t[1] = q[2]
  BY <1>1
<1>5. t = <<>> => Len(q) = 1
  BY <1>1
<1>6. t # <<>> /\ t[1] = Body => q[1] # Body /\ q[1].body
  BY <1>1, <1>4 DEF Follows
<1>7. ASSUME q[1] # Body, q[1].body
      PROVE  IF t = <<>> THEN stopped ELSE t[1] = Body
  <2>1. IF 1 < Len(q) THEN q[2] = Body ELSE stopped
    BY <1>1, <1>7 DEF Followed
  <2> QED
    BY <1>4, <1>5, <2>1
<1> QED
  BY <1>2, <1>3, <1>6, <1>7

\* What is at the head of a stream to which something was added.
LEMMA FirstOf ==
  ASSUME NEW q \in Seq(Requests \cup {Body}), NEW r \in Requests
  PROVE  /\ Append(q, r) # <<>> /\ Append(q, r)[1] = IF q = <<>> THEN r ELSE q[1]
         /\ q \o <<r, Body>> # <<>>
         /\ (q \o <<r, Body>>)[1] = IF q = <<>> THEN r ELSE q[1]
<1>1. CASE q = <<>>
  BY <1>1
<1>2. CASE q # <<>>
  BY <1>2
<1> QED
  BY <1>1, <1>2

\* A head without a body or, as the last thing that is sent, a head whose body is
\* missing keeps the shape of a stream whose client had not stopped ...
LEMMA AppendHead ==
  ASSUME NEW q \in Seq(Requests \cup {Body}), NEW r \in Requests,
         Follows(q), Followed(q, FALSE), NEW stopped \in BOOLEAN, r.body => stopped
  PROVE  Follows(Append(q, r)) /\ Followed(Append(q, r), stopped)
<1> DEFINE p == Append(q, r)
<1>0. r # Body /\ Len(q) \in Nat
  BY HttpAssumption
<1>1. /\ Len(p) = Len(q) + 1 /\ p[Len(q) + 1] = r
      /\ \A i \in 1..Len(q) : p[i] = q[i]
  OBVIOUS
<1> HIDE DEF p
<1>2. Follows(p)
  BY <1>0, <1>1 DEF Follows
<1>3. Followed(p, stopped)
  BY <1>0, <1>1 DEF Followed
<1> QED
  BY <1>2, <1>3 DEF p

\* ... and so does a head with its body.
LEMMA AppendWhole ==
  ASSUME NEW q \in Seq(Requests \cup {Body}), NEW r \in Requests,
         Follows(q), Followed(q, FALSE), NEW stopped \in BOOLEAN, r.body
  PROVE  Follows(q \o <<r, Body>>) /\ Followed(q \o <<r, Body>>, stopped)
<1> DEFINE p == q \o <<r, Body>>
<1>0. r # Body /\ Len(q) \in Nat
  BY HttpAssumption
<1>1. /\ Len(p) = Len(q) + 2 /\ p[Len(q) + 1] = r /\ p[Len(q) + 2] = Body
      /\ \A i \in 1..Len(q) : p[i] = q[i]
  OBVIOUS
<1> HIDE DEF p
<1>2. Follows(p)
  BY <1>0, <1>1 DEF Follows
<1>3. Followed(p, stopped)
  BY <1>0, <1>1 DEF Followed
<1> QED
  BY <1>2, <1>3 DEF p

\* A step of one connection leaves the framing of the others alone.
LEMMA Unread ==
  ASSUME NEW c \in Clients, Framed(c),
         UNCHANGED <<stream[c], sent[c], pc[c], closing[c], skipped[c], lost[c]>>
  PROVE  Framed(c)'
BY DEF Framed

\* No step breaks the framing of a connection.
LEMMA FramingStep ==
  ASSUME HttpInv, Next, NEW c \in Clients
  PROVE  Framed(c)'
<1>0. /\ TypeOK /\ Framed(c) /\ stream[c] \in Seq(Requests \cup {Body})
      /\ (sent[c] = MaxRequests) \in BOOLEAN
  BY FramedAll DEF HttpInv, TypeOK
<1>1. ASSUME NEW d \in Clients, d # c,
             SendRequest(d) \/ Connect(d) \/ Hangup(d) \/ ReadShortBody(d) \/ ThreadStep(d)
      PROVE  Framed(c)'
  <2>1. UNCHANGED <<stream[c], sent[c], closing[c], skipped[c], lost[c]>>
    BY <1>0, <1>1 DEF TypeOK, SendRequest, Connect, Hangup, ReadShortBody, ThreadStep,
       ParseLeftover, ParseHead, ReadBody, Handle, Return, Raise, Reply, streamVars
  <2>2. pc'[c] = pc[c]
    BY <1>0, <1>1 DEF TypeOK, SendRequest, Connect, Hangup, ReadShortBody, ThreadStep,
       ParseLeftover, ParseHead, ReadBody, Handle, Return, Raise, Reply, EndThread, SetPc
  <2> QED
    BY <1>0, <2>1, <2>2, Unread
<1>2. CASE Tick
  BY <1>0, <1>2, Unread DEF Tick, streamVars
<1>3. CASE SendRequest(c)
  <2>1. /\ UNCHANGED <<pc, closing, skipped, lost>> /\ sent[c] # MaxRequests
        /\ sent[c] \in Nat /\ MaxRequests \in Nat
    BY <1>3, <1>0, HttpAssumption DEF SendRequest, TypeOK
  <2>2. Follows(stream[c]) /\ Followed(stream[c], FALSE)
    BY <1>0, <2>1 DEF Framed, FramedOf, Followed
  <2>3. PICK r \in Requests :
          \/ stream' = [stream EXCEPT ![c] = @ \o (IF r.body THEN <<r, Body>> ELSE <<r>>)]
          \/ r.body /\ stream' = [stream EXCEPT ![c] = Append(@, r)] /\ sent'[c] = MaxRequests
    BY <1>0, <1>3 DEF SendRequest, TypeOK
  <2>4. \/ stream'[c] = Append(stream[c], r) /\ (r.body => sent'[c] = MaxRequests)
        \/ stream'[c] = stream[c] \o <<r, Body>> /\ r.body
    <3>1. Append(stream[c], r) = stream[c] \o <<r>>
      BY <1>0
    <3> QED
      BY <1>0, <2>3, <3>1 DEF TypeOK
  <2>5. Follows(stream'[c]) /\ Followed(stream'[c], sent'[c] = MaxRequests)
    BY <1>0, <2>2, <2>4, AppendHead, AppendWhole
  <2>6. /\ stream'[c] # <<>>
        /\ stream'[c][1] = IF stream[c] = <<>> THEN r ELSE stream[c][1]
    BY <1>0, <2>4, FirstOf
  <2>7. r # Body
    BY HttpAssumption
  <2>8. stream[c] = <<>> => pc[c] # "body"
    BY <1>0, <2>1 DEF Framed, FramedOf
  <2> QED
    BY <1>0, <2>1, <2>5, <2>6, <2>7, <2>8 DEF Framed, FramedOf
<1>4. CASE ParseHead(c)
  <2> DEFINE r == stream[c][1]
             q == Tail(stream[c])
  <2>1. r = Head(stream[c]) /\ r # Body /\ stream[c] # <<>>
    BY <1>0, <1>4, HeadType DEF ParseHead
  <2>2. /\ Follows(q) /\ Followed(q, sent[c] = MaxRequests)
        /\ q # <<>> /\ q[1] = Body => r.body
        /\ r.body => IF q = <<>> THEN sent[c] = MaxRequests ELSE q[1] = Body
    <3>1. /\ q \in Seq(Requests \cup {Body}) /\ Len(stream[c]) > 0
          /\ Len(q) = Len(stream[c]) - 1
          /\ \A i \in 1..Len(stream[c]) - 1 : q[i] = stream[c][i + 1]
      BY <1>0, <2>1, HeadType
    <3>2. Follows(stream[c]) /\ Followed(stream[c], sent[c] = MaxRequests)
      BY <1>0 DEF Framed, FramedOf
    <3>3. stream[c] \in Seq(Requests \cup {Body}) /\ (sent[c] = MaxRequests) \in BOOLEAN
      BY <1>0
    <3> HIDE DEF q
    <3>4. /\ Follows(q) /\ Followed(q, sent[c] = MaxRequests)
          /\ q # <<>> /\ q[1] = Body => stream[c][1].body
          /\ stream[c][1] # Body /\ stream[c][1].body =>
               IF q = <<>> THEN sent[c] = MaxRequests ELSE q[1] = Body
      BY ONLY <3>1, <3>2, <3>3, TailShape
    <3> QED
      BY <2>1, <3>4
  <2>3. /\ stream'[c] = q /\ sent'[c] = sent[c] /\ lost'[c] = lost[c]
        /\ closing'[c] = RefusedUnread(r)
        /\ pc'[c] = IF RefusedUnread(r) THEN "reply"
                    ELSE IF r.body /\ r.method # "HEAD" THEN "body" ELSE "handle"
        /\ skipped'[c] = (skipped[c] \/ (r.body /\ r.method = "HEAD"))
    BY <1>0, <1>4, <2>1 DEF ParseHead, TypeOK, SetPc, ClosesAfter
  <2>4. lost[c] => skipped[c]
    BY <1>0 DEF Framed, FramedOf
  <2> QED
    BY <2>2, <2>3, <2>4 DEF Framed, FramedOf
<1>5. CASE ReadBody(c)
  <2> DEFINE q == Tail(stream[c])
  <2>1. stream[c][1] = Body /\ stream[c] # <<>> /\ pc[c] = "body"
    BY <1>0, <1>5 DEF ReadBody, Framed, FramedOf
  <2>2. /\ Follows(q) /\ Followed(q, sent[c] = MaxRequests)
        /\ ~(q # <<>> /\ q[1] = Body)
    <3>1. /\ q \in Seq(Requests \cup {Body}) /\ Len(stream[c]) > 0
          /\ Len(q) = Len(stream[c]) - 1
          /\ \A i \in 1..Len(stream[c]) - 1 : q[i] = stream[c][i + 1]
      BY <1>0, <2>1, HeadType
    <3>2. Follows(stream[c]) /\ Followed(stream[c], sent[c] = MaxRequests)
      BY <1>0 DEF Framed, FramedOf
    <3>3. stream[c] \in Seq(Requests \cup {Body}) /\ (sent[c] = MaxRequests) \in BOOLEAN
      BY <1>0
    <3> HIDE DEF q
    <3>4. /\ Follows(q) /\ Followed(q, sent[c] = MaxRequests)
          /\ q # <<>> /\ q[1] = Body => stream[c][1] # Body
      BY ONLY <3>1, <3>2, <3>3, TailShape
    <3> QED
      BY <2>1, <3>4
  <2>3. /\ stream'[c] = q /\ UNCHANGED <<sent[c], lost[c], closing[c], skipped[c]>>
        /\ pc'[c] = "handle"
    BY <1>0, <1>5 DEF ReadBody, TypeOK, SetPc
  <2> QED
    BY <1>0, <2>2, <2>3 DEF Framed, FramedOf
<1>6. CASE ParseLeftover(c)
  <2>1. /\ UNCHANGED <<stream, sent, skipped, closing>> /\ pc'[c] = "closed"
        /\ pc[c] = "parse" /\ stream[c] # <<>> /\ stream[c][1] = Body
    BY <1>0, <1>6, HeadType DEF ParseLeftover, EndThread, SetPc, TypeOK
  <2>2. skipped[c]
    BY <1>0, <2>1 DEF Framed, FramedOf
  <2> QED
    BY <1>0, <2>1, <2>2 DEF Framed, FramedOf
<1>7. CASE Connect(c) \/ Hangup(c) \/ Handle(c) \/ Return(c) \/ Raise(c)
           \/ ReadShortBody(c) \/ Reply(c)
  <2>1. UNCHANGED <<stream, sent, skipped, closing, lost>>
    BY <1>7 DEF Connect, Hangup, Handle, Return, Raise, ReadShortBody, Reply, streamVars
  <2>2. \/ pc'[c] = "closed"
        \/ pc[c] = "new" /\ pc'[c] = "parse"
        \/ pc[c] = "body" /\ pc'[c] = "handle" /\ stream[c] = <<>>
        \/ pc[c] \in {"handle", "run"} /\ pc'[c] \in {"run", "reply"}
        \/ pc[c] = "reply" /\ pc'[c] = "parse" /\ ~closing[c]
    BY <1>0, <1>7 DEF TypeOK, Connect, Hangup, Handle, Return, Raise, ReadShortBody, Reply,
       EndThread, SetPc
  <2> QED
    BY <1>0, <2>1, <2>2 DEF Framed, FramedOf
<1> QED
  BY <1>1, <1>2, <1>3, <1>4, <1>5, <1>6, <1>7 DEF Next, ThreadStep
-----------------------------------------------------------------------------
(* Theorems. *)

\* The invariant holds at the start and is kept by every step.
THEOREM HttpInductive == Spec => []HttpInv
<1>1. Init => HttpInv
  <2> SUFFICES ASSUME Init PROVE HttpInv
    OBVIOUS
  <2>1. TypeOK
    BY HttpAssumption DEF Init, TypeOK
  <2>2. Served /\ BudgetKept
    BY DEF Init, Served, BudgetKept, BudgetOf
  <2>3. SlotsHeld /\ FlightsHeld
    <3>1. Serving = {} /\ Running = {}
      BY DEF Init, Serving, Running
    <3> QED
      BY <3>1, FS_EmptySet, HttpAssumption DEF Init, SlotsHeld, FlightsHeld
  <2>4. Shaped /\ BodyNext /\ BodyExpected /\ LostOnlyByHead
    BY DEF Init, Shaped, Follows, Followed, BodyNext, BodyExpected, LostOnlyByHead
  <2> QED
    BY <2>1, <2>2, <2>3, <2>4 DEF HttpInv
<1>2. HttpInv /\ [Next]_vars => HttpInv'
  <2> SUFFICES ASSUME HttpInv, [Next]_vars PROVE HttpInv'
    OBVIOUS
  <2>1. CASE Next
    <3>1. \A c \in Clients : Framed(c)'
      BY <2>1, FramingStep
    <3>2. (Shaped /\ BodyNext /\ BodyExpected /\ LostOnlyByHead)'
      BY <3>1 DEF Framed, FramedOf, Shaped, BodyNext, BodyExpected, LostOnlyByHead
    <3> QED
      BY <2>1, <3>2, TypeStep, SlotsStep, BudgetStep DEF HttpInv
  <2>2. CASE UNCHANGED vars
    BY <2>2 DEF HttpInv, vars, TypeOK, Served, SlotsHeld, FlightsHeld, Serving, Running,
       BudgetKept, BudgetOf, Shaped, BodyNext, BodyExpected, LostOnlyByHead
  <2> QED
    BY <2>1, <2>2
<1> QED
  BY <1>1, <1>2, PTL DEF Spec

\* No connection slot and no slot of a job in flight is lost or minted on any path of a
\* thread of BoundedServer, however many connections there are and whatever a callback
\* raises.
THEOREM SlotsAlwaysConserved == Spec => []SlotsConserved
<1>1. HttpInv => SlotsConserved
  BY DEF HttpInv, SlotsConserved, SlotsHeld, FlightsHeld
<1> QED
  BY <1>1, HttpInductive, PTL

\* No subject is ever granted more than its burst and what the time between its
\* readings refills (_Buckets.take), whatever the rate, the cost, and the clock.
THEOREM AlwaysWithinBudget == Spec => []WithinBudget
<1>1. HttpInv => WithinBudget
  <2> SUFFICES ASSUME HttpInv, NEW s \in Subjects, first[s] # None
               PROVE  spent[s] <= Burst + Rate * (highest[s] - first[s])
    BY DEF WithinBudget
  <2>1. BudgetOf(s) /\ bucket[s] # None
    BY DEF HttpInv, BudgetKept, BudgetOf
  <2>2. /\ spent[s] \in Nat /\ bucket[s].tokens \in 0..Burst /\ Burst \in Nat /\ Rate \in Nat
        /\ highest[s] - first[s] \in Int
    BY <2>1, HttpAssumption DEF HttpInv, TypeOK, BucketType, BudgetOf
  <2>3. Rate * (highest[s] - first[s]) \in Int
    BY <2>2
  <2> QED
    BY <2>1, <2>2, <2>3 DEF BudgetOf
<1> QED
  BY <1>1, HttpInductive, PTL

\* However requests are pipelined on a kept connection, bytes of a body are parsed as a
\* request only behind a HEAD whose body do_HEAD did not read.
THEOREM BodyLostOnlyByHead == Spec => []LostOnlyByHead
<1>1. HttpInv => LostOnlyByHead
  BY DEF HttpInv
<1> QED
  BY <1>1, HttpInductive, PTL

-----------------------------------------------------------------------------
(* The response stream of a worker: the inductive invariant. *)

FragType == [data : Seq(Worker!Byte), pidfd : {"none", "live", "sentinel"},
             rights : Nat, flags : BOOLEAN]

StreamType ==
  /\ Worker!TypeOK
  /\ frag \in FragType /\ got \in Nat /\ count \in Nat

\* No two processes that are not reaped have the same PID.
PidsUnique ==
  /\ \A p \in Procs : life[p] # "none" => pidOf[p] \in Pids
  /\ \A p, q \in Procs :
       /\ p # q
       /\ life[p] \in {"run", "zombie"} /\ life[q] \in {"run", "zombie"}
       => pidOf[p] # pidOf[q]

\* If q, which wrote later than p, has the PID of p, then p was reaped.
Before(p, q) == p # q /\ pidOf[p] = pidOf[q] => life[p] = "reaped"

\* Senders have lived, and stand in the order of their bytes: the bound process
\* first, then the fragment not judged yet, then the bytes in the socket.
SendersKnown ==
  /\ bound # Nobody => life[bound] # "none"
  /\ \A p \in writers : life[p] # "none"
  /\ frag # Worker!NoFrag => life[frag.data[1].from] # "none"
  /\ \A i \in DOMAIN bytes : life[bytes[i].from] # "none"

SendersOrdered ==
  /\ \A i, j \in DOMAIN bytes : i < j => Before(bytes[i].from, bytes[j].from)
  /\ frag # Worker!NoFrag =>
       \A j \in DOMAIN bytes : Before(frag.data[1].from, bytes[j].from)
  /\ bound # Nobody => \A j \in DOMAIN bytes : Before(bound, bytes[j].from)
  /\ bound # Nobody /\ frag # Worker!NoFrag => Before(bound, frag.data[1].from)

\* Nobody's bytes are accepted before a process is bound.
BoundFirst == bound = Nobody => writers = {}

\* A fragment is judged before the reader goes anywhere, and is no longer than asked.
FragWanted ==
  frag # Worker!NoFrag =>
    Worker!Listening /\ Len(frag.data) \in 1 .. remaining

\* No byte is counted twice, and none is lost while the reader goes on.
BytesCounted ==
  /\ got + Len(frag.data) + Len(bytes) <= count
  /\ Worker!Listening \/ at = "done" => got + Len(frag.data) + Len(bytes) = count
  /\ at = "done" => bytes = <<>> /\ frag = Worker!NoFrag

\* The bytes up to the end of the last frame announced.
Announced(s) ==
  IF s = <<>> THEN 0 ELSE IF Len(s) = 1 THEN 1 + s[1] ELSE 2 + s[1] + s[2]

\* Where the reader is between the frames, by what it has accepted.
FramesCounted ==
  /\ at = "header" =>
       remaining = 1 /\ Len(lengths) = frame - 1 /\ got = Announced(lengths)
  /\ at = "body" => Len(lengths) = frame /\ got + remaining = Announced(lengths)
  /\ at = "eof" => remaining = 1
  /\ at \in {"eof", "done"} => Len(lengths) = 2 /\ got = Announced(lengths)

\* The Core holds the descriptors of the fragment it judges and the pidfd it kept.
DescriptorsHeld ==
  open = Worker!Owned(frag) + (IF bound # Nobody /\ at # "confirmed" THEN 1 ELSE 0)

StreamInv ==
  /\ StreamType /\ PidsUnique /\ SendersKnown /\ SendersOrdered /\ BoundFirst
  /\ Worker!OneSender /\ FragWanted /\ BytesCounted /\ FramesCounted /\ DescriptorsHeld

-----------------------------------------------------------------------------
(* The processes of the worker and the kernel. *)

\* What the constants of the stream are.
LEMMA StreamConstants ==
  /\ Nobody \notin Procs /\ Nobody \notin Pids
  /\ Limit \in Nat /\ Limit >= 1 /\ MaxBytes \in Nat /\ MaxQueued \in Nat
  /\ MaxRights \in Nat
BY WorkerStreamAssumption DEF Worker!FrameAssumption

\* A fragment that is none holds nothing.
LEMMA NoFragIsEmpty ==
  /\ Worker!NoFrag \in FragType /\ Len(Worker!NoFrag.data) = 0
  /\ Worker!Owned(Worker!NoFrag) = 0
BY DEF FragType, Worker!NoFrag, Worker!Owned

\* Whoever stands behind a byte, a fragment or an acceptance is a process.
LEMMA StreamSenders ==
  ASSUME StreamInv
  PROVE  /\ \A i \in DOMAIN bytes : bytes[i] \in Worker!Byte /\ bytes[i].from \in Procs
         /\ frag # Worker!NoFrag => frag.data[1] \in Worker!Byte /\ frag.data[1].from \in Procs
         /\ bound \in Procs \cup {Nobody} /\ writers \subseteq Procs
         /\ frag \in FragType /\ frag.data \in Seq(Worker!Byte) /\ bytes \in Seq(Worker!Byte)
<1>1. /\ bound \in Procs \cup {Nobody} /\ writers \subseteq Procs
      /\ frag \in FragType /\ bytes \in Seq(Worker!Byte)
  BY DEF StreamInv, StreamType, Worker!TypeOK
<1>2. frag.data \in Seq(Worker!Byte)
  BY <1>1 DEF FragType
<1>3. \A i \in DOMAIN bytes : bytes[i] \in Worker!Byte
  BY <1>1
<1>4. frag # Worker!NoFrag => Len(frag.data) >= 1
  <2>1. Worker!TypeOK /\ FragWanted
    BY DEF StreamInv, StreamType
  <2>2. remaining \in Nat
    BY <2>1, StreamConstants DEF Worker!TypeOK
  <2> QED
    BY <2>1, <2>2, <1>2 DEF FragWanted
<1>5. frag # Worker!NoFrag => frag.data[1] \in Worker!Byte
  BY <1>2, <1>4
<1>6. \A b \in Worker!Byte : b.from \in Procs
  BY DEF Worker!Byte
<1> QED
  BY <1>1, <1>2, <1>3, <1>5, <1>6

\* The invariant holds before anything is sent.
LEMMA StreamStarts == Worker!Init => StreamInv
<1> SUFFICES ASSUME Worker!Init PROVE StreamInv
  OBVIOUS
<1> USE StreamConstants, NoFragIsEmpty
<1>1. StreamType
  <2>1. /\ life \in [Procs -> {"none", "run", "zombie", "reaped"}]
        /\ pidOf \in [Procs -> Pids \cup {Nobody}] /\ uidOf \in [Procs -> BOOLEAN]
    BY DEF Worker!Init
  <2>2. bytes \in Seq(Worker!Byte) /\ lengths \in Seq(0 .. Limit + 1)
    BY DEF Worker!Init
  <2>3. /\ frag \in FragType /\ frag.data \in Seq(Worker!Byte)
        /\ frag.pidfd \in {"none", "live", "sentinel"}
    <3>1. frag = Worker!NoFrag
      BY DEF Worker!Init
    <3>2. frag \in FragType
      BY <3>1
    <3> QED
      BY <3>2 DEF FragType
  <2>4. /\ count \in 0 .. MaxBytes /\ count \in Nat /\ got \in 0 .. MaxBytes /\ got \in Nat
        /\ open \in Nat
    <3>1. count = 0 /\ got = 0 /\ open = 0
      BY DEF Worker!Init
    <3> QED
      BY ONLY <3>1, StreamConstants
  <2>5. /\ at = "header" /\ bound \in Procs \cup {Nobody} /\ writers \subseteq Procs
    <3>1. at = "header" /\ bound = Nobody /\ writers = {}
      BY DEF Worker!Init
    <3> QED
      BY ONLY <3>1
  <2>6. frame \in 1 .. 2 /\ remaining \in 1 .. Limit
    <3>1. frame = 1 /\ remaining = 1
      BY DEF Worker!Init
    <3> QED
      BY ONLY <3>1, StreamConstants
  <2>7. shut \in BOOLEAN
    BY DEF Worker!Init
  <2> QED
    BY ONLY <2>1, <2>2, <2>3, <2>4, <2>5, <2>6, <2>7 DEF StreamType, Worker!TypeOK
<1>2. PidsUnique /\ SendersKnown /\ SendersOrdered /\ BoundFirst /\ Worker!OneSender
  BY DEF Worker!Init, PidsUnique, SendersKnown, SendersOrdered, BoundFirst,
         Worker!OneSender
<1>3. FragWanted /\ BytesCounted /\ DescriptorsHeld
  BY DEF Worker!Init, FragWanted, BytesCounted, DescriptorsHeld, Worker!Listening
<1>4. FramesCounted
  BY DEF Worker!Init, FramesCounted, Announced
<1> QED
  BY <1>1, <1>2, <1>3, <1>4 DEF StreamInv

\* A process that starts is no sender yet, and takes a PID that is free.
LEMMA SpawnStep == ASSUME StreamInv, NEW p \in Procs, Worker!Spawn(p) PROVE StreamInv'
<1> USE StreamConstants
<1>0. /\ life[p] = "none" /\ life' = [life EXCEPT ![p] = "run"]
      /\ UNCHANGED <<bytes, count, shut>> /\ UNCHANGED Worker!reader
  BY DEF Worker!Spawn
<1>1. UNCHANGED <<bytes, count, shut, at, frame, remaining, frag, bound, writers, got,
                  lengths, open>>
  BY <1>0 DEF Worker!reader, Worker!accepted
<1>2. PICK n \in Pids, u \in BOOLEAN :
        /\ \A q \in Procs : life[q] \in {"run", "zombie"} => pidOf[q] # n
        /\ pidOf' = [pidOf EXCEPT ![p] = n]
        /\ uidOf' = [uidOf EXCEPT ![p] = u]
  BY DEF Worker!Spawn
<1>t. /\ life \in [Procs -> {"none", "run", "zombie", "reaped"}]
      /\ pidOf \in [Procs -> Pids \cup {Nobody}] /\ uidOf \in [Procs -> BOOLEAN]
  BY DEF StreamInv, StreamType, Worker!TypeOK
<1>u. /\ life' \in [Procs -> {"none", "run", "zombie", "reaped"}]
      /\ pidOf' \in [Procs -> Pids \cup {Nobody}] /\ uidOf' \in [Procs -> BOOLEAN]
  BY <1>t, <1>0, <1>2
<1>3. StreamType'
  BY <1>u, <1>1 DEF StreamInv, StreamType, Worker!TypeOK
<1>4. \A q \in Procs : q # p => life'[q] = life[q] /\ pidOf'[q] = pidOf[q] /\ uidOf'[q] = uidOf[q]
  BY <1>t, <1>0, <1>2
<1>5. life'[p] = "run" /\ pidOf'[p] = n
  BY <1>t, <1>0, <1>2
<1>6. PidsUnique'
  BY <1>t, <1>2, <1>4, <1>5 DEF StreamInv, PidsUnique
<1>7. \A q, r \in Procs : life[q] # "none" /\ life[r] # "none" /\ Before(q, r) => Before(q, r)'
  BY <1>4, <1>0 DEF Before
<1>8. SendersKnown'
  BY <1>1, <1>0, <1>t DEF StreamInv, SendersKnown
<1>s. /\ \A i \in DOMAIN bytes : bytes[i].from \in Procs
      /\ frag # Worker!NoFrag => frag.data[1].from \in Procs
      /\ bound \in Procs \cup {Nobody} /\ writers \subseteq Procs
  BY StreamSenders
<1>9. SendersOrdered'
  BY <1>1, <1>7, <1>s DEF StreamInv, SendersKnown, SendersOrdered
<1>10. Worker!OneSender'
  BY <1>1, <1>4, <1>0, <1>s DEF StreamInv, SendersKnown, Worker!OneSender, BoundFirst
<1>11. BoundFirst' /\ FragWanted' /\ BytesCounted' /\ FramesCounted' /\ DescriptorsHeld'
  BY <1>1 DEF StreamInv, BoundFirst, FragWanted, BytesCounted, FramesCounted, DescriptorsHeld,
              Worker!Listening
<1> QED
  BY <1>3, <1>6, <1>8, <1>9, <1>10, <1>11 DEF StreamInv

\* A byte is sent by a process that runs: an earlier sender of its PID was reaped.
LEMMA SendByteStep == ASSUME StreamInv, NEW p \in Procs, Worker!SendByte(p) PROVE StreamInv'
<1> USE StreamConstants
<1>0. /\ life[p] = "run" /\ Worker!Listening /\ count < MaxBytes /\ count' = count + 1
      /\ UNCHANGED <<life, pidOf, uidOf, shut>> /\ UNCHANGED Worker!reader
  BY DEF Worker!SendByte
<1>1. UNCHANGED <<life, pidOf, uidOf, shut, at, frame, remaining, frag, bound, writers, got,
                  lengths, open>>
  BY <1>0 DEF Worker!reader, Worker!accepted
<1>2. PICK b \in Worker!Byte : b.from = p /\ bytes' = Append(bytes, b)
  BY DEF Worker!SendByte
<1>t. /\ count \in 0 .. MaxBytes /\ got \in Nat /\ StreamType
  BY DEF StreamInv, StreamType, Worker!TypeOK
<1>s. /\ \A i \in DOMAIN bytes : bytes[i].from \in Procs
      /\ frag # Worker!NoFrag => frag.data[1].from \in Procs
      /\ bound \in Procs \cup {Nobody} /\ writers \subseteq Procs
      /\ frag.data \in Seq(Worker!Byte) /\ bytes \in Seq(Worker!Byte)
  BY StreamSenders
<1>u. /\ bytes' \in Seq(Worker!Byte) /\ Len(bytes') = Len(bytes) + 1
      /\ DOMAIN bytes' = 1 .. (Len(bytes) + 1) /\ DOMAIN bytes = 1 .. Len(bytes)
      /\ Len(bytes) \in Nat /\ Len(frag.data) \in Nat
      /\ \A i \in DOMAIN bytes : bytes'[i] = bytes[i]
      /\ bytes'[Len(bytes) + 1] = b
  BY <1>2, <1>s
<1>3. StreamType'
  <2>1. count' \in 0 .. MaxBytes
    BY <1>0, <1>t
  <2> QED
    BY <2>1, <1>t, <1>u, <1>1 DEF StreamType, Worker!TypeOK
<1>4. PidsUnique' /\ BoundFirst' /\ Worker!OneSender' /\ FragWanted' /\ DescriptorsHeld'
      /\ FramesCounted'
  BY <1>1 DEF StreamInv, PidsUnique, BoundFirst, Worker!OneSender, FragWanted,
              DescriptorsHeld, FramesCounted, Worker!Listening
<1>5. \A q \in Procs : life[q] # "none" => Before(q, p)
  <2> SUFFICES ASSUME NEW q \in Procs, life[q] # "none", q # p, pidOf[q] = pidOf[p]
               PROVE  life[q] = "reaped"
    BY DEF Before
  <2>1. life \in [Procs -> {"none", "run", "zombie", "reaped"}]
    BY <1>t DEF StreamType, Worker!TypeOK
  <2>2. ~(life[q] \in {"run", "zombie"})
    BY <1>0 DEF StreamInv, PidsUnique
  <2> QED
    BY <2>1, <2>2
<1>6. SendersKnown'
  <2>1. \A i \in DOMAIN bytes' : life[bytes'[i].from] # "none"
    <3> SUFFICES ASSUME NEW i \in DOMAIN bytes' PROVE life[bytes'[i].from] # "none"
      OBVIOUS
    <3>1. CASE i = Len(bytes) + 1
      BY <3>1, <1>u, <1>2, <1>0
    <3>2. CASE i # Len(bytes) + 1
      BY <3>2, <1>u DEF StreamInv, SendersKnown
    <3> QED
      BY <3>1, <3>2
  <2> QED
    BY <2>1, <1>1 DEF StreamInv, SendersKnown
<1>7. \A q, r : Before(q, r)' <=> Before(q, r)
  BY <1>1 DEF Before
<1>8. \A j \in DOMAIN bytes' : j \in DOMAIN bytes \/ (j = Len(bytes) + 1 /\ bytes'[j].from = p)
  BY <1>u, <1>2
<1>9. SendersOrdered'
  <2>1. ASSUME NEW i \in DOMAIN bytes', NEW j \in DOMAIN bytes', i < j
        PROVE  Before(bytes'[i].from, bytes'[j].from)
    <3>1. i \in DOMAIN bytes
      BY <2>1, <1>u
    <3>2. bytes'[i].from = bytes[i].from /\ bytes[i].from \in Procs /\ life[bytes[i].from] # "none"
      BY <3>1, <1>u, <1>s DEF StreamInv, SendersKnown
    <3>3. CASE j \in DOMAIN bytes
      BY <3>1, <3>2, <3>3, <2>1, <1>u DEF StreamInv, SendersOrdered
    <3>4. CASE bytes'[j].from = p
      BY <3>2, <3>4, <1>5
    <3> QED
      BY <3>3, <3>4, <1>8
  <2>2. ASSUME NEW q \in Procs, life[q] # "none", \A j \in DOMAIN bytes : Before(q, bytes[j].from)
        PROVE  \A j \in DOMAIN bytes' : Before(q, bytes'[j].from)
    BY <2>2, <1>8, <1>5, <1>u
  <2>3. frag # Worker!NoFrag => \A j \in DOMAIN bytes' : Before(frag.data[1].from, bytes'[j].from)
    BY <2>2, <1>s DEF StreamInv, SendersOrdered, SendersKnown
  <2>4. bound # Nobody => \A j \in DOMAIN bytes' : Before(bound, bytes'[j].from)
    BY <2>2, <1>s DEF StreamInv, SendersOrdered, SendersKnown
  <2> QED
    BY <2>1, <2>3, <2>4, <1>7, <1>1 DEF StreamInv, SendersOrdered
<1>10. BytesCounted'
  <2>1. /\ got + Len(frag.data) + Len(bytes) = count
        /\ at # "done"
    BY <1>0 DEF StreamInv, BytesCounted, Worker!Listening
  <2>2. got + Len(frag.data) + Len(bytes') = count'
    <3>1. Len(bytes') = Len(bytes) + 1 /\ Len(bytes) \in Nat /\ Len(frag.data) \in Nat
      BY <1>u
    <3>2. got \in Nat /\ count' = count + 1
      BY <1>t, <1>0
    <3>3. \A x, y, z \in Nat : x + y + (z + 1) = (x + y + z) + 1
      OBVIOUS
    <3>4. got + Len(frag.data) + (Len(bytes) + 1) = (got + Len(frag.data) + Len(bytes)) + 1
      BY ONLY <3>1, <3>2, <3>3
    <3>5. got + Len(frag.data) + Len(bytes) = count
      BY <2>1
    <3> QED
      BY ONLY <3>1, <3>2, <3>4, <3>5, Zenon
  <2>3. got' + Len(frag'.data) + Len(bytes') = count' /\ at' # "done"
    BY <2>1, <2>2, <1>1
  <2>4. count' \in Nat
    BY <1>3 DEF StreamType
  <2> QED
    BY ONLY <2>3, <2>4 DEF BytesCounted
<1> QED
  BY <1>3, <1>4, <1>6, <1>9, <1>10 DEF StreamInv

\* A process ends, or is reaped: who was reaped stays so.
LEMMA EndStep ==
  ASSUME StreamInv, NEW p \in Procs, Worker!Exit(p) \/ Worker!Reap(p)
  PROVE  StreamInv'
<1> USE StreamConstants
<1>0. PICK l \in {"zombie", "reaped"} :
        /\ life' = [life EXCEPT ![p] = l]
        /\ life[p] \in {"run", "zombie"}
        /\ UNCHANGED <<pidOf, uidOf, bytes, count, shut>> /\ UNCHANGED Worker!reader
  BY DEF Worker!Exit, Worker!Reap
<1>1. UNCHANGED <<pidOf, uidOf, bytes, count, shut, at, frame, remaining, frag, bound, writers,
                  got, lengths, open>>
  BY <1>0 DEF Worker!reader, Worker!accepted
<1>t. life \in [Procs -> {"none", "run", "zombie", "reaped"}]
  BY DEF StreamInv, StreamType, Worker!TypeOK
<1>2. life' \in [Procs -> {"none", "run", "zombie", "reaped"}]
  BY <1>t, <1>0
<1>3. \A q \in Procs : /\ life'[q] = "none" <=> life[q] = "none"
                       /\ life[q] = "reaped" => life'[q] = "reaped"
                       /\ life'[q] \in {"run", "zombie"} => life[q] \in {"run", "zombie"}
  BY <1>t, <1>0
<1>4. StreamType'
  BY <1>1, <1>2 DEF StreamInv, StreamType, Worker!TypeOK
<1>s. /\ \A i \in DOMAIN bytes : bytes[i].from \in Procs
      /\ frag # Worker!NoFrag => frag.data[1].from \in Procs
      /\ bound \in Procs \cup {Nobody} /\ writers \subseteq Procs
  BY StreamSenders
<1>5. PidsUnique'
  BY <1>1, <1>3 DEF StreamInv, PidsUnique
<1>6. SendersKnown'
  BY <1>1, <1>3, <1>s DEF StreamInv, SendersKnown
<1>7. \A q \in Procs : \A r : Before(q, r) => Before(q, r)'
  BY <1>1, <1>3 DEF Before
<1>8. SendersOrdered'
  BY <1>1, <1>7, <1>s DEF StreamInv, SendersOrdered
<1>9. Worker!OneSender'
  BY <1>1, <1>3, <1>s DEF StreamInv, Worker!OneSender, BoundFirst
<1>10. BoundFirst' /\ FragWanted' /\ BytesCounted' /\ FramesCounted' /\ DescriptorsHeld'
  BY <1>1 DEF StreamInv, BoundFirst, FragWanted, BytesCounted, FramesCounted, DescriptorsHeld,
              Worker!Listening
<1> QED
  BY <1>4, <1>5, <1>6, <1>8, <1>9, <1>10 DEF StreamInv

\* The writers close the connection: nothing else changes.
LEMMA ShutDownStep == ASSUME StreamInv, Worker!ShutDown PROVE StreamInv'
<1>1. UNCHANGED <<life, pidOf, uidOf, bytes, count, at, frame, remaining, frag, bound, writers,
                  got, lengths, open>> /\ shut' \in BOOLEAN
  BY DEF Worker!ShutDown, Worker!reader, Worker!accepted
<1>2. StreamType'
  BY <1>1 DEF StreamInv, StreamType, Worker!TypeOK
<1>3. PidsUnique' /\ SendersKnown' /\ SendersOrdered' /\ BoundFirst' /\ Worker!OneSender'
  BY <1>1 DEF StreamInv, PidsUnique, SendersKnown, SendersOrdered, BoundFirst,
              Worker!OneSender, Before
<1>4. FragWanted' /\ BytesCounted' /\ FramesCounted' /\ DescriptorsHeld'
  BY <1>1 DEF StreamInv, FragWanted, BytesCounted, FramesCounted, DescriptorsHeld,
              Worker!Listening
<1> QED
  BY <1>2, <1>3, <1>4 DEF StreamInv

-----------------------------------------------------------------------------
(* The reader takes a fragment. *)

\* What the pieces of a sequence are that is cut behind its k-th element.
LEMMA CutSequence ==
  ASSUME NEW S, NEW s \in Seq(S), NEW k \in 1 .. Len(s)
  PROVE  /\ SubSeq(s, 1, k) \in Seq(S) /\ Len(SubSeq(s, 1, k)) = k
         /\ SubSeq(s, 1, k)[1] = s[1]
         /\ SubSeq(s, k + 1, Len(s)) \in Seq(S)
         /\ Len(SubSeq(s, k + 1, Len(s))) = Len(s) - k
         /\ \A j \in DOMAIN SubSeq(s, k + 1, Len(s)) :
              /\ j + k \in DOMAIN s /\ j \in Nat /\ j >= 1
              /\ SubSeq(s, k + 1, Len(s))[j] = s[j + k]
<1>1. Len(s) \in Nat /\ k \in Nat /\ k >= 1 /\ k <= Len(s) /\ DOMAIN s = 1 .. Len(s)
  OBVIOUS
<1>2. SubSeq(s, 1, k) = [i \in 1 .. k |-> s[i]]
  BY <1>1
<1>3. SubSeq(s, 1, k) \in Seq(S) /\ Len(SubSeq(s, 1, k)) = k /\ SubSeq(s, 1, k)[1] = s[1]
  BY <1>1, <1>2
<1>4. SubSeq(s, k + 1, Len(s)) \in Seq(S) /\ Len(SubSeq(s, k + 1, Len(s))) = Len(s) - k
  <2>1. SubSeq(s, k + 1, Len(s)) = [i \in 1 .. (Len(s) - k) |-> s[i + k]]
    BY <1>1
  <2>2. \A i \in 1 .. (Len(s) - k) : i + k \in 1 .. Len(s)
    BY <1>1
  <2>3. \A i \in 1 .. (Len(s) - k) : s[i + k] \in S
    BY <2>2
  <2> DEFINE rest == [i \in 1 .. (Len(s) - k) |-> s[i + k]]
  <2>4. rest \in [1 .. (Len(s) - k) -> S] /\ Len(s) - k \in Nat
    BY <2>3, <1>1
  <2>5. rest \in Seq(S) /\ Len(rest) = Len(s) - k
    BY <2>4
  <2> QED
    BY <2>1, <2>5
<1>5. DOMAIN SubSeq(s, k + 1, Len(s)) = 1 .. (Len(s) - k)
  BY <1>4
<1>6. \A j \in 1 .. (Len(s) - k) : j + k \in 1 .. Len(s) /\ j \in Nat /\ j >= 1
  BY <1>1
<1>7. \A j \in 1 .. (Len(s) - k) : SubSeq(s, k + 1, Len(s))[j] = s[j + k]
  BY <1>1
<1> QED
  BY <1>1, <1>3, <1>4, <1>5, <1>6, <1>7

\* recvmsg moves bytes of one sender from the head of the socket to the fragment,
\* and counts the descriptors it installs.
LEMMA ReceiveStep == ASSUME StreamInv, Worker!Receive PROVE StreamInv'
<1> USE StreamConstants
<1>0. /\ Worker!Listening /\ frag = Worker!NoFrag
      /\ UNCHANGED <<life, pidOf, uidOf, count, shut, at, frame, remaining, bound>>
      /\ UNCHANGED Worker!accepted
      /\ open' = open + frag'.rights + (IF frag'.pidfd = "live" THEN 1 ELSE 0)
  BY DEF Worker!Receive, Worker!Reading
<1>1. UNCHANGED <<life, pidOf, uidOf, count, shut, at, frame, remaining, bound, writers, got,
                  lengths>>
  BY <1>0 DEF Worker!accepted
<1>t. /\ count \in Nat /\ got \in Nat /\ open \in Nat /\ remaining \in 1 .. Limit
      /\ Worker!TypeOK
  BY DEF StreamInv, StreamType, Worker!TypeOK
<1>s. /\ \A i \in DOMAIN bytes : bytes[i] \in Worker!Byte /\ bytes[i].from \in Procs
      /\ bound \in Procs \cup {Nobody} /\ bytes \in Seq(Worker!Byte)
  BY StreamSenders
<1>2. PICK k \in 1 .. remaining :
        /\ k <= Len(bytes)
        /\ \E cut \in BOOLEAN, r \in 0 .. bytes[1].rights :
             frag' = [data   |-> SubSeq(bytes, 1, k),
                      pidfd  |-> IF cut THEN "none" ELSE Worker!PidfdOf(bytes[1].from),
                      rights |-> r,
                      flags  |-> cut]
        /\ bytes' = SubSeq(bytes, k + 1, Len(bytes))
  BY DEF Worker!Receive
<1>3. k \in 1 .. Len(bytes) /\ k \in Nat /\ Len(bytes) \in Nat
  BY <1>2, <1>t, <1>s
<1>4. PICK cut \in BOOLEAN, r \in 0 .. bytes[1].rights :
        frag' = [data   |-> SubSeq(bytes, 1, k),
                 pidfd  |-> IF cut THEN "none" ELSE Worker!PidfdOf(bytes[1].from),
                 rights |-> r,
                 flags  |-> cut]
  BY <1>2
<1>5. /\ SubSeq(bytes, 1, k) \in Seq(Worker!Byte) /\ Len(SubSeq(bytes, 1, k)) = k
      /\ SubSeq(bytes, 1, k)[1] = bytes[1]
      /\ bytes' \in Seq(Worker!Byte) /\ Len(bytes') = Len(bytes) - k
      /\ \A j \in DOMAIN bytes' : j + k \in DOMAIN bytes /\ j \in Nat /\ j >= 1
                                  /\ bytes'[j] = bytes[j + k]
  BY ONLY <1>2, <1>3, <1>s, CutSequence
<1>6. 1 \in DOMAIN bytes
  BY <1>3, <1>s
<1>7. r \in Nat
  <2>1. bytes[1] \in Worker!Byte
    BY <1>6, <1>s
  <2>2. bytes[1].rights \in Nat
    BY <2>1 DEF Worker!Byte
  <2> QED
    BY <2>2
<1>8. Worker!PidfdOf(bytes[1].from) \in {"live", "sentinel"}
  BY DEF Worker!PidfdOf
<1>9. /\ frag' \in FragType /\ frag'.data = SubSeq(bytes, 1, k) /\ frag'.rights = r
      /\ frag'.pidfd \in {"none", "live", "sentinel"}
  <2>1. frag'.data = SubSeq(bytes, 1, k) /\ frag'.rights = r
    BY <1>4
  <2>2. (IF cut THEN "none" ELSE Worker!PidfdOf(bytes[1].from)) \in {"none", "live", "sentinel"}
    BY <1>8
  <2>3. frag' \in FragType
    BY <1>4, <1>5, <1>7, <2>2 DEF FragType
  <2> QED
    BY <2>1, <2>3 DEF FragType
<1>10. open' = open + Worker!Owned(frag)'
  BY <1>0, <1>7, <1>9, <1>t DEF Worker!Owned
<1>11. StreamType'
  <2>1. frag'.data \in Seq(Worker!Byte)
    BY <1>9, <1>5
  <2>2. Worker!Owned(frag)' \in Nat
    BY <1>7, <1>9 DEF Worker!Owned
  <2>3. open' \in Nat
    BY <2>2, <1>10, <1>t
  <2> QED
    BY <2>1, <2>3, <1>1, <1>5, <1>9, <1>t DEF StreamType, Worker!TypeOK
<1>12. PidsUnique' /\ BoundFirst' /\ Worker!OneSender'
  BY <1>1 DEF StreamInv, PidsUnique, BoundFirst, Worker!OneSender
<1>13. FragWanted'
  BY <1>0, <1>1, <1>2, <1>5, <1>9, <1>t DEF FragWanted, Worker!Listening
<1>14. frag'.data[1].from = bytes[1].from
  BY <1>9, <1>5
<1>15. SendersKnown'
  <2>1. life[bytes[1].from] # "none"
    BY <1>6 DEF StreamInv, SendersKnown
  <2>2. \A j \in DOMAIN bytes' : life[bytes'[j].from] # "none"
    BY <1>5 DEF StreamInv, SendersKnown
  <2> QED
    BY <2>1, <2>2, <1>1, <1>14 DEF StreamInv, SendersKnown
<1>16. \A q, s : Before(q, s)' <=> Before(q, s)
  BY <1>1 DEF Before
<1>17. SendersOrdered'
  <2>1. ASSUME NEW i \in DOMAIN bytes', NEW j \in DOMAIN bytes', i < j
        PROVE  Before(bytes'[i].from, bytes'[j].from)
    <3>1. i + k \in DOMAIN bytes /\ j + k \in DOMAIN bytes /\ i + k < j + k
      BY <2>1, <1>5, <1>3
    <3> QED
      BY <3>1, <1>5 DEF StreamInv, SendersOrdered
  <2>2. ASSUME NEW j \in DOMAIN bytes' PROVE Before(bytes[1].from, bytes'[j].from)
    <3>1. j + k \in DOMAIN bytes /\ 1 < j + k
      BY <1>5, <1>3
    <3> QED
      BY <3>1, <1>5, <1>6 DEF StreamInv, SendersOrdered
  <2>3. bound # Nobody => \A j \in DOMAIN bytes' : Before(bound, bytes'[j].from)
    BY <1>5 DEF StreamInv, SendersOrdered
  <2>4. bound # Nobody => Before(bound, bytes[1].from)
    BY <1>6 DEF StreamInv, SendersOrdered
  <2> QED
    BY <2>1, <2>2, <2>3, <2>4, <1>1, <1>14, <1>16 DEF SendersOrdered
<1>18. BytesCounted'
  <2>1. got + Len(bytes) = count
    <3>1. got + Len(frag.data) + Len(bytes) = count /\ Len(frag.data) = 0
      BY <1>0, NoFragIsEmpty DEF StreamInv, BytesCounted
    <3> QED
      BY <3>1, <1>t, <1>3
  <2>2. got + Len(frag'.data) + Len(bytes') = count
    <3>1. Len(frag'.data) = k /\ Len(bytes') = Len(bytes) - k
      BY <1>5, <1>9
    <3>2. got + k + (Len(bytes) - k) = got + Len(bytes)
      BY <1>3, <1>t
    <3> QED
      BY ONLY <2>1, <3>1, <3>2, Zenon
  <2>3. got' + Len(frag'.data) + Len(bytes') = count' /\ count' \in Nat
    BY <2>2, <1>1, <1>t
  <2>4. at' # "done"
    BY <1>0 DEF Worker!Listening
  <2> QED
    BY ONLY <2>3, <2>4 DEF BytesCounted
<1>19. FramesCounted'
  BY <1>1 DEF StreamInv, FramesCounted
<1>20. DescriptorsHeld'
  <2>1. open = 0 + (IF bound # Nobody /\ at # "confirmed" THEN 1 ELSE 0)
    BY <1>0, NoFragIsEmpty DEF StreamInv, DescriptorsHeld
  <2>2. Worker!Owned(frag)' \in Nat
    BY <1>7, <1>9 DEF Worker!Owned
  <2> QED
    BY <2>1, <2>2, <1>10, <1>1 DEF DescriptorsHeld
<1> QED
  BY <1>11, <1>12, <1>13, <1>15, <1>17, <1>18, <1>19, <1>20 DEF StreamInv

\* The end of the stream, a deadline and the close of the connection: the reader
\* stops, and keeps what it has bound.
LEMMA StopStep ==
  ASSUME StreamInv, Worker!ReceiveEnd \/ Worker!DeadlineExceeded
  PROVE  StreamInv'
<1> USE StreamConstants
<1>1. /\ UNCHANGED <<life, pidOf, uidOf, bytes, count, shut, frame, remaining, frag, bound,
                     writers, got, lengths, open>>
      /\ Worker!Listening /\ frag = Worker!NoFrag
      /\ \/ at' = "refused"
         \/ at' = "done" /\ at = "eof" /\ bytes = <<>>
  BY DEF Worker!ReceiveEnd, Worker!DeadlineExceeded, Worker!Reading, Worker!kernel,
         Worker!accepted
<1>2. StreamType'
  BY <1>1 DEF StreamInv, StreamType, Worker!TypeOK
<1>3. PidsUnique' /\ SendersKnown' /\ SendersOrdered' /\ BoundFirst' /\ Worker!OneSender'
  BY <1>1 DEF StreamInv, PidsUnique, SendersKnown, SendersOrdered, BoundFirst,
              Worker!OneSender, Before
<1>4. FragWanted' /\ FramesCounted' /\ DescriptorsHeld'
  BY <1>1 DEF StreamInv, FragWanted, FramesCounted, DescriptorsHeld, Worker!Listening
<1>5. BytesCounted'
  <2>1. got + Len(frag.data) + Len(bytes) <= count /\ got + Len(frag.data) + Len(bytes) = count
    BY <1>1 DEF StreamInv, BytesCounted
  <2>2. got' + Len(frag'.data) + Len(bytes') <= count'
        /\ got' + Len(frag'.data) + Len(bytes') = count'
    BY <2>1, <1>1
  <2>3. at' = "done" => bytes' = <<>> /\ frag' = Worker!NoFrag
    BY <1>1
  <2> QED
    BY <2>2, <2>3 DEF BytesCounted, Worker!NoFrag
<1> QED
  BY <1>2, <1>3, <1>4, <1>5 DEF StreamInv

\* The connection is closed with what it holds; a confirmed end closes the pidfd.
LEMMA CloseStep == ASSUME StreamInv, Worker!Close PROVE StreamInv'
<1> USE StreamConstants
<1>1. /\ UNCHANGED <<life, pidOf, uidOf, count, shut, frame, remaining, frag, bound,
                     writers, got, lengths>>
      /\ at \in {"done", "refused"} /\ bytes' = <<>>
      /\ \/ bound # Nobody /\ at' = "confirmed" /\ open' = open - 1
         \/ at' = "pending" /\ open' = open
  BY DEF Worker!Close, Worker!accepted
<1>2. frag = Worker!NoFrag /\ Worker!Owned(frag) = 0 /\ Worker!Owned(frag)' = 0
  <2>1. frag = Worker!NoFrag
    BY <1>1 DEF StreamInv, FragWanted, Worker!Listening
  <2>2. frag' = Worker!NoFrag
    BY <2>1, <1>1
  <2> QED
    BY <2>1, <2>2, NoFragIsEmpty DEF Worker!NoFrag, Worker!Owned
<1>3. open = IF bound # Nobody THEN 1 ELSE 0
  BY <1>1, <1>2 DEF StreamInv, DescriptorsHeld
<1>4. open' = IF bound # Nobody /\ at' # "confirmed" THEN 1 ELSE 0
  BY <1>1, <1>3
<1>5. DescriptorsHeld'
  BY <1>4, <1>2, <1>1 DEF DescriptorsHeld
<1>6. StreamType'
  <2>1. open' \in Nat
    BY <1>4
  <2> QED
    BY <2>1, <1>1 DEF StreamInv, StreamType, Worker!TypeOK
<1>7. PidsUnique' /\ BoundFirst' /\ Worker!OneSender'
  BY <1>1 DEF StreamInv, PidsUnique, BoundFirst, Worker!OneSender
<1>8. SendersKnown' /\ SendersOrdered'
  BY <1>1, <1>2 DEF StreamInv, SendersKnown, SendersOrdered, Before
<1>9. FragWanted' /\ FramesCounted'
  BY <1>1, <1>2 DEF FragWanted, FramesCounted
<1>10. BytesCounted'
  <2>1. got + Len(frag.data) + Len(bytes) <= count /\ Len(frag.data) = 0
    BY <1>2, NoFragIsEmpty DEF StreamInv, BytesCounted
  <2>2. got \in Nat /\ count \in Nat /\ Len(bytes) \in Nat
    BY DEF StreamInv, StreamType, Worker!TypeOK
  <2>3. got <= count
    BY <2>1, <2>2
  <2>4. got' + Len(frag'.data) + Len(bytes') <= count'
    BY <2>1, <2>2, <2>3, <1>1
  <2> QED
    BY <2>4, <1>1 DEF BytesCounted, Worker!Listening
<1> QED
  BY <1>5, <1>6, <1>7, <1>8, <1>9, <1>10 DEF StreamInv

-----------------------------------------------------------------------------
(* The reader judges a fragment. *)

\* Where the reader goes with an accepted fragment: on within a frame, behind a header
\* into a body of the length it gives, behind a body to what follows it, or nowhere.
LEMMA ContinueOutcomes ==
  ASSUME StreamInv, frag # Worker!NoFrag, Worker!Continue(frag)
  PROVE  \/ at' = "refused" /\ remaining' = remaining /\ frame' = frame
         \/ /\ at = "body" /\ at' = "body" /\ frame' = frame
            /\ Len(frag.data) < remaining /\ remaining' = remaining - Len(frag.data)
         \/ /\ at = "header" /\ at' = "body" /\ frame' = frame /\ Len(frag.data) = 1
            /\ frag.data[1].size \in 1 .. Limit /\ remaining' = frag.data[1].size
         \/ /\ at = "body" /\ Len(frag.data) = remaining /\ frame' = 2 /\ remaining' = 1
            /\ at' = IF frame = 1 THEN "header" ELSE "eof"
<1> DEFINE n == Len(frag.data)
<1>1. /\ at \in {"header", "body", "eof"} /\ n \in 1 .. remaining
      /\ at \in {"header", "eof"} => remaining = 1
  BY DEF StreamInv, FragWanted, FramesCounted, Worker!Listening
<1>2. remaining \in Nat
  BY StreamConstants DEF StreamInv, StreamType, Worker!TypeOK
<1>3. n \in Nat /\ n >= 1 /\ n <= remaining
  BY <1>1, <1>2
<1>4. CASE remaining - n > 0
  <2>1. at = "body"
    BY <1>1, <1>3, <1>4
  <2>2. at' = at /\ remaining' = remaining - n /\ frame' = frame
    <3>1. remaining - n # 0
      BY <1>2, <1>3, <1>4
    <3> QED
      BY <1>4, <2>1, <3>1 DEF Worker!Continue
  <2>3. n < remaining
    BY <1>3, <1>2, <1>4
  <2> QED
    BY <2>1, <2>2, <2>3
<1>5. CASE remaining - n = 0 /\ at = "header"
  <2>1. n = 1
    BY <1>1, <1>3, <1>5
  <2>2. \/ Worker!LegalLength(frag.data[1].size) /\ at' = "body"
           /\ remaining' = frag.data[1].size /\ frame' = frame
        \/ at' = "refused" /\ remaining' = remaining /\ frame' = frame
    BY <1>5 DEF Worker!Continue
  <2> QED
    BY <2>1, <2>2, <1>5 DEF Worker!LegalLength
<1>6. CASE remaining - n = 0 /\ at = "body"
  <2>1. n = remaining
    BY <1>2, <1>3, <1>6
  <2>2. \/ at' = "refused" /\ remaining' = remaining /\ frame' = frame
        \/ /\ frame' = 2 /\ remaining' = 1
           /\ at' = IF frame = 1 THEN "header" ELSE "eof"
    BY <1>6 DEF Worker!Continue
  <2> QED
    BY <2>1, <2>2, <1>6
<1>7. CASE remaining - n = 0 /\ at = "eof"
  BY <1>7 DEF Worker!Continue
<1>8. remaining - n > 0 \/ remaining - n = 0
  BY <1>2, <1>3
<1> QED
  BY <1>1, <1>4, <1>5, <1>6, <1>7, <1>8

\* What another header adds to what was announced.
LEMMA AnnouncedMore ==
  ASSUME NEW s \in Seq(0 .. Limit + 1), Len(s) \in 0 .. 1, NEW n \in 0 .. Limit + 1
  PROVE  /\ Append(s, n) \in Seq(0 .. Limit + 1) /\ Len(Append(s, n)) = Len(s) + 1
         /\ Announced(s) \in Nat /\ Announced(Append(s, n)) = Announced(s) + 1 + n
<1> USE StreamConstants
<1>1. /\ Append(s, n) \in Seq(0 .. Limit + 1) /\ Len(Append(s, n)) = Len(s) + 1
      /\ Append(s, n) # <<>>
  OBVIOUS
<1>2. CASE Len(s) = 0
  <2>1. s = <<>>
    BY <1>2
  <2>2. Append(s, n)[1] = n
    BY <1>2
  <2> QED
    BY <1>1, <1>2, <2>1, <2>2 DEF Announced
<1>3. CASE Len(s) = 1
  <2>1. s # <<>> /\ s[1] \in 0 .. Limit + 1
    BY <1>3
  <2>2. Append(s, n)[1] = s[1]
    BY <2>1, <1>3, 1 \in 1 .. Len(s)
  <2>3. Append(s, n)[2] = n
    <3>1. Append(s, n)[Len(s) + 1] = n
      OBVIOUS
    <3>2. Len(s) + 1 = 2
      BY <1>3
    <3> QED
      BY ONLY <3>1, <3>2
  <2> QED
    BY <1>1, <1>3, <2>1, <2>2, <2>3 DEF Announced
<1> QED
  BY <1>2, <1>3

\* accept either refuses the exchange or takes the bytes of the bound process, or of
\* one that has its PID after it; whatever came along is closed, save the first pidfd.
LEMMA AcceptStep == ASSUME StreamInv, Worker!Accept PROVE StreamInv'
<1> USE StreamConstants
<1> DEFINE p == frag.data[1].from
           n == Len(frag.data)
<1>0. /\ frag # Worker!NoFrag /\ frag' = Worker!NoFrag /\ UNCHANGED Worker!kernel
      /\ open' = open - Worker!Owned(frag) + Worker!Kept(frag)
  BY DEF Worker!Accept
<1>1. UNCHANGED <<life, pidOf, uidOf, bytes, count, shut>>
  BY <1>0 DEF Worker!kernel
<1>s. /\ \A i \in DOMAIN bytes : bytes[i].from \in Procs
      /\ p \in Procs /\ frag.data[1] \in Worker!Byte
      /\ bound \in Procs \cup {Nobody} /\ writers \subseteq Procs
      /\ frag \in FragType /\ frag.data \in Seq(Worker!Byte) /\ bytes \in Seq(Worker!Byte)
  BY <1>0, StreamSenders
<1>t. /\ count \in 0 .. MaxBytes /\ got \in Nat /\ remaining \in 1 .. Limit /\ frame \in 1 .. 2
      /\ lengths \in Seq(0 .. Limit + 1) /\ Worker!TypeOK
  BY DEF StreamInv, StreamType, Worker!TypeOK
<1>2. /\ n \in 1 .. remaining /\ at \in {"header", "body", "eof"}
      /\ got + n + Len(bytes) = count
  BY <1>0 DEF StreamInv, FragWanted, BytesCounted, Worker!Listening
<1>3. n \in Nat /\ n >= 1 /\ n <= remaining /\ Len(bytes) \in Nat
  BY <1>2, <1>t, <1>s
<1>4. Worker!NoFrag \in FragType /\ Len(frag'.data) = 0 /\ Worker!Owned(frag)' = 0
      /\ frag'.data \in Seq(Worker!Byte) /\ frag'.pidfd \in {"none", "live", "sentinel"}
  <2>1. Worker!NoFrag \in FragType /\ Len(frag'.data) = 0
    BY <1>0, NoFragIsEmpty
  <2>2. Worker!Owned(frag)' = 0
    BY <1>0 DEF Worker!Owned, Worker!NoFrag
  <2>3. frag'.data \in Seq(Worker!Byte) /\ frag'.pidfd \in {"none", "live", "sentinel"}
    BY <1>0, <2>1 DEF FragType
  <2> QED
    BY <2>1, <2>2, <2>3
<1>5. open = Worker!Owned(frag) + (IF bound # Nobody THEN 1 ELSE 0) /\ Worker!Owned(frag) \in Nat
  <2>1. Worker!Owned(frag) \in Nat
    BY <1>s DEF Worker!Owned, FragType
  <2> QED
    BY <2>1, <1>2 DEF StreamInv, DescriptorsHeld
<1>6. PidsUnique'
  BY <1>1 DEF StreamInv, PidsUnique
<1>7. \A q, r : Before(q, r)' <=> Before(q, r)
  BY <1>1 DEF Before
<1>8. CASE ~Worker!Acceptable(frag)
  <2>1. at' = "refused" /\ UNCHANGED <<bound, writers, got, lengths, frame, remaining>>
    BY <1>8 DEF Worker!Accept, Worker!accepted
  <2>2. open' = IF bound # Nobody THEN 1 ELSE 0
    <3>1. Worker!Kept(frag) = 0
      BY <1>8 DEF Worker!Kept
    <3> QED
      BY <3>1, <1>0, <1>5
  <2>3. StreamType'
    <3>1. open' \in Nat
      BY <2>2
    <3> QED
      BY <3>1, <2>1, <1>0, <1>1, <1>4, <1>t DEF StreamInv, StreamType, Worker!TypeOK
  <2>4. SendersKnown' /\ SendersOrdered' /\ BoundFirst' /\ Worker!OneSender'
    BY <2>1, <1>0, <1>1, <1>7 DEF StreamInv, SendersKnown, SendersOrdered, BoundFirst,
                                  Worker!OneSender
  <2>5. FragWanted' /\ FramesCounted' /\ DescriptorsHeld'
    BY <2>1, <2>2, <1>0, <1>4 DEF FragWanted, FramesCounted, DescriptorsHeld
  <2>6. BytesCounted'
    <3>1. got + 0 + Len(bytes) <= count
      BY <1>2, <1>3, <1>t
    <3>2. got' + Len(frag'.data) + Len(bytes') <= count'
      BY <3>1, <2>1, <1>1, <1>4
    <3> QED
      BY <3>2, <2>1 DEF BytesCounted, Worker!Listening
  <2> QED
    BY <2>3, <2>4, <2>5, <2>6, <1>6 DEF StreamInv
<1>9. CASE Worker!Acceptable(frag)
  <2>1. /\ bound' = IF bound = Nobody THEN p ELSE bound
        /\ writers' = writers \cup {p} /\ got' = got + n
        /\ lengths' = IF at = "header" THEN Append(lengths, frag.data[1].size) ELSE lengths
        /\ Worker!Continue(frag)
    BY <1>9 DEF Worker!Accept
  <2>2. uidOf[p] /\ (bound # Nobody => pidOf[p] = pidOf[bound])
    BY <1>9 DEF Worker!Acceptable, Worker!CredentialsMatch
  <2>3. /\ bound' \in Procs /\ bound' # Nobody /\ life[p] # "none"
        /\ \/ bound' = p
           \/ bound' = bound /\ bound \in Procs /\ pidOf[p] = pidOf[bound] /\ life[bound] = "reaped"
    <3>1. CASE bound = Nobody
      BY <3>1, <2>1, <1>s, <1>0 DEF StreamInv, SendersKnown
    <3>2. CASE bound # Nobody
      <4>1. Before(bound, p) /\ life[p] # "none"
        BY <3>2, <1>0 DEF StreamInv, SendersOrdered, SendersKnown
      <4> QED
        BY <3>2, <4>1, <2>1, <2>2, <1>s DEF Before
    <3> QED
      BY <3>1, <3>2
  <2>4. SendersKnown' /\ BoundFirst'
    BY <2>1, <2>3, <1>0, <1>1 DEF StreamInv, SendersKnown, BoundFirst
  <2>5. SendersOrdered'
    <3>1. \A j \in DOMAIN bytes : Before(bound', bytes[j].from)
      BY <2>1, <1>0 DEF StreamInv, SendersOrdered
    <3> QED
      BY <3>1, <1>0, <1>1, <1>7 DEF StreamInv, SendersOrdered
  <2>6. Worker!OneSender'
    <3>1. \A q \in writers : uidOf[q] /\ bound # Nobody
                             /\ (q = bound \/ (life[bound] = "reaped" /\ pidOf[q] = pidOf[bound]))
      BY DEF StreamInv, Worker!OneSender, BoundFirst
    <3>2. bound # Nobody => bound' = bound
      BY <2>1
    <3>3. \A q \in writers' : uidOf[q]
                  /\ (q = bound' \/ (life[bound'] = "reaped" /\ pidOf[q] = pidOf[bound']))
      BY <3>1, <3>2, <2>1, <2>2, <2>3
    <3> QED
      BY <3>3, <1>1 DEF Worker!OneSender
  <2>7. open' = 1
    <3>1. Worker!Kept(frag) = IF bound = Nobody THEN 1 ELSE 0
      BY <1>9 DEF Worker!Kept
    <3> QED
      BY <3>1, <1>0, <1>5
  <2>8. /\ at' \in {"refused", "body", "header", "eof"}
        /\ remaining' \in 1 .. Limit /\ frame' \in 1 .. 2
    <3>1. \/ at' = "refused" /\ remaining' = remaining /\ frame' = frame
          \/ /\ at' = "body" /\ frame' = frame
             /\ n < remaining /\ remaining' = remaining - n
          \/ /\ at' = "body" /\ frame' = frame
             /\ frag.data[1].size \in 1 .. Limit /\ remaining' = frag.data[1].size
          \/ /\ frame' = 2 /\ remaining' = 1
             /\ at' = IF frame = 1 THEN "header" ELSE "eof"
      BY <2>1, <1>0, ContinueOutcomes
    <3>2. n < remaining => remaining - n \in 1 .. Limit
      BY <1>3, <1>t
    <3>3. 1 \in 1 .. Limit /\ 2 \in 1 .. 2
      OBVIOUS
    <3>4. remaining' \in 1 .. Limit
      BY <3>1, <3>2, <3>3, <1>t
    <3>5. at' \in {"refused", "body", "header", "eof"} /\ frame' \in 1 .. 2
      BY <3>1, <3>3, <1>t
    <3> QED
      BY <3>4, <3>5
  <2>9. DescriptorsHeld' /\ FragWanted'
    BY <2>7, <2>3, <2>8, <1>4, <1>0 DEF DescriptorsHeld, FragWanted
  <2>10. BytesCounted'
    <3>1. got + n + 0 + Len(bytes) = count
      BY <1>2, <1>3, <1>t
    <3>2. got' + Len(frag'.data) + Len(bytes') = count'
      BY <3>1, <2>1, <1>1, <1>4
    <3>3. at' # "done" /\ count' \in Nat
      BY <2>8, <1>1, <1>t
    <3> QED
      BY ONLY <3>2, <3>3 DEF BytesCounted
  <2>11. frag.data[1].size \in 0 .. Limit + 1
    BY <1>s DEF Worker!Byte
  <2>12. at = "header" => /\ lengths' \in Seq(0 .. Limit + 1) /\ Len(lengths') = Len(lengths) + 1
                          /\ Announced(lengths') = Announced(lengths) + 1 + frag.data[1].size
                          /\ Announced(lengths) \in Nat
    <3>1. at = "header" => Len(lengths) \in 0 .. 1
      <4>1. at = "header" => Len(lengths) = frame - 1
        BY DEF StreamInv, FramesCounted
      <4>2. frame = 1 \/ frame = 2
        BY <1>t
      <4> QED
        BY ONLY <4>1, <4>2
    <3>2. at = "header" => lengths' = Append(lengths, frag.data[1].size)
      BY <2>1
    <3> QED
      BY ONLY <3>1, <3>2, <2>11, <1>t, AnnouncedMore
  <2>13. at # "header" => lengths' = lengths
    BY <2>1
  <2>14. StreamType'
    <3>1. lengths' \in Seq(0 .. Limit + 1)
      BY <2>12, <2>13, <1>t
    <3>2. got' \in 0 .. MaxBytes /\ got' \in Nat
      <4>1. got' = got + n
        BY <2>1
      <4> QED
        BY <4>1, <1>2, <1>3, <1>t
    <3>3. bound' \in Procs \cup {Nobody} /\ writers' \subseteq Procs /\ open' \in Nat
      BY <2>1, <2>3, <2>7, <1>s
    <3> QED
      BY <3>1, <3>2, <3>3, <2>8, <1>0, <1>1, <1>4, <1>t
         DEF StreamInv, StreamType, Worker!TypeOK
  <2>15. FramesCounted'
    <3>1. CASE at' = "refused"
      BY <3>1 DEF FramesCounted
    <3>2. CASE /\ at = "body" /\ at' = "body" /\ frame' = frame
               /\ n < remaining /\ remaining' = remaining - n
      <4>1. Len(lengths) = frame /\ got + remaining = Announced(lengths)
        BY <3>2 DEF StreamInv, FramesCounted
      <4>2. got' + remaining' = got + remaining
        <5>1. got' = got + n /\ remaining' = remaining - n
          BY <3>2, <2>1
        <5>2. (got + n) + (remaining - n) = got + remaining
          <6>1. got \in Nat /\ n \in Nat /\ remaining \in Nat
            BY <1>3, <1>t
          <6> HIDE DEF n
          <6> QED
            BY ONLY <6>1
        <5> QED
          BY ONLY <5>1, <5>2, Zenon
      <4> QED
        BY <3>2, <4>1, <4>2, <2>13 DEF FramesCounted
    <3>3. CASE /\ at = "header" /\ at' = "body" /\ frame' = frame /\ n = 1
               /\ frag.data[1].size \in 1 .. Limit /\ remaining' = frag.data[1].size
      <4>1. Len(lengths) = frame - 1 /\ got = Announced(lengths)
        BY <3>3 DEF StreamInv, FramesCounted
      <4>2. Len(lengths') = frame'
        BY <3>3, <4>1, <2>12, <1>t
      <4>3. got' + remaining' = Announced(lengths')
        BY <3>3, <4>1, <2>1, <2>12, <1>t
      <4> QED
        BY <3>3, <4>2, <4>3 DEF FramesCounted
    <3>4. CASE /\ at = "body" /\ n = remaining /\ frame' = 2 /\ remaining' = 1
               /\ at' = IF frame = 1 THEN "header" ELSE "eof"
      <4>1. Len(lengths) = frame /\ got + remaining = Announced(lengths)
        BY <3>4 DEF StreamInv, FramesCounted
      <4>2. got' = Announced(lengths') /\ Len(lengths') = frame
        BY <3>4, <4>1, <2>1, <2>13
      <4> QED
        BY <3>4, <4>2, <1>t DEF FramesCounted
    <3> QED
      BY <3>1, <3>2, <3>3, <3>4, <2>1, <1>0, ContinueOutcomes
  <2> QED
    BY <2>4, <2>5, <2>6, <2>9, <2>10, <2>14, <2>15, <1>6 DEF StreamInv
<1> QED
  BY <1>8, <1>9

-----------------------------------------------------------------------------
(* The theorems about the response stream. *)

\* The invariant of the response stream is inductive: senders, fragments, lengths and
\* descriptors agree at every step of the reader, the writers and the kernel.
THEOREM StreamInductive == Worker!Spec => []StreamInv
<1>1. StreamInv /\ [Worker!Next]_(Worker!vars) => StreamInv'
  <2> SUFFICES ASSUME StreamInv, [Worker!Next]_(Worker!vars) PROVE StreamInv'
    OBVIOUS
  <2>1. CASE UNCHANGED Worker!vars
    <3>1. UNCHANGED workerVars
      BY <2>1 DEF workerVars, Worker!vars, Worker!kernel, Worker!reader, Worker!accepted
    <3>2. StreamType' /\ PidsUnique' /\ SendersKnown' /\ SendersOrdered' /\ BoundFirst'
      BY <3>1 DEF workerVars, StreamInv, StreamType, Worker!TypeOK, PidsUnique, SendersKnown,
                  SendersOrdered, BoundFirst, Before
    <3>3. Worker!OneSender' /\ FragWanted' /\ BytesCounted' /\ FramesCounted' /\ DescriptorsHeld'
      BY <3>1 DEF workerVars, StreamInv, Worker!OneSender, FragWanted, BytesCounted,
                  FramesCounted, DescriptorsHeld, Worker!Listening
    <3> QED
      BY <3>2, <3>3 DEF StreamInv
  <2>2. CASE Worker!Next
    <3>1. CASE \E p \in Procs : Worker!Spawn(p) \/ Worker!SendByte(p) \/ Worker!Exit(p)
                                \/ Worker!Reap(p)
      BY <3>1, SpawnStep, SendByteStep, EndStep
    <3>2. CASE Worker!ShutDown
      BY <3>2, ShutDownStep
    <3>3. CASE Worker!Receive
      BY <3>3, ReceiveStep
    <3>4. CASE Worker!ReceiveEnd \/ Worker!DeadlineExceeded
      BY <3>4, StopStep
    <3>5. CASE Worker!Accept
      BY <3>5, AcceptStep
    <3>6. CASE Worker!Close
      BY <3>6, CloseStep
    <3> QED
      BY <2>2, <3>1, <3>2, <3>3, <3>4, <3>5, <3>6 DEF Worker!Next
  <2> QED
    BY <2>1, <2>2
<1> QED
  BY <1>1, StreamStarts, PTL DEF Worker!Spec

\* What accept, _read_frame and _expect_eof let through is two whole frames of legal
\* length written under the expected UID by the process bound first, or by one that got
\* its PID after it was reaped, and no descriptor that came along stays open.
THEOREM StreamAlwaysAuthentic == Worker!Spec => []StreamAuthentic
<1>1. StreamInv => StreamAuthentic
  <2> SUFFICES ASSUME StreamInv PROVE StreamAuthentic
    OBVIOUS
  <2>1. Worker!TypeOK /\ Worker!OneSender
    BY DEF StreamInv, StreamType
  <2>2. Worker!DescriptorsAccounted
    BY NoFragIsEmpty DEF StreamInv, DescriptorsHeld, Worker!DescriptorsAccounted
  <2>3. Worker!ExactStream
    <3> SUFFICES ASSUME at = "done"
                 PROVE  /\ bytes = <<>> /\ got = count /\ Len(lengths) = 2
                        /\ got = 2 + lengths[1] + lengths[2]
      BY DEF Worker!ExactStream
    <3>1. /\ bytes = <<>> /\ Len(frag.data) = 0 /\ got + Len(frag.data) + Len(bytes) = count
      BY NoFragIsEmpty DEF StreamInv, BytesCounted
    <3>2. got \in Nat /\ Len(bytes) = 0
      BY <3>1 DEF StreamInv, StreamType
    <3>3. Len(lengths) = 2 /\ got = Announced(lengths) /\ lengths # <<>>
      BY DEF StreamInv, FramesCounted
    <3>4. got = count
      BY <3>1, <3>2
    <3> QED
      BY <3>1, <3>3, <3>4 DEF Announced
  <2> QED
    BY <2>1, <2>2, <2>3 DEF StreamAuthentic
<1> QED
  BY <1>1, StreamInductive, PTL
=============================================================================

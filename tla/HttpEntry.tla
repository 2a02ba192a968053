------------------------------ MODULE HttpEntry ------------------------------
(***************************************************************************)
(* The HTTP entrance of geniusnew/http_entry.py: a bounded threading       *)
(* server, one thread per connection, and HttpEntry.handle behind it with  *)
(* a token bucket per subject and a limit on the jobs in flight.           *)
(*                                                                         *)
(* A client's byte stream is a sequence of tokens: the head of a request   *)
(* and, where the client sends one, its body.  Tokens of the bucket are    *)
(* counted in units: a request costs Cost of them, a tick refills Rate.    *)
(***************************************************************************)
EXTENDS Integers, Sequences, FiniteSets

CONSTANTS Clients,       \* the connections that are ever opened
          Subjects,      \* principals of the registry
          None,
          Body,          \* the token of a request body
          Requests,      \* the requests a client may send, see RequestType
          MaxSlots,      \* max_connections
          MaxInFlight,   \* max_in_flight
          Rate, Cost, Burst,
          MaxClock,      \* bound on the readings of the clock
          MaxRequests    \* bound on the requests of one connection

\* framing: a Content-Length in range, a repeated header, or a body this server
\* does not read.  body: bytes follow the head.  known, media, auth, valid: what
\* the checks of handle find.
RequestType ==
    [method : {"POST", "HEAD", "GET"}, framing : {"length", "repeated", "unreadable"},
     body : BOOLEAN, known : BOOLEAN, media : BOOLEAN, auth : Subjects \cup {None},
     valid : BOOLEAN]

\* The bucket of a subject: its tokens and the last reading of the clock.
BucketType == [tokens : 0..Burst, last : 0..MaxClock]

\* The limits are positive, and None and Body are values of their own.
ASSUME HttpAssumption ==
    /\ IsFiniteSet(Clients)
    /\ MaxSlots \in Nat \ {0} /\ MaxInFlight \in Nat \ {0}
    /\ Rate \in Nat \ {0} /\ Cost \in Nat \ {0} /\ Burst \in Nat \ {0}
    /\ MaxClock \in Nat /\ MaxRequests \in Nat
    /\ Requests \subseteq RequestType /\ Body \notin Requests
    /\ None \notin Subjects /\ None \notin Nat
    /\ None \notin BucketType /\ None \notin RequestType

VARIABLES stream,    \* per connection: tokens sent and not read yet
          sent,      \* per connection: requests sent
          pc,        \* per connection: new, parse, body, handle, run, reply, closed
          cur,       \* per connection: the request being served
          closing,   \* per connection: close_connection
          lost,      \* per connection: body bytes were parsed as a request
          skipped,   \* per connection: a HEAD was answered with its body unread
          slots,     \* free connection slots
          flights,   \* free slots of the in-flight semaphore
          bucket,    \* per subject: tokens and the last reading, or None
          clock, spent, first, highest   \* highest, spent, first: what was observed

vars == <<stream, sent, pc, cur, closing, lost, skipped, slots, flights, bucket, clock,
          spent, first, highest>>
bucketVars == <<bucket, spent, first, highest>>
streamVars == <<stream, sent, lost, skipped>>

Init ==
    /\ stream = [c \in Clients |-> <<>>] /\ sent = [c \in Clients |-> 0]
    /\ pc = [c \in Clients |-> "new"] /\ cur = [c \in Clients |-> None]
    /\ closing = [c \in Clients |-> FALSE] /\ lost = [c \in Clients |-> FALSE]
    /\ skipped = [c \in Clients |-> FALSE]
    /\ slots = MaxSlots /\ flights = MaxInFlight
    /\ bucket = [s \in Subjects |-> None] /\ clock = 0
    /\ spent = [s \in Subjects |-> 0] /\ first = [s \in Subjects |-> None]
    /\ highest = [s \in Subjects |-> 0]

SetPc(c, s) == pc' = [pc EXCEPT ![c] = s]

-----------------------------------------------------------------------------
(* The client and the clock.                                               *)

\* A client sends a request whenever it likes, before the last answer too; the
\* body it declares may never come, and nothing after it.
SendRequest(c) ==
    /\ pc[c] # "closed" /\ sent[c] < MaxRequests
    /\ \E r \in Requests :
         \/ /\ stream' = [stream EXCEPT ![c] = @ \o (IF r.body THEN <<r, Body>> ELSE <<r>>)]
            /\ sent' = [sent EXCEPT ![c] = @ + 1]
         \/ /\ r.body
            /\ stream' = [stream EXCEPT ![c] = Append(@, r)]
            /\ sent' = [sent EXCEPT ![c] = MaxRequests]
    /\ UNCHANGED <<pc, cur, closing, lost, skipped, slots, flights, bucketVars, clock>>

\* A reading of the clock may also lie before an earlier one.
Tick ==
    /\ clock' \in 0..MaxClock /\ clock' # clock
    /\ UNCHANGED <<streamVars, pc, cur, closing, slots, flights, bucketVars>>

-----------------------------------------------------------------------------
(* BoundedServer.                                                          *)

\* process_request: without a slot the connection is closed unread; a thread
\* that cannot be started gives its slot back.
Connect(c) ==
    /\ pc[c] = "new"
    /\ \/ slots = 0 /\ SetPc(c, "closed") /\ UNCHANGED slots
       \/ slots > 0 /\ SetPc(c, "parse") /\ slots' = slots - 1
       \/ slots > 0 /\ SetPc(c, "closed") /\ UNCHANGED slots
    /\ UNCHANGED <<streamVars, cur, closing, flights, bucketVars, clock>>

MutantEndThread(c) ==
    /\ SetPc(c, "closed")
    /\ slots' = IF closing[c] THEN slots ELSE slots + 1

\* process_request_thread ends, in whatever way: the slot is released.
EndThread(c) ==
    /\ SetPc(c, "closed")
    /\ slots' = slots + 1

MutantHangup(c) ==
    /\ pc[c] = "parse"
    /\ EndThread(c)
    /\ UNCHANGED <<streamVars, cur, closing, flights, bucketVars, clock>>

\* The client is gone, or the socket timeout of ten seconds has passed.
Hangup(c) ==
    /\ pc[c] \in {"parse", "body"}
    /\ EndThread(c)
    /\ UNCHANGED <<streamVars, cur, closing, flights, bucketVars, clock>>

-----------------------------------------------------------------------------
(* The handler: head, framing, body.                                       *)

\* The rest of a body is read as a request line.  What follows depends on the
\* bytes; the connection is not followed any further.
ParseLeftover(c) ==
    /\ pc[c] = "parse" /\ stream[c] # <<>> /\ Head(stream[c]) = Body
    /\ lost' = [lost EXCEPT ![c] = TRUE]
    /\ EndThread(c)
    /\ UNCHANGED <<stream, sent, skipped, cur, closing, flights, bucketVars, clock>>

\* _check_headers and _read_body refuse, with 400 or 413, before any body is read.
RefusedUnread(r) ==
    \/ r.framing = "repeated"
    \/ r.framing = "unreadable" /\ r.method # "HEAD"

MutantClosesAfter(r) == r.framing = "repeated"

\* Both refusals set close_connection: the bytes of the body are still to come.
ClosesAfter(r) == RefusedUnread(r)

\* The head of the next request is parsed.  do_HEAD hands an empty body on and
\* reads none; the other methods read the declared body first.
ParseHead(c) ==
    /\ pc[c] = "parse" /\ stream[c] # <<>> /\ Head(stream[c]) # Body
    /\ LET r == Head(stream[c]) IN
       /\ cur' = [cur EXCEPT ![c] = r]
       /\ closing' = [closing EXCEPT ![c] = ClosesAfter(r)]
       /\ SetPc(c, IF RefusedUnread(r) THEN "reply"
                   ELSE IF r.body /\ r.method # "HEAD" THEN "body" ELSE "handle")
       /\ skipped' = [skipped EXCEPT ![c] = @ \/ (r.body /\ r.method = "HEAD")]
    /\ stream' = [stream EXCEPT ![c] = Tail(@)]
    /\ UNCHANGED <<sent, lost, slots, flights, bucketVars, clock>>

\* rfile.read(length).
ReadBody(c) ==
    /\ pc[c] = "body" /\ stream[c] # <<>>
    /\ stream' = [stream EXCEPT ![c] = Tail(@)]
    /\ SetPc(c, "handle")
    /\ UNCHANGED <<sent, lost, skipped, cur, closing, slots, flights, bucketVars, clock>>

\* The client closed its side early: read returns what there is, which may still
\* be a whole document or no document.
ReadShortBody(c) ==
    /\ pc[c] = "body" /\ stream[c] = <<>> /\ sent[c] = MaxRequests
    /\ cur' \in {cur, [cur EXCEPT ![c].valid = FALSE]}
    /\ SetPc(c, "handle")
    /\ UNCHANGED <<streamVars, closing, slots, flights, bucketVars, clock>>

-----------------------------------------------------------------------------
(* HttpEntry.handle.                                                       *)

\* Refused before the caller is charged: path, method, media type or key.
RefusedUncharged(r) == ~r.known \/ r.method # "POST" \/ ~r.media \/ r.auth = None

Smaller(a, b) == IF a < b THEN a ELSE b
Larger(a, b) == IF a < b THEN b ELSE a

MutantTokensNow(s) ==
    LET b == bucket[s] IN
    IF b = None THEN Burst
    ELSE Smaller(Burst, b.tokens + Larger(clock - b.last, b.last - clock) * Rate)

\* _Buckets.take: the tokens a subject has at the reading of the clock.
TokensNow(s) ==
    LET b == bucket[s] IN
    IF b = None THEN Burst
    ELSE Smaller(Burst, b.tokens + Larger(0, clock - b.last) * Rate)

Granted(s) == TokensNow(s) >= Cost

LastReading(s) == IF bucket[s] = None THEN clock ELSE Larger(bucket[s].last, clock)

\* take, with what the budget property looks at.
Take(s, granted) ==
    /\ bucket' = [bucket EXCEPT ![s] =
         [tokens |-> IF granted THEN TokensNow(s) - Cost ELSE TokensNow(s),
          last |-> LastReading(s)]]
    /\ spent' = [spent EXCEPT ![s] = IF granted THEN @ + Cost ELSE @]
    /\ first' = [first EXCEPT ![s] = IF @ = None THEN clock ELSE @]
    /\ highest' = [highest EXCEPT ![s] = LastReading(s)]

\* handle up to the call: refused, over budget, malformed, or busy; a request that
\* gets past all of them holds a slot in flight while its callback runs.
Handle(c) ==
    LET r == cur[c] IN
    /\ pc[c] = "handle"
    /\ \/ /\ RefusedUncharged(r) /\ SetPc(c, "reply")
          /\ UNCHANGED <<flights, bucketVars>>
       \/ /\ ~RefusedUncharged(r)
          /\ LET granted == Granted(r.auth) IN
             /\ Take(r.auth, granted)
             /\ IF granted /\ r.valid /\ flights > 0
                THEN SetPc(c, "run") /\ flights' = flights - 1
                ELSE SetPc(c, "reply") /\ UNCHANGED flights
    /\ UNCHANGED <<streamVars, cur, closing, slots, clock>>

\* The callback returned or refused with a ContractError: the slot in flight is
\* released and an answer follows.
Return(c) ==
    /\ pc[c] = "run"
    /\ flights' = flights + 1
    /\ SetPc(c, "reply")
    /\ UNCHANGED <<streamVars, cur, closing, slots, bucketVars, clock>>

MutantRaise(c) ==
    /\ pc[c] = "run"
    /\ EndThread(c)
    /\ UNCHANGED <<streamVars, cur, closing, flights, bucketVars, clock>>

\* Another exception leaves handle after the finally, and ends the thread.
Raise(c) ==
    /\ pc[c] = "run"
    /\ flights' = flights + 1
    /\ EndThread(c)
    /\ UNCHANGED <<streamVars, cur, closing, bucketVars, clock>>

\* _respond; the connection is kept for the next request unless it is closing.
Reply(c) ==
    /\ pc[c] = "reply"
    /\ IF closing[c] THEN EndThread(c) ELSE SetPc(c, "parse") /\ UNCHANGED slots
    /\ cur' = [cur EXCEPT ![c] = None]
    /\ UNCHANGED <<streamVars, closing, flights, bucketVars, clock>>

-----------------------------------------------------------------------------
ThreadStep(c) ==
    \/ ParseLeftover(c) \/ ParseHead(c) \/ ReadBody(c) \/ Handle(c)
    \/ Return(c) \/ Raise(c) \/ Reply(c)

Next ==
    \/ \E c \in Clients : SendRequest(c) \/ Connect(c) \/ Hangup(c)
                           \/ ReadShortBody(c) \/ ThreadStep(c)
    \/ Tick

\* A thread runs on and its socket times out; callbacks end because a worker's
\* wall time is limited.
Fairness == \A c \in Clients : WF_vars(ThreadStep(c)) /\ WF_vars(Hangup(c))

Spec == Init /\ [][Next]_vars /\ Fairness

-----------------------------------------------------------------------------
\* Types of the connections and of the server; a bucket never holds more than the
\* burst, and neither kind of slot goes below zero or above its limit.
TypeOK ==
    /\ stream \in [Clients -> Seq(Requests \cup {Body})]
    /\ sent \in [Clients -> 0..MaxRequests]
    /\ pc \in [Clients -> {"new", "parse", "body", "handle", "run", "reply", "closed"}]
    /\ cur \in [Clients -> RequestType \cup {None}]
    /\ closing \in [Clients -> BOOLEAN] /\ lost \in [Clients -> BOOLEAN]
    /\ skipped \in [Clients -> BOOLEAN]
    /\ slots \in 0..MaxSlots /\ flights \in 0..MaxInFlight
    /\ bucket \in [Subjects -> BucketType \cup {None}] /\ clock \in 0..MaxClock
    /\ spent \in [Subjects -> Nat] /\ highest \in [Subjects -> 0..MaxClock]
    /\ first \in [Subjects -> 0..MaxClock \cup {None}]

\* The connections that have a thread, and those whose callback runs.
Serving == {c \in Clients : pc[c] \notin {"new", "closed"}}
Running == {c \in Clients : pc[c] = "run"}

\* No slot is lost and none is minted on any path of a thread: what is free and
\* what threads hold add up to the configured limit, for the connections and for
\* the jobs in flight, although a callback may raise anything.
SlotsConserved ==
    /\ TypeOK
    /\ slots + Cardinality(Serving) = MaxSlots
    /\ flights + Cardinality(Running) = MaxInFlight

\* Whatever the clock does, backwards included, a subject is never granted more
\* than its burst and what the time between its readings refills.
WithinBudget ==
    \A s \in Subjects : first[s] # None =>
        spent[s] <= Burst + Rate * (highest[s] - first[s])

\* A body is taken for a request only behind a HEAD whose body was not read.
LostOnlyByHead == \A c \in Clients : lost[c] => skipped[c]

\* A connection that got a thread ends, and gives its slot back, once its client
\* sends nothing more.
SlotReturned == \A c \in Clients : (c \in Serving) ~> (pc[c] = "closed")
=============================================================================

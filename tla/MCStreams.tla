------------------------------ MODULE MCStreams ------------------------------
(***************************************************************************)
(* What the service makes of bytes from outside, as four machines that TLC *)
(* explores one at a time: the response stream of a worker, the requests   *)
(* of a kept HTTP connection, the budget of a subject, and connections     *)
(* that compete for slots.  The last three are HttpEntry with parts of its *)
(* constants, so that its invariants are checked on all of them.           *)
(***************************************************************************)
EXTENDS HttpEntry, WorkerStream, TLC

CONSTANTS p1, p2, n1, n2, c1, c2, c3, s1

VARIABLE machine

\* Two processes and two PIDs.
AllProcs == {p1, p2}
AllPids == {n1, n2}

Job == [method |-> "POST", framing |-> "length", body |-> TRUE, known |-> TRUE,
        media |-> TRUE, auth |-> s1, valid |-> TRUE]
Malformed == [Job EXCEPT !.valid = FALSE]
Repeated == [Job EXCEPT !.framing = "repeated"]
Unreadable == [Job EXCEPT !.framing = "unreadable"]
Asked == [Job EXCEPT !.method = "HEAD"]
Unknown == [Job EXCEPT !.auth = None]

\* The values of the constants Clients, Subjects and Requests.
AllClients == {c1, c2, c3}
AllSubjects == {s1}
AllRequests == {Job, Malformed, Repeated, Unreadable, Asked, Unknown}

\* Three requests in a row, with every way to declare a body.
Framing == INSTANCE HttpEntry WITH
  Requests <- {Job, Repeated, Unreadable, Asked, Unknown}, MaxClock <- 0

\* Two connections of one subject, and a clock that jumps both ways.
Budget == INSTANCE HttpEntry WITH Requests <- {Job}

\* Three connections, two slots, one job in flight.
Slots == INSTANCE HttpEntry WITH
  Requests <- {Job, Malformed, Repeated}, MaxClock <- 0, MaxRequests <- 1

\* Only the connections of the set C do anything.
Only(C) == \A c \in Clients \ C : pc'[c] = "new" /\ sent'[c] = 0

StreamsInit ==
  /\ machine \in {"worker", "framing", "budget", "slots"}
  /\ Worker!Init /\ Init

StreamsNext ==
  /\ UNCHANGED machine
  /\ \/ machine = "worker" /\ Worker!Next /\ UNCHANGED vars
     \/ /\ \/ machine = "framing" /\ Framing!Next /\ Only({c1})
           \/ machine = "budget" /\ Budget!Next /\ Only({c1, c2})
           \/ machine = "slots" /\ Slots!Next
        /\ UNCHANGED workerVars

StreamsSpec == StreamsInit /\ [][StreamsNext]_<<machine, workerVars, vars>>

\* Processes are interchangeable, and so are PIDs.
Symmetry == Permutations(AllProcs) \cup Permutations(AllPids)
=============================================================================

---------------------------- MODULE MCAnchorEnds ----------------------------
(***************************************************************************)
(* What an anchor owes those who wait for it, in its two forms: served,    *)
(* under ordinary stops, and as a child of the service without a state     *)
(* file, which may die or hang.  TLC explores one at a time.               *)
(***************************************************************************)
EXTENDS MCAnchor

CONSTANTS Threads, None

VARIABLES form, log2, lines2, torn2, lease2, life, handle, closed, lock, th, child, begun, last

childVars == <<log2, lines2, torn2, lease2, life, handle, closed, lock, th, child, begun, last>>

\* Without a state file the state is lost with the child.
Child == INSTANCE AnchorChild WITH
  Durable <- FALSE, MaxLives <- 1, MaxExchanges <- 3,
  log <- log2, lines <- lines2, torn <- torn2, lease <- lease2

FormsInit == form \in {"served", "child"} /\ Init /\ Child!Init

FormsNext ==
  \/ form = "served" /\ Next /\ UNCHANGED <<form, childVars>>
  \/ form = "child" /\ Child!Next /\ UNCHANGED <<form, vars>>

FormsSpec ==
  FormsInit /\ [][FormsNext]_<<form, vars, childVars>> /\ Fairness /\ Child!Fairness

\* Once the child is lost nothing is told any more, rather than something older.
NoSilentReset == Child!NoSilentReset

\* Every request to the served anchor ends without its deadline, a stop requested
\* inside a connection ends the process, and an exchange with a child ends whatever
\* the child does, except one whose request is too large for the pipe and never read.
AnchorServes == AskingEnds /\ StopHonoured /\ Child!ExchangeEnds
=============================================================================

------------------------------ MODULE Witness -------------------------------
(***************************************************************************)
(* What an audit anchor promises to those who ask it, with no processes,   *)
(* files or connections: one history that only grows, and answers that     *)
(* never say anything but its present end.                                 *)
(***************************************************************************)
EXTENDS Sequences, SequencesExt

CONSTANT Events

VARIABLES
  committed,  \* the history the anchor vouches for
  told        \* every state it has told anybody

Init == committed = <<>> /\ told = {}

\* The history grows; nothing in it changes.
Extend ==
  /\ committed' \in Seq(Events)
  /\ IsStrictPrefix(committed, committed')
  /\ UNCHANGED told

\* Somebody learns where the history ends.
Tell == told' = told \cup {committed} /\ UNCHANGED committed

Next == Extend \/ Tell

Spec == Init /\ [][Next]_<<committed, told>>
=============================================================================

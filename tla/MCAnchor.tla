------------------------------ MODULE MCAnchor ------------------------------
(***************************************************************************)
(* Instances of Anchor for TLC.                                            *)
(***************************************************************************)
EXTENDS Anchor, TLC

\* Events are interchangeable, and so are the processes that may be started.
EventSymmetry == Permutations(Events)
ProcessSymmetry == EventSymmetry \cup Permutations(Servers)
=============================================================================

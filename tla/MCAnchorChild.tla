--------------------------- MODULE MCAnchorChild ---------------------------
(***************************************************************************)
(* The two files of an anchor, which TLC explores one at a time.           *)
(***************************************************************************)
EXTENDS AnchorFiles, TLC

VARIABLE kept

FilesInit == kept \in {"state", "key"} /\ Init /\ ReplyKey!Init

FilesNext ==
  \/ kept = "state" /\ Next /\ UNCHANGED <<kept, keyVars>>
  \/ kept = "key" /\ ReplyKey!Next /\ UNCHANGED <<kept, vars>>

FilesSpec == FilesInit /\ [][FilesNext]_<<kept, vars, keyVars>>

\* Threads are interchangeable, and so are events.
FilesSymmetry == Permutations(Threads) \cup Permutations(Events)
=============================================================================

---------------------------- MODULE AnchorFiles -----------------------------
(***************************************************************************)
(* The two things an anchor keeps in files: its state, here as a child of  *)
(* the service over restarts of both, and its reply key.  They do not      *)
(* touch each other.                                                       *)
(***************************************************************************)
EXTENDS AnchorChild

CONSTANTS Servers, Askers, Keys, Nothing

VARIABLES keyFile, keyPc, key, learnt

keyVars == <<keyFile, keyPc, key, learnt>>

\* Starts of the server and runs of the operator's public-key command.
ReplyKey == INSTANCE AnchorKey WITH file <- keyFile, pc <- keyPc

\* What a key file holds before it is filled is not a key.
ASSUME KeyFileAssumption == ReplyKey!KeyAssumption

\* Everybody who has learnt the anchor's key has learnt the same one, and it is the
\* one the next start will use, whatever starts, races and ends come about.
OneIdentity == ReplyKey!TypeOK /\ ReplyKey!OneIdentity
=============================================================================

----------------------------- MODULE AnchorKey -----------------------------
(***************************************************************************)
(* The anchor's reply key (geniusnew/anchor_process.py, _reply_key): the   *)
(* file is created by whoever comes first, `serve' or an operator's        *)
(* `public-key', and read by everybody else.  The leases of the state file *)
(* keep two servers apart but not a server and `public-key', and a process *)
(* may end between creating the file and filling it.                       *)
(***************************************************************************)
EXTENDS Naturals, FiniteSets

CONSTANTS
  Servers,   \* starts of `serve'
  Askers,    \* runs of `public-key'
  Keys,      \* the keys that could be generated
  Nothing    \* no key

KeyAssumption ==
  /\ Nothing \notin Keys /\ Servers \cap Askers = {}
  /\ "absent" \notin Keys /\ "partial" \notin Keys

Procs == Servers \cup Askers

VARIABLES
  file,    \* "absent", "partial", or the key it holds
  pc,      \* where each process is
  key,     \* the key it generated or read
  learnt   \* every key a process answered with or printed

vars == <<file, pc, key, learnt>>

Init ==
  /\ file = "absent"
  /\ pc = [p \in Procs |-> "start"]
  /\ key = [p \in Procs |-> Nothing]
  /\ learnt = {}

\* _state_lock: the servers come one after the other.
Alone(p) ==
  p \in Servers => \A q \in Servers \ {p} : pc[q] \in {"start", "refused", "dead"}

\* Without O_EXCL: an existing file is truncated and filled again.
MutantCreates(p) == pc[p] = "start"

\* os.open with O_CREAT | O_EXCL succeeds for one process only.
Creates(p) == pc[p] = "start" /\ file = "absent"

\* The file is there, and empty, before there is a key.
Create(p) ==
  /\ Creates(p) /\ Alone(p)
  /\ file' = "partial"
  /\ pc' = [pc EXCEPT ![p] = "created"]
  /\ UNCHANGED <<key, learnt>>

\* The key is generated while the file is still empty.
Generate(p) ==
  /\ pc[p] = "created"
  /\ \E k \in Keys : key' = [key EXCEPT ![p] = k]
  /\ pc' = [pc EXCEPT ![p] = "generated"]
  /\ UNCHANGED <<file, learnt>>

\* _write_all and fsync; only then does the caller have the key.
Fill(p) ==
  /\ pc[p] = "generated"
  /\ file' = key[p]
  /\ pc' = [pc EXCEPT ![p] = "keyed"]
  /\ UNCHANGED <<key, learnt>>

\* The disk is full: the exception leaves what was written.
FillFails(p) ==
  /\ pc[p] = "generated"
  /\ pc' = [pc EXCEPT ![p] = "refused"]
  /\ UNCHANGED <<file, key, learnt>>

\* The file that was not created was there: it is opened for reading.
Exists(p) ==
  /\ pc[p] = "start" /\ Alone(p) /\ ~Creates(p)
  /\ pc' = [pc EXCEPT ![p] = "reading"]
  /\ UNCHANGED <<file, key, learnt>>

\* Anything but 32 bytes is refused.
Read(p) ==
  /\ pc[p] = "reading"
  /\ IF file \in Keys
     THEN /\ key' = [key EXCEPT ![p] = file]
          /\ pc' = [pc EXCEPT ![p] = "keyed"]
     ELSE /\ pc' = [pc EXCEPT ![p] = "refused"]
          /\ UNCHANGED key
  /\ UNCHANGED <<file, learnt>>

\* `serve' signs its first answer, `public-key' prints.
Use(p) ==
  /\ pc[p] = "keyed"
  /\ learnt' = learnt \cup {key[p]}
  /\ pc' = [pc EXCEPT ![p] = "used"]
  /\ UNCHANGED <<file, key>>

\* The process ends wherever it is.
Die(p) ==
  /\ pc[p] \notin {"start", "refused", "dead"}
  /\ pc' = [pc EXCEPT ![p] = "dead"]
  /\ UNCHANGED <<file, key, learnt>>

Next ==
  \E p \in Procs :
    \/ Create(p) \/ Generate(p) \/ Fill(p) \/ FillFails(p)
    \/ Exists(p) \/ Read(p) \/ Use(p) \/ Die(p)

Spec == Init /\ [][Next]_vars

-----------------------------------------------------------------------------
(* Properties *)

\* Types of the key file and of the processes that create or read it.
TypeOK ==
  /\ file \in {"absent", "partial"} \cup Keys
  /\ pc \in [Procs -> {"start", "created", "generated", "reading", "keyed",
                    "used", "refused", "dead"}]
  /\ key \in [Procs -> Keys \cup {Nothing}]
  /\ learnt \subseteq Keys

\* The anchor's identity is made once: whatever starts, races and ends come
\* about, everybody who has learnt a key has learnt the same one, and it is
\* the one the next start will use.
OneIdentity == learnt \subseteq {file}
=============================================================================

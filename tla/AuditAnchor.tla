---------------------------- MODULE AuditAnchor ----------------------------
(***************************************************************************)
(* The anchor itself (geniusnew/audit_chain.py, class AuditAnchor): which  *)
(* commits move it, whatever process it lives in.                          *)
(*                                                                         *)
(* A record hash covers the record and everything before it, so a head is  *)
(* the sequence of events it ends: the hash at position n is the prefix of *)
(* length n.  Heads verify: each was signed over a state of log, which a   *)
(* restored backup may set back, so that rival heads of one length exist.  *)
(***************************************************************************)
EXTENDS Naturals, Sequences

CONSTANTS
  Events,    \* audit events
  MaxDelta   \* audit_chain._MAX_DELTA_RECORDS

ASSUME DeltaAssumption == MaxDelta \in Nat

Heads == Seq(Events)

\* The hash of the record at position n.
HashAt(chain, n) == SubSeq(chain, 1, n)

\* A longer chain is not yet a continued one.
MutantCommits(mem, head) ==
  /\ Len(head) >= Len(mem)
  /\ Len(head) = Len(mem) => head = mem

\* AuditAnchor.commit: neither shorter, nor different at the same length, nor
\* longer without containing what is committed.
Commits(mem, head) ==
  /\ Len(head) >= Len(mem)
  /\ Len(head) = Len(mem) => head = mem
  /\ Len(mem) > 0 /\ Len(head) > Len(mem) => HashAt(head, Len(mem)) = mem

\* AuditAnchor.commit_delta: the extension starts where the anchor is, holds
\* what the head adds and links to the committed hash.
CommitsDelta(mem, head, from) ==
  /\ from = Len(mem)
  /\ Len(head) >= Len(mem)
  /\ Len(head) - Len(mem) <= MaxDelta
  /\ HashAt(head, Len(mem)) = mem

Accepts(mem, r) ==
  \/ r.kind = "committed"
  \/ r.kind = "commit" /\ Commits(mem, r.head)
  \/ r.kind = "commit2" /\ CommitsDelta(mem, r.head, r.from_count)

\* The anchor's state after r.
Moved(mem, r) == IF r.kind # "committed" /\ Accepts(mem, r) THEN r.head ELSE mem
=============================================================================

---------------------------- MODULE WorkerStream ----------------------------
(***************************************************************************)
(* The response stream of one worker instance (FrameIdentity) under names  *)
(* of its own, so that the run and the theorems that also speak of the     *)
(* HTTP entrance share its constants, its state and its property.          *)
(***************************************************************************)
EXTENDS Naturals, Sequences

CONSTANTS Procs, Pids, Nobody, Limit, MaxBytes, MaxQueued, MaxRights

VARIABLES life, pidOf, uidOf, bytes, count, shut, at, frame, remaining, frag, bound, writers,
          got, lengths, open

workerVars == <<life, pidOf, uidOf, bytes, count, shut, at, frame, remaining, frag, bound,
                writers, got, lengths, open>>

Worker == INSTANCE FrameIdentity WITH None <- Nobody, stream <- bytes, sent <- count

ASSUME WorkerStreamAssumption == Worker!FrameAssumption

\* What is accepted from a worker is two whole frames of legal length and nothing
\* else, every byte written under the expected UID by the process bound first, and
\* every descriptor that came along is closed or the one pidfd kept.
StreamAuthentic ==
  Worker!TypeOK /\ Worker!OneSender /\ Worker!ExactStream /\ Worker!DescriptorsAccounted
=============================================================================

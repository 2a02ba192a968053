--------------------------- MODULE MCAnchorFaults ---------------------------
(***************************************************************************)
(* The served anchor under faults, on two hosts that have nothing to do    *)
(* with each other and are explored one at a time: on the first processes  *)
(* are killed and disks fail; on the second power is lost as well, and two *)
(* processes are started on one state file.                                *)
(***************************************************************************)
EXTENDS MCAnchor

CONSTANTS p1, p2   \* the processes of the second host

VARIABLES host, log2, lines2, synced2, torn2, lease2, sock2, queue2, srv2, waiting2, told2

vars2 == <<log2, lines2, synced2, torn2, lease2, sock2, queue2, srv2, waiting2, told2>>

Power == INSTANCE Anchor WITH
  Servers <- {p1, p2}, Faults <- Faults \cup {"power"}, MaxCount <- 1,
  log <- log2, lines <- lines2, synced <- synced2, torn <- torn2, lease <- lease2,
  sock <- sock2, queue <- queue2, srv <- srv2, waiting <- waiting2, told <- told2

HostsInit == host \in {"killed", "unpowered"} /\ Init /\ Power!Init

HostsNext ==
  \/ host = "killed" /\ Next /\ UNCHANGED <<host, vars2>>
  \/ host = "unpowered" /\ Power!Next /\ UNCHANGED <<host, vars>>

HostsSpec == HostsInit /\ [][HostsNext]_<<host, vars, vars2>>

\* Events are interchangeable, and so are the processes of the second host.
HostsSymmetry == EventSymmetry \cup Permutations({p1, p2})

\* Through losses of power and two processes that compete for one state file, the
\* memory of the one that holds the lease follows the file, and the file is one
\* rising history.
PowerInv == Power!AnchorInv
=============================================================================

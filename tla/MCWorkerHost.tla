---------------------------- MODULE MCWorkerHost ----------------------------
(***************************************************************************)
(* What a Core relies on at a worker host, as three machines that TLC      *)
(* explores one at a time, each while the others rest: the Cores that      *)
(* share the host, the walk over an installed path, and the seccomp        *)
(* program of a worker.                                                    *)
(***************************************************************************)
EXTENDS MCWorkerService

VARIABLES
  machine,
  \* the walk
  entries, owned, target, mode, path, step, stack, listed, walked, regular, current, parts, links,
  \* the filter
  call, ip, acc, verdict

walkVars == <<entries, owned, target, mode, path, step, stack, listed, walked, regular, current,
              parts, links>>
filterVars == <<call, ip, acc, verdict>>

\* Paths of one name, of two, and one that leads back up; a link that says any of
\* these, from where it is or from the root.
Walk == INSTANCE RootControl WITH
  Names <- {"a", "b"}, MaxLinks <- 4,
  Paths <- {<<"a">>, <<"a", "b">>, <<"a", "..", "b">>},
  Targets <- [abs : BOOLEAN,
              parts : {<<>>, <<"a">>, <<"b">>, <<"..">>, <<"a", "b">>, <<"..", "b">>}],
  at <- step, seen <- listed, pending <- parts

\* Every call number the tables know and both edges of the x32 range; first
\* arguments at and around the constants the program compares with.
Filter == INSTANCE SeccompFilter WITH
  Arches <- {62, 3},
  Numbers <- (0..460) \cup {1073741823, 1073741824, 1073741883},
  FirstArgs <- {0, 15, 16, 17, 65535, 65536, 65553, 131072},
  pc <- ip

ASSUME Walk!LinksAssumption /\ Filter!FilterAssumption

WalkRests ==
  /\ entries = {} /\ owned = {} /\ target = {} /\ mode = {} /\ path = {} /\ step = "start"
  /\ stack = {} /\ listed = {} /\ walked = {} /\ regular = FALSE /\ current = {}
  /\ parts = {} /\ links = 0
FilterRests == call = {} /\ ip = 1 /\ acc = 0 /\ verdict = "none"

HostInit ==
  /\ machine \in {"cores", "walk", "filter"}
  /\ Init /\ (machine # "cores" => leaseIno = i1)
  /\ IF machine = "walk" THEN Walk!Init ELSE WalkRests
  /\ IF machine = "filter" THEN Filter!Init ELSE FilterRests

HostNext ==
  \/ /\ machine = "cores" /\ Next
     /\ UNCHANGED <<machine, walkVars, filterVars>>
  \/ /\ machine = "walk" /\ Walk!Next
     /\ UNCHANGED <<machine, vars, filterVars>>
  \/ /\ machine = "filter" /\ Filter!Next
     /\ UNCHANGED <<machine, vars, walkVars>>

HostSpec == HostInit /\ [][HostNext]_<<machine, vars, walkVars, filterVars>>

\* An approval outlives whatever users other than root can do to the path, and the
\* walk refuses nothing that is under the control of root all the way.
WalkSound == machine = "walk" => Walk!TypeOK /\ Walk!ApprovalHolds /\ Walk!RefusalJustified

\* Control stays inside the seccomp program, which returns for every call what its
\* description says.
FilterVerdict == machine = "filter" => Filter!TypeOK /\ Filter!FilterVerdict
=============================================================================

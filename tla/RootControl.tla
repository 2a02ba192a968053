---------------------------- MODULE RootControl ----------------------------
(***************************************************************************)
(* The walk by which the Core satisfies itself that an installed path is   *)
(* root controlled (worker_service.py: _root_controlled,                   *)
(* _check_runtime_tree, _check_optional_runtime_path), on every small file *)
(* system, and what the approval is worth afterwards, when users other     *)
(* than root go on changing what they may change.                          *)
(*                                                                         *)
(* The file system has the root directory, a directory d, a file f and a   *)
(* symbolic link l, under any of two names each, and a file nobody has     *)
(* approved.  "owned" says of a node that root owns it and, unless it is a *)
(* link, that neither group nor others may write it.                       *)
(***************************************************************************)
EXTENDS Naturals, Sequences, SequencesExt

CONSTANTS Names,      \* names of directory entries
          Paths,      \* the paths to be judged
          Targets,    \* what the link may say: [abs, parts]
          MaxLinks    \* the link limit, the code's and the kernel's

LinksAssumption == MaxLinks \in Nat

Nodes == {"root", "d", "f", "l", "planted"}
Absent == "absent"

VARIABLES entries,  \* entries of the two directories
          owned,    \* root-controlled nodes
          target,   \* what l says
          mode,     \* which of the three checks runs
          path,     \* its argument
          at,       \* where it is
          stack,    \* _check_runtime_tree: paths still to be visited
          seen,     \* directories it has listed
          walked,   \* the path _root_controlled is judging
          regular,  \* whether it must end in a file
          current, pending, links   \* its three variables

filesystem == <<entries, owned, target>>
walk == <<walked, regular, current, pending, links>>
vars == <<filesystem, mode, path, at, stack, seen, walk>>

Dir(n) == n \in {"root", "d"}
File(n) == n \in {"f", "planted"}

\* Only the root directory holds d, under one name.
Init ==
    /\ entries \in [{"root", "d"} -> [Names -> {Absent, "d", "f", "l"}]]
    /\ \A n \in Names : entries["d"][n] # "d"
    /\ \A n, o \in Names : entries["root"][n] = "d" /\ entries["root"][o] = "d" => n = o
    /\ owned \in {o \cup {"root"} : o \in SUBSET {"d", "f", "l"}}
                 \cup {{"d", "f", "l"}}
    /\ target \in Targets
    /\ mode \in {"path", "tree", "optional"} /\ path \in Paths
    /\ at = "start" /\ stack = <<>> /\ seen = {}
    /\ walked = <<>> /\ regular = FALSE
    /\ current = "root" /\ pending = <<>> /\ links = 0

---------------------------------------------------------------------------
(* What the kernel does with a path. *)

\* One component looked up in directory n.
Lookup(n, part) ==
    CASE part = "."  -> n
      [] part = ".." -> "root"
      [] part \in Names -> entries[n][part]

NoWay == [node |-> Absent, over |-> {}]

\* The walk from directory n along parts: where it ends, and every node it
\* passes.  A link is replaced by what it says, MaxLinks times at most.
RECURSIVE Namei(_, _, _, _)
Namei(n, parts, used, over) ==
    IF parts = <<>> THEN [node |-> n, over |-> over \cup {n}]
    ELSE LET next == IF Dir(n) THEN Lookup(n, Head(parts)) ELSE Absent
             rest == Tail(parts)
         IN CASE next = Absent -> NoWay
              [] next = "l" -> IF used = MaxLinks THEN NoWay
                               ELSE Namei(IF target.abs THEN "root" ELSE n,
                                          target.parts \o rest, used + 1,
                                          over \cup {n, "l"})
              [] OTHER -> Namei(next, rest, used, over \cup {n})

Stat(p) == Namei("root", p, 0, {})

\* lstat: the last component is not followed.
Lstat(p) ==
    IF p = <<>> THEN "root"
    ELSE LET up == Stat(Front(p)).node IN
         IF Dir(up) THEN Lookup(up, Last(p)) ELSE Absent

---------------------------------------------------------------------------
(* _root_controlled *)

Judge(p, file) ==
    /\ walked' = p /\ regular' = file
    /\ current' = "root" /\ pending' = <<".">> \o p /\ links' = 0
    /\ at' = "walk"

\* The owner of a link is not looked at.
MutantTrusted(n, final) ==
    /\ n = "l" \/ n \in owned
    /\ n = "l" \/ (IF final /\ regular THEN File(n) ELSE Dir(n))

\* The conditions on one component; a link's permission bits say nothing,
\* its owner does.
Trusted(n, final) ==
    /\ n \in owned
    /\ n = "l" \/ (IF final /\ regular THEN File(n) ELSE Dir(n))

\* An absolute link starts again at the root directory, which is looked at
\* again; a relative one goes on from where the link is.
Followed(n) ==
    IF target.abs THEN [current |-> "root", parts |-> <<".">> \o target.parts]
    ELSE [current |-> n,
          parts |-> IF target.parts = <<>> THEN <<".">> ELSE target.parts]

\* One link more than the limit.
TooManyLinks == links = MaxLinks

\* One round of the loop.
Walk ==
    /\ at = "walk" /\ pending # <<>>
    /\ LET rest == Tail(pending)
           next == Lookup(current, Head(pending))
       IN IF next = Absent \/ ~Trusted(next, rest = <<>>)
          THEN at' = "refused" /\ UNCHANGED walk
          ELSE IF next # "l"
          THEN /\ current' = next /\ pending' = rest
               /\ UNCHANGED <<at, walked, regular, links>>
          ELSE IF TooManyLinks
          THEN at' = "refused" /\ UNCHANGED walk
          ELSE /\ current' = Followed(current).current
               /\ pending' = Followed(current).parts \o rest
               /\ links' = links + 1
               /\ UNCHANGED <<at, walked, regular>>
    /\ UNCHANGED <<filesystem, mode, path, stack, seen>>

---------------------------------------------------------------------------
(* Its callers *)

CheckPath ==
    /\ at = "start" /\ mode = "path"
    /\ \E file \in BOOLEAN : Judge(path, file)
    /\ UNCHANGED <<filesystem, mode, path, stack, seen>>

\* _check_runtime_tree starts with one path to visit.
CheckTree ==
    /\ at = "start" /\ mode = "tree"
    /\ stack' = <<path>> /\ at' = "visit"
    /\ UNCHANGED <<filesystem, mode, path, seen, walk>>

\* The nearest parent that exists.
RECURSIVE Nearest(_)
Nearest(p) == IF Lstat(p) # Absent THEN p ELSE Nearest(Front(p))

\* _check_optional_runtime_path: a tree if it is there, or else the parent
\* that would let it appear.
CheckOptional ==
    /\ at = "start" /\ mode = "optional"
    /\ IF Lstat(path) = Absent
       THEN Judge(Nearest(path), FALSE) /\ UNCHANGED stack
       ELSE stack' = <<path>> /\ at' = "visit" /\ UNCHANGED walk
    /\ UNCHANGED <<filesystem, mode, path, seen>>

\* The tree's loop: the next path is what stat says it is, and is judged.
Visit ==
    /\ at = "visit" /\ stack # <<>>
    /\ LET n == Stat(Last(stack)).node IN
       IF n = Absent
       THEN at' = "refused" /\ UNCHANGED walk
       ELSE Judge(Last(stack), ~Dir(n))
    /\ UNCHANGED <<filesystem, mode, path, stack, seen>>

\* Every alias of a directory is listed again.
MutantUnlisted(n) == TRUE

\* A directory is listed once, under whatever name it comes first.
Unlisted(n) == n \notin seen

\* One path has passed: a tree goes on with what the directory holds.
Walked ==
    /\ at = "walk" /\ pending = <<>>
    /\ IF stack = <<>>
       THEN at' = "accepted" /\ UNCHANGED <<stack, seen>>
       ELSE LET n == Stat(walked).node
                held == {m \in Names : entries[n][m] # Absent}
            IN /\ at' = "visit"
               /\ IF Dir(n) /\ Unlisted(n)
                  THEN /\ seen' = seen \cup {n}
                       /\ stack' = Front(stack) \o
                                   [i \in 1 .. Len(SetToSeq(held)) |->
                                      Append(walked, SetToSeq(held)[i])]
                  ELSE stack' = Front(stack) /\ UNCHANGED seen
    /\ UNCHANGED <<filesystem, mode, path, walk>>

TreeDone ==
    /\ at = "visit" /\ stack = <<>>
    /\ at' = "accepted"
    /\ UNCHANGED <<filesystem, mode, path, stack, seen, walk>>

\* Somebody who is not root changes an entry of a directory that lets him.
Tamper ==
    /\ at \in {"accepted", "tampered"}
    /\ \E dir \in {"root", "d"} \ owned, n \in Names, x \in {Absent, "l", "planted"} :
         entries' = [entries EXCEPT ![dir][n] = x]
    /\ at' = "tampered"
    /\ UNCHANGED <<owned, target, mode, path, stack, seen, walk>>

Next ==
    \/ Walk \/ CheckPath \/ CheckTree \/ CheckOptional
    \/ Visit \/ Walked \/ TreeDone \/ Tamper

Spec == Init /\ [][Next]_vars

---------------------------------------------------------------------------
(* What the answers should mean, by what the kernel would do *)

Approved == at \in {"accepted", "tampered"}

\* Everything the kernel passes on its way is root controlled.
Sound(s) == s.node # Absent /\ s.over \subseteq owned

\* What an entry of a directory leads to.
Leads(dir, n) == Namei(dir, <<n>>, 0, {})

Held(dir) == {n \in Names : entries[dir][n] # Absent}

\* The directories found by listing n, and those found there.
Below(n) ==
    LET step(S) == S \cup {Leads(dir, m).node : dir \in S, m \in Names}
    IN {x \in step(step({n})) : Dir(x)}

SoundTree(p) ==
    /\ Sound(Stat(p))
    /\ Dir(Stat(p).node) =>
         \A dir \in Below(Stat(p).node) : \A n \in Held(dir) : Sound(Leads(dir, n))

\* The optional path was not there, and its parent was judged instead.
WasAbsent == mode = "optional" /\ seen = {} /\ walked # path

---------------------------------------------------------------------------
(* Properties *)

\* Types of the file system and of the walk; the walk resolves the next name only
\* in a directory, and never follows more links than the limit.
TypeOK ==
    /\ entries \in [{"root", "d"} -> [Names -> Nodes \cup {Absent}]]
    /\ owned \subseteq Nodes
    /\ at \in {"start", "walk", "visit", "accepted", "refused", "tampered"}
    /\ seen \subseteq {"root", "d"}
    /\ regular \in BOOLEAN
    /\ current \in {"root", "d", "f"} /\ links \in 0 .. MaxLinks
    /\ at = "walk" /\ pending # <<>> => Dir(current)

\* An approval outlives whatever users other than root can do: the path, and
\* for a tree everything below it through every alias, still leads over
\* root-controlled nodes only, and a path that was absent has not appeared.
ApprovalHolds ==
    Approved =>
        CASE mode = "path" -> Sound(Stat(path))
          [] WasAbsent     -> Lstat(path) = Absent
          [] OTHER         -> SoundTree(path)

\* The check refuses nothing but what is unsound: a link that leads back to
\* where the walk came from, or to a directory already listed, is no reason.
RefusalJustified ==
    at = "refused" =>
        CASE mode = "path" -> \/ ~Sound(Stat(path))
                              \/ Dir(Stat(path).node) = regular
          [] mode = "optional" /\ Lstat(path) = Absent ->
                              \/ ~Sound(Stat(Nearest(path)))
                              \/ ~Dir(Stat(Nearest(path)).node)
          [] OTHER         -> ~SoundTree(path)
=============================================================================

------------------------------- MODULE MCScope -------------------------------
(* Instances of Scope for TLC: keys, configurations and first states.        *)
EXTENDS Scope

V1 == <<"vars", 1>>
V2 == <<"vars", 2>>
S1 == <<"secrets", 1>>
D1 == <<"dependabot", 1>>

\* One name of every kind; two variables and a secret; all of them.
KindKeys  == {V1, S1, D1}
ThreeKeys == {V1, V2, S1}
FourKeys == {V1, V2, S1, D1}

NoNames == {}
NoneKnown == [r \in {} |-> None]

\* A dry run may be followed by the enforce it announces, that by an audit.
Review == [cmd \in Commands |-> CASE cmd = "dry-run" -> {"enforce"}
                                  [] cmd = "enforce" -> {"audit"}
                                  [] OTHER -> {}]
NoFollowups == [cmd \in Commands |-> {}]

RepoEntry(v) == [val |-> v, vis |-> "repo", repos |-> {}]
RepoCell(v)  == [val |-> v, vis |-> "repo", ids |-> {}]

Roles == {"absent", "managed", "ignored"}

NoRole == [k \in Keys |-> "absent"]

\* The block in which every key has the given role; managed ones from v.
BlockOf(role, v) ==
  [managed |-> [k \in Keys |-> IF role[k] = "managed" THEN RepoEntry(v) ELSE None],
   ignored |-> {k \in Keys : role[k] = "ignored"}]

RepoConfig(all, per) == [org |-> None, all |-> all, per |-> [r \in Repos |-> per]]

\* Live cells with which every comparison comes out either way.
LiveCells(k) == {None, RepoCell("stale")} \cup (IF Kind(k) = "vars" THEN {RepoCell("own")} ELSE {})

RepoWorlds ==
  {w \in [Keys -> UNION {LiveCells(k) : k \in Keys}] : \A k \in Keys : w[k] \in LiveCells(k)}

WorldOf(world) == [t \in Targets |-> IF t = OrgScope THEN [k \in Keys |-> None] ELSE world]

JobsOf(cmd, flag) == [w \in Tasks |-> [target |-> "web", cmd |-> cmd,
                                       showIgnored |-> flag, verbose |-> FALSE]]

\* The Dependabot secret has the role of the Actions secret.
Assignments == {role \in [Keys -> Roles] : role[D1] = role[S1]}

\* Every combination of roles in both layers, every live state, every command.
Cascades ==
  {[cfg  |-> RepoConfig(all, per), live |-> WorldOf(world), job |-> JobsOf(cmd, FALSE)] :
     all \in {BlockOf(role, "base") : role \in Assignments} \cup {None},
     per \in {BlockOf(role, v) : role \in Assignments, v \in {"own", Unset}} \cup {None},
     world \in RepoWorlds,
     cmd \in {"audit", "apply", "dry-run"}}

-----------------------------------------------------------------------------
(* One repository under lost calls, kills, reruns and foreign changes.       *)

\* all-repos manages V1 and S1, per-repo overrides V1, manages D1 and leaves
\* V2 unlisted; or ignores S1 and V2 on top of the same all-repos block.
Shared == BlockOf([NoRole EXCEPT ![V1] = "managed", ![S1] = "managed"], "base")
Overriding == BlockOf([NoRole EXCEPT ![V1] = "managed", ![D1] = "managed"], "own")
Shielding == BlockOf([NoRole EXCEPT ![S1] = "ignored", ![V2] = "ignored"], "own")

\* Everything stale, or only an unlisted secret there.
Full   == [k \in Keys |-> RepoCell("stale")]
Sparse == [k \in Keys |-> IF Kind(k) = "dependabot" THEN RepoCell("stale") ELSE None]

TroubledRepo ==
  {[cfg |-> RepoConfig(Shared, per), live |-> WorldOf(world), job |-> JobsOf(cmd, FALSE)] :
     per \in {Overriding, Shielding}, world \in {Full, Sparse}, cmd \in {"enforce", "apply", "dry-run"}}

Passersby == {RepoCell("stale")}

(* The organization itself, with two ids to look up and an entry to delete.  *)

BothKnown == [r \in {"web", "api"} |-> IF r = "web" THEN 11 ELSE 12]

OrgEntry(v, vis, repos) == [val |-> v, vis |-> vis, repos |-> repos]
OrgCell(v, vis, known)  == [val |-> v, vis |-> vis, ids |-> known]

Selecting == [managed |-> [k \in Keys |-> CASE k = V1 -> OrgEntry("own", "selected", {"web", "api"})
                                             [] k = S1 -> OrgEntry("own", "private", {})
                                             [] OTHER  -> None],
              ignored |-> {V2}]

TroubledOrg ==
  {[cfg  |-> [org |-> Selecting, all |-> None, per |-> [r \in Repos |-> None]],
    live |-> [t \in Targets |-> [k \in Keys |-> IF t = OrgScope /\ k # V1
                                              THEN OrgCell("stale", "selected", {11}) ELSE None]],
    job  |-> [w \in Tasks |-> [target |-> OrgScope, cmd |-> cmd, showIgnored |-> FALSE, verbose |-> FALSE]]] :
     cmd \in {"enforce", "apply", "dry-run"}}

TroubledScopes == TroubledRepo \cup TroubledOrg

(* Two runs at once on the same repository.                                  *)

TwoTasks == {"left", "right"}

Rivals ==
  {[cfg |-> RepoConfig(Shared, per), live |-> WorldOf(world),
    job |-> [w \in Tasks |-> [target |-> "web", cmd |-> IF w = "left" THEN "enforce" ELSE other,
                              showIgnored |-> FALSE, verbose |-> FALSE]]] :
     per \in {Overriding, Shielding}, world \in {Full, Sparse},
     other \in {"enforce", "apply"}}

(* The organization's own entries, with visibilities and selected repos.     *)

OrgNames == {"web", "api", "gone"}
KnownIds == [r \in OrgNames |-> CASE r = "web" -> 11 [] r = "api" -> 12 [] r = "gone" -> None]

OrgEntries == {None, OrgEntry("own", "all", {}), OrgEntry("own", "selected", {"web", "api"}),
               OrgEntry("own", "selected", {"api", "gone"}), OrgEntry(Unset, "private", {})}

OrgBlocks ==
  {[managed |-> managed, ignored |-> {k \in {D1} : managed[k] = None /\ quiet}] :
     managed \in [Keys -> OrgEntries], quiet \in BOOLEAN}

OrgWorld(cell) == [t \in Targets |-> IF t = OrgScope THEN [k \in Keys |-> cell] ELSE [k \in Keys |-> None]]

OrgScopes ==
  {[cfg |-> [org |-> block, all |-> None, per |-> [r \in Repos |-> None]],
    live |-> OrgWorld(cell),
    job |-> [w \in Tasks |-> [target |-> OrgScope, cmd |-> cmd, showIgnored |-> TRUE, verbose |-> FALSE]]] :
     block \in OrgBlocks \cup {None},
     cell \in {None, OrgCell("own", "all", {}), OrgCell("stale", "selected", {11})},
     cmd \in {"audit", "apply", "dry-run"}}

Undisturbed == Cascades \cup OrgScopes

(* Small instances in which the code and a document disagree.                *)

\* An empty all-repos block, and more variables than one page holds.
Crowded ==
  {[cfg |-> RepoConfig(BlockOf(NoRole, "base"), None), live |-> WorldOf(Full),
    job |-> JobsOf("enforce", FALSE)]}

\* A managed secret that is there, audited without -v.
Quiet ==
  {[cfg |-> RepoConfig(None, BlockOf([NoRole EXCEPT ![S1] = "managed"], "own")), 
    live |-> WorldOf([k \in Keys |-> IF k = S1 THEN RepoCell("own") ELSE None]),
    job |-> JobsOf("audit", FALSE)]}

=============================================================================

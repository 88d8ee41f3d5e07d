------------------------------ MODULE MCOrgRun ------------------------------
(* Instances of OrgRun for TLC.                                              *)
EXTENDS OrgRun

V1 == <<"vars", 1>>
S1 == <<"secrets", 1>>

OrgRunKeys == {V1, S1}

NoneKnown   == [r \in {} |-> None]
NoFollowups == [cmd \in Commands |-> {}]

RepoEntry(v) == [val |-> v, vis |-> "repo", repos |-> {}]
RepoCell(v)  == [val |-> v, vis |-> "repo", ids |-> {}]
OrgEntry(v)  == [val |-> v, vis |-> "all", repos |-> {}]
OrgCell(v)   == [val |-> v, vis |-> "all", ids |-> {}]

Only(key, entry) == [managed |-> [k \in Keys |-> IF k = key THEN entry ELSE None], ignored |-> {}]

\* The value of an env variable that may be unset; the org block, the all-repos
\* block and the block of "web" each come in several forms.
Configs ==
  {[org |-> org, all |-> all, per |-> [r \in Repos |-> IF r = "web" THEN per ELSE None]] :
     org \in {None, Only(V1, OrgEntry("own")), Only(S1, OrgEntry(Unset))},
     all \in {None, Only(V1, RepoEntry("base"))},
     per \in {None, Only(S1, RepoEntry("own")), Only(V1, RepoEntry(Unset))}}

WorldWith(repoVars, repoSecrets) ==
  [t \in Targets |->
     [k \in Keys |-> IF t = OrgScope THEN OrgCell("stale")
                     ELSE IF Kind(k) = "vars" THEN repoVars ELSE repoSecrets]]

JobsFor(cmd) == [w \in Tasks |-> [target |-> IF w = OrgTask THEN OrgScope ELSE "web",
                                 cmd |-> cmd, showIgnored |-> FALSE, verbose |-> FALSE]]

ScenariosOf(configs, worlds, cmds) ==
  {[cfg |-> c, live |-> world, job |-> JobsFor(cmd)] :
     c \in configs, world \in worlds, cmd \in cmds}

Worlds == {WorldWith(RepoCell("base"), None), WorldWith(None, RepoCell("stale"))}

\* Enforce with every configuration whose org block, if any, resolves; audit with
\* all three blocks and every value that may be missing, in both worlds; the other
\* commands with all three blocks.
Sound    == {c \in Configs : c.org \in {None, Only(V1, OrgEntry("own"))}}
Complete == {c \in Configs : c.org # None /\ c.all # None /\ c.per["web"] # None}

OneWorld == {WorldWith(None, RepoCell("stale"))}

OrgRuns ==
  ScenariosOf(Sound, OneWorld, {"enforce"})
    \cup ScenariosOf(Complete, Worlds, {"audit"})
    \cup ScenariosOf(Complete \cap Sound, Worlds, {"apply", "enforce", "dry-run"})
    \cup ScenariosOf(Complete \ Sound, OneWorld, {"enforce"})

Passersby == {RepoCell("stale")}

\* While the first page is fetched "lib" may arrive in front: the second page is
\* then "web" again, and two workers share it.  Or "web" leaves, "api" moves up and
\* is missed.
TwoRepos == {<<"web", "api">>}

=============================================================================

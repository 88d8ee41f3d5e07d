-------------------------------- MODULE Plan --------------------------------
(***************************************************************************)
(* internal/plan: what a configuration asks for at one scope.              *)
(*                                                                         *)
(* A scope is the organization itself (OrgScope) or one repository.  A     *)
(* block of the YAML file says, for every entry, whether it is managed     *)
(* (and from which source its value comes) or ignored.  A repository is    *)
(* governed by two blocks, its own `per-repo` block and the `all-repos`    *)
(* block; the organization by its `org` block alone.                       *)
(*                                                                         *)
(* The four passes of resolveCascade are translated as four overlays, in   *)
(* the code's order.  Wanted and Listed state the precedence the comment   *)
(* of ForRepoCascade promises without mentioning passes: the first layer   *)
(* that mentions a name decides.  Properties are stated with these two.    *)
(***************************************************************************)
EXTENDS Integers

CONSTANTS
  Keys,       \* the entries the model talks about: <<kind, rank of the name>>
  Values,     \* the values a source can yield
  Repos,      \* the repositories of the owner
  RepoNames,  \* the names a `repos:` list of an org entry may hold
  OrgScope,   \* the target that stands for the organization itself
  Unset,      \* "the env variable is not set" or "the file is not readable"
  None        \* nil

Kinds == {"vars", "secrets", "dependabot"}

ASSUME KeysAssumption  == Keys \subseteq Kinds \X Nat
ASSUME ScopeAssumption == OrgScope \notin Repos
ASSUME UnsetAssumption == Unset \notin Values /\ None \notin Values

Kind(k) == k[1]

KindRank == [kind \in Kinds |-> CASE kind = "vars" -> 0
                                  [] kind = "secrets" -> 1
                                  [] kind = "dependabot" -> 2]

\* Intents and diff rows come in this order: vars, secrets, dependabot, and
\* the names of a kind sorted.
Before(j, k) == \/ KindRank[Kind(j)] < KindRank[Kind(k)]
                \/ Kind(j) = Kind(k) /\ j[2] < k[2]

IsFirst(k, S) == k \in S /\ \A j \in S \ {k} : Before(k, j)

-----------------------------------------------------------------------------
(* The configuration, as config.Load leaves it.                            *)

Visibilities == {"all", "private", "selected"}

\* A repo-level entry carries no visibility; the model writes "repo" for it.
\* Only a "selected" entry names repositories, and it names at least one.
Entry(visibilities) ==
  {e \in [val : Values \cup {Unset}, vis : visibilities, repos : SUBSET RepoNames] :
     e.vis = "selected" <=> e.repos # {}}

\* No entry of a block is both managed and ignored: config.Load refuses it.
Block(visibilities) ==
  {b \in [managed : [Keys -> Entry(visibilities) \cup {None}], ignored : SUBSET Keys] :
     \A k \in b.ignored : b.managed[k] = None}

Targets == Repos \cup {OrgScope}

Configuration == [org : Block(Visibilities) \cup {None},
                  all : Block({"repo"}) \cup {None},
                  per : [Repos -> Block({"repo"}) \cup {None}]]

ManagedFor(block, k) == IF block = None THEN None ELSE block.managed[k]
IgnoredFor(block)    == IF block = None THEN {} ELSE block.ignored

-----------------------------------------------------------------------------
(* Intents.                                                                *)

NoIntent == [action |-> "none", entry |-> None,
             overrides |-> FALSE, shields |-> FALSE]

ManagedIntent(entry, overrides) ==
  [action |-> "managed", entry |-> entry, overrides |-> overrides, shields |-> FALSE]

IgnoredIntent(shields) ==
  [action |-> "ignored", entry |-> None, overrides |-> FALSE, shields |-> shields]

\* The passes of resolveCascade.  Each walks over names that a pass before it
\* may have decided, and leaves those alone; won is the winner so far.
PerManagedPass(all, per, k) ==
  IF ManagedFor(per, k) # None
  THEN ManagedIntent(ManagedFor(per, k), ManagedFor(all, k) # None)
  ELSE NoIntent

PerIgnoredPass(won, all, per, k) ==
  IF won = NoIntent /\ k \in IgnoredFor(per)
  THEN IgnoredIntent(ManagedFor(all, k) # None)
  ELSE won

\* Fault: the all-repos entry overwrites what the repository's own block decided.
AllManagedPassUnguarded(won, all, per, k) ==
  IF ManagedFor(all, k) # None THEN ManagedIntent(ManagedFor(all, k), FALSE) ELSE won

AllManagedPass(won, all, per, k) ==
  IF won = NoIntent /\ k \notin IgnoredFor(per) /\ ManagedFor(all, k) # None
  THEN ManagedIntent(ManagedFor(all, k), FALSE)
  ELSE won

AllIgnoredPass(won, all, k) ==
  IF won = NoIntent /\ k \in IgnoredFor(all) THEN IgnoredIntent(FALSE) ELSE won

ResolveCascade(all, per) ==
  [k \in Keys |-> LET first  == PerManagedPass(all, per, k)
                      second == PerIgnoredPass(first, all, per, k)
                      third  == AllManagedPass(second, all, per, k)
                  IN AllIgnoredPass(third, all, k)]

ForRepoCascade(c, repo) == ResolveCascade(c.all, c.per[repo])

\* Only called when the configuration has an org block.
ForOrg(c) ==
  [k \in Keys |-> IF ManagedFor(c.org, k) # None THEN ManagedIntent(ManagedFor(c.org, k), FALSE)
                  ELSE IF k \in IgnoredFor(c.org) THEN IgnoredIntent(FALSE)
                  ELSE NoIntent]

Intents(c, target) == IF target = OrgScope THEN ForOrg(c) ELSE ForRepoCascade(c, target)

Managed(intents) == {k \in Keys : intents[k].action = "managed"}

\* EffectiveIgnored and EffectiveOrgIgnored.
EffectiveIgnored(intents) == {k \in Keys : intents[k].action = "ignored"}

-----------------------------------------------------------------------------
(* The precedence the properties are stated with.                          *)

Layers(c, target) == IF target = OrgScope THEN <<c.org, c.org>> ELSE <<c.per[target], c.all>>

Mentions(block, k) == ManagedFor(block, k) # None \/ k \in IgnoredFor(block)

\* The layer that decides about k, for an entry some layer mentions.
Decider(c, target, k) == LET layers == Layers(c, target)
                         IN IF Mentions(layers[1], k) THEN layers[1] ELSE layers[2]

\* The entry that must be on GitHub at this scope, None if none must.
Wanted(c, target, k) == ManagedFor(Decider(c, target, k), k)

\* The configuration says something about k at this scope.
Listed(c, target, k) == \E i \in 1..2 : Mentions(Layers(c, target)[i], k)

=============================================================================

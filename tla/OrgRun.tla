------------------------------- MODULE OrgRun -------------------------------
(***************************************************************************)
(* runner.Audit, Apply and Enforce, from the owner lookup to the exit code.*)
(*                                                                         *)
(* Composes Scope, Pool and Listing: the task of the organization runs     *)
(* alone first; then the repositories are listed; then every listed one    *)
(* the configuration addresses gets a worker of the pool and a task, both  *)
(* numbered by its position.  The pool's Return is tied to the end of the  *)
(* task.  A repository that left keeps answering under its old name or     *)
(* not: GitHub redirects what was renamed or transferred, and a lost call  *)
(* stands for the error otherwise.                                         *)
(***************************************************************************)
EXTENDS Scope, Pool, Listing

CONSTANT MaxTroubles  \* bound: lost calls, foreign changes and moves together

OrgTask == 0

ASSUME TroublesAssumption == MaxTroubles \in Nat
ASSUME TasksAssumption ==
         /\ Tasks = Workers \cup {OrgTask} /\ Hosted \subseteq Repos
         /\ \A seq \in Catalogs : Distinct(seq) /\ Len(seq) + MaxMoves <= Cardinality(Workers)
         /\ \A s \in Scenarios : /\ s.job[OrgTask].target = OrgScope
                                 /\ \A v, w \in Tasks : s.job[v].cmd = s.job[w].cmd

\* A worker has no more failed entries than there are entries.
ASSUME FailedAssumption == IsFiniteSet(Keys) /\ Cardinality(Keys) <= MaxFailed

ASSUME ExitAssumption == None \notin {0, 1}

VARIABLES
  main,       \* where Audit, Apply or Enforce is
  ownerType,  \* "org" or "user"
  self,       \* the token belongs to the owner
  total,      \* the OrgResult it returns: the pool's totals and SkippedRepos
  exit        \* the exit code, None before

orgVars == <<main, ownerType, self, total, exit>>
allVars == <<vars, poolVars, listVars, orgVars>>

Command == job[OrgTask].cmd

OrgTypeOK ==
  /\ TypeOK /\ PoolTypeOK /\ ListTypeOK
  /\ main \in {"owner", "orgScope", "listing", "pool", "exited"}
  /\ ownerType \in {"org", "user"} /\ self \in BOOLEAN
  /\ total \in [ok : Nat, failedRepos : Nat, failedEntries : Nat, drift : BOOLEAN, skipped : Nat]
  /\ exit \in {0, 1, None}

NoTotal == [ok |-> 0, failedRepos |-> 0, failedEntries |-> 0, drift |-> FALSE, skipped |-> 0]

\* A token's own account is a user account.
OrgInit ==
  /\ Init /\ PoolInit /\ ListInit
  /\ main = "owner" /\ ownerType \in {"org", "user"} /\ self \in BOOLEAN
  /\ self => ownerType = "user"
  /\ total = NoTotal
  /\ exit = None

Exit(code) == main' = "exited" /\ exit' = code

\* The repositories are listed next.
Proceed(step) ==
  /\ main' = step
  /\ IF step = "listing" THEN StartListing ELSE UNCHANGED listVars

\* Fault: the org scope is run for a user account, too.
ResolveOwnerUntyped ==
  /\ main = "owner"
  /\ \E answer \in Reads :
       /\ Reply(answer)
       /\ IF answer = "ok"
          THEN Proceed(IF cfg.org # None THEN "orgScope" ELSE "listing") /\ exit' = exit
          ELSE Exit(1) /\ UNCHANGED listVars
  /\ UNCHANGED <<cfg, live, job, pc, snap, ids, keyring, todo, body, failed, touched,
                 forecast, changes, poolVars, ownerType, self, total>>

\* GetOwnerType; an org block is skipped, with a notice, for a user account.
ResolveOwner ==
  /\ main = "owner"
  /\ \E answer \in Reads :
       /\ Reply(answer)
       /\ IF answer = "ok"
          THEN /\ Proceed(IF cfg.org # None /\ ownerType = "org" THEN "orgScope" ELSE "listing")
               /\ exit' = exit
          ELSE Exit(1) /\ UNCHANGED listVars
  /\ UNCHANGED <<cfg, live, job, pc, snap, ids, keyring, todo, body, failed, touched,
                 forecast, changes, poolVars, ownerType, self, total>>

WorkOnOrgScope ==
  /\ main = "orgScope" /\ Advance(OrgTask)
  /\ UNCHANGED <<poolVars, listVars, orgVars>>

DriftOf(w) == Command = "audit" /\ HasDrift(Rows(w))

\* An error of the org scope is printed and counted; the run goes on.
OrgScopeEnds ==
  /\ main = "orgScope" /\ pc[OrgTask] \in {"done", "error"}
  /\ total' = IF pc[OrgTask] = "error"
              THEN [total EXCEPT !.failedRepos = @ + 1]
              ELSE [total EXCEPT !.failedEntries = @ + failed[OrgTask],
                                 !.drift = @ \/ DriftOf(OrgTask)]
  /\ Proceed("listing")
  /\ UNCHANGED <<vars, poolVars, ownerType, self, exit>>

\* ListUserRepos drops what does not belong to the owner; the endpoint lists the
\* repositories of the token's account.
Theirs == ownerType = "org" \/ self

\* One call of the listing; when it fails, so does the run, and what the org
\* scope did is not summarised any more.
ListRepos ==
  /\ main = "listing"
  /\ \E answer \in Reads :
       /\ Reply(answer) /\ FetchPage(Theirs, answer)
       /\ IF answer = "ok" THEN UNCHANGED <<main, total, exit>>
          ELSE total' = NoTotal /\ Exit(1)
  /\ UNCHANGED <<cfg, live, job, pc, snap, ids, keyring, todo, body, failed, touched,
                 forecast, changes, poolVars, ownerType, self>>

IsAddressed(r) == cfg.all # None \/ cfg.per[r] # None

Addressed == {i \in DOMAIN names : IsAddressed(names[i])}

\* Fault: the difference is taken the wrong way round.
SkippedBackwards == Cardinality(Addressed) - Len(names)

\* How many of the listed repositories the configuration does not address.
Skipped == Len(names) - Cardinality(Addressed)

\* targetRepos and the loop of runOrg: the listed repositories the configuration
\* addresses become the targets of the workers; each keeps its place in the list.
TargetRepos ==
  /\ main = "listing" /\ lister = "listed"
  /\ Open(Addressed)
  /\ job' = [w \in Tasks |-> IF w \in Addressed
                             THEN [job[w] EXCEPT !.target = names[w]] ELSE job[w]]
  /\ touched' = [w \in Tasks |-> IF w = OrgTask THEN touched[w] ELSE {}]
  /\ total' = [total EXCEPT !.skipped = Skipped]
  /\ main' = "pool"
  /\ UNCHANGED <<cfg, live, pc, snap, ids, keyring, todo, body, failed, forecast, faults,
                 changes, listVars, ownerType, self, exit>>

\* Fault: a worker returns its error to the group, whose context is then cancelled:
\* what the others list next fails.
WorkOnRepoCancelled(w) ==
  /\ place[w] = "working"
  /\ \/ Advance(w)
     \/ /\ pc[w] \in Kinds /\ \E v \in Workers : outcome[v].err
        /\ Goto(w, "error")
        /\ UNCHANGED <<env, live, snap, ids, keyring, todo, body, failed, touched, faults, changes>>
  /\ UNCHANGED <<poolVars, listVars, orgVars>>

WorkOnRepo(w) ==
  /\ place[w] = "working" /\ Advance(w)
  /\ UNCHANGED <<poolVars, listVars, orgVars>>

RepoReturns(w) ==
  /\ pc[w] \in {"done", "error"}
  /\ Return(w, [err |-> pc[w] = "error", failed |-> failed[w], drift |-> DriftOf(w)])
  /\ UNCHANGED <<vars, listVars, orgVars>>

PoolStep(w) == (Submit(w) \/ Finish(w)) /\ UNCHANGED <<vars, listVars, orgVars>>

\* mergeOrgResult.
Merged(dst, src) ==
  [ok            |-> dst.ok + src.ok,
   failedRepos   |-> dst.failedRepos + src.failedRepos,
   failedEntries |-> dst.failedEntries + src.failedEntries,
   drift         |-> dst.drift \/ src.drift,
   skipped       |-> dst.skipped]

\* Fault: a repository that failed as a whole does not count.
OrgExitCodeOfEntries(result) ==
  IF IF Command = "audit" THEN result.drift ELSE result.failedEntries > 0 THEN 1 ELSE 0

\* runAudit, runApply, runEnforceOrg.
OrgExitCode(result) ==
  IF \/ result.failedRepos > 0
     \/ IF Command = "audit" THEN result.drift ELSE result.failedEntries > 0
  THEN 1 ELSE 0

\* g.Wait returns; the totals are merged, printed and turned into the exit code.
Summarise ==
  /\ main = "pool" /\ Join
  /\ total' = Merged(total, res)
  /\ Exit(OrgExitCode(total'))
  /\ UNCHANGED <<vars, listVars, ownerType, self>>

\* Other people change GitHub meanwhile; the listing matters until it is complete.
OthersWrite   == ForeignChange /\ UNCHANGED <<poolVars, listVars, orgVars>>
OthersMigrate == Migrate /\ UNCHANGED <<vars, poolVars, orgVars>>

MainStep == \/ ResolveOwner \/ WorkOnOrgScope \/ OrgScopeEnds
            \/ ListRepos \/ TargetRepos \/ Summarise

OrgNext ==
  /\ \/ MainStep
     \/ \E w \in Workers : WorkOnRepo(w) \/ RepoReturns(w) \/ PoolStep(w)
     \/ OthersWrite
     \/ OthersMigrate
  /\ faults' + changes' + moves' <= MaxTroubles

OrgSpec == OrgInit /\ [][OrgNext]_allVars

OrgFairSpec ==
  /\ OrgSpec
  /\ WF_allVars(MainStep)
  /\ \A w \in Workers :
       /\ WF_allVars(WorkOnRepo(w) \/ RepoReturns(w))
       /\ WF_allVars(PoolStep(w) /\ place[w] \in {"queued", "flushing", "counting"})
       /\ SF_allVars(PoolStep(w) /\ place[w] \in {"returned", "flushed"})

-----------------------------------------------------------------------------
(* Properties.                                                             *)

\* The tasks of this run: a worker for every listed repository the configuration
\* addresses, and the org scope of an organization.
Crew == {w \in Workers : place[w] # "none"}

Team == Crew \cup (IF cfg.org # None /\ ownerType = "org" THEN {OrgTask} ELSE {})

\* Exit code 0 of an org-wide run speaks for every scope it took on, whatever
\* the interleaving of the workers, also for a repository that was listed
\* twice: apply and enforce left it as wanted, audit found it free of drift.
OrgExitZeroIsHonest ==
  exit = 0 => \A w \in Team : \A k \in Keys \ touched[w] :
    LET t == TargetOf(w)
    IN /\ Command \in {"apply", "enforce"} /\ Wanted(cfg, t, k) # None => IsSet(t, k)
       /\ Command = "enforce" /\ ~Listed(cfg, t, k) => IsGone(t, k)
       /\ Command = "audit" => ~Drifted(t, k)

\* The scopes that ended with an error although the configuration itself has all
\* they need.
Unlucky == {w \in Team : pc[w] = "error" /\ Actionable(TargetOf(w))}

\* A failing scope costs only itself.  A run that prints its summary has taken
\* every scope it is responsible for to its own end; each lost call has ended one
\* scope at most, so none failed because another one did (the context of the
\* group is never cancelled); and the summary counts them, their failed entries
\* (as none or some) and their drift.
FailuresAreIsolated ==
  main = "exited" /\ boss = "joined" =>
    /\ \A w \in Team : pc[w] \in {"done", "error"}
    /\ Cardinality(Unlucky) <= faults
    /\ total.ok = Cardinality({w \in Crew : pc[w] = "done"})
    /\ total.failedRepos = Cardinality({w \in Team : pc[w] = "error"})
    /\ total.failedEntries = 0 <=> \A w \in Team : pc[w] = "done" => failed[w] = 0
    /\ total.drift <=> \E w \in Team : pc[w] = "done" /\ DriftOf(w)
    /\ total.skipped = Len(names) - Cardinality(Crew)

\* A run takes on every repository the owner had all the time and the
\* configuration addresses, exactly once if no repository came or went.  When
\* one leaves between two pages the rest of the listing moves up, and one may be
\* missed; when the token is another user's, nothing is listed at all.
NobodyIsForgotten ==
  boss # "idle" /\ (ownerType = "org" \/ self) =>
    /\ ~shrunk => \A r \in stayed : IsAddressed(r) => \E w \in Crew : TargetOf(w) = r
    /\ moves = 0 => \A v, w \in Crew : TargetOf(v) = TargetOf(w) => v = w

\* Nothing is written to repositories the configuration does not address or
\* the listing did not return, to the org scope of a user account, and to any
\* repository while the org scope is under way.
OnlyInScope ==
  [][changes' = changes =>
       \A t \in Targets : live'[t] # live[t] =>
         /\ \E w \in Team : TargetOf(w) = t
         /\ t # OrgScope => IsAddressed(t) /\ t \in Elements(names)
         /\ main = "orgScope" <=> t = OrgScope]_allVars

\* Repositories are enumerated only for a configuration with an all-repos or a
\* per-repo block (README: "Repo iteration is opt-in").  The code always lists them,
\* so this does not hold; see the README.
IterationIsOptIn ==
  lister # "idle" => cfg.all # None \/ \E r \in Repos : cfg.per[r] # None

\* The run ends.
OrgRunEnds == <>(main = "exited")

=============================================================================

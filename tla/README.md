# A formal model of ghsecretman

ghsecretman reads a YAML file that says which Actions variables, Actions secrets
and Dependabot secrets an organization and its repositories should have, and
makes GitHub so: `audit` compares, `apply` writes, `enforce` writes and then
deletes what is not listed, `enforce --dry-run` announces. This directory holds
TLA+ modules of its core, TLC runs over small instances, and proofs that hold for
every instance. Paths below are relative to `src/`.

## The system

| Component | State | Operations | Talks to |
|---|---|---|---|
| config (`internal/config`) | the decoded `Config` | `Load` | read by everything |
| plan (`internal/plan`) | none | `ForRepoCascade`, `ForOrg`, `EffectiveIgnored` | config |
| diff (`internal/diff`) | none | `Compute`, `HasDrift` | plan, a snapshot of GitHub |
| resolve (`internal/resolve`) | none; reads environment and files | `Resolve` | called by the runner |
| single-scope runner (`internal/runner`) | snapshot, id cache, keys, failure count, buffer | `AuditRepo`, `ApplyRepo`, `EnforceRepo`, the `*OrgScope` three | plan, diff, resolve, client |
| worker pool (`runOrg`) | mutex, `OrgResult`, writer, goroutines | `runOrg` | runs the single-scope functions |
| org-wide runner | `OrgResult` | `Audit`, `Apply`, `Enforce` | owner type, listing, org scope, pool |
| GitHub client (`internal/github`) | none; GitHub has all the state | list, get key, set, delete, get id | GitHub |
| command line (`cmd/ghsecretman`) | none | flags, loading, `example`, exit code | config, runner |
| example (`internal/schema`) | an embedded file | `Print` | command line |

What is hard about it:

* GitHub is shared. Between two calls of a run, other people, other processes and
  (through a shared organization) other workers change what the run has looked at.
  Setting a variable is itself two calls, update and, after a 404, create.
* Calls fail, and a write may have happened although its answer was lost. A run can
  be killed between two calls. Nothing is stored locally.
* `enforce` deletes. What it deletes follows from the cascade of two layers, with
  shielding, and from a snapshot that is old by then.
* Org-wide runs work on repositories concurrently under a limit, share a writer and
  counters, and must turn all outcomes into one summary and one exit code.
* The repositories of an owner are listed page by page while repositories come and
  go; what is listed decides what the run works on.
* The configuration is decoded by hand from YAML nodes, key by key; whatever it lets
  through, the rest of the program takes for granted.

What makes each part correct:

* config: what is accepted means what the file says, in whatever order, and is a
  configuration the planner can take; what is refused makes no sense.
* plan: the four passes of `resolveCascade` agree with the precedence that the
  comment of `ForRepoCascade` promises.
* diff: an entry some layer mentions is never `extra`; drift is reported exactly.
* single-scope runner: it changes nothing but what the configuration asks for; it
  writes nothing when the preflight fails; lines and exit code are true; a dry run
  predicts the enforce; it ends.
* pool: contiguous output, no lost count, complete on return, it ends whatever limit is
  given.
* org-wide runner: no repository is forgotten; failures are isolated and counted;
  exit code 0 speaks for every scope; nothing outside the scope is written; it ends.
* command line: exit codes say what happened; `example` spares existing files.

## The modules

`Plan` -> `Diff` -> `Scope` is a chain of EXTENDS; `OrgRun` composes `Scope`, `Pool`
and `Listing`; `Scope` implements `Reconcile`. `Plan` -> `Config` -> `Command` leads from
the arguments to the point where `Scope` and `OrgRun` start: `LoadedIsConfiguration`
says that what `Config` delivers is what they start from.

**Plan** (pure). Entries are pairs of a kind and a rank that stands for the sorted
name. `PerManagedPass`, `PerIgnoredPass`, `AllManagedPass`, `AllIgnoredPass` are the
loops of `resolveCascade`, in order, each over the winner so far. `Wanted`, `Listed`
and `Decider` say the same as a rule, without passes; every property uses the rule,
so the passes are what is checked. `Configuration` is what `config.Load` lets
through: no entry both managed and ignored in a block, selected repositories
exactly with visibility `selected`.

**Diff** (pure). `Compute` gives each entry a status and an override; `Extras`,
`HasDrift`, `Shown` and `PrintsStanza` are what the runner makes of the rows.

**Scope**. A task is one call of a single-scope function. Its `pc`:

    start -> vars -> secrets -> dependabot -> live -> (done | ids)
    start -> ids (apply)        ids -> depKey -> apply <-> create
    apply -> (done | delete)    delete -> done          any -> error | killed

| Action | Code |
|---|---|
| `Begin` | lookupTarget, intents, resolveVars / resolveAll |
| `List` | one of the three list calls of fetchLive, fetchOrgLive |
| `Report`, `Preview`, `Prepare` | the rest of an audit, of a dry run; enforce goes on |
| `LookUpId` | one GetRepoID of resolveSelectedRepoIDs |
| `FetchActionsKey`, `FetchDependabotKey` | the two halves of fetchKeys, fetchOrgKeys |
| `UpdateVariable`, `CreateVariable` | the two calls of SetRepoVariable, SetOrgVariable |
| `PutSecret` | SetRepoSecret, SetRepoDependabotSecret and the org ones |
| `FinishApply`, `DeleteEntry`, `FinishDelete` | the phases of enforce |
| `Kill`, `Rerun`, `ForeignChange` | the surroundings |

`live` is GitHub. Every call is one step. A read is answered or lost; a write is
answered, lost, or late: it takes effect and the run sees an error. An error in
the preflight ends the run, an error of a single entry is counted and the loop
goes on (`Settle`). A page of a listing is any subset of `PageSize` entries when
there are more. Sealing a secret is modelled by which key family it is sealed with
and opened with: a mismatch stores `Garbage`. `touched` and `forecast` are history
variables that no action of the program reads.

**Reconcile** is the abstract specification: a run observes, then tries every
wanted entry at most once, then, only when all were tried, prunes spare entries at
most once each; it may stop at any point; nothing else changes. The refinement
mapping is at the end of `Scope`: everything before the first write is observing,
update and create together are one attempt.

**Pool**. `runOrg`: `Open` is the call, with what `ResolveConcurrency` makes of any
`--concurrency` as `limit`; `Submit` is `g.Go` under `SetLimit`, in the order of the
list; flushing and counting are two steps each, so that the mutex matters; `Join` is
`g.Wait`. A worker is a position in the list, not a repository.

**Listing**. ListOrgRepos and ListUserRepos: one step per page (`FetchPage`), a page being
a window on the listing of that moment. `Arrive` and `Leave` change the listing, at any
position, until it is complete. `stayed` and `shrunk` are history variables.

**OrgRun**. `main` is the goroutine of `Audit`, `Apply` or `Enforce`: owner type, org
scope, listing page by page, pool, merged totals, exit code. The repositories that
were listed and that the configuration addresses get, by position, a worker of `Pool`
and a task of `Scope`; a repository that was listed twice has two of each, which
work on it at the same time. The pool's `Return` waits for the end of the task.

**Config** (pure). A file is a sequence of documents, a document a tree of nodes as
yaml.v3 hands it over: kind, text, pairs in their order, items; `Nodes` are the trees
over `Texts` up to `MaxDepth`. A decoder returns the set of its results, one or, after an
error, none. Every decoder goes over the pairs of a mapping, each of which gives a part
of the result that is stored over what is there, and the first error ends it (`Decode`,
`Collect`). The twin functions for organizations and repositories are one operator with
a level.
`AbsPath` and `Resolve` say where a value comes from, `Settled` is the configuration in
the form `Plan` takes. `MakesSense` and `Reading` say the same without order and without
defaults that are set on the way; the properties use them. Names, values and
paths are members of small sets; the messages of errors are left out.

**Command**. One invocation, `step` by step:

    dispatch -> load -> backend -> lookup -> running     (audit, apply, enforce)
    dispatch -> (stat) -> open -> write                  (example -o)
    any -> exited

| Action | Code |
|---|---|
| `Dispatch` | run: help, version, unknown commands |
| `ParseFlags`, `ParseExampleFlags` | the heads of runAudit, runApply, runEnforce, runExample |
| `Load` | config.Load |
| `NewBackend`, `LookUpOwner` | the token; the owner's section, looked up by the runner |
| `Stat`, `OpenOutput`, `WriteOutput` | os.Stat, and the two halves of os.WriteFile |
| `OthersTouch` | other programs write or remove the file |

**MCScope, MCPool, MCOrgRun, MCCommand** hold the instances. The theorems are in
**PlanProofs**, **ScopeProofs** -> **ScopeSafety** -> **ScopeRefines** and **ScopeAlone**,
**PoolProofs**, **OrgRunProofs** (which extends the ones about `Scope` and `Pool`), and
**CommandProofs**.

## The runs

`CHECK_DEADLOCK FALSE` everywhere: the program ends, so its behaviours do. Liveness
is checked as a property instead.

| Run | What it shows |
|---|---|
| `undisturbed` | Every role of three entries in both layers (absent, managed, ignored; blocks absent; values set or not), every live state (absent, stale, as wanted), every command, dry run followed by enforce followed by audit; and every org block over visibilities, selected repositories (existing or not) and unset values. Checked: honest exit code, no failure of its own making, exact audit, dry run = enforce, only reconciling writes, all or nothing. |
| `faults` | A repository with four entries, and an org scope with a variable and a secret for two selected repositories each, two faults (lost, late, killed) and one foreign change anywhere; reruns. Checked: types, true lines, honest exit code, only reconciling writes, all or nothing (a lost listing, id or key included), Reconcile is implemented, the run ends. |
| `rivals` | Two tasks on one repository (two processes), and a foreign change. |
| `pool` | Up to three workers, all outcomes, `--concurrency` -1, 0, 1 and 2. Checked: types, contiguous output, no lost count, complete on return, it ends (with a limit of zero it would not). |
| `org_run` | Whole runs of every command, on an organization, the token's own account or another user's, with two repositories on pages of one and a third that may come, under a limit of two, and one trouble anywhere: a lost or late call, a foreign change, or a repository that comes or goes, so that one is missed, or listed twice and worked on by two workers at once while a third waits. Checked: types, nobody forgotten, true lines, honest exit code, isolated failures, only in scope, only reconciling writes, all or nothing per scope, the run ends. |
| `command` | Every command line with and without a file; and 2233 files, in families that vary one part: up to three sources in every order for a repository's entry, scopes and selected repositories, sections of a block, of an owner, of a file, several documents, with doubles, aliases, wrong kinds and unknown keys; 804 are accepted. Checked: types and what the runner relies on, acceptance implies `Configuration`, meaning kept, refusal only of what makes no sense, `example` spares and completes. |

Bounds, and why they are enough:

* Keys: a run handles entries one after another in a fixed order, and they interact
  only through the failure count, the phase and the keys. Two variables show order
  and failure within a kind, one entry of every kind the key families and the
  listings; decisions are made per entry, so all roles of one entry per kind cover
  the cascade. In `undisturbed` the Dependabot secret has the role of the Actions
  secret (the code treats both the same), which keeps the product small.
* `MaxFaults` 2: a fault and a second one during the recovery from it. `MaxChanges` 1:
  one change of others at every point between two calls. With more faults, only
  sequences of independent failures are added. The proofs need no bound.
* `MaxTroubles` 1, `MaxMoves` 1, `PerPage` 1 in `org_run`: one disturbance at every point of
  a whole run. Two pages and one move are what it takes to miss a repository or to
  list one twice: while the first page (`web`) is fetched, `lib` arrives in front, and the
  second page is `web` again; for that `Hosted` has three names. Two disturbances at once
  are left to `faults` and `rivals`, for one scope. The configurations and worlds of each
  command are chosen in `OrgRuns`: enforce with every form of every block, the other
  commands with all blocks present.
* Files: a decoder looks at one mapping at a time, so families that vary one mapping
  reach every branch; three keys are enough for a source given twice and another
  one, two names for two entries of a list, `MaxTouches` 1 for somebody between any
  two steps, `MaxDepth` 10 for the deepest of the files. The rest of a file is kept
  simple.
* `PageSize`: at least the number of entries of a kind, except in the run `paging`.
* `Concurrencies`: in `pool`, -1, 0, 1 and 2 with three workers: the limit binds, also at
  one, and what is not positive becomes the default; in `org_run`, 2: a third one waits
  when a repository was listed twice. `MaxFailed` bounds failed entries of one repository.
* No symmetry is used: values and repositories play different roles in the
  configurations.

Fairness. `FairSpec`: a task that can go on does. That is the code's scheduling, a
sequential function, and one assumption: every call to GitHub is answered, if only
with an error. The HTTP client has no timeout (`internal/github/github.go:103`), so
without the assumption a run may hang, and the liveness properties claim nothing
then. `PoolFairSpec` and `OrgFairSpec` add strong fairness for taking the mutex: Go's
`sync.Mutex` hands it to a waiter after one millisecond (starvation mode). No
fairness of `Rerun`, `Kill`, foreign changes and moves is assumed: users do what they
like.

## Where code and documents disagree

Each has a run that TLC must find violated.

* `paging`: listings fetch a single page of 100 (`internal/github/github.go:187`), so
  `enforce` exits 0 with unlisted entries left; README.md:61 says every existing entry
  is reported and deleted.
* `quiet`: a quiet `audit` prints a row for each managed secret that is present
  (`internal/runner/runner.go:144` drops `match` only); the usage text and runner.go:60
  say only changes are reported.
* `visibility`: `audit` compares values only (`internal/diff/diff.go:163`); an org variable
  with another visibility or other selected repositories is no drift; README.md:49
  says any drift is found.
* `opt_in`: the repositories are always listed (`internal/runner/runner.go:500`); README.md:61
  says only with an all-repos or per-repo block.
* `duplicates`: a key that comes twice is no error, and the second section replaces
  the first (`internal/config/config.go:216`, and alike elsewhere; only `per-repo`
  sections are merged), so ignored names of the first one are forgotten and enforce
  deletes them; config.go:83 and example.yml:33 say ignored names are never touched.
* `starter`: the embedded example shows several sources for one entry and is refused
  by the commands that read it (`internal/config/config.go:521`); README.md:55 calls it
  a starter config.

A smaller one without a run: an error of the org scope counts as a failed
repository (`internal/runner/runner.go:634`); the comment at runner.go:446 says repos.
`FailuresAreIsolated` states what the code does. It also says that a scope which has all
it needs fails only by a lost call of its own (`Unlucky`), which is why a worker must not
return its error to the group: the others' context would be cancelled.

## The proofs

Every safety property of a passing run is a theorem: it holds for every value of the
constants that satisfies the assumptions. Those are named where the constants are
declared, and TLC evaluates them on every run that uses the module:

* types of the constants (`KeysAssumption`, `ScenarioAssumption`, `BoundAssumption`,
  `CatalogsAssumption`, `InvocationsAssumption`, ...), with bounds that may be any number;
* model values for "nothing" are not values: `UnsetAssumption`, `SeenAssumption` (also:
  what a listing hides is not what a wrong key leaves), `CellAssumption`, both
  `ExitAssumption`s;
* `TasksAssumption`: in an org-wide run all tasks have one command, the listing names no
  repository twice at any one moment, and there are workers for the repositories that
  come; `FailedAssumption`: there are finitely many entries, and `MaxFailed` is no less;
* `NamesAssumption`, `TextsAssumption`, `SourcesAssumption`: every name, text and path of a
  file is one the other modules know; each variable and file holds a value or nothing.

One hypothesis is stated in theorems instead, because a run shows what happens without
it: `Fits`, a page holds all entries of a kind. `paging` is the run where it is false;
in all others it is true. `ExitCodeIsHonest`, `AuditsAreExact`, `DryRunsPredict` and
`OrgExitCodeIsHonest` need it, the others hold with pages of any size.

**PlanProofs.** `CascadeIsPrecedence`: the passes are the precedence rule (by cases on the
four memberships). `ExtrasAreUnlisted`: what `runDeletePhase` picks is mentioned nowhere,
whatever the snapshot; a stale snapshot can therefore never make enforce delete a
listed entry.

**ScopeProofs.** `IInv` = `TypeOK` and, for each task, `Ready`: what its `pc` says about its
past. Types alone are not inductive towards safety: that a set request carries the
wanted cell needs that the values resolved (`Begin`), that the ids were looked up
(`LookUpId`) and that `todo` holds managed entries (`FetchDependabotKey`); that a delete is
right needs that `todo` holds extras of the rows computed from a snapshot that has not
changed since. `Ready` says just that. One lemma per action; a step of one task leaves
the others ready (`OthersStayReady`). Theorems `Invariance`, `TypeCorrect`.

**ScopeSafety.** `WritersAreKnown`: GitHub is changed only by a set or a delete. From
that and `IInv`: `NothingElseChanges` (`ToolOnlyReconciles`), `PreflightComesFirst`
(`AllOrNothing`: with `Progress`, below, which says that a task in its preflight or
ended by an error has no line, and `WritersGetLines`, that whoever writes gets one), and
`LinesAreTrue` (`LinesTellTheTruth`): a line just printed is true because the write was
answered; an old line stays true because any other writer with the same configuration
wants the same of the entry. `ExitCodeIsHonest` (`ExitZeroMeansReconciled`) needs two
more facts about the past of a task: `Progress`, that the entries tried and those in
`todo` are together all that are due, and that a FAILED line has been counted; and
`Fresh`, that an unlisted entry the listings did not show is not there, since no task
creates what is not listed. With `Progress` every due entry has a line, the line is not
FAILED when the exit code is 0, and by `LinesAreTrue` it is true.

**ScopeRefines.** `ScopeImplementsReconcile` (`ImplementsReconcile`): the initial states map
to initial states, and each action to one step of Reconcile or a stutter, one lemma per
kind of action (`ReadingMaps`, `CommitMaps`, `SetMaps`, `PruneMaps`, ...), with `Progress` for
what has been tried. `DeletesComeLast` draws the abstract specification's conclusion.

**ScopeAlone**, about a task that has its target for itself. `AuditsAreExact` (`AuditIsExact`):
the snapshot is what GitHub shows (`Mirror`, kind by kind as listed; `Unseen` says that
nothing of the other kinds is in it). `DryRunsPredict` (`DryRunPredictsEnforce`): `Announcing`
ties the lines of the dry run to the rows, and `Foretold` carries them through the enforce:
at each place they are what it would do now to the entries it has not tried and what
it did to the others. `RunsSucceedUndisturbed` (`UndisturbedRunSucceeds`): `Smooth` says for
every `pc` what the next call needs: the key that will be asked for, that the variable to
create is not there, that everything to delete is (`StillThere`).

**PoolProofs.** `PoolInv` = `PoolTypeOK`, `Exclusive` (flushing or counting is the same
as holding the mutex), `MidFlush` (an odd number of pieces of output means that the
holder of the mutex flushes now), `UpToDate` (who counts has read the totals as they
are) and `Resting`. `NoCountLost` alone is not inductive: the write of `EndCount` uses
what `StartCount` read, and only the mutex keeps that current. `ReturnIsComplete` needs
`Accounted` besides, which ties the length of the output to the workers that flushed.
`PoolNeverBlocks` is the safety half of `PoolEnds`, for any number of repositories and
any `--concurrency`: until `runOrg` returns there is always a step to take. It needs
that the limit is positive (`Roomy`), that some queued position is the first
(`SomebodyIsNext`, by the well-foundedness of inclusion of finite sets) and that the
mutex is either free or with somebody who gives it back. Theorems `MutexIsKept`,
`PoolTypeCorrect`, `PoolNeverBlocks`, `LinesStayTogether`, `CountsAreExact`,
`ReturnIsComplete`.

**OrgRunProofs.** `OrgInv` (theorem `OrgInvariance`) has four parts. `ScopePart`: what
was proved of `Scope`, that failures are counted once each (`Tallied`), and that there
are no more scopes which failed with all they need than calls were lost (`Paid`;
`ErrorsAreLostCalls`). `ListInv`: a page is where the listing is (`Paged`), and who
stayed is named already or still ahead (`Caught`). `PoolPart`: what was proved of
`Pool`. `RunPart` ties them together: `Stages`, where the main goroutine is says where
pool and listing can be; `Staffed`, a worker has the repository of its position and
returns what its task came to, and nobody works before; `OrgScopeFirst`; `Summed`, the
totals are the org scope's part and, after `Wait`, the pool's. From these
`OrgRunUsesPool` (every step is a step of Pool or leaves it alone), `OrgTypeCorrect`,
`OrgLinesAreTrue`, `OrgRunOnlyReconciles` and `OrgPreflightComesFirst` (what changes
GitHub is a step of `Scope`: `WritesAreTaskSteps`), `NobodyIsLeftOut`
(`NobodyIsForgotten`), `FailuresStayIsolated` (`FailuresAreIsolated`, with
`LucklessTeam` and `NothingDropped` for its parts), `NothingOutOfScope` (`OnlyInScope`).
`OrgExitCodeIsHonest` (`OrgExitZeroIsHonest`) needs `Seeing` besides: `Fresh` and
`Unseen` again, and `Current`, that in an audit, where all tasks only look, the snapshot
is what is there.

**CommandProofs.** `LoadsConfigurations` (`LoadedIsConfiguration`), `RefusesNothingElse`
(`RefusesOnlyBadDocuments`) and `LoadingKeepsMeaning` (`LoadKeepsMeaning`) hold for files of any
size and, within `MaxDepth`, any depth. What a decoder does is shown once, for `Collect`
(`Collected`, `Keyed`): it succeeds when all parts do, its result is the only one, and holds
under each key what one of the places with that key gives. Each decoder is an instance
(`EntryDecoded`, `EntriesDecoded`, ...); upon that one layer after the other is shown to be a
part of a configuration (`EntrySettles`, `BlockSettles`, `OwnerSettles`, `LoadSettles`), to be
accepted when it makes sense (`...Judged`), and to mean what it says (`...Read`). The last two
need files without doubles and aliases, as the properties do: `duplicates` shows why.
`CommandInv`, for `CommandTypeCorrect`, `ExampleIsWritten` and `ExistingFilesAreSpared`, says
besides that what is loaded is what the untouched file gives, and that without
`--force` a file that stands keeps the run out of `open`.

The library's induction theorems take a predicate, which the provers cannot
instantiate. `Collect` is a recursive function over the parts, and what it computes for any
number of them is shown with `Least` instead: a set of naturals has a least element. The
set taken is that of the numbers for which the claim is false.

Only model-checked: liveness under fairness (`RunsEnd`, `PoolEnds`, `OrgRunEnds`), which is
out of the prover's reach, and that the six disagreements above are real.

## Not modelled

* The parser of YAML (yaml.v3): `Config` starts from its nodes. Only the first document
  of a file counts, in the code and in the model.
* The parsing of single flags (package flag): flags are good or bad.
* The cryptography of sealed boxes and the base64 checks.
* Wording, headers and layout of lines and messages.
* A file that is there but cannot be read counts as missing in `Command`, and an error of
  closing the output after a complete write is left out.
* The failed entries of a pool as a sum: `failedEntries` is compared as none or some, which
  is all the exit code depends on.
* Errors of the output: `flush` drops them (`internal/runner/runner.go:538`).
* A GitHub that never answers (see Fairness), its rate limits, and its own rules about
  names: names are abstract, so upper and lower case are too.
* `plan.ForRepo` and `IsIgnored`, which nothing but tests calls.
* Build, release and lint configuration: not part of the program.

Two things the model has and no property forbids: text is read from any node, so
that an alias gives the name of its anchor and a mapping an empty value
(`internal/config/config.go:488`); and between `Stat` and `WriteFile` somebody may create
the file that `example -o` then overwrites (`SparesExisting` speaks of files that were
there all the time).

## Plan

1. Plan, Diff, Scope, Reconcile with runs `undisturbed`, `faults`, `rivals` (done).
2. Pool, OrgRun with `pool`, `org_run` (done).
3. Proofs: cascade, invariant of Scope, action properties, lines (done).
4. Config and Command with `command` (done).
5. Listing, and two workers on one repository through it (done).
6. Proofs about Pool: mutual exclusion, limit, output, counts, return (done).
7. Proofs of the rest of `Scope`: honest exit codes, Reconcile implemented, exact audits,
   dry runs, no failure of its own making (done).
8. Proofs about OrgRun: its invariant, Pool used as promised, nobody forgotten, totals,
   scope, exit code (done).
9. Proofs about Config and Command: what is refused, what is kept, what is written (done).
10. Left: what the decoders make of a file with doubles (the last section counts,
    `per-repo` sections are merged) as a theorem of its own.

## Running

    tlc -workers 2 -config MCFaults.cfg MCScope
    tlapm --stretch 1.3 PoolProofs.tla

`PROJECT.json` lists runs, theorems, hazards, and for every definition the lines of
source it models.

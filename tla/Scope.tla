-------------------------------- MODULE Scope --------------------------------
(***************************************************************************)
(* internal/runner over internal/github: audit, apply, enforce and dry-run *)
(* of single scopes, call by call.                                         *)
(*                                                                         *)
(* A task is one AuditRepo / ApplyRepo / EnforceRepo call, or the          *)
(* corresponding *OrgScope call, on its target.  Several tasks may run at  *)
(* once on the same or on different targets: the workers of an org-wide    *)
(* run, or several processes.  Every GitHub call is one step, so other     *)
(* tasks and people (Foreign changes) interleave with all of them.  A call *)
(* may be lost: it has no effect and returns an error; a write may be late:*)
(* it takes effect and still returns an error.  The process may be killed. *)
(***************************************************************************)
EXTENDS Diff, FiniteSets

CONSTANTS
  Tasks,         \* the runs that may be under way at once
  Scenarios,     \* initial [cfg, live, job] combinations
  Followups,     \* commands a user may give after a finished command
  Ids, RepoId,   \* GitHub's numeric ids; RepoId[name] = None: no such repository
  ForeignCells,  \* what other people write
  PageSize,      \* entries a listing returns at most (100 in the code)
  MaxFaults,     \* bound: lost and late calls, and kills
  MaxChanges     \* bound: foreign changes

Commands == {"audit", "apply", "enforce", "dry-run"}

Job == [target : Targets, cmd : Commands, showIgnored : BOOLEAN, verbose : BOOLEAN]

\* What GitHub stores for an entry.
Cell == [val : Values \cup {Garbage}, vis : Visibilities \cup {"repo"}, ids : SUBSET Ids]

World == [Targets -> [Keys -> Cell \cup {None}]]

ASSUME ScenarioAssumption ==
         Scenarios \subseteq [cfg : Configuration, live : World, job : [Tasks -> Job]]
ASSUME FollowupsAssumption == Followups \in [Commands -> SUBSET Commands]
ASSUME RepoIdAssumption    == RepoId \in [RepoNames -> Ids \cup {None}] /\ None \notin Ids
ASSUME CellAssumption      == None \notin Cell
ASSUME ForeignAssumption   == ForeignCells \subseteq Cell
ASSUME BoundAssumption     == PageSize \in Nat /\ MaxFaults \in Nat /\ MaxChanges \in Nat

VARIABLES
  cfg,      \* the loaded configuration
  live,     \* GitHub: the entries of every target
  job,      \* what each task was asked to do
  pc,       \* where each task is
  snap,     \* diff.Live: what its listings returned
  ids,      \* idsByIntent's cache
  keyring,  \* the sealing keys it holds: actionsKey, depKey
  todo,     \* the entries its current write phase has still to handle
  body,     \* the line written for each entry
  failed,   \* res.Failed
  touched,  \* history: entries of its target others changed since it started
  forecast, \* history: the body of the dry run just before, None if there was none
  faults, changes \* how much of the bounds is used up

env  == <<cfg, job, forecast>>
vars == <<cfg, live, job, pc, snap, ids, keyring, todo, body, failed, touched,
          forecast, faults, changes>>

Terminal == {"done", "error", "killed"}
PCs      == {"start"} \cup Kinds \cup {"live", "ids", "depKey", "apply", "create", "delete"}
              \cup Terminal
Lines    == {"none", "ok", "deleted", "FAILED", "would-set", "would-delete"}
Families == {"actions", "dependabot"}

NoSeen  == [k \in Keys |-> None]
NoIds   == [r \in RepoNames |-> None]
NoLines == [k \in Keys |-> "none"]

TypeOK ==
  /\ cfg \in Configuration
  /\ live \in World
  /\ job \in [Tasks -> Job]
  /\ pc \in [Tasks -> PCs]
  /\ snap \in [Tasks -> [Keys -> Seen]]
  /\ ids \in [Tasks -> [RepoNames -> Ids \cup {None}]]
  /\ keyring \in [Tasks -> SUBSET Families]
  /\ todo \in [Tasks -> SUBSET Keys]
  /\ body \in [Tasks -> [Keys -> Lines]]
  /\ failed \in [Tasks -> Nat]
  /\ touched \in [Tasks -> SUBSET Keys]
  /\ forecast \in [Tasks -> [Keys -> Lines] \cup {None}]
  /\ faults \in 0..MaxFaults
  /\ changes \in 0..MaxChanges

Init ==
  /\ \E s \in Scenarios : cfg = s.cfg /\ live = s.live /\ job = s.job
  /\ pc       = [w \in Tasks |-> "start"]
  /\ snap     = [w \in Tasks |-> NoSeen]
  /\ ids      = [w \in Tasks |-> NoIds]
  /\ keyring  = [w \in Tasks |-> {}]
  /\ todo     = [w \in Tasks |-> {}]
  /\ body     = [w \in Tasks |-> NoLines]
  /\ failed   = [w \in Tasks |-> 0]
  /\ touched  = [w \in Tasks |-> {}]
  /\ forecast = [w \in Tasks |-> None]
  /\ faults   = 0
  /\ changes  = 0

-----------------------------------------------------------------------------
(* What a task computes from its configuration and its snapshot.           *)

TargetOf(w) == job[w].target
Cmd(w)      == job[w].cmd
Plans(w)    == Intents(cfg, TargetOf(w))

\* The scope has no block at all: lookupTarget fails for a repository, and
\* the *OrgScope functions return an empty result for the organization.
NoPlan(w) == IF TargetOf(w) = OrgScope THEN cfg.org = None
             ELSE cfg.all = None /\ cfg.per[TargetOf(w)] = None

\* Fault: apply resolves the variables only, like audit does.
MustResolveVariables(w) == {k \in Managed(Plans(w)) : Kind(k) = "vars" /\ Cmd(w) # "dry-run"}

\* resolveVars for an audit, resolveAll for apply and enforce, nothing for a dry run.
MustResolve(w) == {k \in Managed(Plans(w)) :
                     \/ Cmd(w) \in {"apply", "enforce"}
                     \/ Cmd(w) = "audit" /\ Kind(k) = "vars"}

Resolvable(w) == \A k \in MustResolve(w) : Plans(w)[k].entry.val # Unset

\* The resolved values; a dry run compares with the empty string.
Desired(w) == [k \in Keys |-> IF Cmd(w) = "dry-run" \/ k \notin Managed(Plans(w))
                              THEN Empty ELSE Plans(w)[k].entry.val]

Rows(w) == Compute(Plans(w), Desired(w), snap[w])

SelectedNames(w) ==
  UNION {Plans(w)[k].entry.repos :
           k \in {m \in Managed(Plans(w)) : Plans(w)[m].entry.vis = "selected"}}

Needs(w, kind) == \E k \in Managed(Plans(w)) : Kind(k) = kind

\* The key a secret is sealed with, and the one GitHub opens it with.
SealingKey(k) == IF Kind(k) = "dependabot" THEN "dependabot" ELSE "actions"
OpeningKey(k) == IF Kind(k) = "dependabot" THEN "dependabot" ELSE "actions"

SealedValue(k, v) ==
  IF Kind(k) = "vars" \/ SealingKey(k) = OpeningKey(k) THEN v ELSE Garbage

\* What a set request for k carries.  Ids are sent only with "selected".
Payload(w, k) ==
  LET entry == Plans(w)[k].entry
  IN [val |-> SealedValue(k, entry.val),
      vis |-> entry.vis,
      ids |-> IF entry.vis = "selected" THEN {ids[w][r] : r \in entry.repos} ELSE {}]

-----------------------------------------------------------------------------
(* GitHub calls.                                                           *)

Reads  == {"ok", "lost"}
Writes == {"ok", "lost", "late"}

Reply(answer) == \/ answer = "ok" /\ faults' = faults
                 \/ answer # "ok" /\ faults < MaxFaults /\ faults' = faults + 1

Goto(w, place) == pc' = [pc EXCEPT ![w] = place]

\* One page of a listing, in an order only GitHub knows.
Pages(target, kind) ==
  LET present == {k \in Keys : Kind(k) = kind /\ live[target][k] # None}
  IN {page \in SUBSET present : \/ page = present /\ Cardinality(page) <= PageSize
                                \/ Cardinality(page) = PageSize}

\* Variables are listed with their values, secrets by name only.
View(k, cell) == IF Kind(k) = "vars" THEN cell.val ELSE Hidden

\* GitHub stores cell (None: deletes the entry) unless the request is lost.
Store(w, k, cell, answer) ==
  live' = IF answer = "lost" THEN live
          ELSE [live EXCEPT ![TargetOf(w)][k] = cell]

\* Fault: an error is taken for success.
SettleBlindly(w, k, answer, line) ==
  /\ todo'   = [todo EXCEPT ![w] = @ \ {k}]
  /\ body'   = [body EXCEPT ![w][k] = line]
  /\ failed' = failed

\* Fault: an error is printed but not counted.
SettleUncounted(w, k, answer, line) ==
  /\ todo'   = [todo EXCEPT ![w] = @ \ {k}]
  /\ body'   = [body EXCEPT ![w][k] = IF answer = "ok" THEN line ELSE "FAILED"]
  /\ failed' = failed

\* Fault: an entry is tried again until it succeeds.
SettleByRetry(w, k, answer, line) ==
  /\ todo'   = [todo EXCEPT ![w] = IF answer = "ok" THEN @ \ {k} ELSE @]
  /\ body'   = [body EXCEPT ![w][k] = IF answer = "ok" THEN line ELSE @]
  /\ failed' = failed

\* The write phase is done with k; an error is counted and the loop goes on.
Settle(w, k, answer, line) ==
  /\ todo'   = [todo EXCEPT ![w] = @ \ {k}]
  /\ body'   = [body EXCEPT ![w][k] = IF answer = "ok" THEN line ELSE "FAILED"]
  /\ failed' = [failed EXCEPT ![w] = IF answer = "ok" THEN @ ELSE @ + 1]

-----------------------------------------------------------------------------
(* Preflight: resolve values, list live state, look up ids and keys.       *)

Begin(w) ==
  /\ pc[w] = "start"
  /\ Goto(w, CASE NoPlan(w) /\ TargetOf(w) = OrgScope -> "done"
               [] NoPlan(w) /\ TargetOf(w) # OrgScope -> "error"
               [] ~NoPlan(w) /\ ~Resolvable(w)        -> "error"
               [] ~NoPlan(w) /\ Resolvable(w)         -> IF Cmd(w) = "apply" THEN "ids" ELSE "vars")
  /\ UNCHANGED <<env, live, snap, ids, keyring, todo, body, failed, touched, faults, changes>>

NextListing == [kind \in Kinds |-> CASE kind = "vars" -> "secrets"
                                     [] kind = "secrets" -> "dependabot"
                                     [] kind = "dependabot" -> "live"]

List(w) ==
  /\ pc[w] \in Kinds
  /\ \E answer \in Reads, page \in Pages(TargetOf(w), pc[w]) :
       /\ Reply(answer)
       /\ IF answer = "ok"
          THEN /\ Goto(w, NextListing[pc[w]])
               /\ snap' = [snap EXCEPT ![w] =
                     [k \in Keys |-> IF k \in page THEN View(k, live[TargetOf(w)][k]) ELSE @[k]]]
          ELSE Goto(w, "error") /\ snap' = snap
  /\ UNCHANGED <<env, live, ids, keyring, todo, body, failed, touched, changes>>

\* An audit computes its rows, prints them and is done.
Report(w) ==
  /\ pc[w] = "live" /\ Cmd(w) = "audit"
  /\ Goto(w, "done")
  /\ UNCHANGED <<env, live, snap, ids, keyring, todo, body, failed, touched, faults, changes>>

\* Fault: the dry run forgets the delete phase.
PreviewOfSets(w) ==
  /\ pc[w] = "live" /\ Cmd(w) = "dry-run"
  /\ body' = [body EXCEPT ![w] =
        [k \in Keys |-> IF k \in Managed(Plans(w)) THEN "would-set" ELSE "none"]]
  /\ Goto(w, "done")
  /\ UNCHANGED <<env, live, snap, ids, keyring, todo, failed, touched, faults, changes>>

\* A dry run walks through both phases and only prints.
Preview(w) ==
  /\ pc[w] = "live" /\ Cmd(w) = "dry-run"
  /\ body' = [body EXCEPT ![w] =
        [k \in Keys |-> IF k \in Managed(Plans(w)) THEN "would-set"
                        ELSE IF k \in Extras(Rows(w)) THEN "would-delete"
                        ELSE "none"]]
  /\ Goto(w, "done")
  /\ UNCHANGED <<env, live, snap, ids, keyring, todo, failed, touched, faults, changes>>

Prepare(w) ==
  /\ pc[w] = "live" /\ Cmd(w) = "enforce"
  /\ Goto(w, "ids")
  /\ UNCHANGED <<env, live, snap, ids, keyring, todo, body, failed, touched, faults, changes>>

\* resolveSelectedRepoIDs: one lookup for each distinct name.
LookUpId(w) ==
  /\ pc[w] = "ids"
  /\ \E r \in SelectedNames(w), answer \in Reads :
       /\ ids[w][r] = None
       /\ Reply(answer)
       /\ IF answer = "ok" /\ RepoId[r] # None
          THEN ids' = [ids EXCEPT ![w][r] = RepoId[r]] /\ pc' = pc
          ELSE ids' = ids /\ Goto(w, "error")
  /\ UNCHANGED <<env, live, snap, keyring, todo, body, failed, touched, changes>>

\* Fault: the Dependabot key is stored where the Actions key belongs.
FetchKeyAsActions(w, kind, family, next) ==
  \E answer \in IF Needs(w, kind) THEN Reads ELSE {"ok"} :
    /\ Reply(answer)
    /\ Goto(w, IF answer = "ok" THEN next ELSE "error")
    /\ keyring' = [keyring EXCEPT ![w] =
                     IF Needs(w, kind) /\ answer = "ok" THEN @ \cup {"actions"} ELSE @]

\* fetchKeys, fetchOrgKeys: a key is fetched only when a managed entry needs it.
FetchKey(w, kind, family, next) ==
  \E answer \in IF Needs(w, kind) THEN Reads ELSE {"ok"} :
    /\ Reply(answer)
    /\ Goto(w, IF answer = "ok" THEN next ELSE "error")
    /\ keyring' = [keyring EXCEPT ![w] =
                     IF Needs(w, kind) /\ answer = "ok" THEN @ \cup {family} ELSE @]

\* Fault: the ids are not looked up before the entries are written; an id that was
\* not looked up is zero in the code, None here.
FetchActionsKeyWithoutIds(w) ==
  /\ pc[w] = "ids"
  /\ FetchKey(w, "secrets", "actions", "depKey")
  /\ UNCHANGED <<env, live, snap, ids, todo, body, failed, touched, changes>>

FetchActionsKey(w) ==
  /\ pc[w] = "ids"
  /\ \A r \in SelectedNames(w) : ids[w][r] # None
  /\ FetchKey(w, "secrets", "actions", "depKey")
  /\ UNCHANGED <<env, live, snap, ids, todo, body, failed, touched, changes>>

FetchDependabotKey(w) ==
  /\ pc[w] = "depKey"
  /\ FetchKey(w, "dependabot", "dependabot", "apply")
  /\ todo' = [todo EXCEPT ![w] = IF pc'[w] = "apply" THEN Managed(Plans(w)) ELSE {}]
  /\ UNCHANGED <<env, live, snap, ids, body, failed, touched, changes>>

-----------------------------------------------------------------------------
(* The write phases.                                                       *)

\* Fault: a 404 of the update is taken for success.
UpdateVariableOnly(w) ==
  /\ pc[w] = "apply"
  /\ \E k \in todo[w], answer \in Writes :
       /\ IsFirst(k, todo[w]) /\ Kind(k) = "vars"
       /\ Reply(answer)
       /\ IF live[TargetOf(w)][k] = None THEN live' = live ELSE Store(w, k, Payload(w, k), answer)
       /\ Settle(w, k, answer, "ok")
  /\ UNCHANGED <<env, pc, snap, ids, keyring, touched, changes>>

\* SetRepoVariable, SetOrgVariable: update first; a 404 leads to a create.
UpdateVariable(w) ==
  /\ pc[w] = "apply"
  /\ \E k \in todo[w], answer \in Writes :
       /\ IsFirst(k, todo[w]) /\ Kind(k) = "vars"
       /\ Reply(answer)
       /\ IF live[TargetOf(w)][k] = None /\ answer = "ok"
          THEN Goto(w, "create") /\ UNCHANGED <<live, todo, body, failed>>
          ELSE /\ pc' = pc
               /\ IF live[TargetOf(w)][k] = None THEN live' = live
                  ELSE Store(w, k, Payload(w, k), answer)
               /\ Settle(w, k, answer, "ok")
  /\ UNCHANGED <<env, snap, ids, keyring, touched, changes>>

\* The create fails with a conflict when somebody else created the variable.
CreateVariable(w) ==
  /\ pc[w] = "create"
  /\ \E k \in todo[w], answer \in Writes :
       /\ IsFirst(k, todo[w])
       /\ Reply(answer)
       /\ IF live[TargetOf(w)][k] = None
          THEN Store(w, k, Payload(w, k), answer) /\ Settle(w, k, answer, "ok")
          ELSE live' = live /\ Settle(w, k, "conflict", "ok")
  /\ Goto(w, "apply")
  /\ UNCHANGED <<env, snap, ids, keyring, touched, changes>>

\* Fault: the key is fetched when the first secret needs it, among the sets.
PutSecretWithLateKey(w) ==
  /\ pc[w] = "apply"
  /\ \E k \in todo[w], answer \in Writes :
       /\ IsFirst(k, todo[w]) /\ Kind(k) # "vars"
       /\ Reply(answer)
       /\ IF answer = "lost" THEN Goto(w, "error") /\ UNCHANGED <<live, todo, body, failed>>
          ELSE pc' = pc /\ Store(w, k, Payload(w, k), answer) /\ Settle(w, k, answer, "ok")
  /\ UNCHANGED <<env, snap, ids, keyring, touched, changes>>

\* SetRepoSecret and its siblings: without a key they fail before any request.
PutSecret(w) ==
  /\ pc[w] = "apply"
  /\ \E k \in todo[w], answer \in Writes :
       /\ IsFirst(k, todo[w]) /\ Kind(k) # "vars"
       /\ Reply(answer)
       /\ IF SealingKey(k) \in keyring[w]
          THEN Store(w, k, Payload(w, k), answer) /\ Settle(w, k, answer, "ok")
          ELSE live' = live /\ Settle(w, k, "noKey", "ok")
  /\ UNCHANGED <<env, pc, snap, ids, keyring, touched, changes>>

\* Fault: enforce ends after its first phase.
FinishApplyAsDone(w) ==
  /\ pc[w] = "apply" /\ todo[w] = {}
  /\ Goto(w, "done")
  /\ UNCHANGED <<env, live, snap, ids, keyring, todo, body, failed, touched, faults, changes>>

\* Fault: the first failure ends the apply phase, and enforce starts deleting.
FinishApplyEarly(w) ==
  /\ pc[w] = "apply" /\ (todo[w] = {} \/ failed[w] > 0)
  /\ IF Cmd(w) = "enforce"
     THEN Goto(w, "delete") /\ todo' = [todo EXCEPT ![w] = Extras(Rows(w))]
     ELSE Goto(w, "done") /\ todo' = todo
  /\ UNCHANGED <<env, live, snap, ids, keyring, body, failed, touched, faults, changes>>

FinishApply(w) ==
  /\ pc[w] = "apply" /\ todo[w] = {}
  /\ IF Cmd(w) = "enforce"
     THEN Goto(w, "delete") /\ todo' = [todo EXCEPT ![w] = Extras(Rows(w))]
     ELSE Goto(w, "done") /\ todo' = todo
  /\ UNCHANGED <<env, live, snap, ids, keyring, body, failed, touched, faults, changes>>

\* Deleting an entry that is already gone is answered with a 404, an error.
DeleteEntry(w) ==
  /\ pc[w] = "delete"
  /\ \E k \in todo[w], answer \in Writes :
       /\ IsFirst(k, todo[w])
       /\ Reply(answer)
       /\ IF live[TargetOf(w)][k] # None
          THEN Store(w, k, None, answer) /\ Settle(w, k, answer, "deleted")
          ELSE live' = live /\ Settle(w, k, "notFound", "deleted")
  /\ UNCHANGED <<env, pc, snap, ids, keyring, touched, changes>>

FinishDelete(w) ==
  /\ pc[w] = "delete" /\ todo[w] = {}
  /\ Goto(w, "done")
  /\ UNCHANGED <<env, live, snap, ids, keyring, todo, body, failed, touched, faults, changes>>

-----------------------------------------------------------------------------
(* The surroundings.                                                       *)

\* The process is killed between two calls; nothing is persisted locally.
Kill(w) ==
  /\ pc[w] \notin Terminal \cup {"start"} /\ faults < MaxFaults
  /\ faults' = faults + 1
  /\ Goto(w, "killed")
  /\ UNCHANGED <<env, live, snap, ids, keyring, todo, body, failed, touched, changes>>

\* The user gives another command, or the killed one again, on the same target.
Rerun(w) ==
  /\ pc[w] \in Terminal
  /\ \E cmd \in Followups[Cmd(w)] \cup (IF pc[w] = "killed" THEN {Cmd(w)} ELSE {}) :
       job' = [job EXCEPT ![w].cmd = cmd]
  /\ LET previewed == pc[w] = "done" /\ Cmd(w) = "dry-run"
     IN /\ forecast' = [forecast EXCEPT ![w] = IF previewed THEN body[w] ELSE None]
        /\ touched'  = [touched EXCEPT ![w] = IF previewed THEN @ ELSE {}]
  /\ Goto(w, "start")
  /\ snap'    = [snap EXCEPT ![w] = NoSeen]
  /\ ids'     = [ids EXCEPT ![w] = NoIds]
  /\ keyring' = [keyring EXCEPT ![w] = {}]
  /\ todo'    = [todo EXCEPT ![w] = {}]
  /\ body'    = [body EXCEPT ![w] = NoLines]
  /\ failed'  = [failed EXCEPT ![w] = 0]
  /\ UNCHANGED <<cfg, live, faults, changes>>

\* Somebody who does not use this configuration writes or deletes an entry.
ForeignChange ==
  /\ changes < MaxChanges
  /\ changes' = changes + 1
  /\ \E t \in Targets, k \in Keys, cell \in ForeignCells \cup {None} :
       /\ live' = [live EXCEPT ![t][k] = cell]
       /\ touched' = [w \in Tasks |-> IF TargetOf(w) = t THEN touched[w] \cup {k} ELSE touched[w]]
  /\ UNCHANGED <<env, pc, snap, ids, keyring, todo, body, failed, faults>>

-----------------------------------------------------------------------------

\* What the program itself does next for w.
Advance(w) ==
  \/ Begin(w) \/ List(w) \/ Report(w) \/ Preview(w) \/ Prepare(w)
  \/ LookUpId(w) \/ FetchActionsKey(w) \/ FetchDependabotKey(w)
  \/ UpdateVariable(w) \/ CreateVariable(w) \/ PutSecret(w) \/ FinishApply(w)
  \/ DeleteEntry(w) \/ FinishDelete(w)

Next == \/ \E w \in Tasks : Advance(w) \/ Kill(w) \/ Rerun(w)
        \/ ForeignChange

Spec == Init /\ [][Next]_vars

FairSpec == Spec /\ \A w \in Tasks : WF_vars(Advance(w))

-----------------------------------------------------------------------------
(* Properties.                                                             *)

WantedCell(target, k) ==
  LET entry == Wanted(cfg, target, k)
  IN [val |-> entry.val,
      vis |-> entry.vis,
      ids |-> IF entry.vis = "selected" THEN {RepoId[r] : r \in entry.repos} ELSE {}]

IsSet(target, k) ==
  Wanted(cfg, target, k) # None /\ live[target][k] = WantedCell(target, k)

IsGone(target, k) == ~Listed(cfg, target, k) /\ live[target][k] = None

\* Everything the configuration asks for at the target can be resolved.
Actionable(target) ==
  \A k \in Keys : Wanted(cfg, target, k) # None =>
    /\ Wanted(cfg, target, k).val # Unset
    /\ Wanted(cfg, target, k).vis = "selected" =>
         \A r \in Wanted(cfg, target, k).repos : RepoId[r] # None

Alone(w) == \A v \in Tasks \ {w} : TargetOf(v) # TargetOf(w)

\* os.Exit's argument for a run on a single scope.
ExitCode(w) == IF \/ pc[w] = "error"
                  \/ failed[w] > 0
                  \/ Cmd(w) = "audit" /\ HasDrift(Rows(w))
               THEN 1 ELSE 0

\* Whatever the tool changes on GitHub becomes exactly what the precedence
\* rules ask for: a managed entry gets its value from the deciding layer, an
\* entry no layer mentions disappears, and only in an enforce; an ignored
\* entry never changes.  (ApplyRepo, EnforceRepo and the org scope's.)
ToolOnlyReconciles ==
  [][changes' = changes =>
       \A t \in Targets, k \in Keys : live'[t][k] # live[t][k] =>
         \/ IsSet(t, k)'
         \/ IsGone(t, k)' /\ \E w \in Tasks : job[w].target = t /\ job[w].cmd = "enforce"]_vars

\* A scope is written to only when every managed entry of it resolved and every
\* selected repository exists, and whoever writes gets a line for it; a run that
\* stops with an error, for a value, a listing, an id or a key, has none: it has
\* written nothing, not even the entries that were fine.
AllOrNothing ==
  [][/\ changes' = changes =>
          \A t \in Targets : live'[t] # live[t] =>
            /\ Actionable(t)
            /\ \E w \in Tasks : /\ job[w].target = t
                                /\ job[w].cmd \in {"apply", "enforce"}
                                /\ body'[w] # body[w]
     /\ \A w \in Tasks : pc'[w] = "error" => body'[w] = NoLines]_vars

\* Each line a run prints is true until somebody else touches the entry, also
\* when other lines of the run are FAILED, when the run is killed later, and
\* when other runs with the same configuration work on the same target.
LinesTellTheTruth ==
  \A w \in Tasks : \A k \in Keys \ touched[w] :
    /\ body[w][k] = "ok" => IsSet(TargetOf(w), k)
    /\ body[w][k] = "deleted" => IsGone(TargetOf(w), k)

\* A scope the configuration has no block for is left alone; at any other, exit
\* code 0 of apply means that every managed entry is set; of enforce,
\* also that nothing unlisted is left (README: "enforce (apply plus delete
\* unlisted values)").
ExitZeroMeansReconciled ==
  \A w \in Tasks : pc[w] = "done" /\ ~NoPlan(w) /\ ExitCode(w) = 0 =>
    \A k \in Keys \ touched[w] :
      /\ Cmd(w) \in {"apply", "enforce"} /\ Wanted(cfg, TargetOf(w), k) # None
           => IsSet(TargetOf(w), k)
      /\ Cmd(w) = "enforce" /\ ~Listed(cfg, TargetOf(w), k) => IsGone(TargetOf(w), k)

\* The tool causes no failure of its own: without lost calls, kills, foreign
\* changes or another run on the target, a run whose values all resolve ends
\* with no error and no FAILED line (update-then-create, key fetching, deleting
\* only what is there).
UndisturbedRunSucceeds ==
  \A w \in Tasks :
    /\ pc[w] \in Terminal /\ Alone(w) /\ faults = 0 /\ touched[w] = {}
    /\ ~NoPlan(w) /\ Actionable(TargetOf(w))
    => pc[w] = "done" /\ failed[w] = 0

Drifted(target, k) ==
  IF Wanted(cfg, target, k) # None
  THEN \/ live[target][k] = None
       \/ Kind(k) = "vars" /\ live[target][k].val # Wanted(cfg, target, k).val
  ELSE ~Listed(cfg, target, k) /\ live[target][k] # None

\* An audit reports drift exactly when there is some, and prints every entry
\* that drifted whatever its output flags.
AuditIsExact ==
  \A w \in Tasks :
    pc[w] = "done" /\ Cmd(w) = "audit" /\ ~NoPlan(w) /\ Alone(w) /\ touched[w] = {} =>
      /\ ExitCode(w) = 1 <=> \E k \in Keys : Drifted(TargetOf(w), k)
      /\ \A k \in Keys : Drifted(TargetOf(w), k) =>
           k \in Shown(Rows(w), job[w].showIgnored, job[w].verbose)

\* An audit without -v that found no drift prints nothing (usage text: "report
\* only changes by default").  The code keeps the rows of secrets that are
\* present, so this does not hold; see the README.
AuditReportsOnlyChanges ==
  \A w \in Tasks :
    pc[w] = "done" /\ Cmd(w) = "audit" /\ ~job[w].verbose /\ ~job[w].showIgnored
      /\ PrintsStanza(Rows(w), job[w].showIgnored, job[w].verbose)
    => HasDrift(Rows(w))

\* An audit that exits with 0 found every variable as configured (README: "exits
\* non-zero if any drift is found").  Visibility and selected repositories of
\* an org variable are not compared, so this does not hold; see the README.
AuditSeesAllDrift ==
  \A w \in Tasks :
    pc[w] = "done" /\ Cmd(w) = "audit" /\ ~NoPlan(w) /\ ExitCode(w) = 0
      /\ Alone(w) /\ touched[w] = {}
    => \A k \in Keys : Kind(k) = "vars" /\ Wanted(cfg, TargetOf(w), k) # None
                       => IsSet(TargetOf(w), k)

\* What a dry run announced is what the enforce after it does, entry by entry,
\* if nobody changed the target in between (README: "Run enforce --dry-run
\* first to review what would change").
DryRunPredictsEnforce ==
  \A w \in Tasks :
    /\ pc[w] = "done" /\ Cmd(w) = "enforce" /\ forecast[w] # None
    /\ Alone(w) /\ touched[w] = {}
    => \A k \in Keys : /\ forecast[w][k] = "none" <=> body[w][k] = "none"
                       /\ body[w][k] = "ok" => forecast[w][k] = "would-set"
                       /\ body[w][k] = "deleted" => forecast[w][k] = "would-delete"

\* Every run ends, provided every GitHub call is answered (FairSpec).
RunsEnd == \A w \in Tasks : pc[w] = "start" ~> pc[w] \in Terminal

-----------------------------------------------------------------------------
(* Scope implements Reconcile: listings, resolution, lookups and keys are  *)
(* all observing; update and create together are one attempt.              *)

Phase(place) == CASE place \in {"apply", "create"} -> "setting"
                  [] place = "delete"              -> "pruning"
                  [] place \in Terminal            -> "over"
                  [] OTHER                         -> "observing"

\* The entries w has a line for that says how an attempt ended.
Attempted(w) == {k \in Keys : body[w][k] \in {"ok", "deleted", "FAILED"}}

GoalOf(w) ==
  [target |-> TargetOf(w),
   want   |-> [k \in Keys |-> IF Actionable(TargetOf(w)) /\ Wanted(cfg, TargetOf(w), k) # None
                              THEN WantedCell(TargetOf(w), k) ELSE None],
   spare  |-> {k \in Keys : ~Listed(cfg, TargetOf(w), k)}]

Abstract == INSTANCE Reconcile
  WITH Cells <- Cell,
       goal  <- [w \in Tasks |-> GoalOf(w)],
       phase <- [w \in Tasks |-> Phase(pc[w])],
       tried <- [w \in Tasks |-> Attempted(w)]

\* Every run, with all its calls, does no more to GitHub than Reconcile allows.
ImplementsReconcile == Abstract!Spec

=============================================================================

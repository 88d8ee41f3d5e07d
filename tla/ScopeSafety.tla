----------------------------- MODULE ScopeSafety -----------------------------
(***************************************************************************)
(* What a step of Scope may do to GitHub, from the invariant of            *)
(* ScopeProofs; and what a run has done when it is over: every entry that  *)
(* was due was tried, and the exit code tells how that went.               *)
(***************************************************************************)
EXTENDS ScopeProofs, FiniteSetTheorems

-----------------------------------------------------------------------------
(* The three ways an entry on GitHub changes.                              *)

\* w sets k, in its apply phase.
Sets(w, k) ==
  /\ pc[w] \in Setting /\ k \in todo[w]
  /\ \E answer \in Writes : Store(w, k, Payload(w, k), answer)

\* w deletes k, in its delete phase.
Deletes(w, k) ==
  /\ pc[w] = "delete" /\ k \in todo[w]
  /\ \E answer \in Writes : Store(w, k, None, answer)

LEMMA WritersAreKnown ==
  ASSUME IInv, [Next]_vars, changes' = changes, live' # live
  PROVE  \E w \in Tasks, k \in Keys :
           /\ Sets(w, k) \/ Deletes(w, k)
           /\ Advance(w) /\ cfg' = cfg /\ job' = job
<1>1. PICK w \in Tasks : UpdateVariable(w) \/ CreateVariable(w) \/ PutSecret(w) \/ DeleteEntry(w)
  <2>1. ASSUME ForeignChange PROVE FALSE
    <3>1. changes \in Nat /\ changes' = changes + 1
      BY <2>1, BoundAssumption DEF ForeignChange, IInv, TypeOK
    <3> QED BY <3>1
  <2>2. ASSUME NEW w \in Tasks, Kill(w) \/ Rerun(w) PROVE FALSE
    BY <2>2 DEF Kill, Rerun
  <2>3. ASSUME UNCHANGED vars PROVE FALSE
    BY <2>3 DEF vars
  <2>4. PICK w \in Tasks : Advance(w)
    BY <2>1, <2>2, <2>3 DEF Next
  <2> QED BY <2>4 DEF Advance, Begin, List, Report, Preview, Prepare, LookUpId,
             FetchActionsKey, FetchDependabotKey, FinishApply, FinishDelete
<1>2. todo[w] \subseteq Keys /\ w \in DOMAIN pc /\ Advance(w)
  BY <1>1 DEF IInv, TypeOK, Advance
<1>3. CASE UpdateVariable(w)
  BY <1>2, <1>3 DEF UpdateVariable, Sets, Setting, env, Goto
<1>4. CASE CreateVariable(w)
  BY <1>2, <1>4 DEF CreateVariable, Sets, Setting, env, Goto
<1>5. CASE PutSecret(w)
  BY <1>2, <1>5 DEF PutSecret, Sets, Setting, env
<1>6. CASE DeleteEntry(w)
  BY <1>2, <1>6 DEF DeleteEntry, Deletes, env
<1> QED BY <1>1, <1>3, <1>4, <1>5, <1>6

LEMMA StoreEffect ==
  ASSUME IInv, NEW w \in Tasks, NEW k \in Keys, NEW cell, NEW answer,
         Store(w, k, cell, answer),
         NEW t \in Targets, NEW j \in Keys, live'[t][j] # live[t][j]
  PROVE  t = TargetOf(w) /\ j = k /\ live'[t][j] = cell
<1>1. live \in World /\ TargetOf(w) \in Targets
  BY DEF IInv, TypeOK, TargetOf, Job
<1>2. live' = [live EXCEPT ![TargetOf(w)][k] = cell]
  BY DEF Store
<1> QED BY <1>1, <1>2 DEF World

LEMMA SettingIsWanted ==
  ASSUME IInv, NEW w \in Tasks, NEW k \in Keys, Sets(w, k), cfg' = cfg,
         NEW t \in Targets, NEW j \in Keys, live'[t][j] # live[t][j]
  PROVE  IsSet(t, j)' /\ t = TargetOf(w) /\ j = k
<1>1. t = TargetOf(w) /\ j = k /\ live'[t][j] = Payload(w, k)
  BY StoreEffect DEF Sets
<1>2. Wanted(cfg, t, j) # None /\ Payload(w, k) = WantedCell(t, j)
  BY <1>1, PayloadIsWanted DEF Sets
<1>3. Wanted(cfg, t, j)' = Wanted(cfg, t, j) /\ WantedCell(t, j)' = WantedCell(t, j)
  BY DEF WantedCell
<1> QED BY <1>1, <1>2, <1>3 DEF IsSet

LEMMA DeletingIsPruning ==
  ASSUME IInv, NEW w \in Tasks, NEW k \in Keys, Deletes(w, k), cfg' = cfg,
         NEW t \in Targets, NEW j \in Keys, live'[t][j] # live[t][j]
  PROVE  IsGone(t, j)' /\ t = TargetOf(w) /\ j = k /\ Cmd(w) = "enforce"
<1>1. t = TargetOf(w) /\ j = k /\ live'[t][j] = None
  BY StoreEffect DEF Deletes
<1>2. Cmd(w) = "enforce" /\ k \in Extras(Rows(w))
  BY DEF IInv, Ready, Deletes
<1>3. ~Listed(cfg, t, j)
  BY <1>1, <1>2, ExtrasAreUnlisted DEF IInv, TypeOK, Rows, Plans
<1>4. Listed(cfg, t, j)' = Listed(cfg, t, j)
  OBVIOUS
<1> QED BY <1>1, <1>2, <1>3, <1>4 DEF IsGone

-----------------------------------------------------------------------------
(* The action properties.                                                  *)

LEMMA StepReconciles ==
  ASSUME IInv, [Next]_vars, changes' = changes,
         NEW t \in Targets, NEW k \in Keys, live'[t][k] # live[t][k]
  PROVE  \/ IsSet(t, k)'
         \/ IsGone(t, k)' /\ \E w \in Tasks : job[w].target = t /\ job[w].cmd = "enforce"
<1>1. PICK w \in Tasks, j \in Keys : (Sets(w, j) \/ Deletes(w, j)) /\ cfg' = cfg
  BY WritersAreKnown
<1>2. CASE Sets(w, j)
  BY <1>1, <1>2, SettingIsWanted
<1>3. CASE Deletes(w, j)
  BY <1>1, <1>3, DeletingIsPruning DEF TargetOf, Cmd
<1> QED BY <1>1, <1>2, <1>3

\* For every configuration, any number of concurrent runs, faults and foreign
\* changes: what the tool changes becomes what the precedence rules ask for, and
\* only an enforce removes, and only what no layer lists.
THEOREM NothingElseChanges == Spec => ToolOnlyReconciles
<1> DEFINE Step ==
      changes' = changes =>
       \A t \in Targets, k \in Keys : live'[t][k] # live[t][k] =>
         \/ IsSet(t, k)'
         \/ IsGone(t, k)' /\ \E w \in Tasks : job[w].target = t /\ job[w].cmd = "enforce"
<1>1. IInv /\ [Next]_vars => [Step]_vars
  BY StepReconciles
<1>2. ToolOnlyReconciles <=> [][Step]_vars
  BY DEF ToolOnlyReconciles
<1> HIDE DEF Step
<1> QED BY <1>1, <1>2, Invariance, PTL DEF Spec

LEMMA WritersAreActionable ==
  ASSUME IInv, NEW w \in Tasks, pc[w] \in {"ids"} \cup Ahead,
         \A r \in SelectedNames(w) : ids[w][r] # None
  PROVE  Actionable(TargetOf(w)) /\ Cmd(w) \in {"apply", "enforce"}
<1> DEFINE t == TargetOf(w)
<1>1. Resolvable(w) /\ Cmd(w) \in {"apply", "enforce"}
  BY DEF IInv, Ready
<1>2. t \in Targets /\ cfg \in Configuration
  BY DEF IInv, TypeOK, TargetOf, Job
<1>3. ASSUME NEW k \in Keys, Wanted(cfg, t, k) # None
      PROVE  /\ Wanted(cfg, t, k).val # Unset
             /\ Wanted(cfg, t, k).vis = "selected" =>
                  \A r \in Wanted(cfg, t, k).repos : RepoId[r] # None
  <2>1. k \in Managed(Plans(w)) /\ Plans(w)[k].entry = Wanted(cfg, t, k)
    BY <1>2, <1>3, CascadeIsPrecedence DEF Managed, Plans
  <2>2. Wanted(cfg, t, k).val # Unset
    BY <1>1, <2>1 DEF Resolvable, MustResolve
  <2>3. ASSUME Wanted(cfg, t, k).vis = "selected", NEW r \in Wanted(cfg, t, k).repos
        PROVE  RepoId[r] # None
    <3>1. r \in SelectedNames(w) /\ r \in RepoNames
      BY <1>2, <1>3, <2>1, <2>3, WantedType DEF SelectedNames
    <3> QED BY <3>1 DEF IInv, Ready
  <2> QED BY <2>2, <2>3
<1> QED BY <1>1, <1>3 DEF Actionable

-----------------------------------------------------------------------------
(* What the lines say.                                                     *)

\* What a line of w about k claims about GitHub.
Claims(w, k) ==
  /\ body[w][k] = "ok" => IsSet(TargetOf(w), k)
  /\ body[w][k] = "deleted" => IsGone(TargetOf(w), k)

LEMMA SettleEffect ==
  ASSUME IInv, NEW w \in Tasks, NEW k \in Keys, NEW outcome, NEW line,
         Settle(w, k, outcome, line), NEW v \in Tasks, NEW j \in Keys
  PROVE  \/ body'[v][j] = body[v][j]
         \/ v = w /\ j = k /\ body'[v][j] = IF outcome = "ok" THEN line ELSE "FAILED"
<1>1. body \in [Tasks -> [Keys -> Lines]]
  BY DEF IInv, TypeOK
<1>2. body' = [body EXCEPT ![w][k] = IF outcome = "ok" THEN line ELSE "FAILED"]
  BY DEF Settle
<1> QED BY <1>1, <1>2

LEMMA StoredIsThere ==
  ASSUME IInv, NEW w \in Tasks, NEW k \in Keys, NEW cell, Store(w, k, cell, "ok")
  PROVE  live'[TargetOf(w)][k] = cell
<1>1. live \in World /\ TargetOf(w) \in Targets
  BY DEF IInv, TypeOK, TargetOf, Job
<1> QED BY <1>1 DEF Store, World

\* A request answered with "ok" has set the entry.
LEMMA OkIsTrue ==
  ASSUME IInv, NEW w \in Tasks, pc[w] \in Setting, NEW k \in todo[w],
         Store(w, k, Payload(w, k), "ok"), cfg' = cfg, job' = job
  PROVE  IsSet(TargetOf(w), k)'
<1>1. k \in Keys
  BY DEF IInv, TypeOK
<1>2. live'[TargetOf(w)][k] = Payload(w, k)
  BY <1>1, StoredIsThere
<1>3. Wanted(cfg, TargetOf(w), k) # None /\ Payload(w, k) = WantedCell(TargetOf(w), k)
  BY PayloadIsWanted
<1> QED BY <1>2, <1>3 DEF IsSet, WantedCell, TargetOf

LEMMA DeletedIsTrue ==
  ASSUME IInv, NEW w \in Tasks, pc[w] = "delete", NEW k \in todo[w],
         Store(w, k, None, "ok"), cfg' = cfg, job' = job
  PROVE  IsGone(TargetOf(w), k)'
<1>1. k \in Keys /\ TargetOf(w) \in Targets
  BY DEF IInv, TypeOK, TargetOf, Job
<1>2. live'[TargetOf(w)][k] = None
  BY <1>1, StoredIsThere
<1>3. k \in Extras(Rows(w))
  BY DEF IInv, Ready
<1>4. ~Listed(cfg, TargetOf(w), k)
  BY <1>1, <1>3, ExtrasAreUnlisted DEF Rows, Plans
<1> QED BY <1>2, <1>4 DEF IsGone, TargetOf

\* A step of a task leaves every other line as it is, and a new line is true.
LEMMA NewLinesAreTrue ==
  ASSUME IInv, NEW w \in Tasks, Advance(w), NEW v \in Tasks, NEW k \in Keys
  PROVE  /\ cfg' = cfg /\ job' = job /\ touched' = touched /\ changes' = changes
         /\ body'[v][k] = body[v][k] \/ Claims(v, k)'
<1> USE DEF Claims
<1>1. cfg' = cfg /\ job' = job /\ touched' = touched /\ changes' = changes
  BY DEF Advance, Begin, List, Report, Preview, Prepare, LookUpId, FetchActionsKey,
     FetchDependabotKey, UpdateVariable, CreateVariable, PutSecret, FinishApply,
     DeleteEntry, FinishDelete, env
<1>2. CASE \/ Begin(w) \/ List(w) \/ Report(w) \/ Prepare(w) \/ LookUpId(w)
           \/ FetchActionsKey(w) \/ FetchDependabotKey(w) \/ FinishApply(w) \/ FinishDelete(w)
  BY <1>1, <1>2 DEF Begin, List, Report, Prepare, LookUpId, FetchActionsKey,
     FetchDependabotKey, FinishApply, FinishDelete
<1>3. CASE Preview(w)
  <2>1. body \in [Tasks -> [Keys -> Lines]]
    BY DEF IInv, TypeOK
  <2>2. body'[v][k] = body[v][k] \/ body'[v][k] \in {"would-set", "would-delete", "none"}
    BY <1>3, <2>1 DEF Preview
  <2> QED BY <1>1, <2>2
<1>4. CASE UpdateVariable(w)
  <2>1. PICK j \in todo[w], answer \in Writes :
          \/ body' = body
          \/ /\ Settle(w, j, answer, "ok")
             /\ answer = "ok" => Store(w, j, Payload(w, j), answer)
    BY <1>4 DEF UpdateVariable
  <2>2. j \in Keys /\ pc[w] \in Setting
    BY <1>4 DEF IInv, TypeOK, UpdateVariable, Setting
  <2>3. body'[v][k] = body[v][k] \/ body'[v][k] = "FAILED"
        \/ (v = w /\ k = j /\ body'[v][k] = "ok" /\ Store(w, j, Payload(w, j), "ok"))
    BY <2>1, <2>2, SettleEffect
  <2> QED BY <1>1, <2>2, <2>3, OkIsTrue
<1>5. CASE CreateVariable(w)
  <2>1. PICK j \in todo[w], answer \in Writes :
          \/ Store(w, j, Payload(w, j), answer) /\ Settle(w, j, answer, "ok")
          \/ Settle(w, j, "conflict", "ok")
    BY <1>5 DEF CreateVariable
  <2>2. j \in Keys /\ pc[w] \in Setting
    BY <1>5 DEF IInv, TypeOK, CreateVariable, Setting
  <2>3. body'[v][k] = body[v][k] \/ body'[v][k] = "FAILED"
        \/ (v = w /\ k = j /\ body'[v][k] = "ok" /\ Store(w, j, Payload(w, j), "ok"))
    BY <2>1, <2>2, SettleEffect
  <2> QED BY <1>1, <2>2, <2>3, OkIsTrue
<1>6. CASE PutSecret(w)
  <2>1. PICK j \in todo[w], answer \in Writes :
          \/ Store(w, j, Payload(w, j), answer) /\ Settle(w, j, answer, "ok")
          \/ Settle(w, j, "noKey", "ok")
    BY <1>6 DEF PutSecret
  <2>2. j \in Keys /\ pc[w] \in Setting
    BY <1>6 DEF IInv, TypeOK, PutSecret, Setting
  <2>3. body'[v][k] = body[v][k] \/ body'[v][k] = "FAILED"
        \/ (v = w /\ k = j /\ body'[v][k] = "ok" /\ Store(w, j, Payload(w, j), "ok"))
    BY <2>1, <2>2, SettleEffect
  <2> QED BY <1>1, <2>2, <2>3, OkIsTrue
<1>7. CASE DeleteEntry(w)
  <2>1. PICK j \in todo[w], answer \in Writes :
          \/ Store(w, j, None, answer) /\ Settle(w, j, answer, "deleted")
          \/ Settle(w, j, "notFound", "deleted")
    BY <1>7 DEF DeleteEntry
  <2>2. j \in Keys /\ pc[w] = "delete"
    BY <1>7 DEF IInv, TypeOK, DeleteEntry
  <2>3. body'[v][k] = body[v][k] \/ body'[v][k] = "FAILED"
        \/ (v = w /\ k = j /\ body'[v][k] = "deleted" /\ Store(w, j, None, "ok"))
    BY <2>1, <2>2, SettleEffect
  <2> QED BY <1>1, <2>2, <2>3, DeletedIsTrue
<1> QED BY <1>2, <1>3, <1>4, <1>5, <1>6, <1>7, <1>1 DEF Advance

\* A line that was true stays true: whoever writes next, with the same
\* configuration, wants the same of the entry.
LEMMA OldLinesStayTrue ==
  ASSUME IInv, [Next]_vars, changes' = changes, cfg' = cfg, NEW w \in Tasks, NEW k \in Keys,
         job'[w].target = job[w].target, body'[w][k] = body[w][k], Claims(w, k)
  PROVE  Claims(w, k)'
<1> DEFINE t == TargetOf(w)
<1>1. t \in Targets /\ t' = t
  BY DEF IInv, TypeOK, TargetOf, Job
<1>2. Wanted(cfg, t, k)' = Wanted(cfg, t, k) /\ WantedCell(t, k)' = WantedCell(t, k)
      /\ Listed(cfg, t, k)' = Listed(cfg, t, k)
  BY <1>1 DEF WantedCell
<1>3. Wanted(cfg, t, k) # None => Listed(cfg, t, k)
  BY DEF Wanted, Listed, Decider, Mentions, Layers
<1>4. CASE live'[t][k] = live[t][k]
  BY <1>1, <1>2, <1>4 DEF Claims, IsSet, IsGone
<1>5. CASE live'[t][k] # live[t][k]
  <2>1. IsSet(t, k)' \/ IsGone(t, k)'
    BY <1>1, <1>5, StepReconciles
  <2> QED BY <1>1, <1>2, <1>3, <2>1 DEF Claims, IsSet, IsGone
<1> QED BY <1>4, <1>5

LEMMA LinesStayTrue ==
  ASSUME IInv, LinesTellTheTruth, [Next]_vars
  PROVE  LinesTellTheTruth'
<1> SUFFICES ASSUME NEW w \in Tasks, NEW k \in Keys, k \notin touched'[w]
             PROVE  Claims(w, k)'
  BY DEF LinesTellTheTruth, Claims
<1>1. k \notin touched[w] => Claims(w, k)
  BY DEF LinesTellTheTruth, Claims
<1>2. ASSUME NEW v \in Tasks, Advance(v) PROVE Claims(w, k)'
  BY <1>1, <1>2, NewLinesAreTrue, OldLinesStayTrue
<1>3. ASSUME NEW v \in Tasks, Kill(v) PROVE Claims(w, k)'
  BY <1>1, <1>3, OldLinesStayTrue DEF Kill, env
<1>4. ASSUME NEW v \in Tasks, Rerun(v) PROVE Claims(w, k)'
  <2>1. CASE v = w
    BY <1>4, <2>1 DEF Rerun, Claims, NoLines, IInv, TypeOK
  <2>2. CASE v # w
    BY <1>1, <1>4, <2>2, OldLinesStayTrue DEF Rerun, IInv, TypeOK
  <2> QED BY <2>1, <2>2
<1>5. CASE ForeignChange
  <2>1. PICK t \in Targets, j \in Keys, cell \in ForeignCells \cup {None} :
          /\ live' = [live EXCEPT ![t][j] = cell]
          /\ touched' = [v \in Tasks |-> IF TargetOf(v) = t THEN touched[v] \cup {j}
                                         ELSE touched[v]]
          /\ UNCHANGED <<env, body>>
    BY <1>5 DEF ForeignChange
  <2>2. live \in World /\ TargetOf(w) \in Targets
    BY DEF IInv, TypeOK, TargetOf, Job
  <2>3. k \notin touched[w] /\ ~(TargetOf(w) = t /\ j = k)
    BY <2>1
  <2>4. live'[TargetOf(w)][k] = live[TargetOf(w)][k]
    BY <2>1, <2>2, <2>3 DEF World
  <2> QED BY <1>1, <2>1, <2>3, <2>4 DEF Claims, IsSet, IsGone, WantedCell, TargetOf, env
<1>6. CASE UNCHANGED vars
  BY <1>1, <1>6, OldLinesStayTrue DEF vars
<1> QED BY <1>2, <1>3, <1>4, <1>5, <1>6 DEF Next

\* With any number of runs at work on a scope, and through every fault and
\* kill, a line a run has printed stays true until an outsider touches the entry.
THEOREM LinesAreTrue == Spec => []LinesTellTheTruth
<1>1. Init => LinesTellTheTruth
  BY DEF Init, LinesTellTheTruth, NoLines
<1>2. IInv /\ LinesTellTheTruth /\ [Next]_vars => LinesTellTheTruth'
  BY LinesStayTrue
<1> QED BY <1>1, <1>2, Invariance, PTL DEF Spec

-----------------------------------------------------------------------------
(* The end of a run.                                                       *)

Early == {"start", "ids", "depKey"} \cup Listing  \* nothing has been tried

\* The entries a run that gets to its end must have tried.
Due(w) ==
  IF NoPlan(w) \/ Cmd(w) \notin {"apply", "enforce"} THEN {}
  ELSE Managed(Plans(w)) \cup (IF Cmd(w) = "enforce" THEN Extras(Rows(w)) ELSE {})

\* What the position of a task says about the entries it has tried.
Progress(w) ==
  /\ pc[w] \in Early \cup {"error"} => body[w] = NoLines /\ failed[w] = 0
  /\ pc[w] \in Setting => Attempted(w) = Managed(Plans(w)) \ todo[w]
  /\ pc[w] = "delete" => Attempted(w) = (Managed(Plans(w)) \cup Extras(Rows(w))) \ todo[w]
  /\ pc[w] = "done" => Attempted(w) = Due(w)
  /\ pc[w] \in Listing \cup {"ids"} \cup Ahead => ~NoPlan(w)
  /\ \A k \in Keys : body[w][k] = "FAILED" => failed[w] > 0

-----------------------------------------------------------------------------
(* Frames.                                                                 *)

\* Everything the model keeps for v.
TaskState(v) == <<job[v], pc[v], snap[v], ids[v], keyring[v], todo[v], body[v], failed[v],
                  touched[v], forecast[v]>>

LEMMA AdvanceFrame ==
  ASSUME IInv, NEW w \in Tasks, Advance(w)
  PROVE  /\ UNCHANGED <<env, touched, changes>>
         /\ \A v \in Tasks \ {w} : UNCHANGED TaskState(v)
<1> USE DEF IInv, TypeOK
<1>1. CASE Begin(w) \/ Report(w) \/ Prepare(w) \/ FinishDelete(w)
  BY <1>1 DEF Begin, Report, Prepare, FinishDelete, Goto, TaskState, env
<1>2. CASE List(w)
  BY <1>2 DEF List, Goto, TaskState, env
<1>3. CASE Preview(w)
  BY <1>3 DEF Preview, Goto, TaskState, env
<1>4. CASE LookUpId(w)
  BY <1>4 DEF LookUpId, Goto, TaskState, env
<1>5. CASE FetchActionsKey(w) \/ FetchDependabotKey(w)
  BY <1>5 DEF FetchActionsKey, FetchDependabotKey, FetchKey, Goto, TaskState, env
<1>6. CASE UpdateVariable(w)
  BY <1>6 DEF UpdateVariable, Settle, Goto, TaskState, env
<1>7. CASE CreateVariable(w)
  BY <1>7 DEF CreateVariable, Settle, Goto, TaskState, env
<1>8. CASE PutSecret(w)
  BY <1>8 DEF PutSecret, Settle, TaskState, env
<1>9. CASE DeleteEntry(w)
  BY <1>9 DEF DeleteEntry, Settle, TaskState, env
<1>10. CASE FinishApply(w)
  BY <1>10 DEF FinishApply, Goto, TaskState, env
<1> QED BY <1>1, <1>2, <1>3, <1>4, <1>5, <1>6, <1>7, <1>8, <1>9, <1>10 DEF Advance

LEMMA RestartFrame ==
  ASSUME IInv, NEW w \in Tasks, Kill(w) \/ Rerun(w)
  PROVE  /\ UNCHANGED <<cfg, live, changes>>
         /\ \A v \in Tasks \ {w} : UNCHANGED TaskState(v)
BY DEF IInv, TypeOK, Kill, Rerun, Goto, TaskState, env

\* Whatever step is taken, at most one task takes it.
LEMMA StepFrame ==
  ASSUME IInv, [Next]_vars, NEW w \in Tasks
  PROVE  /\ cfg' = cfg
         /\ \/ changes' = changes /\ (Advance(w) \/ Kill(w) \/ Rerun(w))
            \/ changes' = changes /\ UNCHANGED TaskState(w)
            \/ ForeignChange /\ UNCHANGED <<job[w], pc[w], snap[w], ids[w], keyring[w], todo[w],
                                            body[w], failed[w], forecast[w]>>
<1>1. ASSUME NEW v \in Tasks, Advance(v) \/ Kill(v) \/ Rerun(v)
      PROVE  cfg' = cfg /\ changes' = changes /\ (v # w => UNCHANGED TaskState(w))
  BY <1>1, AdvanceFrame, RestartFrame DEF env
<1>2. CASE ForeignChange
  BY <1>2 DEF ForeignChange, env
<1>3. CASE UNCHANGED vars
  BY <1>3 DEF vars, TaskState
<1> QED BY <1>1, <1>2, <1>3 DEF Next

\* No step gives a task another target.
LEMMA TargetsKept ==
  ASSUME IInv, [Next]_vars, NEW w \in Tasks
  PROVE  job'[w].target = job[w].target
<1>1. CASE job'[w] = job[w]
  BY <1>1
<1>2. CASE Rerun(w)
  <2>1. PICK cmd : job' = [job EXCEPT ![w].cmd = cmd]
    BY <1>2 DEF Rerun
  <2>2. job[w] \in Job /\ w \in DOMAIN job
    BY DEF IInv, TypeOK
  <2> QED BY <2>1, <2>2 DEF Job
<1>3. job'[w] = job[w] \/ Rerun(w)
  BY StepFrame, AdvanceFrame DEF TaskState, Kill, env
<1> QED BY <1>1, <1>2, <1>3

-----------------------------------------------------------------------------
(* Progress.                                                               *)

LEMMA ProgressKept ==
  ASSUME NEW w \in Tasks, Progress(w), cfg' = cfg, job'[w] = job[w], pc'[w] = pc[w],
         snap'[w] = snap[w], todo'[w] = todo[w], body'[w] = body[w], failed'[w] = failed[w]
  PROVE  Progress(w)'
<1>1. Plans(w)' = Plans(w) /\ Cmd(w)' = Cmd(w) /\ TargetOf(w)' = TargetOf(w)
      /\ Rows(w)' = Rows(w)
  BY SameJob, SameRows
<1>2. NoPlan(w)' = NoPlan(w) /\ Attempted(w)' = Attempted(w)
  BY <1>1 DEF NoPlan, Attempted
<1>3. Due(w)' = Due(w)
  BY <1>1, <1>2 DEF Due
<1> QED BY <1>1, <1>2, <1>3 DEF Progress

\* An entry that is managed is not extra.
LEMMA ManagedIsNotExtra ==
  ASSUME IInv, NEW w \in Tasks
  PROVE  Managed(Plans(w)) \cap Extras(Rows(w)) = {}
<1> SUFFICES ASSUME NEW k \in Managed(Plans(w)), k \in Extras(Rows(w)) PROVE FALSE
  OBVIOUS
<1>1. k \in Keys /\ TargetOf(w) \in Targets
  BY DEF Managed, IInv, TypeOK, TargetOf, Job
<1>2. ~Listed(cfg, TargetOf(w), k)
  BY <1>1, ExtrasAreUnlisted DEF Rows, Plans
<1>3. Wanted(cfg, TargetOf(w), k) # None
  BY <1>1, CascadeIsPrecedence DEF Managed, Plans
<1> QED BY <1>2, <1>3 DEF Wanted, Listed, Decider, Mentions, Layers

LEMMA SettleAttempts ==
  ASSUME IInv, NEW w \in Tasks, NEW k \in Keys, NEW outcome, NEW line \in {"ok", "deleted"},
         Settle(w, k, outcome, line)
  PROVE  /\ Attempted(w)' = Attempted(w) \cup {k}
         /\ todo'[w] = todo[w] \ {k}
         /\ (\A j \in Keys : body[w][j] = "FAILED" => failed[w] > 0)
              => \A j \in Keys : body'[w][j] = "FAILED" => failed'[w] > 0
<1>1. /\ body \in [Tasks -> [Keys -> Lines]] /\ failed \in [Tasks -> Nat]
      /\ todo \in [Tasks -> SUBSET Keys]
  BY DEF IInv, TypeOK
<1>2. /\ body'[w] = [body[w] EXCEPT ![k] = IF outcome = "ok" THEN line ELSE "FAILED"]
      /\ failed'[w] = IF outcome = "ok" THEN failed[w] ELSE failed[w] + 1
      /\ todo'[w] = todo[w] \ {k}
  BY <1>1 DEF Settle
<1>3. Attempted(w)' = Attempted(w) \cup {k}
  BY <1>1, <1>2 DEF Attempted
<1>4. failed'[w] >= failed[w] /\ (outcome # "ok" => failed'[w] > 0)
  BY <1>1, <1>2
<1>5. \A j \in Keys : body'[w][j] = "FAILED" => body[w][j] = "FAILED" \/ outcome # "ok"
  BY <1>1, <1>2
<1> QED BY <1>1, <1>2, <1>3, <1>4, <1>5

LEMMA BeginEffect ==
  ASSUME IInv, NEW w \in Tasks, Begin(w)
  PROVE  /\ pc[w] = "start"
         /\ UNCHANGED <<env, live, snap, ids, keyring, todo, body, failed, touched, faults, changes>>
         /\ \/ pc'[w] = "done" /\ NoPlan(w)
            \/ pc'[w] = "error" /\ (NoPlan(w) \/ ~Resolvable(w))
            \/ /\ ~NoPlan(w) /\ Resolvable(w)
               /\ pc'[w] = IF Cmd(w) = "apply" THEN "ids" ELSE "vars"
<1> DEFINE place == CASE NoPlan(w) /\ TargetOf(w) = OrgScope -> "done"
               [] NoPlan(w) /\ TargetOf(w) # OrgScope -> "error"
               [] ~NoPlan(w) /\ ~Resolvable(w)        -> "error"
               [] ~NoPlan(w) /\ Resolvable(w)         -> IF Cmd(w) = "apply" THEN "ids" ELSE "vars"
<1>1. \/ place = "done" /\ NoPlan(w)
      \/ place = "error" /\ (NoPlan(w) \/ ~Resolvable(w))
      \/ ~NoPlan(w) /\ Resolvable(w) /\ place = IF Cmd(w) = "apply" THEN "ids" ELSE "vars"
  OBVIOUS
<1>2. /\ pc[w] = "start" /\ Goto(w, place)
      /\ UNCHANGED <<env, live, snap, ids, keyring, todo, body, failed, touched, faults, changes>>
  BY DEF Begin
<1> HIDE DEF place
<1>3. pc'[w] = place
  BY <1>2 DEF Goto, IInv, TypeOK
<1> QED BY <1>1, <1>2, <1>3

\* A step that tries nothing and does not end the run.
LEMMA EarlyProgress ==
  ASSUME IInv, NEW w \in Tasks, Progress(w), pc[w] \in Early \ {"start"}, pc'[w] \in Early,
         cfg' = cfg, job' = job, body' = body, failed' = failed
  PROVE  Progress(w)'
<1>1. ~NoPlan(w) /\ NoPlan(w)' = NoPlan(w)
  BY DEF Progress, Early, Ahead, NoPlan, TargetOf
<1> QED BY <1>1 DEF Progress, Early, Listing, Kinds, Setting, Ahead

\* A run that is cut short promises nothing more.
LEMMA BrokenProgress ==
  ASSUME IInv, NEW w \in Tasks, Progress(w),
         pc'[w] = "killed" \/ (pc[w] \in Early /\ pc'[w] = "error"),
         body' = body, failed' = failed
  PROVE  Progress(w)'
BY DEF Progress, Early, Listing, Kinds, Setting, Ahead

LEMMA NothingAttempted ==
  ASSUME IInv, NEW w \in Tasks, body[w] = NoLines
  PROVE  Attempted(w) = {}
BY DEF Attempted, NoLines

LEMMA ReadingProgress ==
  ASSUME IInv, NEW w \in Tasks, Progress(w),
         Begin(w) \/ List(w) \/ Report(w) \/ Prepare(w) \/ LookUpId(w) \/ FetchActionsKey(w)
  PROVE  Progress(w)'
<1> USE DEF IInv, TypeOK
<1>1. UNCHANGED <<env, body, failed>>
  BY DEF Begin, List, Report, Prepare, LookUpId, FetchActionsKey, env
<1>2. CASE Begin(w)
  <2>1. body[w] = NoLines /\ failed[w] = 0
    BY <1>2, BeginEffect DEF Progress, Early
  <2>2. NoPlan(w)' = NoPlan(w) /\ Attempted(w)' = {} /\ (NoPlan(w) => Due(w)' = {})
    BY <1>1, <2>1, NothingAttempted DEF NoPlan, TargetOf, Attempted, Due, env
  <2> QED BY <1>1, <1>2, <2>1, <2>2, BeginEffect
          DEF Progress, Early, Listing, Kinds, Setting, Ahead, NoLines, env
<1>3. CASE List(w)
  <2>1. pc[w] \in Kinds /\ pc'[w] \in {"secrets", "dependabot", "live", "error"}
    BY <1>3 DEF List, Goto, NextListing, Kinds
  <2> QED BY <1>1, <2>1, EarlyProgress, BrokenProgress DEF Early, Listing, Kinds, env
<1>4. CASE Report(w)
  <2>1. pc[w] = "live" /\ Cmd(w) = "audit" /\ pc'[w] = "done"
    BY <1>4 DEF Report, Goto
  <2>2. body[w] = NoLines /\ Attempted(w)' = {} /\ Due(w)' = {}
    BY <1>1, <2>1, NothingAttempted DEF Progress, Early, Listing, Attempted, Due, Cmd, env
  <2> QED BY <1>1, <2>1, <2>2 DEF Progress, Early, Listing, Kinds, Setting, Ahead, NoLines
<1>5. CASE Prepare(w) \/ LookUpId(w) \/ FetchActionsKey(w)
  <2>1. pc[w] \in {"live", "ids"} /\ pc'[w] \in {"ids", "depKey", "error"}
    BY <1>5 DEF Prepare, LookUpId, FetchActionsKey, FetchKey, Goto
  <2> QED BY <1>1, <2>1, EarlyProgress, BrokenProgress DEF Early, Listing, env
<1> QED BY <1>2, <1>3, <1>4, <1>5

LEMMA PreviewProgress ==
  ASSUME IInv, NEW w \in Tasks, Progress(w), Preview(w)
  PROVE  Progress(w)'
<1> USE DEF IInv, TypeOK
<1>1. pc[w] = "live" /\ Cmd(w) = "dry-run" /\ pc'[w] = "done" /\ UNCHANGED <<env, failed>>
  BY DEF Preview, Goto
<1>2. \A k \in Keys : body'[w][k] \in {"would-set", "would-delete", "none"}
  BY DEF Preview
<1>3. Attempted(w)' = {} /\ Due(w)' = {}
  BY <1>1, <1>2 DEF Attempted, Due, Cmd, env
<1> QED BY <1>1, <1>2, <1>3 DEF Progress, Early, Listing, Kinds, Setting, Ahead

LEMMA FetchDependabotKeyProgress ==
  ASSUME IInv, NEW w \in Tasks, Progress(w), FetchDependabotKey(w)
  PROVE  Progress(w)'
<1> USE DEF IInv, TypeOK
<1>1. /\ pc[w] = "depKey" /\ pc'[w] \in {"apply", "error"} /\ UNCHANGED <<env, body, failed>>
      /\ pc'[w] = "apply" => todo'[w] = Managed(Plans(w))
  BY DEF FetchDependabotKey, FetchKey, Goto
<1>2. ~NoPlan(w) /\ NoPlan(w)' = NoPlan(w) /\ Plans(w)' = Plans(w)
  BY <1>1, SameJob DEF Progress, Ahead, NoPlan, TargetOf, env
<1>3. body[w] = NoLines /\ Attempted(w)' = {}
  BY <1>1, NothingAttempted DEF Progress, Early, Attempted
<1> QED BY <1>1, <1>2, <1>3 DEF Progress, Early, Listing, Kinds, Setting, Ahead, NoLines

\* A write phase that has settled k, or goes on to create it.
LEMMA SettlingProgress ==
  ASSUME IInv, NEW w \in Tasks, Progress(w), NEW k \in todo[w], NEW outcome,
         NEW line \in {"ok", "deleted"},
         UNCHANGED <<env, snap>>,
         Settle(w, k, outcome, line) \/ UNCHANGED <<todo, body, failed>>,
         \/ pc[w] \in Setting /\ pc'[w] \in Setting
         \/ pc[w] = "delete" /\ pc'[w] = "delete"
  PROVE  Progress(w)'
<1> USE DEF IInv, TypeOK
<1>1. /\ NoPlan(w)' = NoPlan(w) /\ Plans(w)' = Plans(w) /\ Rows(w)' = Rows(w)
      /\ ~NoPlan(w)
  BY SameJob, SameRows DEF Progress, Setting, Ahead, NoPlan, TargetOf, env
<1>2. k \in Keys /\ Ready(w)
  OBVIOUS
<1>3. pc[w] \in Setting => todo[w] \subseteq Managed(Plans(w))
  BY <1>2 DEF Ready
<1>4. pc[w] = "delete" => todo[w] \subseteq Extras(Rows(w))
  BY <1>2 DEF Ready
<1>5. CASE UNCHANGED <<todo, body, failed>>
  BY <1>1, <1>5 DEF Progress, Attempted, Early, Listing, Kinds, Setting, Ahead
<1>6. CASE Settle(w, k, outcome, line)
  <2>1. /\ Attempted(w)' = Attempted(w) \cup {k} /\ todo'[w] = todo[w] \ {k}
        /\ \A j \in Keys : body'[w][j] = "FAILED" => failed'[w] > 0
    <3> HIDE DEF IInv, TypeOK
    <3>1. \A j \in Keys : body[w][j] = "FAILED" => failed[w] > 0
      BY DEF Progress
    <3> QED BY <1>2, <1>6, <3>1, SettleAttempts
  <2>2. pc[w] \in Setting => Attempted(w)' = Managed(Plans(w)) \ todo'[w]
    BY <1>3, <2>1 DEF Progress
  <2>3. pc[w] = "delete" => Attempted(w)' = (Managed(Plans(w)) \cup Extras(Rows(w))) \ todo'[w]
    BY <1>4, <2>1 DEF Progress
  <2> QED BY <1>1, <2>1, <2>2, <2>3 DEF Progress, Early, Listing, Kinds, Setting, Ahead
<1> QED BY <1>5, <1>6

LEMMA WritingProgress ==
  ASSUME IInv, NEW w \in Tasks, Progress(w),
         UpdateVariable(w) \/ CreateVariable(w) \/ PutSecret(w) \/ DeleteEntry(w)
  PROVE  Progress(w)'
<1>1. UNCHANGED <<env, snap>>
  BY DEF UpdateVariable, CreateVariable, PutSecret, DeleteEntry
<1>2. CASE UpdateVariable(w)
  <2>1. PICK k \in todo[w], answer \in Writes :
          Settle(w, k, answer, "ok") \/ UNCHANGED <<todo, body, failed>>
    BY <1>2 DEF UpdateVariable
  <2>2. pc[w] \in Setting /\ pc'[w] \in Setting
    BY <1>2 DEF UpdateVariable, Goto, Setting, IInv, TypeOK
  <2> QED BY <1>1, <2>1, <2>2, SettlingProgress
<1>3. CASE CreateVariable(w)
  <2>1. PICK k \in todo[w], outcome \in Outcomes : Settle(w, k, outcome, "ok")
    BY <1>3 DEF CreateVariable, Outcomes
  <2>2. pc[w] \in Setting /\ pc'[w] \in Setting
    BY <1>3 DEF CreateVariable, Goto, Setting, IInv, TypeOK
  <2> QED BY <1>1, <2>1, <2>2, SettlingProgress
<1>4. CASE PutSecret(w)
  <2>1. PICK k \in todo[w], outcome \in Outcomes : Settle(w, k, outcome, "ok")
    BY <1>4 DEF PutSecret, Outcomes
  <2>2. pc[w] \in Setting /\ pc'[w] \in Setting
    BY <1>4 DEF PutSecret, Setting
  <2> QED BY <1>1, <2>1, <2>2, SettlingProgress
<1>5. CASE DeleteEntry(w)
  <2>1. PICK k \in todo[w], outcome \in Outcomes : Settle(w, k, outcome, "deleted")
    BY <1>5 DEF DeleteEntry, Outcomes
  <2>2. pc[w] = "delete" /\ pc'[w] = "delete"
    BY <1>5 DEF DeleteEntry
  <2> QED BY <1>1, <2>1, <2>2, SettlingProgress
<1> QED BY <1>2, <1>3, <1>4, <1>5

LEMMA FinishingProgress ==
  ASSUME IInv, NEW w \in Tasks, Progress(w), FinishApply(w) \/ FinishDelete(w)
  PROVE  Progress(w)'
<1> USE DEF IInv, TypeOK
<1>1. UNCHANGED <<env, snap, body, failed>> /\ pc[w] \in Ahead /\ todo[w] = {}
  BY DEF FinishApply, FinishDelete, Ahead
<1>2. /\ NoPlan(w)' = NoPlan(w) /\ Plans(w)' = Plans(w) /\ Rows(w)' = Rows(w)
      /\ Cmd(w)' = Cmd(w) /\ ~NoPlan(w) /\ Cmd(w) \in {"apply", "enforce"}
      /\ Attempted(w)' = Attempted(w)
  BY <1>1, SameJob, SameRows DEF Progress, Ready, Ahead, NoPlan, TargetOf, Attempted, env
<1>3. CASE FinishApply(w) /\ Cmd(w) = "enforce"
  <2>1. pc'[w] = "delete" /\ todo'[w] = Extras(Rows(w))
    BY <1>3 DEF FinishApply, Goto, Extras
  <2>2. Attempted(w) = Managed(Plans(w))
    BY <1>1, <1>3 DEF Progress, FinishApply, Setting
  <2>3. Attempted(w)' = (Managed(Plans(w)) \cup Extras(Rows(w))) \ todo'[w]
    BY <1>2, <2>1, <2>2, ManagedIsNotExtra
  <2> QED BY <1>1, <1>2, <2>1, <2>3 DEF Progress, Early, Listing, Kinds, Setting, Ahead
<1>4. CASE FinishApply(w) /\ Cmd(w) # "enforce"
  <2>1. pc'[w] = "done" /\ Attempted(w) = Managed(Plans(w))
    BY <1>1, <1>4 DEF FinishApply, Goto, Progress, Setting
  <2>2. Attempted(w)' = Due(w)'
    BY <1>2, <1>4, <2>1 DEF Due
  <2> QED BY <1>1, <2>1, <2>2 DEF Progress, Early, Listing, Kinds, Setting, Ahead
<1>5. CASE FinishDelete(w)
  <2>1. pc[w] = "delete" /\ pc'[w] = "done" /\ Cmd(w) = "enforce"
    BY <1>5 DEF FinishDelete, Goto, Ready
  <2>2. Attempted(w)' = Due(w)'
    BY <1>1, <1>2, <2>1 DEF Due, Progress
  <2> QED BY <1>1, <2>1, <2>2 DEF Progress, Early, Listing, Kinds, Setting, Ahead
<1> QED BY <1>3, <1>4, <1>5

LEMMA RestartProgress ==
  ASSUME IInv, NEW w \in Tasks, Progress(w), Kill(w) \/ Rerun(w)
  PROVE  Progress(w)'
<1> USE DEF IInv, TypeOK
<1>1. CASE Kill(w)
  BY <1>1, BrokenProgress DEF Kill, Goto
<1>2. CASE Rerun(w)
  <2>1. pc'[w] = "start" /\ body'[w] = NoLines /\ failed'[w] = 0
    BY <1>2 DEF Rerun, Goto
  <2> QED BY <2>1 DEF Progress, Early, Listing, Kinds, Setting, Ahead, NoLines
<1> QED BY <1>1, <1>2

LEMMA ProgressIsInductive ==
  ASSUME IInv, [Next]_vars, NEW w \in Tasks, Progress(w)
  PROVE  Progress(w)'
<1>1. CASE Advance(w)
  BY <1>1, ReadingProgress, PreviewProgress, FetchDependabotKeyProgress, WritingProgress,
     FinishingProgress DEF Advance
<1>2. CASE Kill(w) \/ Rerun(w)
  BY <1>2, RestartProgress
<1>3. CASE UNCHANGED TaskState(w) \/ ForeignChange
  BY <1>3, StepFrame, ProgressKept DEF TaskState, ForeignChange, env
<1> QED BY <1>1, <1>2, <1>3, StepFrame

LEMMA ProgressAtFirst ==
  ASSUME Init, NEW w \in Tasks
  PROVE  Progress(w)
BY DEF Init, Progress, Early, Listing, Kinds, Setting, Ahead, NoLines

-----------------------------------------------------------------------------
(* All or nothing.                                                         *)

\* Whoever writes gets a line it did not have.
LEMMA WritersGetLines ==
  ASSUME IInv, NEW w \in Tasks, Advance(w), Progress(w), live' # live
  PROVE  body'[w] # body[w]
<1>1. PICK k \in todo[w], outcome \in Outcomes, line \in {"ok", "deleted"} :
        Settle(w, k, outcome, line) /\ pc[w] \in Setting \cup {"delete"}
  <2>1. UpdateVariable(w) \/ CreateVariable(w) \/ PutSecret(w) \/ DeleteEntry(w)
    BY DEF Advance, Begin, List, Report, Preview, Prepare, LookUpId, FetchActionsKey,
       FetchDependabotKey, FinishApply, FinishDelete
  <2>2. CASE UpdateVariable(w)
    BY <2>2 DEF UpdateVariable, Setting, Outcomes
  <2>3. CASE CreateVariable(w)
    BY <2>3 DEF CreateVariable, Setting, Outcomes
  <2>4. CASE PutSecret(w)
    BY <2>4 DEF PutSecret, Setting, Outcomes
  <2>5. CASE DeleteEntry(w)
    BY <2>5 DEF DeleteEntry, Outcomes
  <2> QED BY <2>1, <2>2, <2>3, <2>4, <2>5
<1>2. k \in Keys /\ body \in [Tasks -> [Keys -> Lines]]
  BY DEF IInv, TypeOK
<1>3. k \notin Attempted(w)
  BY <1>1 DEF Progress
<1>4. body'[w][k] \in {"ok", "deleted", "FAILED"}
  BY <1>1, <1>2 DEF Settle
<1> QED BY <1>2, <1>3, <1>4 DEF Attempted

LEMMA StepIsActionable ==
  ASSUME IInv, \A w \in Tasks : Progress(w), [Next]_vars, changes' = changes,
         NEW t \in Targets, live'[t] # live[t]
  PROVE  /\ Actionable(t)
         /\ \E w \in Tasks : /\ job[w].target = t
                             /\ job[w].cmd \in {"apply", "enforce"}
                             /\ body'[w] # body[w]
<1>1. PICK w \in Tasks, j \in Keys : (Sets(w, j) \/ Deletes(w, j)) /\ Advance(w)
  BY WritersAreKnown
<1>2. t = TargetOf(w)
  <2>1. PICK cell, answer : Store(w, j, cell, answer)
    BY <1>1 DEF Sets, Deletes
  <2> QED BY <2>1 DEF Store, IInv, TypeOK, World
<1>3. pc[w] \in Ahead
  BY <1>1 DEF Sets, Deletes, Ahead, Setting
<1>4. \A r \in SelectedNames(w) : ids[w][r] # None
  BY <1>3 DEF IInv, Ready
<1>5. Actionable(t) /\ Cmd(w) \in {"apply", "enforce"}
  BY <1>2, <1>3, <1>4, WritersAreActionable
<1>6. body'[w] # body[w]
  BY <1>1, WritersGetLines
<1> QED BY <1>2, <1>5, <1>6 DEF TargetOf, Cmd

\* No run writes to a scope of which some value or some selected repository
\* does not resolve; and a run that ends with an error, for whatever reason, has
\* tried no entry: what fails in the preflight has written nothing.
THEOREM PreflightComesFirst == Spec => AllOrNothing
<1> DEFINE Past == \A w \in Tasks : Progress(w)
           Step ==
             /\ changes' = changes =>
                  \A t \in Targets : live'[t] # live[t] =>
                    /\ Actionable(t)
                    /\ \E w \in Tasks : /\ job[w].target = t
                                        /\ job[w].cmd \in {"apply", "enforce"}
                                        /\ body'[w] # body[w]
             /\ \A w \in Tasks : pc'[w] = "error" => body'[w] = NoLines
<1>1. Init => Past
  BY ProgressAtFirst
<1>2. IInv /\ Past /\ [Next]_vars => Past'
  BY ProgressIsInductive
<1>3. IInv /\ Past /\ Past' /\ [Next]_vars => [Step]_vars
  <2> SUFFICES ASSUME IInv, Past, Past', [Next]_vars PROVE Step
    OBVIOUS
  <2>1. \A w \in Tasks : pc'[w] = "error" => body'[w] = NoLines
    BY DEF Progress
  <2> QED BY <2>1, StepIsActionable
<1>4. AllOrNothing <=> [][Step]_vars
  BY DEF AllOrNothing
<1> HIDE DEF Step, Past
<1> QED BY <1>1, <1>2, <1>3, <1>4, Invariance, PTL DEF Spec

-----------------------------------------------------------------------------
(* Freshness.                                                              *)

\* One page holds all the entries of a kind, however many there are.
Fits == /\ IsFiniteSet(Keys)
        /\ \A kind \in Kinds : Cardinality({k \in Keys : Kind(k) = kind}) <= PageSize

\* The kinds w has listed and goes by from now on.
KindsListed(w) ==
  CASE pc[w] = "secrets" -> {"vars"}
    [] pc[w] = "dependabot" -> {"vars", "secrets"}
    [] /\ pc[w] \in {"live", "ids", "done"} \cup Ahead
       /\ Cmd(w) # "apply" /\ ~NoPlan(w) -> Kinds
    [] OTHER -> {}

\* An unlisted entry that w's listings did not show is still not there: no task
\* creates what the configuration does not list.
Fresh(w) ==
  \A k \in Keys \ touched[w] :
    Kind(k) \in KindsListed(w) /\ ~Listed(cfg, TargetOf(w), k) /\ snap[w][k] = None
      => live[TargetOf(w)][k] = None

\* A page that need not be cut shows all there is.
LEMMA PageIsComplete ==
  ASSUME Fits, NEW target, NEW kind \in Kinds, NEW page \in Pages(target, kind)
  PROVE  page = {k \in Keys : Kind(k) = kind /\ live[target][k] # None}
<1> DEFINE named == {k \in Keys : Kind(k) = kind}
           present == {k \in Keys : Kind(k) = kind /\ live[target][k] # None}
<1>1. IsFiniteSet(named) /\ named \in SUBSET Keys
  BY FS_Subset DEF Fits
<1>2. IsFiniteSet(present) /\ Cardinality(present) <= Cardinality(named)
  BY <1>1, FS_Subset
<1>3. Cardinality(named) <= PageSize
  BY DEF Fits
<1>4. page \in SUBSET present /\ (page = present \/ Cardinality(page) = PageSize)
  BY DEF Pages
<1>5. Cardinality(page) <= Cardinality(present) /\ (Cardinality(present) = Cardinality(page) => present = page)
  BY <1>2, <1>4, FS_Subset
<1>6. Cardinality(page) \in Nat /\ Cardinality(present) \in Nat /\ Cardinality(named) \in Nat
  BY <1>1, <1>2, <1>4, FS_Subset, FS_CardinalityType
<1> QED BY <1>2, <1>3, <1>4, <1>5, <1>6, BoundAssumption

\* Whatever the tool does, an unlisted entry that is not there does not appear.
LEMMA NothingUnlistedAppears ==
  ASSUME IInv, [Next]_vars, changes' = changes, NEW t \in Targets, NEW k \in Keys,
         ~Listed(cfg, t, k), live[t][k] = None
  PROVE  live'[t][k] = None
<1>1. cfg' = cfg
  BY AdvanceFrame, RestartFrame DEF Next, vars, ForeignChange, env
<1>2. Wanted(cfg, t, k) # None => Listed(cfg, t, k)
  BY DEF Wanted, Listed, Decider, Mentions, Layers
<1>3. CASE live'[t][k] # live[t][k]
  <2>1. IsSet(t, k)' \/ IsGone(t, k)'
    BY <1>3, StepReconciles
  <2> QED BY <1>1, <1>2, <2>1 DEF IsSet, IsGone
<1> QED BY <1>3

\* The listings of w after a step of its own that gave it no new one.
LEMMA FreshKept ==
  ASSUME IInv, [Next]_vars, changes' = changes, NEW w \in Tasks, Fresh(w),
         job'[w].target = job[w].target, snap'[w] = snap[w], touched'[w] = touched[w],
         KindsListed(w)' \subseteq KindsListed(w)
  PROVE  Fresh(w)'
<1>1. TargetOf(w)' = TargetOf(w) /\ TargetOf(w) \in Targets
  BY DEF TargetOf, IInv, TypeOK, Job
<1>2. cfg' = cfg
  BY StepFrame
<1> QED BY <1>1, <1>2, NothingUnlistedAppears DEF Fresh

\* A listing shows something of every entry that is there.
LEMMA PresentIsSeen ==
  ASSUME IInv, NEW t \in Targets, NEW k \in Keys, live[t][k] # None
  PROVE  View(k, live[t][k]) # None
<1>1. live[t][k] \in Cell
  BY DEF IInv, TypeOK, World
<1> QED BY <1>1, UnsetAssumption, SeenAssumption DEF View, Cell

\* What a listing adds to the snapshot and to the kinds listed.
LEMMA ListEffect ==
  ASSUME IInv, NEW w \in Tasks, List(w)
  PROVE  /\ pc[w] \in Kinds /\ UNCHANGED <<env, live, body, failed, touched>>
         /\ \/ /\ pc'[w] = "error" /\ KindsListed(w)' = {} /\ snap' = snap
               /\ faults' = faults + 1
            \/ /\ pc'[w] = NextListing[pc[w]]
               /\ pc[w] \notin KindsListed(w)
               /\ KindsListed(w)' \subseteq KindsListed(w) \cup {pc[w]}
               /\ pc'[w] \in Kinds \/ (Cmd(w) # "apply" /\ ~NoPlan(w))
                    => KindsListed(w)' = KindsListed(w) \cup {pc[w]}
               /\ \E page \in Pages(TargetOf(w), pc[w]) : \A k \in Keys :
                    snap'[w][k] = IF k \in page THEN View(k, live[TargetOf(w)][k]) ELSE snap[w][k]
<1> DEFINE t == TargetOf(w)
<1>1. PICK answer \in Reads, page \in Pages(t, pc[w]) :
        /\ Reply(answer)
        /\ IF answer = "ok"
           THEN /\ Goto(w, NextListing[pc[w]])
                /\ snap' = [snap EXCEPT ![w] =
                      [k \in Keys |-> IF k \in page THEN View(k, live[t][k]) ELSE @[k]]]
           ELSE Goto(w, "error") /\ snap' = snap
  BY DEF List
<1>2. pc[w] \in Kinds /\ UNCHANGED <<env, live, body, failed, touched>>
  BY DEF List
<1>3. CASE answer # "ok"
  BY <1>1, <1>2, <1>3 DEF Goto, Reply, IInv, TypeOK, KindsListed, Ahead
<1>4. CASE answer = "ok"
  <2>1. pc'[w] = NextListing[pc[w]]
    BY <1>1, <1>4 DEF Goto, IInv, TypeOK
  <2>2. \A k \in Keys : snap'[w][k] = IF k \in page THEN View(k, live[t][k]) ELSE snap[w][k]
    BY <1>1, <1>4 DEF IInv, TypeOK
  <2>3. Cmd(w)' = Cmd(w) /\ NoPlan(w)' = NoPlan(w)
    BY <1>2 DEF Cmd, NoPlan, TargetOf, env
  <2>4. /\ pc[w] \notin KindsListed(w)
        /\ KindsListed(w)' \subseteq KindsListed(w) \cup {pc[w]}
        /\ pc'[w] \in Kinds \/ (Cmd(w) # "apply" /\ ~NoPlan(w))
                    => KindsListed(w)' = KindsListed(w) \cup {pc[w]}
    <3>1. CASE pc[w] = "vars"
      BY <2>1, <3>1 DEF NextListing, Kinds, KindsListed, Ahead
    <3>2. CASE pc[w] = "secrets"
      BY <2>1, <3>2 DEF NextListing, Kinds, KindsListed, Ahead
    <3>3. CASE pc[w] = "dependabot"
      BY <2>1, <2>3, <3>3 DEF NextListing, Kinds, KindsListed, Ahead
    <3> QED BY <1>2, <3>1, <3>2, <3>3 DEF Kinds
  <2> QED BY <1>2, <2>1, <2>2, <2>4
<1> QED BY <1>3, <1>4

LEMMA ListingIsFresh ==
  ASSUME Fits, IInv, NEW w \in Tasks, Fresh(w), List(w)
  PROVE  Fresh(w)'
<1> DEFINE t == TargetOf(w)
<1>1. pc[w] \in Kinds /\ UNCHANGED <<env, live, touched>>
  BY ListEffect
<1>2. t' = t /\ t \in Targets /\ cfg' = cfg
  BY <1>1 DEF TargetOf, IInv, TypeOK, Job, env
<1>3. CASE KindsListed(w)' = {}
  BY <1>3 DEF Fresh
<1>4. CASE KindsListed(w)' # {}
  <2>1. PICK page \in Pages(t, pc[w]) : \A k \in Keys :
          snap'[w][k] = IF k \in page THEN View(k, live[t][k]) ELSE snap[w][k]
    BY <1>4, ListEffect
  <2>2. KindsListed(w)' \subseteq KindsListed(w) \cup {pc[w]}
    BY <1>4, ListEffect
  <2>3. page = {k \in Keys : Kind(k) = pc[w] /\ live[t][k] # None}
    BY <1>1, PageIsComplete
  <2>4. ASSUME NEW k \in Keys \ touched[w], Kind(k) \in KindsListed(w)',
               ~Listed(cfg, t, k), snap'[w][k] = None
        PROVE  live[t][k] = None
    <3>1. CASE k \in page
      BY <1>2, <2>1, <2>3, <2>4, <3>1, PresentIsSeen
    <3>2. CASE k \notin page
      BY <2>1, <2>2, <2>3, <2>4, <3>2 DEF Fresh
    <3> QED BY <3>1, <3>2
  <2> QED BY <1>1, <1>2, <2>4 DEF Fresh
<1> QED BY <1>3, <1>4

\* No action but List adds to the kinds that count as listed.
LEMMA KindsListedShrink ==
  ASSUME IInv, NEW w \in Tasks, Advance(w), ~List(w)
  PROVE  KindsListed(w)' \subseteq KindsListed(w) /\ snap'[w] = snap[w]
<1> USE DEF IInv, TypeOK
<1>1. UNCHANGED <<env, snap>>
  BY DEF Advance, Begin, Report, Preview, Prepare, LookUpId, FetchActionsKey, FetchDependabotKey,
     UpdateVariable, CreateVariable, PutSecret, FinishApply, DeleteEntry, FinishDelete, env
<1>2. Cmd(w)' = Cmd(w) /\ NoPlan(w)' = NoPlan(w)
  BY <1>1 DEF Cmd, NoPlan, TargetOf, env
<1>3. CASE Begin(w)
  BY <1>2, <1>3, BeginEffect DEF KindsListed, Ahead
<1>4. CASE ~Begin(w)
  <2>1. /\ pc[w] \in {"live", "ids"} \cup Ahead
        /\ pc'[w] \in {"ids", "done", "error"} \cup Ahead
    BY <1>4 DEF Advance, Report, Preview, Prepare, LookUpId, FetchActionsKey, FetchDependabotKey,
       FetchKey, UpdateVariable, CreateVariable, PutSecret, FinishApply, DeleteEntry,
       FinishDelete, Goto, Ahead
  <2>2. KindsListed(w)' = {} \/ (KindsListed(w)' = Kinds /\ Cmd(w) # "apply" /\ ~NoPlan(w))
    BY <1>2, <2>1 DEF KindsListed, Ahead
  <2>3. Cmd(w) # "apply" /\ ~NoPlan(w) => KindsListed(w) = Kinds
    BY <2>1 DEF KindsListed, Ahead
  <2> QED BY <1>1, <2>2, <2>3
<1> QED BY <1>1, <1>3, <1>4

LEMMA FreshIsInductive ==
  ASSUME Fits, IInv, [Next]_vars, NEW w \in Tasks, Fresh(w)
  PROVE  Fresh(w)'
<1>1. CASE Advance(w)
  <2>1. CASE List(w)
    BY <2>1, ListingIsFresh
  <2>2. CASE ~List(w)
    BY <1>1, <2>2, KindsListedShrink, AdvanceFrame, FreshKept DEF env
  <2> QED BY <2>1, <2>2
<1>2. CASE Kill(w) \/ Rerun(w)
  BY <1>2 DEF Kill, Rerun, Goto, IInv, TypeOK, Fresh, KindsListed, Ahead
<1>3. CASE changes' = changes /\ UNCHANGED TaskState(w)
  <2>1. KindsListed(w)' = KindsListed(w)
    BY <1>3, StepFrame, SameJob DEF KindsListed, NoPlan, TaskState, TargetOf
  <2> QED BY <1>3, <2>1, FreshKept DEF TaskState
<1>4. CASE ForeignChange
  <2>1. PICK t \in Targets, j \in Keys, cell \in ForeignCells \cup {None} :
          /\ live' = [live EXCEPT ![t][j] = cell]
          /\ touched' = [v \in Tasks |-> IF TargetOf(v) = t THEN touched[v] \cup {j}
                                         ELSE touched[v]]
          /\ UNCHANGED <<env, pc, snap>>
    BY <1>4 DEF ForeignChange
  <2>2. live \in World /\ TargetOf(w) \in Targets /\ TargetOf(w)' = TargetOf(w)
    BY <2>1 DEF IInv, TypeOK, TargetOf, Job, env
  <2>3. KindsListed(w)' = KindsListed(w)
    <3>1. Cmd(w)' = Cmd(w) /\ NoPlan(w)' = NoPlan(w)
      BY <2>1 DEF Cmd, NoPlan, TargetOf, env
    <3> QED BY <2>1, <3>1 DEF KindsListed
  <2>4. \A k \in Keys \ touched'[w] : k \notin touched[w] /\ live'[TargetOf(w)][k] = live[TargetOf(w)][k]
    BY <2>1, <2>2 DEF World
  <2> QED BY <2>1, <2>2, <2>3, <2>4 DEF Fresh, env
<1> QED BY <1>1, <1>2, <1>3, <1>4, StepFrame

LEMMA FreshAtFirst ==
  ASSUME Init, NEW w \in Tasks
  PROVE  Fresh(w)
BY DEF Init, Fresh, KindsListed, Ahead

-----------------------------------------------------------------------------
(* The exit code.                                                          *)

\* What the exit code speaks of was tried, nothing failed, and what was never
\* tried because no listing showed it is not there.
LEMMA HonestExit ==
  ASSUME IInv, LinesTellTheTruth, NEW w \in Tasks, Progress(w), Fresh(w),
         pc[w] = "done", ~NoPlan(w), ExitCode(w) = 0, NEW k \in Keys \ touched[w]
  PROVE  /\ Cmd(w) \in {"apply", "enforce"} /\ Wanted(cfg, TargetOf(w), k) # None
              => IsSet(TargetOf(w), k)
         /\ Cmd(w) = "enforce" /\ ~Listed(cfg, TargetOf(w), k) => IsGone(TargetOf(w), k)
<1> DEFINE t == TargetOf(w)
<1>1. t \in Targets
  BY DEF IInv, TypeOK, TargetOf, Job
<1>2. failed[w] = 0
  BY DEF ExitCode, IInv, TypeOK
<1>3. k \in Attempted(w) => body[w][k] \in {"ok", "deleted"}
  BY <1>2 DEF Attempted, Progress
<1>4. Wanted(cfg, t, k) # None => Listed(cfg, t, k)
  BY DEF Wanted, Listed, Decider, Mentions, Layers
<1>5. /\ body[w][k] = "ok" => IsSet(t, k)
      /\ body[w][k] = "deleted" => IsGone(t, k)
  BY DEF LinesTellTheTruth
<1>6. ASSUME Cmd(w) \in {"apply", "enforce"}, Wanted(cfg, t, k) # None
      PROVE  IsSet(t, k)
  <2>1. k \in Managed(Plans(w))
    BY <1>1, <1>6, CascadeIsPrecedence DEF Managed, Plans
  <2>2. k \in Attempted(w)
    BY <1>6, <2>1 DEF Progress, Due
  <2> QED BY <1>3, <1>4, <1>5, <1>6, <2>2 DEF IsGone
<1>7. ASSUME Cmd(w) = "enforce", ~Listed(cfg, t, k)
      PROVE  IsGone(t, k)
  <2>1. CASE snap[w][k] = None
    <3>1. Kind(k) \in KindsListed(w)
      BY <1>7, KeysAssumption DEF KindsListed, Kind, Ahead
    <3> QED BY <1>7, <2>1, <3>1 DEF Fresh, IsGone
  <2>2. CASE snap[w][k] # None
    <3>1. k \in Extras(Rows(w))
      <4>1. Plans(w)[k].action = "none"
        BY <1>1, <1>4, <1>7, CascadeIsPrecedence DEF Plans
      <4> QED BY <2>2, <4>1 DEF Extras, Rows, Compute, UnmanagedStatus, EffectiveIgnored
    <3>2. k \in Attempted(w)
      BY <1>7, <3>1 DEF Progress, Due
    <3> QED BY <1>3, <1>4, <1>5, <1>7, <3>2 DEF IsSet
  <2> QED BY <2>1, <2>2
<1> QED BY <1>6, <1>7

\* If a page holds all the entries of a kind, exit code 0 of an apply means that
\* every managed entry is as configured, and of an enforce also that nothing
\* unlisted is left, whatever other runs, faults and kills there were, and but
\* for the entries outsiders touched meanwhile.
THEOREM ExitCodeIsHonest ==
  ASSUME Fits
  PROVE  Spec => []ExitZeroMeansReconciled
<1> DEFINE Past == \A w \in Tasks : Progress(w) /\ Fresh(w)
<1>1. Init => Past
  BY ProgressAtFirst, FreshAtFirst
<1>2. IInv /\ Past /\ [Next]_vars => Past'
  BY ProgressIsInductive, FreshIsInductive
<1>3. IInv /\ LinesTellTheTruth /\ Past => ExitZeroMeansReconciled
  BY HonestExit DEF ExitZeroMeansReconciled
<1> HIDE DEF Past
<1> QED BY <1>1, <1>2, <1>3, Invariance, LinesAreTrue, PTL DEF Spec

=============================================================================

----------------------------- MODULE ScopeRefines -----------------------------
(***************************************************************************)
(* Scope implements Reconcile, step by step: a call that only reads is a   *)
(* stuttering step, a write that is answered an attempt, and the ends of   *)
(* the phases are Commit, Turn and Stop.                                   *)
(***************************************************************************)
EXTENDS ScopeSafety

\* The abstract variables.
Goals  == [w \in Tasks |-> GoalOf(w)]
Phases == [w \in Tasks |-> Phase(pc[w])]
Tried  == [w \in Tasks |-> Attempted(w)]

LEMMA PhaseValues ==
  /\ \A place \in Early : Phase(place) = "observing"
  /\ \A place \in Setting : Phase(place) = "setting"
  /\ Phase("delete") = "pruning"
  /\ \A place \in Terminal : Phase(place) = "over"
<1>1. \A place \in Early : Phase(place) = "observing"
  BY DEF Phase, Early, Listing, Kinds, Terminal
<1>2. Phase("apply") = "setting" /\ Phase("create") = "setting"
  BY DEF Phase, Terminal
<1>3. Phase("delete") = "pruning"
  BY DEF Phase, Terminal
<1>4. Phase("done") = "over" /\ Phase("error") = "over" /\ Phase("killed") = "over"
  BY DEF Phase, Terminal
<1> QED BY <1>1, <1>2, <1>3, <1>4 DEF Setting, Terminal

LEMMA WantedCellType ==
  ASSUME IInv, NEW t \in Targets, NEW k \in Keys, Actionable(t), Wanted(cfg, t, k) # None
  PROVE  WantedCell(t, k) \in Cell /\ WantedCell(t, k) # None
<1> DEFINE entry == Wanted(cfg, t, k)
<1>1. /\ entry.val \in Values \cup {Unset} /\ entry.vis \in Visibilities \cup {"repo"}
      /\ entry.repos \in SUBSET RepoNames
  BY WantedType DEF IInv, TypeOK
<1>2. /\ entry.val # Unset
      /\ entry.vis = "selected" => \A r \in entry.repos : RepoId[r] # None
  BY DEF Actionable
<1>3. entry.vis = "selected" => {RepoId[r] : r \in entry.repos} \in SUBSET Ids
  BY <1>1, <1>2, RepoIdAssumption
<1>4. WantedCell(t, k) \in Cell
  BY <1>1, <1>2, <1>3 DEF WantedCell, Cell
<1> QED BY <1>4, CellAssumption

LEMMA GoalType ==
  ASSUME IInv, NEW w \in Tasks
  PROVE  GoalOf(w) \in Abstract!Goal
<1>1. TargetOf(w) \in Targets
  BY DEF IInv, TypeOK, TargetOf, Job
<1>2. ASSUME NEW k \in Keys
      PROVE  (IF Actionable(TargetOf(w)) /\ Wanted(cfg, TargetOf(w), k) # None
              THEN WantedCell(TargetOf(w), k) ELSE None) \in Cell \cup {None}
  BY <1>1, WantedCellType
<1> QED BY <1>1, <1>2 DEF GoalOf, Abstract!Goal

LEMMA InitMaps ==
  ASSUME Init
  PROVE  Abstract!Init
<1>1. IInv
  BY InitIsSafe
<1>2. Goals \in [Tasks -> Abstract!Goal]
  BY <1>1, GoalType DEF Goals
<1>3. Phases = [w \in Tasks |-> "observing"] /\ Tried = [w \in Tasks |-> {}]
  BY DEF Init, Phases, Phase, Terminal, Tried, Attempted, NoLines
<1>4. live \in [Targets -> [Keys -> Cell \cup {None}]] /\ changes = 0
  BY <1>1 DEF Init, IInv, TypeOK, World
<1> QED BY <1>2, <1>3, <1>4 DEF Abstract!Init, Goals, Phases, Tried

\* The goal of a task follows from the configuration and its target alone.
LEMMA GoalKept ==
  ASSUME IInv, cfg' = cfg, \A w \in Tasks : job'[w].target = job[w].target
  PROVE  Goals' = Goals
<1>1. ASSUME NEW w \in Tasks PROVE GoalOf(w)' = GoalOf(w)
  <2>1. TargetOf(w)' = TargetOf(w)
    BY DEF TargetOf
  <2>2. Actionable(TargetOf(w))' = Actionable(TargetOf(w))
    BY <2>1 DEF Actionable
  <2>3. \A k \in Keys : WantedCell(TargetOf(w), k)' = WantedCell(TargetOf(w), k)
    BY <2>1 DEF WantedCell
  <2> QED BY <2>1, <2>2, <2>3 DEF GoalOf
<1> QED BY <1>1 DEF Goals

\* A step of w moves at most w's own phase and attempts.
LEMMA OneMoves ==
  ASSUME IInv, NEW w \in Tasks, Advance(w) \/ Kill(w) \/ Rerun(w)
  PROVE  /\ Goals' = Goals /\ changes' = changes
         /\ Phases' = [Phases EXCEPT ![w] = Phase(pc'[w])]
         /\ Tried' = [Tried EXCEPT ![w] = Attempted(w)']
<1>1. cfg' = cfg /\ changes' = changes
  BY AdvanceFrame, RestartFrame DEF env
<1>2. ASSUME NEW v \in Tasks \ {w}
      PROVE  job'[v] = job[v] /\ pc'[v] = pc[v] /\ Attempted(v)' = Attempted(v)
  BY AdvanceFrame, RestartFrame DEF TaskState, Attempted
<1>3. job'[w].target = job[w].target
  BY TargetsKept DEF Next
<1>4. Goals' = Goals
  BY <1>1, <1>2, <1>3, GoalKept
<1>5. Phases' = [Phases EXCEPT ![w] = Phase(pc'[w])]
  BY <1>2 DEF Phases
<1>6. Tried' = [Tried EXCEPT ![w] = Attempted(w)']
  BY <1>2 DEF Tried
<1> QED BY <1>1, <1>4, <1>5, <1>6

LEMMA StutterMaps ==
  ASSUME IInv, NEW w \in Tasks, Advance(w), live' = live,
         Phase(pc'[w]) = Phase(pc[w]), Attempted(w)' = Attempted(w)
  PROVE  UNCHANGED Abstract!vars
<1>1. Goals' = Goals /\ Phases' = Phases /\ Tried' = Tried /\ changes' = changes
  BY OneMoves DEF Phases, Tried
<1> QED BY <1>1 DEF Abstract!vars, Goals, Phases, Tried

LEMMA StopMaps ==
  ASSUME IInv, NEW w \in Tasks, Advance(w) \/ Kill(w), live' = live,
         pc[w] \notin Terminal, pc'[w] \in Terminal, Attempted(w)' = Attempted(w)
  PROVE  Abstract!Stop(w)
<1>1. Phases[w] # "over" /\ Phase(pc'[w]) = "over"
  <2>1. Phase(pc[w]) # "over"
    BY DEF Phase, Terminal, IInv, TypeOK, PCs, Kinds
  <2> QED BY <2>1, PhaseValues DEF Phases
<1>2. Goals' = Goals /\ Phases' = [Phases EXCEPT ![w] = "over"] /\ Tried' = Tried
      /\ changes' = changes
  BY <1>1, OneMoves DEF Tried
<1> QED BY <1>1, <1>2 DEF Abstract!Stop, Abstract!Enter, Goals, Phases, Tried

-----------------------------------------------------------------------------
(* Before the first write.                                                 *)

LEMMA ReadingMaps ==
  ASSUME IInv, NEW w \in Tasks, Progress(w), Advance(w),
         \/ Begin(w) \/ List(w) \/ Report(w) \/ Preview(w) \/ Prepare(w)
         \/ LookUpId(w) \/ FetchActionsKey(w)
  PROVE  Abstract!Stop(w) \/ UNCHANGED Abstract!vars
<1>1. /\ live' = live /\ pc[w] \in Early
      /\ pc'[w] \in Early \cup {"done", "error"}
  <2>1. CASE Begin(w)
    BY <2>1, BeginEffect DEF Early, Listing, Kinds
  <2>2. CASE List(w)
    BY <2>2 DEF List, Goto, NextListing, Early, Listing, Kinds, IInv, TypeOK
  <2>3. CASE Report(w) \/ Preview(w) \/ Prepare(w) \/ LookUpId(w) \/ FetchActionsKey(w)
    BY <2>3 DEF Report, Preview, Prepare, LookUpId, FetchActionsKey, FetchKey, Goto,
       Early, Listing, IInv, TypeOK
  <2> QED BY <2>1, <2>2, <2>3
<1>2. Attempted(w)' = Attempted(w)
  <2>1. CASE Preview(w)
    <3>1. Attempted(w) = {}
      BY <1>1, NothingAttempted DEF Progress
    <3>2. \A k \in Keys : body'[w][k] \in {"would-set", "would-delete", "none"}
      BY <2>1 DEF Preview, IInv, TypeOK
    <3> QED BY <3>1, <3>2 DEF Attempted
  <2>2. CASE ~Preview(w)
    BY <2>2 DEF Begin, List, Report, Prepare, LookUpId, FetchActionsKey, Attempted
  <2> QED BY <2>1, <2>2
<1>3. \A place \in Early : Phase(place) = "observing" /\ place \notin Terminal
  BY PhaseValues DEF Early, Listing, Kinds, Terminal
<1>4. CASE pc'[w] \in Early
  BY <1>1, <1>2, <1>3, <1>4, StutterMaps
<1>5. CASE pc'[w] \in {"done", "error"}
  BY <1>1, <1>2, <1>3, <1>5, StopMaps DEF Terminal
<1> QED BY <1>1, <1>4, <1>5

LEMMA CommitMaps ==
  ASSUME IInv, NEW w \in Tasks, Advance(w), FetchDependabotKey(w)
  PROVE  Abstract!Commit(w) \/ Abstract!Stop(w)
<1>1. /\ pc[w] = "depKey" /\ pc'[w] \in {"apply", "error"} /\ live' = live
      /\ Attempted(w)' = Attempted(w)
  BY DEF FetchDependabotKey, FetchKey, Goto, Attempted, IInv, TypeOK
<1>2. CASE pc'[w] = "apply"
  <2>1. Phases[w] = "observing" /\ Phase(pc'[w]) = "setting"
    BY <1>1, <1>2, PhaseValues DEF Phases, Early, Setting
  <2>2. Goals' = Goals /\ Phases' = [Phases EXCEPT ![w] = "setting"] /\ Tried' = Tried
        /\ changes' = changes
    BY <1>1, <2>1, OneMoves DEF Tried
  <2> QED BY <1>1, <2>1, <2>2 DEF Abstract!Commit, Abstract!Enter, Goals, Phases, Tried
<1>3. CASE pc'[w] = "error"
  BY <1>1, <1>3, StopMaps DEF Terminal
<1> QED BY <1>1, <1>2, <1>3

-----------------------------------------------------------------------------
(* Writing.                                                                *)

\* A run that has looked up every id wants exactly what it manages.
LEMMA WantIsManaged ==
  ASSUME IInv, NEW w \in Tasks, pc[w] \in Ahead
  PROVE  /\ Abstract!Want(w) = Managed(Plans(w))
         /\ \A k \in Managed(Plans(w)) : Goals[w].want[k] = WantedCell(TargetOf(w), k)
<1> DEFINE t == TargetOf(w)
<1>1. Actionable(t) /\ t \in Targets
  BY WritersAreActionable DEF IInv, TypeOK, TargetOf, Job, Ready
<1>2. \A k \in Keys : Goals[w].want[k] =
                        IF Wanted(cfg, t, k) # None THEN WantedCell(t, k) ELSE None
  BY <1>1 DEF Goals, GoalOf
<1>3. \A k \in Keys : Goals[w].want[k] # None <=> Wanted(cfg, t, k) # None
  BY <1>1, <1>2, WantedCellType
<1>4. \A k \in Keys : k \in Managed(Plans(w)) <=> Wanted(cfg, t, k) # None
  BY <1>1, CascadeIsPrecedence DEF Managed, Plans
<1>5. Managed(Plans(w)) \subseteq Keys
  BY DEF Managed
<1>6. Abstract!Want(w) = {k \in Keys : Goals[w].want[k] # None}
  BY DEF Abstract!Want, Goals
<1> QED BY <1>2, <1>3, <1>4, <1>5, <1>6

\* Settling an entry that was not tried is one attempt at it.
LEMMA AttemptMaps ==
  ASSUME IInv, NEW w \in Tasks, Advance(w), NEW k \in Keys \ Attempted(w),
         NEW cell \in Cell \cup {None}, NEW answer, NEW outcome, NEW line \in {"ok", "deleted"},
         live' = live \/ Store(w, k, cell, answer), Settle(w, k, outcome, line),
         Phase(pc'[w]) = Phase(pc[w])
  PROVE  Abstract!Attempt(w, k, cell)
<1>1. Goals' = Goals /\ Phases' = Phases /\ changes' = changes
  BY OneMoves DEF Phases
<1>2. Attempted(w)' = Attempted(w) \cup {k}
  BY SettleAttempts
<1>3. Tried' = [Tried EXCEPT ![w] = Tried[w] \cup {k}] /\ k \notin Tried[w]
  BY <1>2, OneMoves DEF Tried
<1>4. live' = live \/ live' = [live EXCEPT ![Goals[w].target][k] = cell]
  BY DEF Store, Goals, GoalOf
<1> QED BY <1>1, <1>3, <1>4 DEF Abstract!Attempt, Goals, Phases, Tried

LEMMA SetMaps ==
  ASSUME IInv, NEW w \in Tasks, Advance(w), Progress(w), pc[w] \in Setting, pc'[w] \in Setting,
         NEW k \in todo[w], NEW answer, NEW outcome,
         live' = live \/ Store(w, k, Payload(w, k), answer), Settle(w, k, outcome, "ok")
  PROVE  Abstract!Set(w)
<1>1. k \in Managed(Plans(w)) /\ k \in Keys
  BY DEF IInv, TypeOK, Ready
<1>2. k \notin Attempted(w)
  BY DEF Progress
<1>3. k \in Abstract!Want(w) /\ Payload(w, k) = Goals[w].want[k] /\ Payload(w, k) \in Cell
  BY <1>1, WantIsManaged, PayloadIsWanted DEF Setting, Ahead
<1>4. Phases[w] = "setting" /\ Phase(pc'[w]) = Phase(pc[w])
  BY PhaseValues DEF Phases
<1>5. Abstract!Attempt(w, k, Goals[w].want[k])
  BY <1>1, <1>2, <1>3, <1>4, AttemptMaps
<1> QED BY <1>3, <1>4, <1>5 DEF Abstract!Set, Goals, Phases

LEMMA SettingMaps ==
  ASSUME IInv, NEW w \in Tasks, Advance(w), Progress(w),
         UpdateVariable(w) \/ CreateVariable(w) \/ PutSecret(w)
  PROVE  Abstract!Set(w) \/ UNCHANGED Abstract!vars
<1>1. pc[w] \in Setting /\ pc'[w] \in Setting
  BY DEF UpdateVariable, CreateVariable, PutSecret, Goto, Setting, IInv, TypeOK
<1>2. CASE UNCHANGED <<live, todo, body, failed>>
  BY <1>1, <1>2, StutterMaps, PhaseValues DEF Attempted
<1>3. CASE ~UNCHANGED <<live, todo, body, failed>>
  <2>1. PICK k \in todo[w], answer \in Writes, outcome \in Outcomes :
          /\ live' = live \/ Store(w, k, Payload(w, k), answer)
          /\ Settle(w, k, outcome, "ok")
    <3>1. CASE UpdateVariable(w)
      BY <1>3, <3>1 DEF UpdateVariable, Outcomes
    <3>2. CASE CreateVariable(w)
      BY <3>2 DEF CreateVariable, Outcomes
    <3>3. CASE PutSecret(w)
      BY <3>3 DEF PutSecret, Outcomes
    <3> QED BY <3>1, <3>2, <3>3
  <2> QED BY <1>1, <2>1, SetMaps
<1> QED BY <1>2, <1>3

LEMMA PruneMaps ==
  ASSUME IInv, NEW w \in Tasks, Advance(w), Progress(w), DeleteEntry(w)
  PROVE  Abstract!Prune(w)
<1>1. PICK k \in todo[w], answer \in Writes, outcome \in Outcomes :
        /\ live' = live \/ Store(w, k, None, answer)
        /\ Settle(w, k, outcome, "deleted")
  BY DEF DeleteEntry, Outcomes
<1>2. pc[w] = "delete" /\ pc'[w] = "delete"
  BY DEF DeleteEntry
<1>3. k \in Keys /\ k \in Extras(Rows(w)) /\ TargetOf(w) \in Targets
  BY <1>2 DEF IInv, TypeOK, Ready, TargetOf, Job
<1>4. k \in Goals[w].spare
  BY <1>3, ExtrasAreUnlisted DEF Rows, Plans, Goals, GoalOf
<1>5. k \notin Attempted(w)
  BY <1>2 DEF Progress
<1>6. Phases[w] = "pruning" /\ Phase(pc'[w]) = Phase(pc[w])
  BY <1>2, PhaseValues DEF Phases
<1>7. Abstract!Attempt(w, k, None)
  BY <1>1, <1>3, <1>5, <1>6, AttemptMaps
<1> QED BY <1>4, <1>6, <1>7 DEF Abstract!Prune, Goals, Phases

LEMMA FinishMaps ==
  ASSUME IInv, NEW w \in Tasks, Advance(w), Progress(w), FinishApply(w) \/ FinishDelete(w)
  PROVE  Abstract!Turn(w) \/ Abstract!Stop(w)
<1>1. live' = live /\ Attempted(w)' = Attempted(w)
      /\ pc[w] \in {"apply", "delete"} /\ pc'[w] \in {"delete", "done"}
  BY DEF FinishApply, FinishDelete, Goto, Attempted, IInv, TypeOK
<1>2. CASE pc'[w] = "done"
  BY <1>1, <1>2, StopMaps DEF Terminal
<1>3. CASE pc'[w] = "delete"
  <2>1. pc[w] = "apply" /\ todo[w] = {}
    BY <1>3 DEF FinishApply, FinishDelete, Goto, IInv, TypeOK
  <2>2. Abstract!Want(w) = Attempted(w)
    BY <2>1, WantIsManaged DEF Progress, Setting, Ahead
  <2>3. Phases[w] = "setting" /\ Phase(pc'[w]) = "pruning" /\ Tried[w] = Attempted(w)
    BY <1>3, <2>1, PhaseValues DEF Phases, Tried, Setting
  <2>4. Goals' = Goals /\ Phases' = [Phases EXCEPT ![w] = "pruning"] /\ Tried' = Tried
        /\ changes' = changes
    BY <1>1, <2>3, OneMoves DEF Tried
  <2> QED BY <1>1, <2>2, <2>3, <2>4
          DEF Abstract!Turn, Abstract!Enter, Goals, Phases, Tried
<1> QED BY <1>1, <1>2, <1>3

-----------------------------------------------------------------------------
(* The surroundings.                                                       *)

LEMMA KillMaps ==
  ASSUME IInv, NEW w \in Tasks, Kill(w)
  PROVE  Abstract!Stop(w)
<1>1. /\ live' = live /\ Attempted(w)' = Attempted(w)
      /\ pc[w] \notin Terminal /\ pc'[w] \in Terminal
  BY DEF Kill, Goto, Attempted, Terminal, IInv, TypeOK
<1> QED BY <1>1, StopMaps

LEMMA RerunMaps ==
  ASSUME IInv, NEW w \in Tasks, Rerun(w)
  PROVE  Abstract!Again(w)
<1>1. /\ live' = live /\ pc[w] \in Terminal /\ pc'[w] = "start"
      /\ body'[w] = NoLines
  BY DEF Rerun, Goto, IInv, TypeOK
<1>2. Phases[w] = "over" /\ Phase(pc'[w]) = "observing" /\ Attempted(w)' = {}
  BY <1>1, PhaseValues DEF Phases, Early, Attempted, NoLines
<1>3. Goals' = Goals /\ changes' = changes /\ Tried' = [Tried EXCEPT ![w] = {}]
      /\ Phases' = [Phases EXCEPT ![w] = "observing"]
  BY <1>2, OneMoves
<1> QED BY <1>1, <1>2, <1>3 DEF Abstract!Again, Abstract!Enter, Goals, Phases, Tried

LEMMA ForeignChangeMaps ==
  ASSUME IInv, ForeignChange
  PROVE  Abstract!Others
<1>1. UNCHANGED <<env, pc, body>> /\ changes' = changes + 1
  BY DEF ForeignChange
<1>2. Goals' = Goals
  BY <1>1, GoalKept DEF env
<1>3. Phases' = Phases /\ Tried' = Tried
  BY <1>1 DEF Phases, Tried, Attempted
<1>4. \E t \in Targets, k \in Keys, cell \in Cell \cup {None} :
        live' = [live EXCEPT ![t][k] = cell]
  BY ForeignAssumption DEF ForeignChange
<1> QED BY <1>1, <1>2, <1>3, <1>4 DEF Abstract!Others, Goals, Phases, Tried

-----------------------------------------------------------------------------

LEMMA NextMaps ==
  ASSUME IInv, \A w \in Tasks : Progress(w), [Next]_vars
  PROVE  [Abstract!Next]_(Abstract!vars)
<1>1. ASSUME NEW w \in Tasks, Advance(w)
      PROVE  [Abstract!Next]_(Abstract!vars)
  BY <1>1, ReadingMaps, CommitMaps, SettingMaps, PruneMaps, FinishMaps
     DEF Advance, Abstract!Next
<1>2. ASSUME NEW w \in Tasks, Kill(w) \/ Rerun(w)
      PROVE  Abstract!Next
  BY <1>2, KillMaps, RerunMaps DEF Abstract!Next
<1>3. CASE ForeignChange
  BY <1>3, ForeignChangeMaps DEF Abstract!Next
<1>4. CASE UNCHANGED vars
  BY <1>4 DEF vars, Abstract!vars, GoalOf, TargetOf, Actionable, WantedCell, Attempted
<1> QED BY <1>1, <1>2, <1>3, <1>4 DEF Next

\* Every run of every number of tasks, with all its calls, faults and kills, is a
\* behaviour of Reconcile: it observes, tries every wanted entry at most once,
\* prunes only after it has tried them all, and does nothing else to GitHub.
THEOREM ScopeImplementsReconcile == Spec => ImplementsReconcile
<1> DEFINE Past == \A w \in Tasks : Progress(w)
<1>1. Init => Past /\ Abstract!Init
  BY ProgressAtFirst, InitMaps
<1>2. IInv /\ Past /\ [Next]_vars => Past'
  BY ProgressIsInductive
<1>3. IInv /\ Past /\ [Next]_vars => [Abstract!Next]_(Abstract!vars)
  BY NextMaps
<1> HIDE DEF Past
<1> QED BY <1>1, <1>2, <1>3, Invariance, PTL DEF Spec, ImplementsReconcile, Abstract!Spec

-----------------------------------------------------------------------------
(* What the implementation inherits.                                       *)

LEMMA StepReachesGoals ==
  ASSUME IInv, \A w \in Tasks : Progress(w), [Next]_vars, changes' = changes,
         NEW t \in Targets, NEW k \in Keys, live'[t][k] # live[t][k]
  PROVE  \E w \in Tasks :
           /\ Goals[w].target = t
           /\ \/ k \in Abstract!Want(w) /\ live'[t][k] = Goals[w].want[k]
              \/ /\ k \in Goals[w].spare /\ live'[t][k] = None
                 /\ Abstract!Want(w) \subseteq Tried[w]
<1>1. PICK w \in Tasks, j \in Keys : Sets(w, j) \/ Deletes(w, j)
  BY WritersAreKnown
<1>2. t = TargetOf(w) /\ k = j /\ Goals[w].target = t
  BY <1>1, StoreEffect DEF Sets, Deletes, Goals, GoalOf
<1>3. CASE Sets(w, j)
  <2>1. live'[t][k] = Payload(w, k) /\ k \in Managed(Plans(w))
    BY <1>2, <1>3, StoreEffect DEF Sets, IInv, Ready
  <2>2. k \in Abstract!Want(w) /\ Payload(w, k) = Goals[w].want[k]
    BY <1>2, <1>3, <2>1, WantIsManaged, PayloadIsWanted DEF Sets, Setting, Ahead
  <2> QED BY <1>2, <2>1, <2>2
<1>4. CASE Deletes(w, j)
  <2>1. pc[w] = "delete" /\ live'[t][k] = None /\ k \in Extras(Rows(w))
        /\ todo[w] \subseteq Extras(Rows(w))
    BY <1>2, <1>4, StoreEffect DEF Deletes, IInv, Ready
  <2>2. k \in Goals[w].spare
    BY <1>2, <2>1, ExtrasAreUnlisted DEF Rows, Plans, Goals, GoalOf
  <2>3. Managed(Plans(w)) \subseteq Tried[w]
    BY <2>1, ManagedIsNotExtra DEF Progress, Tried
  <2> QED BY <1>2, <2>1, <2>2, <2>3, WantIsManaged DEF Ahead
<1> QED BY <1>1, <1>3, <1>4

\* An entry is deleted only by a run that has tried everything it wants to set,
\* and set only to what the run that sets it wants (EnforceRepo deletes after
\* runApplyPhase).
THEOREM DeletesComeLast == Spec => Abstract!OnlyGoals
<1> DEFINE Past == \A w \in Tasks : Progress(w)
           Step ==
      changes' = changes =>
       \A t \in Targets, k \in Keys : live'[t][k] # live[t][k] =>
         \E w \in Tasks :
           /\ Goals[w].target = t
           /\ \/ k \in Abstract!Want(w) /\ live'[t][k] = Goals[w].want[k]
              \/ /\ k \in Goals[w].spare /\ live'[t][k] = None
                 /\ Abstract!Want(w) \subseteq Tried[w]
<1>1. Init => Past
  BY ProgressAtFirst
<1>2. IInv /\ Past /\ [Next]_vars => Past'
  BY ProgressIsInductive
<1>3. IInv /\ Past /\ [Next]_vars => [Step]_(Abstract!vars)
  BY StepReachesGoals
<1>4. Abstract!OnlyGoals <=> [][Step]_(Abstract!vars)
  BY DEF Abstract!OnlyGoals, Goals, Tried
<1> HIDE DEF Past, Step
<1> QED BY <1>1, <1>2, <1>3, <1>4, Invariance, PTL DEF Spec

=============================================================================

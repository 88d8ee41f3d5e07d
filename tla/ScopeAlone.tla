------------------------------ MODULE ScopeAlone ------------------------------
(***************************************************************************)
(* What a run of Scope promises when it has its target for itself: no other*)
(* task works on it, and nobody else has touched it since the run began.   *)
(***************************************************************************)
EXTENDS ScopeSafety

Undisturbed(w) == Alone(w) /\ touched[w] = {}

-----------------------------------------------------------------------------
(* Steps that w does not take.                                             *)

LEMMA AloneKept ==
  ASSUME IInv, [Next]_vars, NEW w \in Tasks
  PROVE  Alone(w)' <=> Alone(w)
BY TargetsKept DEF Alone, TargetOf

\* While w is undisturbed, what others do does not show at its target.
LEMMA OthersDoNotShow ==
  ASSUME IInv, [Next]_vars, NEW w \in Tasks, Undisturbed(w)'
  PROVE  /\ Alone(w) /\ cfg' = cfg
         /\ TargetOf(w)' = TargetOf(w) /\ TargetOf(w) \in Targets
         /\ \/ /\ Advance(w) \/ Kill(w) \/ Rerun(w)
               /\ Kill(w) \/ Rerun(w) => live' = live
            \/ UNCHANGED <<TaskState(w), live[TargetOf(w)]>>
<1> DEFINE t == TargetOf(w)
<1>1. Alone(w) /\ cfg' = cfg /\ t' = t /\ t \in Targets
  BY AloneKept, StepFrame, TargetsKept DEF Undisturbed, TargetOf, IInv, TypeOK, Job
<1>2. CASE Advance(w) \/ Kill(w) \/ Rerun(w)
  BY <1>1, <1>2, RestartFrame
<1>3. CASE ~(Advance(w) \/ Kill(w) \/ Rerun(w)) /\ ~ForeignChange
  <2>1. UNCHANGED TaskState(w) /\ changes' = changes
    BY <1>3, StepFrame
  <2>2. ASSUME live'[t] # live[t]
        PROVE  FALSE
    <3>1. PICK v \in Tasks, j \in Keys : Advance(v) /\ (Sets(v, j) \/ Deletes(v, j))
      BY <2>1, <2>2, WritersAreKnown
    <3>2. PICK cell, answer : Store(v, j, cell, answer)
      BY <3>1 DEF Sets, Deletes
    <3>3. t = TargetOf(v)
      BY <2>2, <3>2 DEF Store, IInv, TypeOK, World
    <3> QED BY <1>1, <1>3, <3>1, <3>3 DEF Alone
  <2> QED BY <1>1, <2>1, <2>2
<1>4. CASE ForeignChange
  <2>1. PICK s \in Targets, j \in Keys, cell \in ForeignCells \cup {None} :
          /\ live' = [live EXCEPT ![s][j] = cell]
          /\ touched' = [v \in Tasks |-> IF TargetOf(v) = s THEN touched[v] \cup {j}
                                         ELSE touched[v]]
    BY <1>4 DEF ForeignChange
  <2>2. s # t /\ touched'[w] = touched[w]
    BY <2>1 DEF Undisturbed
  <2>3. live'[t] = live[t]
    BY <1>1, <2>1, <2>2 DEF IInv, TypeOK, World
  <2> QED BY <1>1, <1>4, <2>2, <2>3 DEF ForeignChange, TaskState, env
<1> QED BY <1>2, <1>3, <1>4

\* What depends on the configuration and the job alone.
LEMMA ScopeKept ==
  ASSUME IInv, NEW w \in Tasks, cfg' = cfg, TargetOf(w)' = TargetOf(w)
  PROVE  /\ NoPlan(w)' = NoPlan(w) /\ Plans(w)' = Plans(w)
         /\ SelectedNames(w)' = SelectedNames(w)
         /\ \A kind : Needs(w, kind)' = Needs(w, kind)
         /\ Actionable(TargetOf(w))' = Actionable(TargetOf(w))
         /\ \A k \in Keys : Listed(cfg, TargetOf(w), k)' = Listed(cfg, TargetOf(w), k)
BY DEF NoPlan, Plans, SelectedNames, Needs, Actionable

\* Extra is what is seen and not listed.
LEMMA ExtrasAreTheUnlisted ==
  ASSUME IInv, NEW w \in Tasks, NEW k \in Keys
  PROVE  k \in Extras(Rows(w)) <=> ~Listed(cfg, TargetOf(w), k) /\ snap[w][k] # None
<1>1. TargetOf(w) \in Targets
  BY DEF IInv, TypeOK, TargetOf, Job
<1>2. k \in Extras(Rows(w)) => ~Listed(cfg, TargetOf(w), k) /\ snap[w][k] # None
  BY <1>1, ExtrasAreUnlisted DEF Rows, Plans
<1>3. ASSUME ~Listed(cfg, TargetOf(w), k), snap[w][k] # None
      PROVE  k \in Extras(Rows(w))
  <2>1. Wanted(cfg, TargetOf(w), k) = None
    BY <1>3 DEF Wanted, Listed, Decider, Mentions, Layers
  <2>2. Plans(w)[k].action = "none"
    BY <1>1, <1>3, <2>1, CascadeIsPrecedence DEF Plans
  <2> QED BY <1>3, <2>2 DEF Extras, Rows, Compute, UnmanagedStatus, EffectiveIgnored
<1> QED BY <1>2, <1>3

-----------------------------------------------------------------------------
(* Looking only.                                                           *)

OnlyLooks(w) == Cmd(w) \in {"audit", "dry-run"}

\* What a complete listing shows of an entry.
Shows(k, cell) == IF cell = None THEN None ELSE View(k, cell)

\* Of a kind that is still to be listed nothing was seen.
Unseen(w) ==
  pc[w] \in {"start"} \cup Kinds =>
    \A k \in Keys : Kind(k) \notin KindsListed(w) => snap[w][k] = None

\* The snapshot of a run that only looks shows its target as it is.
Mirror(w) ==
  Undisturbed(w) /\ OnlyLooks(w) =>
    \A k \in Keys : Kind(k) \in KindsListed(w) => snap[w][k] = Shows(k, live[TargetOf(w)][k])

\* A run that only looks writes nothing.
LEMMA LookersDoNotWrite ==
  ASSUME IInv, NEW w \in Tasks, Advance(w), OnlyLooks(w)
  PROVE  Begin(w) \/ List(w) \/ Report(w) \/ Preview(w)
<1>1. pc[w] \notin {"ids"} \cup Ahead /\ Cmd(w) # "enforce"
  BY DEF IInv, Ready, OnlyLooks
<1> QED BY <1>1 DEF Advance, Prepare, LookUpId, FetchActionsKey, FetchDependabotKey,
           UpdateVariable, CreateVariable, PutSecret, FinishApply, DeleteEntry, FinishDelete, Ahead

LEMMA PageHasOneKind ==
  ASSUME IInv, NEW w \in Tasks, NEW page \in Pages(TargetOf(w), pc[w]), NEW k \in page
  PROVE  k \in Keys /\ Kind(k) = pc[w] /\ live[TargetOf(w)][k] # None
BY DEF Pages

LEMMA UnseenIsInductive ==
  ASSUME IInv, [Next]_vars, NEW w \in Tasks, Unseen(w)
  PROVE  Unseen(w)'
<1>1. CASE List(w)
  <2>1. CASE pc'[w] \notin Kinds
    BY <2>1, <1>1, ListEffect DEF Unseen, NextListing, Kinds
  <2>2. CASE pc'[w] \in Kinds
    <3>1. PICK page \in Pages(TargetOf(w), pc[w]) : \A k \in Keys :
            snap'[w][k] = IF k \in page THEN View(k, live[TargetOf(w)][k]) ELSE snap[w][k]
      BY <1>1, <2>2, ListEffect DEF Kinds
    <3>2. KindsListed(w)' = KindsListed(w) \cup {pc[w]} /\ pc[w] \in Kinds
      BY <1>1, <2>2, ListEffect DEF Kinds
    <3> QED BY <3>1, <3>2, PageHasOneKind DEF Unseen
  <2> QED BY <2>1, <2>2
<1>2. CASE Advance(w) /\ ~List(w)
  <2>1. CASE Begin(w)
    BY <2>1, BeginEffect DEF Unseen, KindsListed, Kinds, Ahead
  <2>2. CASE ~Begin(w)
    <3>1. pc'[w] \in {"ids", "done", "error"} \cup Ahead
      BY <1>2, <2>2 DEF Advance, Report, Preview, Prepare, LookUpId, FetchActionsKey,
         FetchDependabotKey, FetchKey, UpdateVariable, CreateVariable, PutSecret, FinishApply,
         DeleteEntry, FinishDelete, Goto, Ahead, IInv, TypeOK
    <3> QED BY <3>1 DEF Unseen, Kinds, Ahead
  <2> QED BY <2>1, <2>2
<1>3. CASE Kill(w) \/ Rerun(w)
  BY <1>3 DEF Kill, Rerun, Goto, IInv, TypeOK, Unseen, KindsListed, Kinds, NoSeen
<1>4. CASE UNCHANGED TaskState(w) \/ ForeignChange
  <2>1. pc'[w] = pc[w] /\ snap'[w] = snap[w] /\ KindsListed(w)' = KindsListed(w)
    <3>1. cfg' = cfg /\ job'[w] = job[w] /\ pc'[w] = pc[w] /\ snap'[w] = snap[w]
      BY <1>4, StepFrame DEF TaskState, ForeignChange, env
    <3> QED BY <3>1 DEF KindsListed, NoPlan, Cmd, TargetOf
  <2> QED BY <2>1 DEF Unseen
<1> QED BY <1>1, <1>2, <1>3, <1>4, StepFrame

LEMMA MirrorAfterListing ==
  ASSUME Fits, IInv, NEW w \in Tasks, Mirror(w), Unseen(w), Undisturbed(w),
         OnlyLooks(w), List(w)
  PROVE  Mirror(w)'
<1> DEFINE t == TargetOf(w)
<1>1. /\ pc[w] \in Kinds /\ live' = live /\ t' = t /\ cfg' = cfg
  BY ListEffect DEF TargetOf, env
<1>2. CASE KindsListed(w)' = {}
  BY <1>2 DEF Mirror
<1>3. CASE KindsListed(w)' # {}
  <2>1. PICK page \in Pages(t, pc[w]) : \A k \in Keys :
          snap'[w][k] = IF k \in page THEN View(k, live[t][k]) ELSE snap[w][k]
    BY <1>3, ListEffect
  <2>2. KindsListed(w)' \subseteq KindsListed(w) \cup {pc[w]} /\ pc[w] \notin KindsListed(w)
    BY <1>3, ListEffect
  <2>3. page = {k \in Keys : Kind(k) = pc[w] /\ live[t][k] # None}
    BY <1>1, PageIsComplete
  <2>4. ASSUME NEW k \in Keys, Kind(k) \in KindsListed(w)'
        PROVE  snap'[w][k] = Shows(k, live[t][k])
    <3>1. CASE Kind(k) = pc[w]
      BY <1>1, <2>1, <2>2, <2>3, <3>1 DEF Shows, Unseen
    <3>2. CASE Kind(k) # pc[w]
      BY <2>1, <2>2, <2>3, <2>4, <3>2 DEF Mirror
    <3> QED BY <3>1, <3>2
  <2> QED BY <1>1, <2>4 DEF Mirror
<1> QED BY <1>2, <1>3

LEMMA MirrorIsInductive ==
  ASSUME Fits, IInv, [Next]_vars, NEW w \in Tasks, Unseen(w), Mirror(w)
  PROVE  Mirror(w)'
<1> SUFFICES ASSUME Undisturbed(w)', OnlyLooks(w)', KindsListed(w)' # {}
             PROVE  Mirror(w)'
  BY DEF Mirror
<1>1. /\ Alone(w) /\ cfg' = cfg /\ TargetOf(w)' = TargetOf(w)
      /\ \/ Advance(w) \/ Kill(w) \/ Rerun(w)
         \/ UNCHANGED <<TaskState(w), live[TargetOf(w)]>>
  BY OthersDoNotShow
<1>2. CASE Advance(w)
  <2>1. Undisturbed(w) /\ OnlyLooks(w)
    BY <1>1, <1>2, AdvanceFrame DEF Undisturbed, OnlyLooks, Cmd, env
  <2>2. CASE List(w)
    BY <2>1, <2>2, MirrorAfterListing
  <2>3. CASE ~List(w)
    <3>1. live' = live
      BY <1>2, <2>1, <2>3, LookersDoNotWrite DEF Begin, Report, Preview
    <3>2. KindsListed(w)' \subseteq KindsListed(w) /\ snap'[w] = snap[w]
      BY <1>2, <2>3, KindsListedShrink
    <3> QED BY <1>1, <2>1, <3>1, <3>2 DEF Mirror
  <2> QED BY <2>2, <2>3
<1>3. CASE Kill(w) \/ Rerun(w)
  BY <1>3 DEF Kill, Rerun, Goto, IInv, TypeOK, KindsListed, Ahead
<1>4. CASE UNCHANGED <<TaskState(w), live[TargetOf(w)]>>
  <2>1. KindsListed(w)' = KindsListed(w) /\ Undisturbed(w) /\ OnlyLooks(w)
    BY <1>1, <1>4 DEF TaskState, KindsListed, NoPlan, Cmd, TargetOf, Undisturbed, OnlyLooks
  <2> QED BY <1>1, <1>4, <2>1 DEF Mirror, TaskState
<1> QED BY <1>1, <1>2, <1>3, <1>4

\* What the commands that only look have printed, and no other prints.
PreviewLines(w) ==
  IF NoPlan(w) THEN NoLines
  ELSE [k \in Keys |-> IF k \in Managed(Plans(w)) THEN "would-set"
                       ELSE IF k \in Extras(Rows(w)) THEN "would-delete"
                       ELSE "none"]

Announcing(w) ==
  /\ OnlyLooks(w) => failed[w] = 0
  /\ pc[w] = "done" /\ Cmd(w) = "dry-run" => body[w] = PreviewLines(w)
  /\ Cmd(w) # "dry-run" => \A k \in Keys : body[w][k] \notin {"would-set", "would-delete"}

LEMMA AnnouncingIsInductive ==
  ASSUME IInv, [Next]_vars, NEW w \in Tasks, Progress(w), Announcing(w)
  PROVE  Announcing(w)'
<1>1. CASE Advance(w) /\ OnlyLooks(w)
  <2>1. Cmd(w)' = Cmd(w) /\ failed' = failed /\ NoPlan(w)' = NoPlan(w)
        /\ Plans(w)' = Plans(w)
    BY <1>1, LookersDoNotWrite, AdvanceFrame DEF Begin, List, Report, Preview, Cmd, NoPlan,
       Plans, TargetOf, env
  <2>2. CASE Begin(w)
    <3>1. body'[w] = NoLines
      BY <2>2, BeginEffect DEF Progress, Early
    <3> QED BY <1>1, <2>1, <2>2, <3>1, BeginEffect
            DEF Announcing, OnlyLooks, PreviewLines, NoLines
  <2>3. CASE List(w) \/ Report(w)
    <3>1. body' = body
      BY <2>3 DEF List, Report
    <3>2. pc'[w] = "done" => Cmd(w) = "audit"
      BY <2>3, ListEffect DEF Report, NextListing, Kinds
    <3> QED BY <1>1, <2>1, <3>1, <3>2 DEF Announcing, OnlyLooks
  <2>4. CASE Preview(w)
    <3>1. ~NoPlan(w) /\ Rows(w)' = Rows(w) /\ Cmd(w) = "dry-run"
      BY <2>4, SameRows DEF Preview, Progress, Listing, env
    <3>2. body'[w] = PreviewLines(w)'
      BY <2>1, <2>4, <3>1 DEF Preview, PreviewLines, IInv, TypeOK
    <3> QED BY <1>1, <2>1, <3>1, <3>2 DEF Announcing, OnlyLooks
  <2> QED BY <1>1, <2>2, <2>3, <2>4, LookersDoNotWrite
<1>2. CASE Advance(w) /\ ~OnlyLooks(w)
  <2>1. Cmd(w)' = Cmd(w) /\ Cmd(w) \notin {"audit", "dry-run"}
    BY <1>2, AdvanceFrame DEF Cmd, OnlyLooks, env
  <2>2. \A k \in Keys : body'[w][k] \in {body[w][k], "ok", "deleted", "FAILED"}
    <3>1. CASE UpdateVariable(w) \/ CreateVariable(w) \/ PutSecret(w) \/ DeleteEntry(w)
      <4>1. body' = body \/ \E j \in Keys, outcome \in Outcomes, line \in {"ok", "deleted"} :
                              Settle(w, j, outcome, line)
        <5>1. CASE UpdateVariable(w)
          BY <5>1 DEF UpdateVariable, Outcomes, IInv, TypeOK
        <5>2. CASE CreateVariable(w)
          BY <5>2 DEF CreateVariable, Outcomes, IInv, TypeOK
        <5>3. CASE PutSecret(w)
          BY <5>3 DEF PutSecret, Outcomes, IInv, TypeOK
        <5>4. CASE DeleteEntry(w)
          BY <5>4 DEF DeleteEntry, Outcomes, IInv, TypeOK
        <5> QED BY <3>1, <5>1, <5>2, <5>3, <5>4
      <4> QED BY <4>1, SettleEffect
    <3>2. CASE ~(UpdateVariable(w) \/ CreateVariable(w) \/ PutSecret(w) \/ DeleteEntry(w))
      BY <1>2, <2>1, <3>2 DEF Advance, Begin, List, Report, Preview, Prepare, LookUpId,
         FetchActionsKey, FetchDependabotKey, FinishApply, FinishDelete
    <3> QED BY <3>1, <3>2
  <2> QED BY <2>1, <2>2 DEF Announcing, OnlyLooks
<1>3. CASE Kill(w)
  <2>1. pc'[w] = "killed" /\ UNCHANGED <<env, body, failed>>
    BY <1>3 DEF Kill, Goto, IInv, TypeOK
  <2> QED BY <2>1 DEF Announcing, OnlyLooks, Cmd, env
<1>4. CASE Rerun(w)
  <2>1. pc'[w] = "start" /\ body'[w] = NoLines /\ failed'[w] = 0
    BY <1>4 DEF Rerun, Goto, IInv, TypeOK
  <2> QED BY <2>1 DEF Announcing, NoLines
<1>5. CASE UNCHANGED TaskState(w) \/ ForeignChange
  <2>1. /\ cfg' = cfg /\ job'[w] = job[w] /\ pc'[w] = pc[w] /\ snap'[w] = snap[w]
        /\ body'[w] = body[w] /\ failed'[w] = failed[w]
    BY <1>5, StepFrame DEF TaskState, ForeignChange, env
  <2>2. Plans(w)' = Plans(w) /\ Rows(w)' = Rows(w) /\ Cmd(w)' = Cmd(w)
    BY <2>1, SameJob, SameRows
  <2>3. NoPlan(w)' = NoPlan(w)
    BY <2>1 DEF NoPlan, TargetOf
  <2> QED BY <2>1, <2>2, <2>3 DEF Announcing, OnlyLooks, PreviewLines
<1> QED BY <1>1, <1>2, <1>3, <1>4, <1>5, StepFrame

-----------------------------------------------------------------------------
(* The audit.                                                              *)

LEMMA ManagedStatuses ==
  ASSUME NEW desired, NEW seen
  PROVE  /\ seen = None => ManagedStatus(desired, seen) = "missing"
         /\ seen = Hidden /\ seen # None => ManagedStatus(desired, seen) = "present"
         /\ seen \notin {None, Hidden} => ManagedStatus(desired, seen) =
                                            IF seen = desired THEN "match" ELSE "mismatch"
<1>1. CASE seen = None
  BY <1>1, SeenAssumption DEF ManagedStatus
<1>2. CASE seen = Hidden /\ seen # None
  BY <1>2 DEF ManagedStatus
<1>3. CASE seen \notin {None, Hidden} /\ seen = desired
  BY <1>3 DEF ManagedStatus
<1>4. CASE seen \notin {None, Hidden} /\ seen # desired
  BY <1>4 DEF ManagedStatus
<1> QED BY <1>1, <1>2, <1>3, <1>4

\* The row of an entry the listing showed as it is says whether it drifted.
LEMMA RowsAreExact ==
  ASSUME IInv, NEW w \in Tasks, Cmd(w) # "dry-run", NEW k \in Keys,
         snap[w][k] = Shows(k, live[TargetOf(w)][k])
  PROVE  Rows(w)[k].status \in {"missing", "mismatch", "extra"} <=> Drifted(TargetOf(w), k)
<1> DEFINE t == TargetOf(w)
           seen == snap[w][k]
           cell == live[t][k]
<1>1. t \in Targets /\ cell \in Cell \cup {None}
  BY DEF IInv, TypeOK, TargetOf, Job, World
<1>2. CASE Wanted(cfg, t, k) # None
  <2>1. k \in Managed(Plans(w)) /\ Plans(w)[k].entry = Wanted(cfg, t, k)
    BY <1>1, <1>2, CascadeIsPrecedence DEF Managed, Plans
  <2>2. Rows(w)[k].status = ManagedStatus(Wanted(cfg, t, k).val, seen)
    BY <2>1 DEF Rows, Compute, Desired, Managed
  <2>3. CASE cell = None
    BY <1>2, <2>2, <2>3, ManagedStatuses DEF Shows, Drifted
  <2>4. CASE cell # None /\ Kind(k) = "vars"
    <3>1. seen = cell.val /\ seen # None /\ seen # Hidden
      BY <1>1, <2>4, UnsetAssumption, SeenAssumption DEF Shows, View, Cell
    <3> QED BY <1>2, <2>2, <2>4, <3>1, ManagedStatuses DEF Drifted
  <2>5. CASE cell # None /\ Kind(k) # "vars"
    <3>1. seen = Hidden /\ seen # None
      BY <2>5, SeenAssumption DEF Shows, View
    <3> QED BY <1>2, <2>2, <2>5, <3>1, ManagedStatuses DEF Drifted
  <2> QED BY <2>3, <2>4, <2>5
<1>3. CASE Wanted(cfg, t, k) = None
  <2>1. k \notin Managed(Plans(w))
    BY <1>1, <1>3, CascadeIsPrecedence DEF Managed, Plans
  <2>2. Rows(w)[k].status = UnmanagedStatus(k, Plans(w), seen)
    BY <2>1 DEF Rows, Compute, Managed
  <2>3. Rows(w)[k].status \in {"missing", "mismatch", "extra"} <=> k \in Extras(Rows(w))
    BY <2>2 DEF UnmanagedStatus, Extras
  <2>4. seen # None <=> cell # None
    BY <1>1, PresentIsSeen DEF Shows
  <2> QED BY <1>3, <2>3, <2>4, ExtrasAreTheUnlisted DEF Drifted
<1> QED BY <1>2, <1>3

LEMMA StatusType ==
  ASSUME IInv, NEW w \in Tasks, NEW k \in Keys
  PROVE  Rows(w)[k].status \in Statuses
<1>1. \A desired, seen : ManagedStatus(desired, seen) \in Statuses
  BY DEF ManagedStatus, Statuses
<1>2. \A seen : UnmanagedStatus(k, Plans(w), seen) \in Statuses
  BY DEF UnmanagedStatus, Statuses
<1> QED BY <1>1, <1>2 DEF Rows, Compute

LEMMA AuditExit ==
  ASSUME IInv, NEW w \in Tasks, Mirror(w), Announcing(w), Undisturbed(w),
         pc[w] = "done", Cmd(w) = "audit", ~NoPlan(w)
  PROVE  /\ ExitCode(w) = 1 <=> \E k \in Keys : Drifted(TargetOf(w), k)
         /\ \A k \in Keys : Drifted(TargetOf(w), k) =>
              k \in Shown(Rows(w), job[w].showIgnored, job[w].verbose)
<1>1. \A k \in Keys : snap[w][k] = Shows(k, live[TargetOf(w)][k])
  BY KeysAssumption DEF Mirror, OnlyLooks, KindsListed, Kind, Ahead
<1>2. \A k \in Keys : Rows(w)[k].status \in {"missing", "mismatch", "extra"}
                        <=> Drifted(TargetOf(w), k)
  BY <1>1, RowsAreExact
<1>3. ExitCode(w) = 1 <=> HasDrift(Rows(w))
  BY DEF ExitCode, Announcing, OnlyLooks
<1>4. HasDrift(Rows(w)) <=> \E k \in Keys : Rows(w)[k].status \in {"missing", "mismatch", "extra"}
  BY StatusType DEF HasDrift, Statuses
<1>5. \A k \in Keys : Drifted(TargetOf(w), k) =>
        k \in Shown(Rows(w), job[w].showIgnored, job[w].verbose)
  BY <1>2 DEF Shown
<1> QED BY <1>2, <1>3, <1>4, <1>5

\* Nothing was seen, announced or printed before the first step.
LEMMA LookingAtFirst ==
  ASSUME Init, NEW w \in Tasks
  PROVE  Unseen(w) /\ Mirror(w) /\ Announcing(w)
BY DEF Init, Unseen, NoSeen, Mirror, KindsListed, Ahead, Announcing, NoLines

\* An audit that had its target for itself, and whose listings fit on a page, exits
\* with 1 exactly when an entry drifted, and prints every entry that did.
THEOREM AuditsAreExact ==
  ASSUME Fits
  PROVE  Spec => []AuditIsExact
<1> DEFINE Past == \A w \in Tasks : Progress(w) /\ Unseen(w) /\ Mirror(w) /\ Announcing(w)
<1>1. Init => Past
  BY ProgressAtFirst, LookingAtFirst
<1>2. IInv /\ Past /\ [Next]_vars => Past'
  BY ProgressIsInductive, UnseenIsInductive, MirrorIsInductive, AnnouncingIsInductive
<1>3. IInv /\ Past => AuditIsExact
  BY AuditExit DEF AuditIsExact, Undisturbed
<1> HIDE DEF Past
<1> QED BY <1>1, <1>2, <1>3, Invariance, PTL DEF Spec

-----------------------------------------------------------------------------
(* The dry run.                                                            *)

\* What a dry run that ended just before w began must have said of k: what w's
\* listing shows already, and GitHub for what w has not listed yet.
Expected(w, k) ==
  IF k \in Managed(Plans(w)) THEN "would-set"
  ELSE IF /\ ~Listed(cfg, TargetOf(w), k)
          /\ (IF Kind(k) \in KindsListed(w) THEN snap[w][k] ELSE live[TargetOf(w)][k]) # None
       THEN "would-delete"
  ELSE "none"

Foretold(w) ==
  Undisturbed(w) /\ Cmd(w) = "enforce" /\ forecast[w] # None /\ pc[w] \notin {"error", "killed"}
    => forecast[w] = IF NoPlan(w) THEN NoLines ELSE [k \in Keys |-> Expected(w, k)]

\* The dry run's lines, said with GitHub instead of its snapshot.
LEMMA PreviewIsExpected ==
  ASSUME IInv, NEW w \in Tasks, Mirror(w), Announcing(w), Undisturbed(w),
         pc[w] = "done", Cmd(w) = "dry-run", ~NoPlan(w), NEW k \in Keys
  PROVE  body[w][k] = IF k \in Managed(Plans(w)) THEN "would-set"
                      ELSE IF ~Listed(cfg, TargetOf(w), k) /\ live[TargetOf(w)][k] # None
                           THEN "would-delete"
                      ELSE "none"
<1>1. snap[w][k] = Shows(k, live[TargetOf(w)][k])
  BY KeysAssumption DEF Mirror, OnlyLooks, KindsListed, Kind, Ahead
<1>2. TargetOf(w) \in Targets
  BY DEF IInv, TypeOK, TargetOf, Job
<1>3. k \in Extras(Rows(w)) <=> ~Listed(cfg, TargetOf(w), k) /\ live[TargetOf(w)][k] # None
  BY <1>1, <1>2, ExtrasAreTheUnlisted, PresentIsSeen DEF Shows
<1>4. body[w] = PreviewLines(w)
  BY DEF Announcing
<1> QED BY <1>3, <1>4 DEF PreviewLines

LEMMA ForetoldAfterDryRun ==
  ASSUME IInv, [Next]_vars, NEW w \in Tasks, Mirror(w), Announcing(w), Rerun(w)
  PROVE  Foretold(w)'
<1> SUFFICES ASSUME Undisturbed(w)', forecast'[w] # None
             PROVE  Foretold(w)'
  BY DEF Foretold
<1>1. /\ pc[w] = "done" /\ Cmd(w) = "dry-run" /\ forecast'[w] = body[w] /\ touched'[w] = touched[w]
      /\ pc'[w] = "start" /\ live' = live
  BY DEF Rerun, Goto, IInv, TypeOK
<1>2. Undisturbed(w) /\ cfg' = cfg /\ TargetOf(w)' = TargetOf(w)
  BY <1>1, OthersDoNotShow DEF Undisturbed
<1>3. /\ NoPlan(w)' = NoPlan(w) /\ Plans(w)' = Plans(w)
      /\ \A k \in Keys : Listed(cfg, TargetOf(w), k)' = Listed(cfg, TargetOf(w), k)
  BY <1>2, ScopeKept
<1>4. CASE NoPlan(w)
  BY <1>1, <1>3, <1>4 DEF Foretold, Announcing, PreviewLines
<1>5. CASE ~NoPlan(w)
  <2>1. \A k \in Keys : Expected(w, k)' = body[w][k]
    <3>1. KindsListed(w)' = {}
      BY <1>1 DEF KindsListed, Ahead
    <3> QED BY <1>1, <1>2, <1>3, <1>5, <3>1, PreviewIsExpected DEF Expected
  <2>2. body[w] = [k \in Keys |-> body[w][k]]
    BY DEF IInv, TypeOK
  <2> QED BY <1>1, <1>3, <1>5, <2>1, <2>2 DEF Foretold
<1> QED BY <1>4, <1>5

LEMMA ForetoldAfterListing ==
  ASSUME Fits, IInv, [Next]_vars, NEW w \in Tasks, Progress(w), Unseen(w), Foretold(w), List(w)
  PROVE  Foretold(w)'
<1> DEFINE t == TargetOf(w)
<1> SUFFICES ASSUME Undisturbed(w)', Cmd(w)' = "enforce", forecast'[w] # None,
                    pc'[w] \notin {"error", "killed"}
             PROVE  Foretold(w)'
  BY DEF Foretold
<1>1. /\ pc[w] \in Kinds /\ live' = live /\ t' = t /\ cfg' = cfg /\ forecast' = forecast
      /\ Undisturbed(w) /\ Cmd(w) = "enforce" /\ ~NoPlan(w) /\ ~NoPlan(w)'
  BY ListEffect DEF TargetOf, Undisturbed, Alone, Cmd, Progress, Listing, NoPlan, env
<1>2. forecast[w] = [k \in Keys |-> Expected(w, k)]
  BY <1>1 DEF Foretold, Kinds
<1>3. PICK page \in Pages(t, pc[w]) : \A k \in Keys :
        snap'[w][k] = IF k \in page THEN View(k, live[t][k]) ELSE snap[w][k]
  BY ListEffect
<1>4. KindsListed(w)' = KindsListed(w) \cup {pc[w]} /\ pc[w] \notin KindsListed(w)
  BY <1>1, ListEffect
<1>5. page = {k \in Keys : Kind(k) = pc[w] /\ live[t][k] # None}
  BY <1>1, PageIsComplete
<1>6. \A k \in Keys : Plans(w)' = Plans(w) /\ Listed(cfg, t, k)' = Listed(cfg, t, k)
  BY <1>1, ScopeKept
<1>7. ASSUME NEW k \in Keys
      PROVE  Expected(w, k)' = Expected(w, k)
  <2>1. CASE Kind(k) = pc[w]
    <3>1. snap[w][k] = None /\ t \in Targets
      BY <1>1, <1>4, <2>1 DEF Unseen, IInv, TypeOK, TargetOf, Job
    <3>2. snap'[w][k] # None <=> live[t][k] # None
      BY <1>3, <1>5, <2>1, <3>1, PresentIsSeen
    <3> QED BY <1>1, <1>4, <1>6, <2>1, <3>2 DEF Expected
  <2>2. CASE Kind(k) # pc[w]
    <3>1. snap'[w][k] = snap[w][k]
      BY <1>3, <1>5, <2>2
    <3> QED BY <1>1, <1>4, <1>6, <2>2, <3>1 DEF Expected
  <2> QED BY <2>1, <2>2
<1> QED BY <1>1, <1>2, <1>7 DEF Foretold

LEMMA ForetoldIsInductive ==
  ASSUME Fits, IInv, [Next]_vars, NEW w \in Tasks, Progress(w), Unseen(w), Mirror(w),
         Announcing(w), Foretold(w)
  PROVE  Foretold(w)'
<1> SUFFICES ASSUME Undisturbed(w)', Cmd(w)' = "enforce", forecast'[w] # None,
                    pc'[w] \notin {"error", "killed"}, ~Rerun(w), ~List(w)
             PROVE  Foretold(w)'
  BY ForetoldAfterDryRun, ForetoldAfterListing DEF Foretold
<1>1. /\ cfg' = cfg /\ TargetOf(w)' = TargetOf(w) /\ TargetOf(w) \in Targets
      /\ Advance(w) \/ Kill(w) \/ UNCHANGED <<TaskState(w), live[TargetOf(w)]>>
  BY OthersDoNotShow
<1>2. ~Kill(w)
  BY DEF Kill, Goto, IInv, TypeOK
<1>3. job'[w] = job[w] /\ touched'[w] = touched[w] /\ forecast'[w] = forecast[w]
  BY <1>1, <1>2, AdvanceFrame DEF TaskState, env
<1>4. Undisturbed(w) /\ Cmd(w) = "enforce"
  BY <1>3, AloneKept DEF Undisturbed, Cmd
<1>5. /\ NoPlan(w)' = NoPlan(w) /\ Plans(w)' = Plans(w)
      /\ \A k \in Keys : Listed(cfg, TargetOf(w), k)' = Listed(cfg, TargetOf(w), k)
  BY <1>1, ScopeKept
<1>6. pc[w] \notin {"error", "killed"} /\ snap'[w] = snap[w]
  <2>1. CASE Advance(w)
    BY <2>1, KindsListedShrink DEF Advance, Begin, List, Report, Preview, Prepare, LookUpId,
       FetchActionsKey, FetchDependabotKey, UpdateVariable, CreateVariable, PutSecret, FinishApply,
       DeleteEntry, FinishDelete, Kinds
  <2>2. CASE UNCHANGED TaskState(w)
    BY <2>2 DEF TaskState
  <2> QED BY <1>1, <1>2, <2>1, <2>2
<1>7. forecast[w] = IF NoPlan(w) THEN NoLines ELSE [k \in Keys |-> Expected(w, k)]
  BY <1>3, <1>4, <1>6 DEF Foretold
<1>8. ASSUME ~NoPlan(w), NEW k \in Keys
      PROVE  Expected(w, k)' = Expected(w, k)
  <2>1. CASE UNCHANGED <<TaskState(w), live[TargetOf(w)]>>
    <3>1. KindsListed(w)' = KindsListed(w)
      BY <1>1, <1>5, <2>1 DEF KindsListed, Cmd, TaskState
    <3> QED BY <1>1, <1>5, <1>6, <2>1, <3>1 DEF Expected
  <2>2. CASE Begin(w)
    <3>1. KindsListed(w)' = {} /\ KindsListed(w) = {} /\ live' = live
      BY <1>4, <1>8, <2>2, BeginEffect DEF KindsListed, Ahead
    <3> QED BY <1>1, <1>5, <1>6, <3>1 DEF Expected
  <2>3. CASE Advance(w) /\ ~Begin(w)
    <3>1. /\ pc[w] \in {"live", "ids"} \cup Ahead
          /\ pc'[w] \in {"ids", "done"} \cup Ahead
      BY <2>3 DEF Advance, Report, Preview, Prepare, LookUpId, FetchActionsKey,
         FetchDependabotKey, FetchKey, UpdateVariable, CreateVariable, PutSecret, FinishApply,
         DeleteEntry, FinishDelete, Goto, Ahead, IInv, TypeOK
    <3>2. KindsListed(w)' = Kinds /\ KindsListed(w) = Kinds
      BY <1>4, <1>5, <1>8, <3>1 DEF KindsListed, Ahead
    <3>3. Kind(k) \in Kinds
      BY KeysAssumption DEF Kind
    <3> QED BY <1>1, <1>5, <1>6, <3>2, <3>3 DEF Expected
  <2> QED BY <1>1, <1>2, <2>1, <2>2, <2>3
<1> QED BY <1>3, <1>5, <1>7, <1>8 DEF Foretold

LEMMA EnforceDoesAsForetold ==
  ASSUME IInv, LinesTellTheTruth, NEW w \in Tasks, Progress(w), Announcing(w), Foretold(w),
         pc[w] = "done", Cmd(w) = "enforce", forecast[w] # None, Undisturbed(w), NEW k \in Keys
  PROVE  /\ forecast[w][k] = "none" <=> body[w][k] = "none"
         /\ body[w][k] = "ok" => forecast[w][k] = "would-set"
         /\ body[w][k] = "deleted" => forecast[w][k] = "would-delete"
<1> DEFINE t == TargetOf(w)
<1>1. body[w][k] \in {"none", "ok", "deleted", "FAILED"} /\ t \in Targets
  BY DEF Announcing, IInv, TypeOK, Lines, TargetOf, Job
<1>2. k \in Due(w) <=> body[w][k] # "none"
  BY <1>1 DEF Progress, Attempted
<1>3. CASE NoPlan(w)
  BY <1>1, <1>2, <1>3 DEF Foretold, NoLines, Due
<1>4. CASE ~NoPlan(w)
  <2>1. forecast[w][k] = Expected(w, k)
    BY <1>4 DEF Foretold
  <2>2. Kind(k) \in KindsListed(w)
    BY <1>4, KeysAssumption DEF KindsListed, Kind, Ahead
  <2>3. k \in Due(w) <=> k \in Managed(Plans(w)) \/ (~Listed(cfg, t, k) /\ snap[w][k] # None)
    BY <1>4, ExtrasAreTheUnlisted DEF Due
  <2>4. forecast[w][k] = "none" <=> body[w][k] = "none"
    BY <1>2, <2>1, <2>2, <2>3 DEF Expected
  <2>5. k \in Managed(Plans(w)) <=> Wanted(cfg, t, k) # None
    BY <1>1, CascadeIsPrecedence DEF Managed, Plans
  <2>6. Wanted(cfg, t, k) # None => Listed(cfg, t, k)
    BY DEF Wanted, Listed, Decider, Mentions, Layers
  <2>7. ASSUME body[w][k] = "ok"
        PROVE  forecast[w][k] = "would-set"
    <3>1. Wanted(cfg, t, k) # None
      BY <2>7 DEF LinesTellTheTruth, Undisturbed, IsSet
    <3> QED BY <2>1, <2>5, <3>1 DEF Expected
  <2>8. ASSUME body[w][k] = "deleted"
        PROVE  forecast[w][k] = "would-delete"
    <3>1. ~Listed(cfg, t, k)
      BY <2>8 DEF LinesTellTheTruth, Undisturbed, IsGone
    <3> QED BY <1>2, <2>1, <2>2, <2>3, <2>5, <2>6, <2>8, <3>1 DEF Expected
  <2> QED BY <2>4, <2>7, <2>8
<1> QED BY <1>3, <1>4

LEMMA ForetoldAtFirst ==
  ASSUME Init, NEW w \in Tasks
  PROVE  Foretold(w)
BY DEF Init, Foretold

\* If the listings fit on a page and nobody else works on the target from the
\* start of a dry run to the end of the enforce right after it, the enforce tries
\* exactly the entries the dry run announced, and does to each what it said.
THEOREM DryRunsPredict ==
  ASSUME Fits
  PROVE  Spec => []DryRunPredictsEnforce
<1> DEFINE Past == \A w \in Tasks : /\ Progress(w) /\ Unseen(w) /\ Mirror(w) /\ Announcing(w)
                                    /\ Foretold(w)
<1>1. Init => Past
  BY ProgressAtFirst, LookingAtFirst, ForetoldAtFirst
<1>2. IInv /\ Past /\ [Next]_vars => Past'
  BY ProgressIsInductive, UnseenIsInductive, MirrorIsInductive, AnnouncingIsInductive,
     ForetoldIsInductive
<1>3. IInv /\ LinesTellTheTruth /\ Past => DryRunPredictsEnforce
  BY EnforceDoesAsForetold DEF DryRunPredictsEnforce, Undisturbed
<1> HIDE DEF Past
<1> QED BY <1>1, <1>2, <1>3, Invariance, LinesAreTrue, PTL DEF Spec

-----------------------------------------------------------------------------
(* No failure of its own making.                                           *)

\* Nothing stands in the way of w: its values resolve, no call was lost.
Unhindered(w) ==
  Undisturbed(w) /\ faults = 0 /\ ~NoPlan(w) /\ Actionable(TargetOf(w))

\* What w saw and would delete is still there.
StillThere(w) ==
  \A k \in Keys : ~Listed(cfg, TargetOf(w), k) /\ snap[w][k] # None => live[TargetOf(w)][k] # None

\* What an unhindered task can rely on where it is.
Smooth(w) ==
  Unhindered(w) =>
    /\ pc[w] \notin {"error", "killed"} /\ failed[w] = 0
    /\ pc[w] \in Ahead /\ Needs(w, "secrets") => "actions" \in keyring[w]
    /\ pc[w] \in Setting /\ Needs(w, "dependabot") => "dependabot" \in keyring[w]
    /\ pc[w] = "create" => \A k \in todo[w] : IsFirst(k, todo[w]) => live[TargetOf(w)][k] = None
    /\ pc[w] = "delete" => \A k \in todo[w] : live[TargetOf(w)][k] # None
    /\ pc[w] \notin {"delete"} \cup Terminal => StillThere(w)

LEMMA BeforeIsStrict ==
  ASSUME NEW j \in Keys, NEW k \in Keys, Before(j, k)
  PROVE  ~Before(k, j)
<1>1. KindRank["vars"] = 0 /\ KindRank["secrets"] = 1 /\ KindRank["dependabot"] = 2
  BY DEF KindRank, Kinds
<1>2. Kind(j) \in Kinds /\ Kind(k) \in Kinds /\ j[2] \in Nat /\ k[2] \in Nat
  BY KeysAssumption DEF Kind
<1> QED BY <1>1, <1>2 DEF Before, Kinds

\* A write phase has one next entry.
LEMMA FirstIsUnique ==
  ASSUME NEW S \in SUBSET Keys, NEW j, NEW k, IsFirst(j, S), IsFirst(k, S)
  PROVE  j = k
BY BeforeIsStrict DEF IsFirst

\* If no call was lost after a step, none was lost in it.
LEMMA AnsweredOk ==
  ASSUME IInv, NEW answer, Reply(answer), faults' = 0
  PROVE  answer = "ok" /\ faults = 0
BY DEF Reply, IInv, TypeOK

\* An unhindered task was so before its own step.
LEMMA UnhinderedBefore ==
  ASSUME IInv, [Next]_vars, NEW w \in Tasks, Unhindered(w)', ~Rerun(w)
  PROVE  /\ Unhindered(w) /\ faults' = 0 /\ cfg' = cfg /\ job'[w] = job[w]
         /\ TargetOf(w)' = TargetOf(w) /\ TargetOf(w) \in Targets
         /\ Advance(w) \/ UNCHANGED <<TaskState(w), live[TargetOf(w)]>>
<1>1. /\ Alone(w) /\ cfg' = cfg /\ TargetOf(w)' = TargetOf(w) /\ TargetOf(w) \in Targets
      /\ Advance(w) \/ Kill(w) \/ UNCHANGED <<TaskState(w), live[TargetOf(w)]>>
  BY OthersDoNotShow DEF Unhindered
<1>2. faults' = 0 /\ faults \in Nat
  BY BoundAssumption DEF Unhindered, IInv, TypeOK
<1>3. ~Kill(w)
  BY <1>2 DEF Kill
<1>4. job'[w] = job[w] /\ touched'[w] = touched[w]
  BY <1>1, <1>3, AdvanceFrame DEF TaskState, env
<1>5. faults = 0
  <2>1. \A answer : Reply(answer) => faults = 0
    BY <1>2, AnsweredOk
  <2>2. ASSUME NEW v \in Tasks, Advance(v) PROVE faults = 0
    BY <1>2, <2>1, <2>2 DEF Advance, Begin, List, Report, Preview, Prepare, LookUpId,
       FetchActionsKey, FetchDependabotKey, FetchKey, UpdateVariable, CreateVariable, PutSecret,
       FinishApply, DeleteEntry, FinishDelete
  <2> QED BY <1>2, <2>2 DEF Next, Kill, Rerun, ForeignChange, vars
<1>6. Unhindered(w)
  BY <1>1, <1>4, <1>5, ScopeKept DEF Unhindered, Undisturbed
<1> QED BY <1>1, <1>2, <1>3, <1>4, <1>6

\* A task nothing stands in the way of resolves everything, ids included.
LEMMA ActionableIsResolvable ==
  ASSUME IInv, NEW w \in Tasks, Actionable(TargetOf(w))
  PROVE  Resolvable(w) /\ \A r \in SelectedNames(w) : RepoId[r] # None
<1> DEFINE t == TargetOf(w)
<1>1. t \in Targets
  BY DEF IInv, TypeOK, TargetOf, Job
<1>2. ASSUME NEW k \in Managed(Plans(w))
      PROVE  /\ k \in Keys /\ Wanted(cfg, t, k) # None
             /\ Plans(w)[k].entry = Wanted(cfg, t, k)
  BY <1>1, CascadeIsPrecedence DEF Managed, Plans
<1>3. Resolvable(w)
  BY <1>2 DEF Resolvable, MustResolve, Actionable
<1>4. ASSUME NEW r \in SelectedNames(w)
      PROVE  RepoId[r] # None
  <2>1. PICK k \in Managed(Plans(w)) : Plans(w)[k].entry.vis = "selected"
                                       /\ r \in Plans(w)[k].entry.repos
    BY DEF SelectedNames
  <2> QED BY <1>2, <2>1 DEF Actionable
<1> QED BY <1>3, <1>4

\* What is seen stays there as long as no step of w deletes it.
LEMMA StillThereKept ==
  ASSUME IInv, NEW w \in Tasks, StillThere(w), cfg' = cfg, TargetOf(w)' = TargetOf(w),
         snap'[w] = snap[w], live'[TargetOf(w)] = live[TargetOf(w)]
  PROVE  StillThere(w)'
BY ScopeKept DEF StillThere

\* The steps that change nothing on GitHub.
LEMMA SmoothReading ==
  ASSUME IInv, [Next]_vars, NEW w \in Tasks, Smooth(w), Unhindered(w)',
         Begin(w) \/ Report(w) \/ Preview(w) \/ Prepare(w) \/ LookUpId(w)
  PROVE  Smooth(w)'
<1>1. /\ Unhindered(w) /\ faults' = 0 /\ cfg' = cfg /\ TargetOf(w)' = TargetOf(w)
  BY UnhinderedBefore DEF Begin, Report, Preview, Prepare, LookUpId, Rerun, Terminal
<1>2. Resolvable(w) /\ (\A r \in SelectedNames(w) : RepoId[r] # None) /\ ~NoPlan(w)
  BY <1>1, ActionableIsResolvable DEF Unhindered
<1>3. UNCHANGED <<live, snap, failed>>
  BY DEF Begin, Report, Preview, Prepare, LookUpId
<1>4. pc'[w] \in {"vars", "ids", "done"} /\ pc[w] \in {"start", "ids"} \cup Listing
  <2>1. CASE Begin(w)
    BY <1>2, <2>1, BeginEffect
  <2>2. CASE Report(w) \/ Preview(w) \/ Prepare(w)
    BY <2>2 DEF Report, Preview, Prepare, Goto, Listing, IInv, TypeOK
  <2>3. CASE LookUpId(w)
    <3>1. PICK r \in SelectedNames(w), answer \in Reads :
            /\ Reply(answer)
            /\ IF answer = "ok" /\ RepoId[r] # None
               THEN ids' = [ids EXCEPT ![w][r] = RepoId[r]] /\ pc' = pc
               ELSE ids' = ids /\ Goto(w, "error")
      BY <2>3 DEF LookUpId
    <3>2. answer = "ok" /\ RepoId[r] # None
      BY <1>1, <1>2, <3>1, AnsweredOk
    <3> QED BY <2>3, <3>1, <3>2 DEF LookUpId
  <2> QED BY <2>1, <2>2, <2>3
<1>5. failed[w] = 0 /\ StillThere(w)
  BY <1>1, <1>4 DEF Smooth, Listing, Kinds, Terminal
<1>6. StillThere(w)'
  BY <1>1, <1>3, <1>5, StillThereKept
<1> QED BY <1>3, <1>4, <1>5, <1>6 DEF Smooth, Ahead, Setting, Listing, Kinds

LEMMA SmoothListing ==
  ASSUME IInv, [Next]_vars, NEW w \in Tasks, Smooth(w), Unhindered(w)', List(w)
  PROVE  Smooth(w)'
<1> DEFINE t == TargetOf(w)
<1>1. /\ Unhindered(w) /\ faults' = 0 /\ faults = 0 /\ cfg' = cfg /\ t' = t /\ t \in Targets
  BY UnhinderedBefore DEF List, Kinds, Rerun, Terminal, Unhindered
<1>2. pc[w] \in Kinds /\ UNCHANGED <<live, failed>>
  BY ListEffect
<1>3. /\ pc'[w] = NextListing[pc[w]]
      /\ \E page \in Pages(t, pc[w]) : \A k \in Keys :
           snap'[w][k] = IF k \in page THEN View(k, live[t][k]) ELSE snap[w][k]
  BY <1>1, ListEffect
<1>4. pc'[w] \in {"secrets", "dependabot", "live"}
  BY <1>2, <1>3 DEF NextListing, Kinds
<1>5. failed[w] = 0 /\ StillThere(w)
  BY <1>1, <1>2 DEF Smooth, Kinds, Terminal
<1>6. StillThere(w)'
  BY <1>1, <1>2, <1>3, <1>5, PageHasOneKind DEF StillThere
<1> QED BY <1>2, <1>4, <1>5, <1>6 DEF Smooth, Ahead, Setting

LEMMA SmoothKeys ==
  ASSUME IInv, [Next]_vars, NEW w \in Tasks, Smooth(w), Unhindered(w)',
         FetchActionsKey(w) \/ FetchDependabotKey(w)
  PROVE  Smooth(w)'
<1>1. /\ Unhindered(w) /\ faults' = 0 /\ cfg' = cfg /\ TargetOf(w)' = TargetOf(w)
      /\ \A kind : Needs(w, kind)' = Needs(w, kind)
  BY UnhinderedBefore, ScopeKept DEF FetchActionsKey, FetchDependabotKey, Rerun, Terminal
<1>2. UNCHANGED <<live, snap, failed>> /\ pc[w] \in {"ids", "depKey"}
  BY DEF FetchActionsKey, FetchDependabotKey
<1>3. failed[w] = 0 /\ StillThere(w)'
  BY <1>1, <1>2, StillThereKept DEF Smooth, Terminal
<1>4. ASSUME NEW kind, NEW family, NEW next, FetchKey(w, kind, family, next)
      PROVE  /\ pc'[w] = next /\ keyring[w] \subseteq keyring'[w]
             /\ Needs(w, kind) => family \in keyring'[w]
  <2>1. PICK answer : /\ Reply(answer)
                      /\ Goto(w, IF answer = "ok" THEN next ELSE "error")
                      /\ keyring' = [keyring EXCEPT ![w] = IF Needs(w, kind) /\ answer = "ok"
                                       THEN @ \cup {family} ELSE @]
    BY <1>4 DEF FetchKey
  <2>2. answer = "ok"
    BY <1>1, <2>1, AnsweredOk
  <2> QED BY <2>1, <2>2 DEF Goto, IInv, TypeOK
<1>5. CASE FetchActionsKey(w)
  <2>1. pc'[w] = "depKey" /\ (Needs(w, "secrets") => "actions" \in keyring'[w])
    BY <1>4, <1>5 DEF FetchActionsKey
  <2> QED BY <1>1, <1>2, <1>3, <2>1 DEF Smooth, Ahead, Setting
<1>6. CASE FetchDependabotKey(w)
  <2>1. /\ pc'[w] = "apply" /\ (Needs(w, "dependabot") => "dependabot" \in keyring'[w])
        /\ keyring[w] \subseteq keyring'[w] /\ pc[w] = "depKey"
    BY <1>4, <1>6 DEF FetchDependabotKey
  <2>2. Needs(w, "secrets") => "actions" \in keyring[w]
    BY <1>1, <2>1 DEF Smooth, Ahead
  <2> QED BY <1>1, <1>2, <1>3, <2>1, <2>2 DEF Smooth, Ahead, Setting
<1> QED BY <1>5, <1>6

\* Setting an entry removes nothing.
LEMMA SettingRemovesNothing ==
  ASSUME IInv, NEW w \in Tasks, StillThere(w), pc[w] \in Setting, NEW k \in todo[w],
         live' = live \/ Store(w, k, Payload(w, k), "ok"),
         cfg' = cfg, TargetOf(w)' = TargetOf(w), snap'[w] = snap[w]
  PROVE  StillThere(w)'
<1>1. CASE live' = live
  BY <1>1, StillThereKept
<1>2. CASE Store(w, k, Payload(w, k), "ok")
  <2>1. TargetOf(w) \in Targets /\ k \in Keys /\ Payload(w, k) # None
    BY PayloadIsWanted, CellAssumption DEF IInv, TypeOK, TargetOf, Job
  <2>2. \A j \in Keys : live[TargetOf(w)][j] # None => live'[TargetOf(w)][j] # None
    BY <1>2, <2>1, StoreEffect
  <2> QED BY <2>2, ScopeKept DEF StillThere
<1> QED BY <1>1, <1>2

\* An attempt that was answered with "ok" leaves everything smooth.
LEMMA SmoothSettled ==
  ASSUME IInv, NEW w \in Tasks, Smooth(w), Unhindered(w), Unhindered(w)', pc[w] \in Setting,
         cfg' = cfg, TargetOf(w)' = TargetOf(w), UNCHANGED <<snap, keyring>>, pc'[w] = "apply",
         NEW k \in todo[w], Store(w, k, Payload(w, k), "ok"), Settle(w, k, "ok", "ok")
  PROVE  Smooth(w)'
<1>1. StillThere(w)'
  BY SettingRemovesNothing DEF Smooth, Setting, Terminal
<1>2. failed'[w] = 0
  BY DEF Smooth, Settle, IInv, TypeOK
<1>3. \A kind : Needs(w, kind)' = Needs(w, kind)
  BY ScopeKept
<1> QED BY <1>1, <1>2, <1>3 DEF Smooth, Setting, Ahead

LEMMA SmoothSetting ==
  ASSUME IInv, [Next]_vars, NEW w \in Tasks, Smooth(w), Unhindered(w)',
         UpdateVariable(w) \/ CreateVariable(w) \/ PutSecret(w)
  PROVE  Smooth(w)'
<1> DEFINE t == TargetOf(w)
<1>1. /\ Unhindered(w) /\ faults' = 0 /\ cfg' = cfg /\ t' = t /\ t \in Targets
      /\ \A kind : Needs(w, kind)' = Needs(w, kind)
  BY UnhinderedBefore, ScopeKept
     DEF UpdateVariable, CreateVariable, PutSecret, Rerun, Terminal
<1>2. UNCHANGED <<snap, keyring>> /\ pc[w] \in Setting
  BY DEF UpdateVariable, CreateVariable, PutSecret, Setting
<1>3. todo[w] \subseteq Managed(Plans(w)) /\ todo[w] \subseteq Keys
  BY <1>2 DEF IInv, TypeOK, Ready
<1>4. CASE UpdateVariable(w)
  <2>1. PICK k \in todo[w], answer \in Writes :
          /\ IsFirst(k, todo[w]) /\ Reply(answer)
          /\ IF live[t][k] = None /\ answer = "ok"
             THEN Goto(w, "create") /\ UNCHANGED <<live, todo, body, failed>>
             ELSE /\ pc' = pc
                  /\ IF live[t][k] = None THEN live' = live
                     ELSE Store(w, k, Payload(w, k), answer)
                  /\ Settle(w, k, answer, "ok")
    BY <1>4 DEF UpdateVariable
  <2>2. answer = "ok" /\ pc[w] = "apply"
    BY <1>1, <1>4, <2>1, AnsweredOk DEF UpdateVariable
  <2>3. CASE live[t][k] = None
    <3>1. pc'[w] = "create" /\ UNCHANGED <<live, todo, failed>>
      BY <2>1, <2>2, <2>3 DEF Goto, IInv, TypeOK
    <3>2. \A j \in todo[w] : IsFirst(j, todo[w]) => live[t][j] = None
      BY <1>3, <2>1, <2>3, FirstIsUnique
    <3>3. StillThere(w)'
      BY <1>1, <1>2, <2>2, <3>1, StillThereKept DEF Smooth, Terminal
    <3> QED BY <1>1, <1>2, <2>2, <3>1, <3>2, <3>3 DEF Smooth, Setting, Ahead
  <2>4. CASE live[t][k] # None
    BY <1>1, <1>2, <2>1, <2>2, <2>4, SmoothSettled
  <2> QED BY <2>3, <2>4
<1>5. CASE CreateVariable(w)
  <2>1. PICK k \in todo[w], answer \in Writes :
          /\ IsFirst(k, todo[w]) /\ Reply(answer)
          /\ IF live[t][k] = None
             THEN Store(w, k, Payload(w, k), answer) /\ Settle(w, k, answer, "ok")
             ELSE live' = live /\ Settle(w, k, "conflict", "ok")
    BY <1>5 DEF CreateVariable
  <2>2. pc[w] = "create" /\ pc'[w] = "apply"
    BY <1>5 DEF CreateVariable, Goto, IInv, TypeOK
  <2>3. answer = "ok" /\ live[t][k] = None
    BY <1>1, <2>1, <2>2, AnsweredOk DEF Smooth
  <2> QED BY <1>1, <1>2, <2>1, <2>2, <2>3, SmoothSettled
<1>6. CASE PutSecret(w)
  <2>1. PICK k \in todo[w], answer \in Writes :
          /\ Kind(k) # "vars" /\ Reply(answer)
          /\ IF SealingKey(k) \in keyring[w]
             THEN Store(w, k, Payload(w, k), answer) /\ Settle(w, k, answer, "ok")
             ELSE live' = live /\ Settle(w, k, "noKey", "ok")
    BY <1>6 DEF PutSecret
  <2>2. answer = "ok" /\ pc[w] = "apply" /\ pc'[w] = "apply"
    BY <1>1, <1>6, <2>1, AnsweredOk DEF PutSecret
  <2>3. SealingKey(k) \in keyring[w]
    <3>1. Kind(k) \in {"secrets", "dependabot"} /\ Needs(w, Kind(k))
      BY <1>3, <2>1, KeysAssumption DEF Needs, Kind, Kinds
    <3> QED BY <1>1, <2>2, <3>1 DEF Smooth, SealingKey, Setting, Ahead
  <2> QED BY <1>1, <1>2, <2>1, <2>2, <2>3, SmoothSettled
<1> QED BY <1>4, <1>5, <1>6

LEMMA SmoothDeleting ==
  ASSUME IInv, [Next]_vars, NEW w \in Tasks, Smooth(w), Unhindered(w)',
         FinishApply(w) \/ DeleteEntry(w) \/ FinishDelete(w)
  PROVE  Smooth(w)'
<1> DEFINE t == TargetOf(w)
<1>1. /\ Unhindered(w) /\ faults' = 0 /\ cfg' = cfg /\ t' = t /\ t \in Targets
      /\ \A kind : Needs(w, kind)' = Needs(w, kind)
  BY UnhinderedBefore, ScopeKept
     DEF FinishApply, DeleteEntry, FinishDelete, Rerun, Terminal
<1>2. CASE FinishApply(w)
  <2>1. pc[w] = "apply" /\ UNCHANGED <<live, keyring, failed>>
    BY <1>2 DEF FinishApply
  <2>2. pc'[w] = "done" \/ (pc'[w] = "delete" /\ todo'[w] = Extras(Rows(w)))
    BY <1>2 DEF FinishApply, Goto, Extras, IInv, TypeOK
  <2>3. \A k \in Extras(Rows(w)) : live[t][k] # None
    <3>1. \A k \in Extras(Rows(w)) : k \in Keys
      BY DEF Extras
    <3> QED BY <1>1, <2>1, <3>1, ExtrasAreTheUnlisted DEF Smooth, StillThere, Terminal
  <2> QED BY <1>1, <2>1, <2>2, <2>3 DEF Smooth, Ahead, Setting, Terminal
<1>3. CASE DeleteEntry(w)
  <2>1. PICK k \in todo[w], answer \in Writes :
          /\ Reply(answer)
          /\ IF live[t][k] # None
             THEN Store(w, k, None, answer) /\ Settle(w, k, answer, "deleted")
             ELSE live' = live /\ Settle(w, k, "notFound", "deleted")
    BY <1>3 DEF DeleteEntry
  <2>2. pc[w] = "delete" /\ pc'[w] = "delete" /\ keyring' = keyring
    BY <1>3 DEF DeleteEntry
  <2>3. answer = "ok" /\ live[t][k] # None
    BY <1>1, <2>1, <2>2, AnsweredOk DEF Smooth
  <2>4. failed'[w] = 0 /\ todo'[w] = todo[w] \ {k} /\ todo[w] \subseteq Keys
    BY <1>1, <2>1, <2>3 DEF Smooth, Settle, IInv, TypeOK
  <2>5. \A j \in todo'[w] : live'[t][j] # None
    BY <1>1, <2>1, <2>2, <2>3, <2>4, StoreEffect DEF Smooth
  <2> QED BY <1>1, <2>2, <2>4, <2>5 DEF Smooth, Ahead, Setting, Terminal
<1>4. CASE FinishDelete(w)
  <2>1. pc'[w] = "done" /\ failed' = failed
    BY <1>4 DEF FinishDelete, Goto, IInv, TypeOK
  <2> QED BY <1>1, <2>1 DEF Smooth, Ahead, Setting, Terminal
<1> QED BY <1>2, <1>3, <1>4

LEMMA SmoothIsInductive ==
  ASSUME IInv, [Next]_vars, NEW w \in Tasks, Smooth(w)
  PROVE  Smooth(w)'
<1> SUFFICES ASSUME Unhindered(w)' PROVE Smooth(w)'
  BY DEF Smooth
<1>1. CASE Rerun(w)
  <2>1. pc'[w] = "start" /\ failed'[w] = 0 /\ \A k \in Keys : snap'[w][k] = None
    BY <1>1 DEF Rerun, Goto, NoSeen, IInv, TypeOK
  <2> QED BY <2>1 DEF Smooth, StillThere, Ahead, Setting
<1>2. CASE Advance(w)
  BY <1>2, SmoothReading, SmoothListing, SmoothKeys, SmoothSetting, SmoothDeleting DEF Advance
<1>3. CASE ~Rerun(w) /\ ~Advance(w)
  <2>1. /\ Unhindered(w) /\ cfg' = cfg /\ TargetOf(w)' = TargetOf(w)
        /\ UNCHANGED <<TaskState(w), live[TargetOf(w)]>>
    BY <1>3, UnhinderedBefore
  <2>2. /\ pc'[w] = pc[w] /\ snap'[w] = snap[w] /\ keyring'[w] = keyring[w]
        /\ todo'[w] = todo[w] /\ failed'[w] = failed[w]
        /\ live'[TargetOf(w)] = live[TargetOf(w)]
    BY <2>1 DEF TaskState
  <2>3. \A kind : Needs(w, kind)' = Needs(w, kind)
    BY <2>1, ScopeKept
  <2>4. StillThere(w) => StillThere(w)'
    BY <2>1, <2>2, StillThereKept
  <2> QED BY <2>1, <2>2, <2>3, <2>4 DEF Smooth
<1> QED BY <1>1, <1>2, <1>3

LEMMA SmoothAtFirst ==
  ASSUME Init, NEW w \in Tasks
  PROVE  Smooth(w)
BY DEF Init, Smooth, StillThere, NoSeen, Ahead, Setting

\* A run that has its target for itself, all of whose values resolve and of
\* whose calls none is lost ends with no error and no FAILED line: the tool causes
\* no failure of its own, with pages of any size.
THEOREM RunsSucceedUndisturbed == Spec => []UndisturbedRunSucceeds
<1> DEFINE Past == \A w \in Tasks : Smooth(w)
<1>1. Init => Past
  BY SmoothAtFirst
<1>2. IInv /\ Past /\ [Next]_vars => Past'
  BY SmoothIsInductive
<1>3. Past => UndisturbedRunSucceeds
  BY DEF Smooth, UndisturbedRunSucceeds, Unhindered, Undisturbed, Terminal
<1> HIDE DEF Past
<1> QED BY <1>1, <1>2, <1>3, Invariance, PTL DEF Spec

=============================================================================

----------------------------- MODULE ScopeProofs -----------------------------
(***************************************************************************)
(* Safety of Scope for every number of tasks, every configuration and any  *)
(* number of faults and foreign changes.                                   *)
(***************************************************************************)
EXTENDS Scope, PlanProofs

Listing == Kinds \cup {"live"}
Ahead   == {"depKey", "apply", "create", "delete"}  \* ids are known
Setting == {"apply", "create"}

\* What the position of a task says about the work it has done so far: the
\* values are resolved, the ids are GitHub's, and the entries still to be set
\* or deleted are managed or extra.
Ready(w) ==
  /\ pc[w] \in Listing => Resolvable(w)
  /\ pc[w] \in {"ids"} \cup Ahead => Resolvable(w) /\ Cmd(w) \in {"apply", "enforce"}
  /\ \A r \in RepoNames : ids[w][r] # None => ids[w][r] = RepoId[r]
  /\ pc[w] \in Ahead => \A r \in SelectedNames(w) : ids[w][r] # None
  /\ pc[w] \in Setting => todo[w] \subseteq Managed(Plans(w))
  /\ pc[w] = "delete" => Cmd(w) = "enforce" /\ todo[w] \subseteq Extras(Rows(w))

IInv == TypeOK /\ \A w \in Tasks : Ready(w)

-----------------------------------------------------------------------------
(* Values that depend only on the configuration and the job.               *)

LEMMA SameJob ==
  ASSUME NEW w \in Tasks, cfg' = cfg, job'[w] = job[w]
  PROVE  /\ Plans(w)' = Plans(w) /\ Cmd(w)' = Cmd(w) /\ TargetOf(w)' = TargetOf(w)
         /\ Resolvable(w)' = Resolvable(w)
         /\ SelectedNames(w)' = SelectedNames(w)
         /\ Desired(w)' = Desired(w)
<1>1. Plans(w)' = Plans(w) /\ Cmd(w)' = Cmd(w) /\ TargetOf(w)' = TargetOf(w)
  BY DEF Plans, Cmd, TargetOf
<1>2. MustResolve(w)' = MustResolve(w)
  BY <1>1 DEF MustResolve
<1>3. Resolvable(w)' = Resolvable(w)
  BY <1>1, <1>2 DEF Resolvable
<1>4. SelectedNames(w)' = SelectedNames(w)
  BY <1>1 DEF SelectedNames
<1>5. Desired(w)' = Desired(w)
  BY <1>1 DEF Desired
<1> QED BY <1>1, <1>3, <1>4, <1>5

LEMMA SameRows ==
  ASSUME NEW w \in Tasks, cfg' = cfg, job'[w] = job[w], snap'[w] = snap[w]
  PROVE  Rows(w)' = Rows(w)
BY SameJob DEF Rows

\* A task of which nothing changes stays ready.
LEMMA StaysReady ==
  ASSUME NEW w \in Tasks, Ready(w), cfg' = cfg, job'[w] = job[w], pc'[w] = pc[w],
         snap'[w] = snap[w], ids'[w] = ids[w], todo'[w] = todo[w]
  PROVE  Ready(w)'
<1>1. Rows(w)' = Rows(w)
  BY SameRows
<1> QED BY <1>1, SameJob DEF Ready

\* The entry a configuration wants is well formed.
LEMMA WantedType ==
  ASSUME NEW c \in Configuration, NEW t \in Targets, NEW k \in Keys, Wanted(c, t, k) # None
  PROVE  /\ Wanted(c, t, k).val \in Values \cup {Unset}
         /\ Wanted(c, t, k).vis \in Visibilities \cup {"repo"}
         /\ Wanted(c, t, k).repos \in SUBSET RepoNames
<1> DEFINE b == Decider(c, t, k)
<1>1. \E visibilities \in SUBSET (Visibilities \cup {"repo"}) : b \in Block(visibilities) \cup {None}
  <2>1. /\ c.org \in Block(Visibilities) \cup {None}
        /\ c.all \in Block({"repo"}) \cup {None}
        /\ t # OrgScope => c.per[t] \in Block({"repo"}) \cup {None}
    BY DEF Configuration, Targets
  <2>2. b \in {c.org, c.all} \/ (t # OrgScope /\ b = c.per[t])
    BY DEF Decider, Layers
  <2> QED BY <2>1, <2>2
<1>2. PICK visibilities \in SUBSET (Visibilities \cup {"repo"}) :
        b \in Block(visibilities) \cup {None}
  BY <1>1
<1>3. b # None /\ b.managed[k] # None /\ Wanted(c, t, k) = b.managed[k]
  BY DEF Wanted, ManagedFor
<1>4. b.managed[k] \in Entry(visibilities)
  BY <1>2, <1>3 DEF Block
<1> QED BY <1>3, <1>4 DEF Entry

\* What a set request carries is what the configuration wants.
LEMMA PayloadIsWanted ==
  ASSUME IInv, NEW w \in Tasks, pc[w] \in Setting, NEW k \in todo[w]
  PROVE  /\ Wanted(cfg, TargetOf(w), k) # None
         /\ Payload(w, k) = WantedCell(TargetOf(w), k)
         /\ Payload(w, k) \in Cell
<1> DEFINE t == TargetOf(w)
           entry == Wanted(cfg, t, k)
<1>1. k \in Keys /\ t \in Targets /\ cfg \in Configuration /\ ids[w] \in [RepoNames -> Ids \cup {None}]
  BY DEF IInv, TypeOK, TargetOf, Job
<1>2. k \in Managed(Plans(w)) /\ Ready(w)
  BY DEF IInv, Ready
<1>3. entry # None /\ Plans(w)[k].entry = entry
  BY <1>1, <1>2, CascadeIsPrecedence DEF Managed, Plans
<1>4. /\ entry.val \in Values \cup {Unset} /\ entry.vis \in Visibilities \cup {"repo"}
      /\ entry.repos \in SUBSET RepoNames
  BY <1>1, <1>3, WantedType
<1>5. entry.val # Unset
  BY <1>2, <1>3 DEF Ready, Setting, Ahead, Resolvable, MustResolve
<1>6. ASSUME entry.vis = "selected"
      PROVE  \A r \in entry.repos : ids[w][r] = RepoId[r] /\ RepoId[r] \in Ids
  <2>1. \A r \in entry.repos : r \in SelectedNames(w)
    BY <1>2, <1>3, <1>6 DEF SelectedNames
  <2> QED BY <2>1, <1>2, <1>1, <1>4 DEF Ready, Setting, Ahead
<1>7. SealedValue(k, entry.val) = entry.val
  BY DEF SealedValue, SealingKey, OpeningKey
<1>8. Payload(w, k) = WantedCell(t, k)
  <2>1. entry.vis = "selected" =>
          {ids[w][r] : r \in entry.repos} = {RepoId[r] : r \in entry.repos}
    BY <1>6
  <2> QED BY <2>1, <1>3, <1>7 DEF Payload, WantedCell
<1>9. Payload(w, k) \in Cell
  <2>1. entry.vis = "selected" => {ids[w][r] : r \in entry.repos} \in SUBSET Ids
    BY <1>6
  <2> QED BY <2>1, <1>3, <1>4, <1>5, <1>7 DEF Payload, Cell
<1> QED BY <1>3, <1>8, <1>9

-----------------------------------------------------------------------------
(* Steps of one task.                                                      *)

\* A step of w, or of nobody, leaves the other tasks ready.
LEMMA OthersStayReady ==
  ASSUME IInv, NEW w \in Tasks, TypeOK', cfg' = cfg, Ready(w)',
         \A v \in Tasks \ {w} : /\ job'[v] = job[v] /\ pc'[v] = pc[v] /\ snap'[v] = snap[v]
                                /\ ids'[v] = ids[v] /\ todo'[v] = todo[v]
  PROVE  IInv'
<1>1. ASSUME NEW v \in Tasks \ {w} PROVE Ready(v)'
  BY StaysReady DEF IInv
<1> QED BY <1>1 DEF IInv

LEMMA StoreType ==
  ASSUME TypeOK, NEW w \in Tasks, NEW k \in Keys, NEW cell \in Cell \cup {None}, NEW answer,
         Store(w, k, cell, answer)
  PROVE  live' \in World
BY DEF TypeOK, Store, World

LEMMA SettleType ==
  ASSUME TypeOK, NEW w \in Tasks, NEW k \in Keys, NEW line \in Lines, NEW answer,
         Settle(w, k, answer, line)
  PROVE  /\ todo' \in [Tasks -> SUBSET Keys]
         /\ body' \in [Tasks -> [Keys -> Lines]]
         /\ failed' \in [Tasks -> Nat]
         /\ todo'[w] = todo[w] \ {k}
         /\ \A v \in Tasks \ {w} : todo'[v] = todo[v]
<1>1. todo' \in [Tasks -> SUBSET Keys] /\ todo'[w] = todo[w] \ {k}
      /\ \A v \in Tasks \ {w} : todo'[v] = todo[v]
  BY DEF TypeOK, Settle
<1>2. body' \in [Tasks -> [Keys -> Lines]]
  BY DEF TypeOK, Settle, Lines
<1>3. failed' \in [Tasks -> Nat]
  BY DEF TypeOK, Settle
<1> QED BY <1>1, <1>2, <1>3

LEMMA GotoType ==
  ASSUME TypeOK, NEW w \in Tasks, NEW place \in PCs, Goto(w, place)
  PROVE  /\ pc' \in [Tasks -> PCs] /\ pc'[w] = place
         /\ \A v \in Tasks \ {w} : pc'[v] = pc[v]
BY DEF TypeOK, Goto

LEMMA ReplyType ==
  ASSUME TypeOK, NEW answer, Reply(answer)
  PROVE  faults' \in 0..MaxFaults
BY BoundAssumption DEF TypeOK, Reply

LEMMA BeginIsSafe ==
  ASSUME IInv, NEW w \in Tasks, Begin(w)
  PROVE  IInv'
<1> USE DEF IInv
<1> DEFINE place == CASE NoPlan(w) /\ TargetOf(w) = OrgScope -> "done"
               [] NoPlan(w) /\ TargetOf(w) # OrgScope -> "error"
               [] ~NoPlan(w) /\ ~Resolvable(w)        -> "error"
               [] ~NoPlan(w) /\ Resolvable(w)         -> IF Cmd(w) = "apply" THEN "ids" ELSE "vars"
<1>1. \/ place \in {"done", "error"}
      \/ place = "ids" /\ Resolvable(w) /\ Cmd(w) = "apply"
      \/ place = "vars" /\ Resolvable(w)
  OBVIOUS
<1>2. Goto(w, place) /\ UNCHANGED <<env, live, snap, ids, keyring, todo, body, failed, touched,
                                    faults, changes>>
  BY DEF Begin
<1> HIDE DEF place
<1>3. place \in PCs
  BY <1>1 DEF PCs, Kinds, Terminal
<1>4. /\ pc' \in [Tasks -> PCs] /\ pc'[w] = place
      /\ \A v \in Tasks \ {w} : pc'[v] = pc[v]
  BY <1>2, <1>3, GotoType
<1>5. TypeOK'
  BY <1>2, <1>4 DEF TypeOK, env
<1>6. Ready(w)'
  BY <1>1, <1>2, <1>4, SameJob, SameRows DEF Ready, env, Listing, Kinds, Ahead, Setting
<1> QED BY <1>2, <1>4, <1>5, <1>6, OthersStayReady DEF env

LEMMA ListIsSafe ==
  ASSUME IInv, NEW w \in Tasks, List(w)
  PROVE  IInv'
<1> USE DEF IInv
<1> DEFINE t == TargetOf(w)
<1>1. PICK answer \in Reads, page \in Pages(t, pc[w]) :
        /\ Reply(answer)
        /\ \/ /\ Goto(w, NextListing[pc[w]])
              /\ snap' = [snap EXCEPT ![w] =
                    [k \in Keys |-> IF k \in page THEN View(k, live[t][k]) ELSE @[k]]]
           \/ Goto(w, "error") /\ snap' = snap
  BY DEF List
<1>2. pc[w] \in Kinds /\ UNCHANGED <<env, live, ids, keyring, todo, body, failed, touched, changes>>
  BY DEF List
<1>3. NextListing[pc[w]] \in {"secrets", "dependabot", "live"}
  BY <1>2, Zenon DEF NextListing, Kinds
<1>4. \E place \in {"secrets", "dependabot", "live", "error"} : Goto(w, place)
  BY <1>1, <1>3
<1>5. PICK place \in {"secrets", "dependabot", "live", "error"} : Goto(w, place)
  BY <1>4
<1>6. /\ pc' \in [Tasks -> PCs] /\ pc'[w] = place
      /\ \A v \in Tasks \ {w} : pc'[v] = pc[v]
  BY <1>5, GotoType DEF PCs, Kinds, Terminal
<1>7. snap' \in [Tasks -> [Keys -> Seen]] /\ \A v \in Tasks \ {w} : snap'[v] = snap[v]
  <2>1. t \in Targets
    BY DEF TypeOK, TargetOf, Job
  <2>2. \A k \in page : k \in Keys /\ live[t][k] # None
    BY <1>1 DEF Pages
  <2>3. \A k \in page : View(k, live[t][k]) \in Seen
    BY <2>1, <2>2 DEF TypeOK, World, Cell, View, Seen
  <2>4. snap \in [Tasks -> [Keys -> Seen]]
    BY DEF TypeOK
  <2> HIDE DEF t
  <2> QED BY <1>1, <2>3, <2>4
<1>8. TypeOK'
  BY <1>1, <1>2, <1>6, <1>7, ReplyType DEF TypeOK, env
<1>9. Ready(w)'
  <2>1. Ready(w)
    OBVIOUS
  <2>2. Resolvable(w) /\ Resolvable(w)' = Resolvable(w)
    BY <1>2, <2>1, SameJob DEF Ready, Listing, env
  <2> QED BY <1>2, <1>6, <2>1, <2>2 DEF Ready, env, Listing, Kinds, Ahead, Setting
<1> QED BY <1>2, <1>6, <1>7, <1>8, <1>9, OthersStayReady DEF env

LEMMA ReportIsSafe ==
  ASSUME IInv, NEW w \in Tasks, Report(w) \/ Preview(w) \/ FinishDelete(w) \/ Kill(w)
  PROVE  IInv'
<1> USE DEF IInv
<1>1. /\ Goto(w, "done") \/ Goto(w, "killed")
      /\ UNCHANGED <<env, live, snap, ids, keyring, todo, failed, touched, changes>>
  BY DEF Report, Preview, FinishDelete, Kill
<1>2. PICK place \in {"done", "killed"} : Goto(w, place)
  BY <1>1
<1>3. /\ pc' \in [Tasks -> PCs] /\ pc'[w] = place
      /\ \A v \in Tasks \ {w} : pc'[v] = pc[v]
  BY <1>2, GotoType DEF PCs, Terminal
<1>4. body' \in [Tasks -> [Keys -> Lines]]
  BY DEF Report, Preview, FinishDelete, Kill, TypeOK, Lines
<1>5. faults' \in 0..MaxFaults
  BY BoundAssumption DEF Report, Preview, FinishDelete, Kill, TypeOK
<1>6. TypeOK'
  BY <1>1, <1>3, <1>4, <1>5 DEF TypeOK, env
<1>7. Ready(w)'
  BY <1>1, <1>3 DEF Ready, env, Listing, Kinds, Ahead, Setting
<1> QED BY <1>1, <1>3, <1>6, <1>7, OthersStayReady DEF env

LEMMA PrepareIsSafe ==
  ASSUME IInv, NEW w \in Tasks, Prepare(w)
  PROVE  IInv'
<1> USE DEF IInv
<1>1. /\ pc[w] = "live" /\ Cmd(w) = "enforce" /\ Goto(w, "ids")
      /\ UNCHANGED <<env, live, snap, ids, keyring, todo, body, failed, touched, faults, changes>>
  BY DEF Prepare
<1>2. /\ pc' \in [Tasks -> PCs] /\ pc'[w] = "ids"
      /\ \A v \in Tasks \ {w} : pc'[v] = pc[v]
  BY <1>1, GotoType DEF PCs
<1>3. TypeOK'
  BY <1>1, <1>2 DEF TypeOK, env
<1>4. Ready(w)'
  BY <1>1, <1>2, SameJob DEF Ready, env, Listing, Kinds, Ahead, Setting
<1> QED BY <1>1, <1>2, <1>3, <1>4, OthersStayReady DEF env

LEMMA LookUpIdIsSafe ==
  ASSUME IInv, NEW w \in Tasks, LookUpId(w)
  PROVE  IInv'
<1> USE DEF IInv
<1>1. PICK r \in SelectedNames(w), answer \in Reads :
        /\ Reply(answer)
        /\ \/ RepoId[r] # None /\ ids' = [ids EXCEPT ![w][r] = RepoId[r]] /\ pc' = pc
           \/ ids' = ids /\ Goto(w, "error")
  BY DEF LookUpId
<1>2. /\ pc[w] = "ids"
      /\ UNCHANGED <<env, live, snap, keyring, todo, body, failed, touched, changes>>
  BY DEF LookUpId
<1>3. /\ pc' \in [Tasks -> PCs] /\ pc'[w] \in {"ids", "error"}
      /\ \A v \in Tasks \ {w} : pc'[v] = pc[v]
  BY <1>1, <1>2, GotoType DEF PCs, Terminal, TypeOK
<1>4. /\ ids' \in [Tasks -> [RepoNames -> Ids \cup {None}]]
      /\ \A v \in Tasks \ {w} : ids'[v] = ids[v]
      /\ \A n \in RepoNames : ids'[w][n] \in {ids[w][n], RepoId[n]}
  <2>1. ids \in [Tasks -> [RepoNames -> Ids \cup {None}]] /\ ids[w] \in [RepoNames -> Ids \cup {None}]
    BY DEF TypeOK
  <2>2. CASE ids' = ids
    BY <2>1, <2>2
  <2>3. CASE ids' = [ids EXCEPT ![w][r] = RepoId[r]]
    <3> DEFINE known == [ids[w] EXCEPT ![r] = RepoId[r]]
    <3>1. known \in [RepoNames -> Ids \cup {None}]
          /\ \A n \in RepoNames : known[n] \in {ids[w][n], RepoId[n]}
      BY <2>1, RepoIdAssumption
    <3>2. ids' = [ids EXCEPT ![w] = known]
      BY <2>3
    <3> HIDE DEF known
    <3> QED BY <2>1, <3>1, <3>2
  <2> QED BY <1>1, <2>2, <2>3
<1>5. TypeOK'
  BY <1>1, <1>2, <1>3, <1>4, ReplyType DEF TypeOK, env
<1>6. Ready(w)'
  <2>1. Ready(w)
    OBVIOUS
  <2>2. \A n \in RepoNames : ids'[w][n] # None => ids'[w][n] = RepoId[n]
    BY <1>4, <2>1 DEF Ready
  <2> QED BY <1>2, <1>3, <2>1, <2>2, SameJob DEF Ready, env, Listing, Kinds, Ahead, Setting
<1> QED BY <1>2, <1>3, <1>4, <1>5, <1>6, OthersStayReady DEF env

LEMMA FetchKeyType ==
  ASSUME TypeOK, NEW w \in Tasks, NEW kind, NEW family \in Families,
         NEW next \in PCs, FetchKey(w, kind, family, next)
  PROVE  /\ pc' \in [Tasks -> PCs] /\ pc'[w] \in {next, "error"}
         /\ \A v \in Tasks \ {w} : pc'[v] = pc[v]
         /\ keyring' \in [Tasks -> SUBSET Families]
         /\ faults' \in 0..MaxFaults
<1>1. PICK answer : /\ Reply(answer)
                    /\ Goto(w, next) \/ Goto(w, "error")
  BY DEF FetchKey
<1>2. PICK place \in {next, "error"} : Goto(w, place)
  BY <1>1
<1>3. "error" \in PCs
  BY DEF PCs, Terminal
<1>4. keyring' \in [Tasks -> SUBSET Families]
  BY DEF FetchKey, TypeOK
<1> QED BY <1>1, <1>2, <1>3, <1>4, GotoType, ReplyType

LEMMA FetchActionsKeyIsSafe ==
  ASSUME IInv, NEW w \in Tasks, FetchActionsKey(w)
  PROVE  IInv'
<1> USE DEF IInv
<1>1. /\ pc[w] = "ids" /\ FetchKey(w, "secrets", "actions", "depKey")
      /\ \A r \in SelectedNames(w) : ids[w][r] # None
      /\ UNCHANGED <<env, live, snap, ids, todo, body, failed, touched, changes>>
  BY DEF FetchActionsKey
<1>2. /\ pc' \in [Tasks -> PCs] /\ pc'[w] \in {"depKey", "error"}
      /\ \A v \in Tasks \ {w} : pc'[v] = pc[v]
      /\ keyring' \in [Tasks -> SUBSET Families] /\ faults' \in 0..MaxFaults
  BY <1>1, FetchKeyType DEF PCs, Families
<1>3. TypeOK'
  BY <1>1, <1>2 DEF TypeOK, env
<1>4. Ready(w)'
  BY <1>1, <1>2, SameJob DEF Ready, env, Listing, Kinds, Ahead, Setting
<1> QED BY <1>1, <1>2, <1>3, <1>4, OthersStayReady DEF env

LEMMA FetchDependabotKeyIsSafe ==
  ASSUME IInv, NEW w \in Tasks, FetchDependabotKey(w)
  PROVE  IInv'
<1> USE DEF IInv
<1>1. /\ pc[w] = "depKey" /\ FetchKey(w, "dependabot", "dependabot", "apply")
      /\ todo' = [todo EXCEPT ![w] = IF pc'[w] = "apply" THEN Managed(Plans(w)) ELSE {}]
      /\ UNCHANGED <<env, live, snap, ids, body, failed, touched, changes>>
  BY DEF FetchDependabotKey
<1>2. /\ pc' \in [Tasks -> PCs] /\ pc'[w] \in {"apply", "error"}
      /\ \A v \in Tasks \ {w} : pc'[v] = pc[v]
      /\ keyring' \in [Tasks -> SUBSET Families] /\ faults' \in 0..MaxFaults
  BY <1>1, FetchKeyType DEF PCs, Families
<1>3. /\ todo' \in [Tasks -> SUBSET Keys] /\ \A v \in Tasks \ {w} : todo'[v] = todo[v]
      /\ todo'[w] \subseteq Managed(Plans(w))
  BY <1>1 DEF TypeOK, Managed
<1>4. TypeOK'
  BY <1>1, <1>2, <1>3 DEF TypeOK, env
<1>5. Ready(w)'
  BY <1>1, <1>2, <1>3, SameJob DEF Ready, env, Listing, Kinds, Ahead, Setting
<1> QED BY <1>1, <1>2, <1>3, <1>4, <1>5, OthersStayReady DEF env

\* What a run may make of a write.
Outcomes == Writes \cup {"conflict", "noKey", "notFound"}

\* What the four actions that write have in common.
Writing(w) ==
  \E k \in todo[w], cell \in Cell \cup {None}, line \in Lines, answer \in Writes,
     outcome \in Outcomes :
    /\ Reply(answer)
    /\ live' = live \/ Store(w, k, cell, answer)
    /\ Settle(w, k, outcome, line) \/ UNCHANGED <<todo, body, failed>>
    /\ UNCHANGED <<env, snap, ids, keyring, touched, changes>>

LEMMA WritingIsSafe ==
  ASSUME IInv, NEW w \in Tasks, Writing(w),
         NEW place \in PCs, Goto(w, place),
         \/ pc[w] \in Setting /\ place \in Setting
         \/ pc[w] = "delete" /\ place = "delete"
  PROVE  IInv'
<1> USE DEF IInv
<1>1. PICK k \in todo[w], cell \in Cell \cup {None}, line \in Lines, answer \in Writes,
           outcome \in Outcomes :
        /\ Reply(answer)
        /\ live' = live \/ Store(w, k, cell, answer)
        /\ Settle(w, k, outcome, line) \/ UNCHANGED <<todo, body, failed>>
        /\ UNCHANGED <<env, snap, ids, keyring, touched, changes>>
  BY DEF Writing
<1>2. k \in Keys
  BY DEF TypeOK
<1>3. live' \in World
  BY <1>1, <1>2, StoreType DEF TypeOK
<1>4. /\ todo' \in [Tasks -> SUBSET Keys]
      /\ body' \in [Tasks -> [Keys -> Lines]]
      /\ failed' \in [Tasks -> Nat]
      /\ todo'[w] \subseteq todo[w]
      /\ \A v \in Tasks \ {w} : todo'[v] = todo[v]
  BY <1>1, <1>2, SettleType DEF TypeOK
<1>5. pc' \in [Tasks -> PCs] /\ pc'[w] = place /\ \A v \in Tasks \ {w} : pc'[v] = pc[v]
  BY GotoType
<1>6. TypeOK'
  BY <1>1, <1>3, <1>4, <1>5, ReplyType DEF TypeOK, env
<1>7. Ready(w)'
  BY <1>1, <1>4, <1>5, SameJob, SameRows DEF Ready, env, Listing, Kinds, Ahead, Setting
<1> QED BY <1>1, <1>4, <1>5, <1>6, <1>7, OthersStayReady DEF env

LEMMA UpdateVariableIsSafe ==
  ASSUME IInv, NEW w \in Tasks, UpdateVariable(w)
  PROVE  IInv'
<1>1. PICK k \in todo[w], answer \in Writes :
        /\ Reply(answer)
        /\ \/ Goto(w, "create") /\ UNCHANGED <<live, todo, body, failed>>
           \/ /\ pc' = pc
              /\ live' = live \/ Store(w, k, Payload(w, k), answer)
              /\ Settle(w, k, answer, "ok")
  BY DEF UpdateVariable
<1>2. pc[w] = "apply" /\ UNCHANGED <<env, snap, ids, keyring, touched, changes>>
  BY DEF UpdateVariable
<1>3. Payload(w, k) \in Cell /\ "ok" \in Lines
  BY <1>2, PayloadIsWanted DEF Setting, Lines
<1>4. Writing(w)
  BY <1>1, <1>2, <1>3 DEF Writing, Outcomes
<1>5. \E place \in {"apply", "create"} : Goto(w, place)
  BY <1>1, <1>2 DEF Goto, IInv, TypeOK
<1> QED BY <1>2, <1>4, <1>5, WritingIsSafe DEF Setting, PCs

LEMMA CreateVariableIsSafe ==
  ASSUME IInv, NEW w \in Tasks, CreateVariable(w)
  PROVE  IInv'
<1>1. PICK k \in todo[w], answer \in Writes :
        /\ Reply(answer)
        /\ \/ Store(w, k, Payload(w, k), answer) /\ Settle(w, k, answer, "ok")
           \/ live' = live /\ Settle(w, k, "conflict", "ok")
  BY DEF CreateVariable
<1>2. /\ pc[w] = "create" /\ Goto(w, "apply")
      /\ UNCHANGED <<env, snap, ids, keyring, touched, changes>>
  BY DEF CreateVariable
<1>3. Payload(w, k) \in Cell /\ "ok" \in Lines
  BY <1>2, PayloadIsWanted DEF Setting, Lines
<1>4. Writing(w)
  BY <1>1, <1>2, <1>3 DEF Writing, Outcomes
<1> QED BY <1>2, <1>4, WritingIsSafe DEF Setting, PCs

LEMMA PutSecretIsSafe ==
  ASSUME IInv, NEW w \in Tasks, PutSecret(w)
  PROVE  IInv'
<1>1. PICK k \in todo[w], answer \in Writes :
        /\ Reply(answer)
        /\ \/ Store(w, k, Payload(w, k), answer) /\ Settle(w, k, answer, "ok")
           \/ live' = live /\ Settle(w, k, "noKey", "ok")
  BY DEF PutSecret
<1>2. /\ pc[w] = "apply" /\ pc' = pc
      /\ UNCHANGED <<env, snap, ids, keyring, touched, changes>>
  BY DEF PutSecret
<1>3. Payload(w, k) \in Cell /\ "ok" \in Lines
  BY <1>2, PayloadIsWanted DEF Setting, Lines
<1>4. Writing(w)
  BY <1>1, <1>2, <1>3 DEF Writing, Outcomes
<1>5. Goto(w, "apply")
  BY <1>2 DEF Goto, IInv, TypeOK
<1> QED BY <1>2, <1>4, <1>5, WritingIsSafe DEF Setting, PCs

LEMMA DeleteEntryIsSafe ==
  ASSUME IInv, NEW w \in Tasks, DeleteEntry(w)
  PROVE  IInv'
<1>1. PICK k \in todo[w], answer \in Writes :
        /\ Reply(answer)
        /\ \/ Store(w, k, None, answer) /\ Settle(w, k, answer, "deleted")
           \/ live' = live /\ Settle(w, k, "notFound", "deleted")
  BY DEF DeleteEntry
<1>2. /\ pc[w] = "delete" /\ pc' = pc
      /\ UNCHANGED <<env, snap, ids, keyring, touched, changes>>
  BY DEF DeleteEntry
<1>3. "deleted" \in Lines
  BY DEF Lines
<1>4. Writing(w)
  BY <1>1, <1>2, <1>3 DEF Writing, Outcomes
<1>5. Goto(w, "delete")
  BY <1>2 DEF Goto, IInv, TypeOK
<1> QED BY <1>2, <1>4, <1>5, WritingIsSafe DEF PCs

LEMMA FinishApplyIsSafe ==
  ASSUME IInv, NEW w \in Tasks, FinishApply(w)
  PROVE  IInv'
<1> USE DEF IInv
<1>1. /\ pc[w] = "apply"
      /\ \/ /\ Cmd(w) = "enforce" /\ Goto(w, "delete")
            /\ todo' = [todo EXCEPT ![w] = Extras(Rows(w))]
         \/ Goto(w, "done") /\ todo' = todo
      /\ UNCHANGED <<env, live, snap, ids, keyring, body, failed, touched, faults, changes>>
  BY DEF FinishApply
<1>2. PICK place \in {"delete", "done"} : Goto(w, place)
  BY <1>1
<1>3. /\ pc' \in [Tasks -> PCs] /\ pc'[w] = place
      /\ \A v \in Tasks \ {w} : pc'[v] = pc[v]
  BY <1>2, GotoType DEF PCs, Terminal
<1>4. /\ todo' \in [Tasks -> SUBSET Keys]
      /\ \A v \in Tasks \ {w} : todo'[v] = todo[v]
  BY <1>1 DEF TypeOK, Extras
<1>5. TypeOK'
  BY <1>1, <1>3, <1>4 DEF TypeOK, env
<1>6. Ready(w)'
  <2>1. Ready(w)
    OBVIOUS
  <2>2. pc'[w] = "delete" => Cmd(w) = "enforce" /\ todo'[w] \subseteq Extras(Rows(w))
    BY <1>1, <1>3, GotoType DEF TypeOK, PCs, Terminal
  <2> QED BY <1>1, <1>3, <2>1, <2>2, SameJob, SameRows
          DEF Ready, env, Listing, Kinds, Ahead, Setting
<1> QED BY <1>1, <1>3, <1>4, <1>5, <1>6, OthersStayReady DEF env

LEMMA RerunIsSafe ==
  ASSUME IInv, NEW w \in Tasks, Rerun(w)
  PROVE  IInv'
<1> USE DEF IInv
<1>1. PICK cmd \in Commands : job' = [job EXCEPT ![w].cmd = cmd]
  BY FollowupsAssumption DEF Rerun, TypeOK, Cmd, Job
<1>2. job' \in [Tasks -> Job] /\ \A v \in Tasks \ {w} : job'[v] = job[v]
  BY <1>1 DEF TypeOK, Job
<1>3. /\ Goto(w, "start") /\ UNCHANGED <<cfg, live, faults, changes>>
      /\ snap'    = [snap EXCEPT ![w] = NoSeen]
      /\ ids'     = [ids EXCEPT ![w] = NoIds]
      /\ keyring' = [keyring EXCEPT ![w] = {}]
      /\ todo'    = [todo EXCEPT ![w] = {}]
      /\ body'    = [body EXCEPT ![w] = NoLines]
      /\ failed'  = [failed EXCEPT ![w] = 0]
  BY DEF Rerun
<1>4. /\ forecast' \in [Tasks -> [Keys -> Lines] \cup {None}]
      /\ touched' \in [Tasks -> SUBSET Keys]
  BY DEF Rerun, TypeOK
<1>5. NoSeen \in [Keys -> Seen] /\ NoIds \in [RepoNames -> Ids \cup {None}]
      /\ NoLines \in [Keys -> Lines]
  BY DEF NoSeen, NoIds, NoLines, Seen, Lines
<1>6. /\ pc' \in [Tasks -> PCs] /\ pc'[w] = "start"
      /\ \A v \in Tasks \ {w} : pc'[v] = pc[v]
  BY <1>3, GotoType DEF PCs
<1>7. TypeOK'
  BY <1>2, <1>3, <1>4, <1>5, <1>6 DEF TypeOK
<1>8. Ready(w)'
  BY <1>3, <1>6 DEF Ready, Listing, Kinds, Ahead, Setting, NoIds, TypeOK
<1>9. \A v \in Tasks \ {w} : snap'[v] = snap[v] /\ ids'[v] = ids[v] /\ todo'[v] = todo[v]
  BY <1>3 DEF TypeOK
<1> QED BY <1>2, <1>3, <1>6, <1>7, <1>8, <1>9, OthersStayReady

LEMMA ForeignChangeIsSafe ==
  ASSUME IInv, ForeignChange
  PROVE  IInv'
<1> USE DEF IInv
<1>1. UNCHANGED <<env, pc, snap, ids, keyring, todo, body, failed, faults>>
  BY DEF ForeignChange
<1>2. live' \in World /\ touched' \in [Tasks -> SUBSET Keys] /\ changes' \in 0..MaxChanges
  BY ForeignAssumption, BoundAssumption DEF ForeignChange, TypeOK, World
<1>3. TypeOK'
  BY <1>1, <1>2 DEF TypeOK, env
<1>4. ASSUME NEW w \in Tasks PROVE Ready(w)'
  BY <1>1, StaysReady DEF env
<1> QED BY <1>3, <1>4

-----------------------------------------------------------------------------
(* The invariant.                                                          *)

LEMMA InitIsSafe ==
  ASSUME Init
  PROVE  IInv
<1>1. cfg \in Configuration /\ live \in World /\ job \in [Tasks -> Job]
  BY ScenarioAssumption DEF Init
<1>2. NoSeen \in [Keys -> Seen] /\ NoIds \in [RepoNames -> Ids \cup {None}]
      /\ NoLines \in [Keys -> Lines]
  BY DEF NoSeen, NoIds, NoLines, Seen, Lines
<1>3. TypeOK
  BY <1>1, <1>2, BoundAssumption DEF Init, TypeOK, PCs
<1>4. ASSUME NEW w \in Tasks PROVE Ready(w)
  BY DEF Init, Ready, Listing, Kinds, Ahead, Setting, NoIds
<1> QED BY <1>3, <1>4 DEF IInv

LEMMA StutterIsSafe ==
  ASSUME IInv, UNCHANGED vars
  PROVE  IInv'
<1>1. TypeOK'
  BY DEF IInv, TypeOK, vars
<1>2. ASSUME NEW w \in Tasks PROVE Ready(w)'
  BY StaysReady DEF IInv, vars
<1> QED BY <1>1, <1>2 DEF IInv

LEMMA NextIsSafe ==
  ASSUME IInv, [Next]_vars
  PROVE  IInv'
<1>1. ASSUME NEW w \in Tasks, Advance(w) PROVE IInv'
  BY <1>1, BeginIsSafe, ListIsSafe, ReportIsSafe, PrepareIsSafe, LookUpIdIsSafe,
     FetchActionsKeyIsSafe, FetchDependabotKeyIsSafe, UpdateVariableIsSafe,
     CreateVariableIsSafe, PutSecretIsSafe, FinishApplyIsSafe, DeleteEntryIsSafe
     DEF Advance
<1>2. ASSUME NEW w \in Tasks, Kill(w) \/ Rerun(w) PROVE IInv'
  BY <1>2, ReportIsSafe, RerunIsSafe
<1>3. CASE ForeignChange
  BY <1>3, ForeignChangeIsSafe
<1>4. CASE UNCHANGED vars
  BY <1>4, StutterIsSafe
<1> QED BY <1>1, <1>2, <1>3, <1>4 DEF Next

\* However many tasks, calls, faults and foreign changes there are, a task
\* that has reached a write phase has resolved every value and every selected
\* repository, and has only managed entries left to set and only extra ones to
\* delete.
THEOREM Invariance == Spec => []IInv
BY InitIsSafe, NextIsSafe, PTL DEF Spec

\* Every variable keeps its type.
THEOREM TypeCorrect == Spec => []TypeOK
<1>1. IInv => TypeOK
  BY DEF IInv
<1> QED BY <1>1, Invariance, PTL

=============================================================================

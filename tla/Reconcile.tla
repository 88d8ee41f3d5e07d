------------------------------ MODULE Reconcile ------------------------------
(***************************************************************************)
(* What a run of ghsecretman promises about GitHub, without how it does it.*)
(*                                                                         *)
(* A task has a goal for its target: the cell every wanted entry must have *)
(* and the entries that may be pruned.  It first only observes.  Then it   *)
(* tries every wanted entry at most once, and only when it tried them all  *)
(* may it prune, again every entry at most once.  An attempt may succeed or*)
(* fail, a run may stop at any point, and other people change GitHub at    *)
(* any time; but an entry that is neither wanted nor prunable is never     *)
(* changed by a task.                                                      *)
(***************************************************************************)
EXTENDS Naturals

CONSTANTS Tasks, Targets, Keys, Cells, None

VARIABLES live, goal, phase, tried, changes

vars == <<live, goal, phase, tried, changes>>

Phases == {"observing", "setting", "pruning", "over"}

Goal == [target : Targets, want : [Keys -> Cells \cup {None}], spare : SUBSET Keys]

TypeOK ==
  /\ live \in [Targets -> [Keys -> Cells \cup {None}]]
  /\ goal \in [Tasks -> Goal]
  /\ phase \in [Tasks -> Phases]
  /\ tried \in [Tasks -> SUBSET Keys]
  /\ changes \in Nat

Want(w) == {k \in Keys : goal[w].want[k] # None}

Init ==
  /\ live \in [Targets -> [Keys -> Cells \cup {None}]]
  /\ goal \in [Tasks -> Goal]
  /\ phase = [w \in Tasks |-> "observing"]
  /\ tried = [w \in Tasks |-> {}]
  /\ changes = 0

Enter(w, p) == phase' = [phase EXCEPT ![w] = p]

\* From here on the run writes.
Commit(w) ==
  /\ phase[w] = "observing" /\ Enter(w, "setting")
  /\ UNCHANGED <<live, goal, tried, changes>>

\* One attempt at k, which does or does not take effect.
Attempt(w, k, cell) ==
  /\ k \notin tried[w]
  /\ tried' = [tried EXCEPT ![w] = @ \cup {k}]
  /\ \/ live' = [live EXCEPT ![goal[w].target][k] = cell]
     \/ live' = live
  /\ UNCHANGED <<goal, phase, changes>>

Set(w)   == phase[w] = "setting" /\ \E k \in Want(w) : Attempt(w, k, goal[w].want[k])

Turn(w) ==
  /\ phase[w] = "setting" /\ Want(w) \subseteq tried[w] /\ Enter(w, "pruning")
  /\ UNCHANGED <<live, goal, tried, changes>>

Prune(w) == phase[w] = "pruning" /\ \E k \in goal[w].spare : Attempt(w, k, None)

Stop(w) ==
  /\ phase[w] # "over" /\ Enter(w, "over")
  /\ UNCHANGED <<live, goal, tried, changes>>

Again(w) ==
  /\ phase[w] = "over" /\ Enter(w, "observing")
  /\ tried' = [tried EXCEPT ![w] = {}]
  /\ UNCHANGED <<live, goal, changes>>

Others ==
  /\ changes' = changes + 1
  /\ \E t \in Targets, k \in Keys, cell \in Cells \cup {None} :
       live' = [live EXCEPT ![t][k] = cell]
  /\ UNCHANGED <<goal, phase, tried>>

Next == \/ \E w \in Tasks : Commit(w) \/ Set(w) \/ Turn(w) \/ Prune(w) \/ Stop(w) \/ Again(w)
        \/ Others

Spec == Init /\ [][Next]_vars

\* An entry changes only by a task that wants the value it gets or may prune
\* it, and pruning comes after every wanted entry of the run was tried.
OnlyGoals ==
  [][changes' = changes =>
       \A t \in Targets, k \in Keys : live'[t][k] # live[t][k] =>
         \E w \in Tasks : /\ goal[w].target = t
                          /\ \/ k \in Want(w) /\ live'[t][k] = goal[w].want[k]
                             \/ /\ k \in goal[w].spare /\ live'[t][k] = None
                                /\ Want(w) \subseteq tried[w]]_vars

=============================================================================

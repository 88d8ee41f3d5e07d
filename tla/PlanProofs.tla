----------------------------- MODULE PlanProofs -----------------------------
(***************************************************************************)
(* The cascade's passes compute the documented precedence, for every       *)
(* configuration, and the rows an enforce deletes from never name an entry *)
(* the configuration mentions.                                             *)
(***************************************************************************)
EXTENDS Diff, TLAPS

\* The four passes of resolveCascade decide exactly what the precedence rules
\* say: the first of per-repo and all-repos that mentions a name wins.
THEOREM CascadeIsPrecedence ==
  ASSUME NEW c, NEW t \in Targets, NEW k \in Keys
  PROVE  /\ Intents(c, t)[k].action = "managed" <=> Wanted(c, t, k) # None
         /\ Intents(c, t)[k].action = "managed" => Intents(c, t)[k].entry = Wanted(c, t, k)
         /\ Intents(c, t)[k].action = "ignored" <=> Listed(c, t, k) /\ Wanted(c, t, k) = None
         /\ Intents(c, t)[k].action \in {"none", "managed", "ignored"}
<1> DEFINE own == IF t = OrgScope THEN c.org ELSE c.per[t]
           shared == IF t = OrgScope THEN c.org ELSE c.all
<1>1. Layers(c, t)[1] = own /\ Layers(c, t)[2] = shared
  BY DEF Layers
<1>2. Wanted(c, t, k) = IF Mentions(own, k) THEN ManagedFor(own, k) ELSE ManagedFor(shared, k)
  BY <1>1 DEF Wanted, Decider
<1>3. Listed(c, t, k) <=> Mentions(own, k) \/ Mentions(shared, k)
  BY <1>1 DEF Listed
<1>4. CASE t = OrgScope
  BY <1>2, <1>3, <1>4 DEF Mentions, Intents, ForOrg, ManagedIntent, IgnoredIntent, NoIntent
<1>5. CASE t # OrgScope
  <2>1. Intents(c, t)[k] = ResolveCascade(shared, own)[k]
    BY <1>5 DEF Intents, ForRepoCascade
  <2> QED
    BY <1>2, <1>3, <2>1 DEF Mentions, ResolveCascade, PerManagedPass, PerIgnoredPass,
       AllManagedPass, AllIgnoredPass, ManagedIntent, IgnoredIntent, NoIntent
<1> QED BY <1>4, <1>5

\* A name that is managed or ignored anywhere in the layers of a scope is never
\* extra there, whatever a listing showed: enforce cannot delete it.
THEOREM ExtrasAreUnlisted ==
  ASSUME NEW c, NEW t \in Targets, NEW desired, NEW snapshot,
         NEW k \in Extras(Compute(Intents(c, t), desired, snapshot))
  PROVE  k \in Keys /\ ~Listed(c, t, k) /\ snapshot[k] # None
<1> DEFINE rows == Compute(Intents(c, t), desired, snapshot)
<1>1. k \in Keys /\ rows[k].status = "extra"
  BY DEF Extras
<1>2. Intents(c, t)[k].action # "managed"
  BY <1>1 DEF Compute, ManagedStatus
<1>3. UnmanagedStatus(k, Intents(c, t), snapshot[k]) = "extra"
  BY <1>1, <1>2 DEF Compute
<1>4. snapshot[k] # None /\ k \notin EffectiveIgnored(Intents(c, t))
  BY <1>3 DEF UnmanagedStatus
<1>5. Intents(c, t)[k].action # "ignored"
  BY <1>1, <1>4 DEF EffectiveIgnored
<1> QED BY <1>1, <1>2, <1>4, <1>5, CascadeIsPrecedence

=============================================================================

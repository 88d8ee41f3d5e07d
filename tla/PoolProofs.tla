----------------------------- MODULE PoolProofs ------------------------------
(***************************************************************************)
(* Safety of Pool for every number of repositories, every concurrency and  *)
(* every outcome of the work.                                              *)
(***************************************************************************)
EXTENDS Pool, FiniteSetTheorems, TLAPS

\* The mutex is with the worker that flushes or counts.
Exclusive == \A r \in Workers : place[r] \in {"flushing", "counting"} <=> mu = r

\* The output is in the middle of a repository's lines only while that
\* repository flushes.
MidFlush == /\ \A r \in Workers : place[r] = "flushing" <=> Len(out) % 2 = 1 /\ mu = r
            /\ Len(out) % 2 = 1 => mu \in Workers

\* Nobody works before runOrg is called.
Resting == boss = "idle" => \A r \in Workers : place[r] = "none"

\* Whoever counts has read the totals as they are.
UpToDate == \A r \in Workers : place[r] = "counting" => reg[r] = res

PoolInv == PoolTypeOK /\ Resting /\ Exclusive /\ MidFlush /\ UpToDate

LEMMA ResolvedIsPositive ==
  ASSUME NEW n \in Concurrencies
  PROVE  ResolveConcurrency(n) \in Nat /\ ResolveConcurrency(n) > 0
BY ConcurrencyAssumption DEF ResolveConcurrency, DefaultConcurrency

LEMMA FiniteSets == \A S \in SUBSET Workers : IsFiniteSet(S) /\ Cardinality(S) \in Nat
<1> SUFFICES ASSUME NEW S \in SUBSET Workers PROVE IsFiniteSet(S) /\ Cardinality(S) \in Nat
  OBVIOUS
<1>1. IsFiniteSet(S)
  BY WorkersAssumption, FS_Subset
<1> QED BY <1>1, FS_CardinalityType

LEMMA Initially == PoolInit => PoolInv
<1> SUFFICES ASSUME PoolInit PROVE PoolInv
  OBVIOUS
<1>1. PoolTypeOK
  BY ConcurrencyAssumption DEF PoolInit, PoolTypeOK, Places, Outcome, NoOutcome, Totals, ZeroTotals
<1>2. Resting /\ Exclusive /\ UpToDate
  BY WorkersAssumption DEF PoolInit, Resting, Exclusive, UpToDate
<1>3. Len(out) = 0
  BY DEF PoolInit
<1>4. MidFlush
  BY <1>3 DEF PoolInit, MidFlush
<1> QED BY <1>1, <1>2, <1>4 DEF PoolInv

-----------------------------------------------------------------------------
(* Types.                                                                  *)

LEMMA CountedIsTotals ==
  ASSUME NEW t \in Totals, NEW o \in Outcome
  PROVE  Counted(t, o) \in Totals
BY ConcurrencyAssumption DEF Counted, Totals, Outcome

LEMMA TypeStep == PoolTypeOK /\ [PoolNext]_poolVars => PoolTypeOK'
<1> SUFFICES ASSUME PoolTypeOK, [PoolNext]_poolVars PROVE PoolTypeOK'
  OBVIOUS
<1> USE DEF PoolTypeOK
<1>1. ASSUME NEW given \in SUBSET Workers, Open(given) PROVE PoolTypeOK'
  <2>1. limit' \in Nat
    BY <1>1, ResolvedIsPositive DEF Open
  <2> QED BY <1>1, <2>1 DEF Open, Places
<1>2. ASSUME NEW r \in Workers, Submit(r) PROVE PoolTypeOK'
  BY <1>2 DEF Submit, Move, Places
<1>3. ASSUME NEW r \in Workers, NEW o \in Outcome, Return(r, o) PROVE PoolTypeOK'
  BY <1>3 DEF Return, Move, Places
<1>4. ASSUME NEW r \in Workers, StartFlush(r) PROVE PoolTypeOK'
  BY <1>4 DEF StartFlush, Acquire, Move, Places
<1>5. ASSUME NEW r \in Workers, EndFlush(r) PROVE PoolTypeOK'
  BY <1>5 DEF EndFlush, Release, Move, Places
<1>6. ASSUME NEW r \in Workers, StartCount(r) PROVE PoolTypeOK'
  BY <1>6 DEF StartCount, Acquire, Move, Places
<1>7. ASSUME NEW r \in Workers, EndCount(r) PROVE PoolTypeOK'
  <2>1. res' \in Totals
    BY <1>7, CountedIsTotals DEF EndCount
  <2> QED BY <1>7, <2>1 DEF EndCount, Release, Move, Places
<1>8. CASE Join
  BY <1>8 DEF Join
<1>9. CASE UNCHANGED poolVars
  BY <1>9 DEF poolVars
<1> QED BY <1>1, <1>2, <1>3, <1>4, <1>5, <1>6, <1>7, <1>8, <1>9 DEF PoolNext, Finish

-----------------------------------------------------------------------------
(* The mutex.                                                              *)

LEMMA LenAppend ==
  ASSUME NEW s \in Seq(Workers), NEW r \in Workers
  PROVE  /\ Len(Append(s, r)) = Len(s) + 1 /\ Len(s) \in Nat
         /\ Append(s, r)[Len(s) + 1] = r
         /\ \A i \in 1..Len(s) : Append(s, r)[i] = s[i]
OBVIOUS

LEMMA Alternate == \A n \in Nat : (n + 1) % 2 = 1 <=> n % 2 # 1
BY SMT

Locked == Resting /\ Exclusive /\ MidFlush /\ UpToDate

LEMMA MutexStep == PoolInv /\ [PoolNext]_poolVars => Locked'
<1> SUFFICES ASSUME PoolInv, [PoolNext]_poolVars PROVE Locked'
  OBVIOUS
<1> USE WorkersAssumption DEF PoolInv, PoolTypeOK, Locked, Resting, Exclusive, MidFlush, UpToDate
<1>1. ASSUME NEW given \in SUBSET Workers, Open(given)
      PROVE  Locked'
  BY <1>1 DEF Open
<1>2. ASSUME NEW r \in Workers, Submit(r) PROVE Locked'
  BY <1>2 DEF Submit, Move, IsNext
<1>3. ASSUME NEW r \in Workers, NEW o \in Outcome, Return(r, o)
      PROVE  Locked'
  BY <1>3 DEF Return, Move
<1>4. ASSUME NEW r \in Workers, StartFlush(r) PROVE Locked'
  <2>1. Len(out') % 2 = 1
    BY <1>4, LenAppend, Alternate DEF StartFlush, Acquire
  <2>2. mu = Nobody /\ mu' = r /\ place' = [place EXCEPT ![r] = "flushing"] /\ boss' = boss
        /\ reg' = reg /\ place[r] = "returned"
    BY <1>4 DEF StartFlush, Acquire, Move
  <2> QED BY <2>1, <2>2
<1>5. ASSUME NEW r \in Workers, EndFlush(r) PROVE Locked'
  <2>1. Len(out) % 2 = 1 /\ mu = r
    BY <1>5 DEF EndFlush
  <2>2. Len(out') % 2 # 1
    BY <1>5, <2>1, LenAppend, Alternate DEF EndFlush
  <2>3. mu' = Nobody /\ place' = [place EXCEPT ![r] = "flushed"] /\ boss' = boss
        /\ reg' = reg /\ res' = res /\ place[r] = "flushing"
    BY <1>5 DEF EndFlush, Release, Move
  <2> QED BY <2>1, <2>2, <2>3
<1>6. ASSUME NEW r \in Workers, StartCount(r) PROVE Locked'
  BY <1>6 DEF StartCount, Acquire, Move
<1>7. ASSUME NEW r \in Workers, EndCount(r) PROVE Locked'
  BY <1>7 DEF EndCount, Release, Move
<1>8. CASE Join
  BY <1>8 DEF Join
<1>9. CASE UNCHANGED poolVars
  BY <1>9 DEF poolVars
<1> QED BY <1>1, <1>2, <1>3, <1>4, <1>5, <1>6, <1>7, <1>8, <1>9 DEF PoolNext, Finish

LEMMA Inductive == PoolInv /\ [PoolNext]_poolVars => PoolInv'
BY TypeStep, MutexStep DEF PoolInv, Locked

\* The mutual exclusion behind all the rest: at no time do two workers flush or
\* count, whatever the number of workers and their outcomes.
THEOREM MutexIsKept == PoolSpec => []PoolInv
<1> QED BY Initially, Inductive, PTL DEF PoolSpec

\* The pool's variables have their types.
THEOREM PoolTypeCorrect == PoolSpec => []PoolTypeOK
<1>1. PoolInv => PoolTypeOK
  BY DEF PoolInv
<1> QED BY <1>1, MutexIsKept, PTL

-----------------------------------------------------------------------------
(* Nobody waits for ever.                                                  *)

\* From its call to its return runOrg has something to go on with: it returns, or
\* there is room for the next repository, or a call is under way, or the mutex is
\* free for one that waits for it, or whoever holds it can give it back.
Unblocked ==
  boss = "submitting" =>
    \/ \A r \in Workers : place[r] \in {"none", "finished"}
    \/ \E r \in Workers : IsNext(r) /\ Cardinality(Active) < limit
    \/ \E r \in Workers : place[r] = "working"
    \/ \E r \in Workers : place[r] \in {"returned", "flushed"} /\ mu = Nobody
    \/ \E r \in Workers : place[r] \in {"flushing", "counting"} /\ mu = r

\* There is room for somebody.
Roomy == boss # "idle" => limit > 0

LEMMA RoomStep == Roomy /\ [PoolNext]_poolVars => Roomy'
<1> SUFFICES ASSUME Roomy, [PoolNext]_poolVars PROVE Roomy'
  OBVIOUS
<1>1. ASSUME NEW given \in SUBSET Workers, Open(given) PROVE Roomy'
  BY <1>1, ResolvedIsPositive DEF Open, Roomy
<1>2. CASE UNCHANGED <<boss, limit>>
  BY <1>2 DEF Roomy
<1>3. CASE Join
  BY <1>3 DEF Join, Roomy
<1>4. ASSUME NEW r \in Workers, Submit(r) \/ Finish(r) \/ \E o \in Outcome : Return(r, o)
      PROVE  UNCHANGED <<boss, limit>>
  BY <1>4 DEF Submit, Finish, StartFlush, EndFlush, StartCount, EndCount, Return
<1> QED BY <1>1, <1>2, <1>3, <1>4 DEF PoolNext, poolVars

\* Of the positions still queued one is the first.
LEMMA SomebodyIsNext ==
  ASSUME NEW r \in Workers, place[r] = "queued"
  PROVE  \E q \in Workers : IsNext(q)
<1> DEFINE queue == {q \in Workers : place[q] = "queued"}
           upTo  == {1..q : q \in queue}
<1>1. \A q \in Workers : q \in Nat
  <2>1. Cardinality(Workers) \in Nat
    BY WorkersAssumption, FS_CardinalityType
  <2>2. \A n \in Nat : \A q \in 1..n : q \in Nat
    OBVIOUS
  <2>3. \A q \in 1..Cardinality(Workers) : q \in Nat
    BY <2>1, <2>2, Zenon
  <2>4. Workers = 1..Cardinality(Workers)
    BY WorkersAssumption
  <2> QED BY <2>3, <2>4, Zenon
<1>2. upTo # {} /\ upTo \subseteq FiniteSubsetsOf(Nat)
  <2>1. \A q \in queue : IsFiniteSet(1..q) /\ 1..q \subseteq Nat
    BY <1>1, FS_Interval
  <2> QED BY <2>1 DEF FiniteSubsetsOf
<1>3. PICK shortest \in upTo : \A s \in upTo : <<s, shortest>> \notin StrictSubsetOrdering(Nat)
  <2> HIDE DEF upTo
  <2> QED BY <1>2, FS_StrictSubsetOrderingWellFounded, WFMin
<1>4. PICK q \in queue : shortest = 1..q
  BY DEF upTo
<1>5. ASSUME NEW p \in queue, ~(q <= p) PROVE FALSE
  <2>1. 1..p \in upTo /\ 1..p \subseteq Nat /\ 1..q \subseteq Nat
    BY DEF upTo
  <2>2. 1..p \subseteq 1..q /\ q \in 1..q /\ q \notin 1..p
    BY <1>1, <1>5
  <2>3. <<1..p, 1..q>> \in StrictSubsetOrdering(Nat)
    BY <2>1, <2>2 DEF StrictSubsetOrdering
  <2> QED BY <2>1, <2>3, <1>3, <1>4
<1> QED BY <1>5 DEF IsNext

LEMMA NobodyWaits == PoolInv /\ Roomy => Unblocked
<1> SUFFICES ASSUME PoolInv, Roomy, boss = "submitting"
             PROVE  Unblocked
  BY DEF Unblocked
<1> USE DEF PoolInv
<1>1. CASE \E r \in Workers : place[r] \in {"flushing", "counting"}
  <2>1. PICK r \in Workers : place[r] \in {"flushing", "counting"}
    BY <1>1
  <2>2. mu = r
    BY <2>1 DEF Exclusive
  <2> QED BY <2>1, <2>2 DEF Unblocked
<1>2. CASE /\ \A r \in Workers : place[r] \notin {"flushing", "counting"}
           /\ \E r \in Workers : place[r] \in {"returned", "flushed"}
  <2>1. mu = Nobody
    BY <1>2 DEF PoolTypeOK, Exclusive
  <2> QED BY <1>2, <2>1 DEF Unblocked
<1>3. CASE \E r \in Workers : place[r] = "working"
  BY <1>3 DEF Unblocked
<1>4. CASE \A r \in Workers : place[r] \notin InPool
  <2>1. CASE \E r \in Workers : place[r] = "queued"
    <3>1. PICK q \in Workers : IsNext(q)
      BY <2>1, SomebodyIsNext
    <3>2. Active = {}
      BY <1>4 DEF Active
    <3>3. Cardinality(Active) < limit
      BY <3>2, FS_EmptySet DEF Roomy, PoolTypeOK
    <3> QED BY <3>1, <3>3 DEF Unblocked
  <2>2. CASE ~\E r \in Workers : place[r] = "queued"
    <3>1. \A r \in Workers : place[r] \in {"none", "finished"}
      BY <1>4, <2>2 DEF InPool, Places, PoolTypeOK
    <3> QED BY <3>1 DEF Unblocked
  <2> QED BY <2>1, <2>2
<1> QED BY <1>1, <1>2, <1>3, <1>4 DEF InPool

\* The pool never stands still with work left, for any number of repositories and
\* any --concurrency, zero and negative ones included: what PoolEnds needs beside
\* fairness.
THEOREM PoolNeverBlocks == PoolSpec => []Unblocked
<1>1. PoolInit => Roomy
  BY DEF PoolInit, Roomy
<1> QED BY <1>1, RoomStep, NobodyWaits, MutexIsKept, PTL DEF PoolSpec

-----------------------------------------------------------------------------
(* The output.                                                             *)

LEMMA OutputStep == PoolInv /\ OutputIsContiguous /\ [PoolNext]_poolVars => OutputIsContiguous'
<1> SUFFICES ASSUME PoolInv, OutputIsContiguous, [PoolNext]_poolVars PROVE OutputIsContiguous'
  OBVIOUS
<1> USE DEF PoolInv, PoolTypeOK
<1>1. ASSUME NEW r \in Workers, StartFlush(r) PROVE OutputIsContiguous'
  <2>1. out' = Append(out, r) /\ mu = Nobody /\ mu' = r
    BY <1>1 DEF StartFlush, Acquire
  <2>2. Len(out) % 2 # 1
    BY <2>1, WorkersAssumption DEF MidFlush
  <2>3. Len(out') = Len(out) + 1 /\ Len(out) \in Nat /\ out'[Len(out) + 1] = r
        /\ \A i \in 1..Len(out) : out'[i] = out[i]
    BY <2>1, LenAppend
  <2>4. Len(out') % 2 = 1
    BY <2>2, <2>3, Alternate
  <2>5. ASSUME NEW i \in 1..Len(out'), i % 2 = 0 PROVE out'[i] = out'[i - 1]
    <3>1. i # Len(out) + 1
      BY <2>3, <2>4, <2>5
    <3>2. i # 1
      BY <2>5
    <3>3. i \in 1..Len(out) /\ i - 1 \in 1..Len(out)
      BY <3>1, <3>2, <2>3
    <3> QED BY <3>3, <2>3, <2>5 DEF OutputIsContiguous
  <2> QED BY <2>1, <2>3, <2>5 DEF OutputIsContiguous
<1>2. ASSUME NEW r \in Workers, EndFlush(r) PROVE OutputIsContiguous'
  <2>1. out' = Append(out, r) /\ mu = r /\ Len(out) % 2 = 1
    BY <1>2 DEF EndFlush, MidFlush
  <2>2. out[Len(out)] = r
    BY <2>1 DEF OutputIsContiguous
  <2>3. Len(out') = Len(out) + 1 /\ Len(out) \in Nat /\ out'[Len(out) + 1] = r
        /\ \A i \in 1..Len(out) : out'[i] = out[i]
    BY <2>1, LenAppend
  <2>4. Len(out') % 2 # 1
    BY <2>1, <2>3, Alternate
  <2>5. ASSUME NEW i \in 1..Len(out'), i % 2 = 0 PROVE out'[i] = out'[i - 1]
    <3>1. i # 1
      BY <2>5
    <3>2. CASE i = Len(out) + 1
      <4>1. i - 1 = Len(out) /\ Len(out) \in 1..Len(out)
        BY <3>1, <3>2, <2>3
      <4> QED BY <4>1, <3>2, <2>2, <2>3
    <3>3. CASE i # Len(out) + 1
      <4>1. i \in 1..Len(out) /\ i - 1 \in 1..Len(out)
        BY <3>1, <3>3, <2>3
      <4> QED BY <4>1, <2>3, <2>5 DEF OutputIsContiguous
    <3> QED BY <3>2, <3>3
  <2> QED BY <2>4, <2>5 DEF OutputIsContiguous
<1>3. CASE out' = out /\ (Len(out) % 2 = 1 => mu' = mu)
  BY <1>3 DEF OutputIsContiguous
<1>4. ASSUME NEW r \in Workers, StartCount(r) \/ EndCount(r) PROVE OutputIsContiguous'
  <2>1. out' = out
    BY <1>4 DEF StartCount, EndCount
  <2>2. CASE StartCount(r)
    BY <2>1, <2>2, WorkersAssumption DEF StartCount, Acquire, MidFlush, OutputIsContiguous
  <2>3. CASE EndCount(r)
    <3>1. place[r] = "counting" /\ mu = r
      BY <2>3 DEF EndCount, Exclusive
    <3>2. Len(out) % 2 # 1
      BY <3>1 DEF MidFlush
    <3> QED BY <2>1, <3>2 DEF OutputIsContiguous
  <2> QED BY <1>4, <2>2, <2>3
<1>5. ASSUME NEW given \in SUBSET Workers, Open(given) PROVE OutputIsContiguous'
  BY <1>3, <1>5 DEF Open
<1>6. ASSUME NEW r \in Workers, Submit(r) \/ \E o \in Outcome : Return(r, o) PROVE OutputIsContiguous'
  BY <1>3, <1>6 DEF Submit, Return
<1>7. CASE Join \/ UNCHANGED poolVars
  BY <1>3, <1>7 DEF Join, poolVars
<1> QED BY <1>1, <1>2, <1>4, <1>5, <1>6, <1>7 DEF PoolNext, Finish

\* The lines of a repository are never split by those of another one.
THEOREM LinesStayTogether == PoolSpec => []OutputIsContiguous
<1>1. PoolInit => OutputIsContiguous
  <2> SUFFICES ASSUME PoolInit PROVE OutputIsContiguous
    OBVIOUS
  <2>1. Len(out) = 0
    BY DEF PoolInit
  <2> QED BY <2>1 DEF OutputIsContiguous
<1> QED BY <1>1, OutputStep, MutexIsKept, PTL DEF PoolSpec

-----------------------------------------------------------------------------
(* The counters.                                                           *)

OkRepos     == {r \in Finished : ~outcome[r].err}
FailedRepos == {r \in Finished : outcome[r].err}

LEMMA CardinalityWith ==
  ASSUME NEW S \in SUBSET Workers, NEW r \in Workers, r \notin S
  PROVE  Cardinality(S \cup {r}) = Cardinality(S) + 1
BY FiniteSets, FS_AddElement

\* A step that counts nobody.
LEMMA NobodyCounted ==
  ASSUME NoCountLost, Finished' = Finished, res' = res,
         \A r \in Finished : outcome'[r] = outcome[r]
  PROVE  NoCountLost'
<1>1. OkRepos' = OkRepos /\ FailedRepos' = FailedRepos
  BY DEF OkRepos, FailedRepos
<1> QED BY <1>1 DEF NoCountLost, OkRepos, FailedRepos

LEMMA CountStep == PoolInv /\ NoCountLost /\ [PoolNext]_poolVars => NoCountLost'
<1> SUFFICES ASSUME PoolInv, NoCountLost, [PoolNext]_poolVars PROVE NoCountLost'
  OBVIOUS
<1> USE DEF PoolInv, PoolTypeOK
<1>1. ASSUME NEW r \in Workers, EndCount(r) PROVE NoCountLost'
  <2> DEFINE o == outcome[r]
  <2>1. res' = Counted(res, o) /\ outcome' = outcome /\ r \notin Finished
    BY <1>1 DEF EndCount, UpToDate, Finished
  <2>2. Finished' = Finished \cup {r} /\ Finished \subseteq Workers
    BY <1>1 DEF EndCount, Move, Finished
  <2>3. o \in Outcome /\ res \in Totals
    OBVIOUS
  <2>4. OkRepos \in SUBSET Workers /\ FailedRepos \in SUBSET Workers
        /\ r \notin OkRepos /\ r \notin FailedRepos
    BY <2>1, <2>2 DEF OkRepos, FailedRepos
  <2>5. CASE o.err
    <3>1. res' = [res EXCEPT !.failedRepos = @ + 1]
      BY <2>1, <2>5 DEF Counted
    <3>2. OkRepos' = OkRepos /\ FailedRepos' = FailedRepos \cup {r}
      BY <2>1, <2>2, <2>5 DEF OkRepos, FailedRepos
    <3>3. Cardinality(FailedRepos') = Cardinality(FailedRepos) + 1
      BY <2>4, <3>2, CardinalityWith
    <3>4. /\ res'.ok = res.ok /\ res'.failedRepos = res.failedRepos + 1
          /\ res'.drift = res.drift /\ res'.failedEntries = res.failedEntries
      BY <2>3, <3>1 DEF Totals
    <3>5. (res'.drift <=> \E q \in Finished' : ~outcome'[q].err /\ outcome'[q].drift)
          /\ (res'.failedEntries = 0 <=> \A q \in Finished' : outcome'[q].err \/ outcome'[q].failed = 0)
      BY <2>1, <2>2, <2>5, <3>4 DEF NoCountLost
    <3> QED BY <3>2, <3>3, <3>4, <3>5 DEF NoCountLost, OkRepos, FailedRepos
  <2>6. CASE ~o.err
    <3>1. /\ res'.ok = res.ok + 1 /\ res'.failedRepos = res.failedRepos
          /\ res'.drift = (res.drift \/ o.drift) /\ res'.failedEntries = res.failedEntries + o.failed
      BY <2>1, <2>6 DEF Counted
    <3>2. OkRepos' = OkRepos \cup {r} /\ FailedRepos' = FailedRepos
      BY <2>1, <2>2, <2>6 DEF OkRepos, FailedRepos
    <3>3. Cardinality(OkRepos') = Cardinality(OkRepos) + 1
      BY <2>4, <3>2, CardinalityWith
    <3>4. res'.drift <=> \E q \in Finished' : ~outcome'[q].err /\ outcome'[q].drift
      BY <2>1, <2>2, <2>6, <3>1 DEF NoCountLost
    <3>5. res'.failedEntries = 0 <=> res.failedEntries = 0 /\ o.failed = 0
      BY <2>3, <3>1, ConcurrencyAssumption DEF Totals, Outcome
    <3>6. res'.failedEntries = 0 <=> \A q \in Finished' : outcome'[q].err \/ outcome'[q].failed = 0
      BY <2>1, <2>2, <2>6, <3>5 DEF NoCountLost
    <3> QED BY <3>1, <3>2, <3>3, <3>4, <3>6 DEF NoCountLost, OkRepos, FailedRepos
  <2> QED BY <2>5, <2>6
<1>2. ASSUME NEW given \in SUBSET Workers, Open(given) PROVE NoCountLost'
  <2>1. Finished' = Finished
    BY <1>2 DEF Open, Resting, Finished
  <2> QED BY <1>2, <2>1, NobodyCounted DEF Open
<1>3. ASSUME NEW r \in Workers, Submit(r) PROVE NoCountLost'
  <2>1. Finished' = Finished
    BY <1>3 DEF Submit, IsNext, Move, Finished
  <2> QED BY <1>3, <2>1, NobodyCounted DEF Submit
<1>4. ASSUME NEW r \in Workers, NEW o \in Outcome, Return(r, o) PROVE NoCountLost'
  <2>1. Finished' = Finished
    BY <1>4 DEF Return, Move, Finished
  <2>2. \A q \in Finished : outcome'[q] = outcome[q]
    BY <1>4 DEF Return, Finished
  <2> QED BY <1>4, <2>1, <2>2, NobodyCounted DEF Return
<1>5. ASSUME NEW r \in Workers, StartFlush(r) \/ EndFlush(r) \/ StartCount(r) PROVE NoCountLost'
  <2>1. Finished' = Finished
    BY <1>5 DEF StartFlush, EndFlush, StartCount, Move, Finished
  <2> QED BY <1>5, <2>1, NobodyCounted DEF StartFlush, EndFlush, StartCount
<1>6. CASE Join \/ UNCHANGED poolVars
  <2>1. Finished' = Finished
    BY <1>6 DEF Join, poolVars, Finished
  <2> QED BY <1>6, <2>1, NobodyCounted DEF Join, poolVars
<1> QED BY <1>1, <1>2, <1>3, <1>4, <1>5, <1>6 DEF PoolNext, Finish

LEMMA CountsAtFirst == PoolInit => NoCountLost
<1> SUFFICES ASSUME PoolInit PROVE NoCountLost
  OBVIOUS
<1>1. Finished = {}
  BY DEF PoolInit, Finished
<1>2. {r \in Finished : ~outcome[r].err} = {} /\ {r \in Finished : outcome[r].err} = {}
  BY <1>1
<1> QED BY <1>1, <1>2, FS_EmptySet DEF NoCountLost, PoolInit, ZeroTotals

\* No update of the shared counters is lost.
THEOREM CountsAreExact == PoolSpec => []NoCountLost
BY CountsAtFirst, CountStep, MutexIsKept, PTL DEF PoolSpec

-----------------------------------------------------------------------------
(* The end.                                                                *)

Flushed == {r \in Workers : place[r] \in {"flushed", "counting", "finished"}}

\* Two pieces of output for each worker that has flushed, and one more while
\* one flushes; and nobody is left when runOrg has returned.
Accounted ==
  /\ Len(out) \in {2 * Cardinality(Flushed), 2 * Cardinality(Flushed) + 1}
  /\ boss = "joined" => \A r \in Workers : place[r] \in {"none", "finished"}

LEMMA Parity == \A n \in Nat : (2 * n) % 2 # 1 /\ (2 * n + 1) % 2 = 1
BY SMT

LEMMA AccountedStep == PoolInv /\ Accounted /\ [PoolNext]_poolVars => Accounted'
<1> SUFFICES ASSUME PoolInv, Accounted, [PoolNext]_poolVars PROVE Accounted'
  OBVIOUS
<1> USE DEF PoolInv, PoolTypeOK
<1>0. Flushed \in SUBSET Workers /\ Cardinality(Flushed) \in Nat
  BY FiniteSets DEF Flushed
<1>1. ASSUME NEW r \in Workers, StartFlush(r) PROVE Accounted'
  <2>1. out' = Append(out, r) /\ mu = Nobody /\ boss' = boss /\ place[r] = "returned"
    BY <1>1 DEF StartFlush, Acquire
  <2>2. Len(out) % 2 # 1
    BY <2>1, WorkersAssumption DEF MidFlush
  <2>3. Len(out) = 2 * Cardinality(Flushed)
    BY <2>2, <1>0, Parity DEF Accounted
  <2>4. Len(out') = 2 * Cardinality(Flushed) + 1
    BY <2>1, <2>3, LenAppend
  <2>5. Flushed' = Flushed
    BY <1>1 DEF StartFlush, Move, Flushed
  <2> QED BY <2>1, <2>4, <2>5 DEF Accounted
<1>2. ASSUME NEW r \in Workers, EndFlush(r) PROVE Accounted'
  <2>1. out' = Append(out, r) /\ Len(out) % 2 = 1 /\ boss' = boss /\ place[r] = "flushing"
    BY <1>2 DEF EndFlush, MidFlush
  <2>2. Len(out) = 2 * Cardinality(Flushed) + 1
    BY <2>1, <1>0, Parity DEF Accounted
  <2>3. Flushed' = Flushed \cup {r} /\ r \notin Flushed
    BY <1>2 DEF EndFlush, Move, Flushed
  <2>4. Cardinality(Flushed') = Cardinality(Flushed) + 1
    BY <2>3, <1>0, CardinalityWith
  <2>5. Len(out') = Len(out) + 1
    BY <2>1, LenAppend
  <2>6. Len(out') = 2 * Cardinality(Flushed')
    BY <2>2, <2>4, <2>5, <1>0
  <2> QED BY <2>1, <2>6 DEF Accounted
<1>3. ASSUME NEW r \in Workers, Submit(r) \/ (\E o \in Outcome : Return(r, o)) PROVE Accounted'
  <2>1. out' = out /\ boss' = boss /\ place[r] \in {"queued", "working"}
    BY <1>3 DEF Submit, Return, IsNext
  <2>2. Flushed' = Flushed
    BY <1>3 DEF Submit, Return, IsNext, Move, Flushed
  <2> QED BY <2>1, <2>2 DEF Accounted
<1>4. ASSUME NEW r \in Workers, StartCount(r) \/ EndCount(r) PROVE Accounted'
  <2>1. out' = out /\ boss' = boss /\ place[r] \in {"flushed", "counting"}
    BY <1>4 DEF StartCount, EndCount
  <2>2. Flushed' = Flushed
    BY <1>4 DEF StartCount, EndCount, Move, Flushed
  <2> QED BY <2>1, <2>2 DEF Accounted
<1>5. ASSUME NEW given \in SUBSET Workers, Open(given) PROVE Accounted'
  <2>1. out' = out /\ boss' = "submitting"
    BY <1>5 DEF Open
  <2>2. Flushed' = Flushed
    BY <1>5 DEF Open, Resting, Flushed
  <2> QED BY <2>1, <2>2 DEF Accounted
<1>6. CASE Join \/ UNCHANGED poolVars
  BY <1>6 DEF Join, poolVars, Accounted, Flushed
<1> QED BY <1>1, <1>2, <1>3, <1>4, <1>5, <1>6 DEF PoolNext, Finish

LEMMA AllIsDone == PoolInv /\ NoCountLost /\ Accounted => JoinIsComplete
<1> SUFFICES ASSUME PoolInv, NoCountLost, Accounted, boss = "joined"
             PROVE  LET given == Cardinality({r \in Workers : place[r] # "none"})
                    IN mu = Nobody /\ res.ok + res.failedRepos = given /\ Len(out) = 2 * given
  BY DEF JoinIsComplete
<1> USE DEF PoolInv, PoolTypeOK
<1>1. \A r \in Workers : place[r] \in {"none", "finished"}
  BY DEF Accounted
<1>2. mu = Nobody
  BY <1>1 DEF Exclusive
<1>3. {r \in Workers : place[r] # "none"} = Finished /\ Flushed = Finished
  BY <1>1 DEF Finished, Flushed
<1>4. Len(out) = 2 * Cardinality(Finished)
  <2>1. Len(out) % 2 # 1
    BY <1>2, WorkersAssumption DEF MidFlush
  <2>2. Cardinality(Finished) \in Nat
    BY FiniteSets DEF Finished
  <2> QED BY <1>3, <2>1, <2>2, Parity DEF Accounted
<1>5. res.ok + res.failedRepos = Cardinality(Finished)
  <2>1. /\ OkRepos \cup FailedRepos = Finished /\ OkRepos \cap FailedRepos = {}
        /\ OkRepos \in SUBSET Workers /\ FailedRepos \in SUBSET Workers
    BY DEF OkRepos, FailedRepos, Finished
  <2>2. Cardinality(OkRepos \cup FailedRepos) =
          Cardinality(OkRepos) + Cardinality(FailedRepos) - Cardinality(OkRepos \cap FailedRepos)
    BY <2>1, FiniteSets, FS_Union
  <2>3. Cardinality(OkRepos \cap FailedRepos) = 0
    BY <2>1, FS_EmptySet
  <2>4. Cardinality(OkRepos) \in Nat /\ Cardinality(FailedRepos) \in Nat
    BY <2>1, FiniteSets
  <2>5. res.ok = Cardinality(OkRepos) /\ res.failedRepos = Cardinality(FailedRepos)
    BY DEF NoCountLost, OkRepos, FailedRepos
  <2>6. Cardinality(Finished) = Cardinality(OkRepos) + Cardinality(FailedRepos)
    <3>1. Cardinality(OkRepos \cup FailedRepos) = Cardinality(Finished)
      BY <2>1
    <3>2. Cardinality(OkRepos \cup FailedRepos) = Cardinality(OkRepos) + Cardinality(FailedRepos) - 0
      BY <2>2, <2>3
    <3>3. Cardinality(OkRepos) + Cardinality(FailedRepos) - 0
            = Cardinality(OkRepos) + Cardinality(FailedRepos)
      BY <2>4
    <3> QED BY <3>1, <3>2, <3>3
  <2> QED BY <2>5, <2>6
<1> QED BY <1>2, <1>3, <1>4, <1>5

LEMMA AccountedAtFirst == PoolInit => Accounted
<1> SUFFICES ASSUME PoolInit PROVE Accounted
  OBVIOUS
<1>1. Flushed = {} /\ Len(out) = 0 /\ boss = "idle"
  BY DEF PoolInit, Flushed
<1> QED BY <1>1, FS_EmptySet DEF Accounted

\* When runOrg returns, every repository has been counted and printed, and
\* nobody holds the mutex.
THEOREM ReturnIsComplete == PoolSpec => []JoinIsComplete
BY AccountedAtFirst, AccountedStep, AllIsDone, CountsAreExact, MutexIsKept, PTL DEF PoolSpec

=============================================================================

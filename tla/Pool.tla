-------------------------------- MODULE Pool --------------------------------
(***************************************************************************)
(* runOrg: one goroutine per listed repository, at most limit at a time,   *)
(* that share one output writer and one OrgResult under a mutex.  A worker *)
(* is a position in the list: a repository listed twice has two workers.   *)
(*                                                                         *)
(* What a worker does is not in this module: Return hands over whatever    *)
(* the audit, apply or enforce of its repository came to.  Flushing a      *)
(* buffer takes two steps and so does counting (read, write), so that      *)
(* without the mutex lines would mix and counts would be lost.             *)
(***************************************************************************)
EXTENDS Integers, FiniteSets, Sequences

CONSTANTS
  Workers,        \* the positions there can be in the list of repositories
  Concurrencies,  \* what OrgOptions.Concurrency may be, any integers
  MaxFailed,      \* bound: failed entries of one repository
  Nobody          \* the mutex is free

DefaultConcurrency == 8

ASSUME WorkersAssumption     == /\ IsFiniteSet(Workers) /\ Workers = 1..Cardinality(Workers)
                                /\ Nobody \notin Workers
ASSUME ConcurrencyAssumption == Concurrencies \subseteq Int /\ MaxFailed \in Nat

\* Fault: zero is taken as it is, and no goroutine may start.
ConcurrencyAsGiven(n) == n

ResolveConcurrency(n) == IF n <= 0 THEN DefaultConcurrency ELSE n

VARIABLES
  boss,     \* the goroutine that runs runOrg: idle, submitting, joined
  limit,    \* g.SetLimit: how many goroutines may be under way
  place,    \* where each worker is
  outcome,  \* what its work returned: (Result, err)
  mu,       \* who holds the mutex
  reg,      \* the counters as a worker read them
  res,      \* the shared OrgResult
  out       \* what was written to the shared writer, in pieces

poolVars == <<boss, limit, place, outcome, mu, reg, res, out>>

Places   == {"none", "queued", "working", "returned", "flushing", "flushed", "counting", "finished"}
InPool   == {"working", "returned", "flushing", "flushed", "counting"}
Outcome  == [err : BOOLEAN, failed : 0..MaxFailed, drift : BOOLEAN]
Totals   == [ok : Nat, failedRepos : Nat, failedEntries : Nat, drift : BOOLEAN]
ZeroTotals == [ok |-> 0, failedRepos |-> 0, failedEntries |-> 0, drift |-> FALSE]
NoOutcome  == [err |-> FALSE, failed |-> 0, drift |-> FALSE]

PoolTypeOK ==
  /\ boss \in {"idle", "submitting", "joined"}
  /\ limit \in Nat
  /\ place \in [Workers -> Places]
  /\ outcome \in [Workers -> Outcome]
  /\ mu \in Workers \cup {Nobody}
  /\ reg \in [Workers -> Totals]
  /\ res \in Totals
  /\ out \in Seq(Workers)

PoolInit ==
  /\ boss    = "idle" /\ limit = 0
  /\ place   = [r \in Workers |-> "none"]
  /\ outcome = [r \in Workers |-> NoOutcome]
  /\ mu      = Nobody
  /\ reg     = [r \in Workers |-> ZeroTotals]
  /\ res     = ZeroTotals
  /\ out     = <<>>

Active == {r \in Workers : place[r] \in InPool}

Move(r, p) == place' = [place EXCEPT ![r] = p]

\* runOrg is called with the repositories at the given positions.
Open(given) ==
  /\ boss = "idle" /\ boss' = "submitting"
  /\ \E n \in Concurrencies : limit' = ResolveConcurrency(n)
  /\ place' = [r \in Workers |-> IF r \in given THEN "queued" ELSE "none"]
  /\ UNCHANGED <<outcome, mu, reg, res, out>>

\* The loop has come to position r.
IsNext(r) == place[r] = "queued" /\ \A q \in Workers : place[q] = "queued" => r <= q

\* g.Go blocks while limit goroutines are under way.
Submit(r) ==
  /\ boss = "submitting" /\ IsNext(r)
  /\ Cardinality(Active) < limit
  /\ Move(r, "working")
  /\ UNCHANGED <<boss, limit, outcome, mu, reg, res, out>>

Return(r, o) ==
  /\ place[r] = "working" /\ Move(r, "returned")
  /\ outcome' = [outcome EXCEPT ![r] = o]
  /\ UNCHANGED <<boss, limit, mu, reg, res, out>>

\* Fault: nobody waits for the mutex.
AcquireAtOnce(r) == mu' = r

Acquire(r) == mu = Nobody /\ mu' = r

\* Fault: the mutex is not given back.
ReleaseForgotten == mu' = mu

Release == mu' = Nobody

\* flush writes the buffer; two steps, as far as other writers are concerned.
StartFlush(r) ==
  /\ place[r] = "returned" /\ Acquire(r) /\ Move(r, "flushing")
  /\ out' = Append(out, r)
  /\ UNCHANGED <<boss, limit, outcome, reg, res>>

EndFlush(r) ==
  /\ place[r] = "flushing" /\ Release /\ Move(r, "flushed")
  /\ out' = Append(out, r)
  /\ UNCHANGED <<boss, limit, outcome, reg, res>>

StartCount(r) ==
  /\ place[r] = "flushed" /\ Acquire(r) /\ Move(r, "counting")
  /\ reg' = [reg EXCEPT ![r] = res]
  /\ UNCHANGED <<boss, limit, outcome, res, out>>

\* Fault: the error path falls through to the success path.
CountedTwice(totals, o) ==
  [ok            |-> totals.ok + 1,
   failedRepos   |-> IF o.err THEN totals.failedRepos + 1 ELSE totals.failedRepos,
   failedEntries |-> totals.failedEntries + o.failed,
   drift         |-> totals.drift \/ o.drift]

\* Fault: failed entries are subtracted.
CountedBackwards(totals, o) ==
  [ok            |-> totals.ok + 1,
   failedRepos   |-> totals.failedRepos,
   failedEntries |-> totals.failedEntries - o.failed,
   drift         |-> totals.drift \/ o.drift]

\* The counters after a repository with outcome o.
Counted(totals, o) ==
  IF o.err
  THEN [totals EXCEPT !.failedRepos = @ + 1]
  ELSE [ok            |-> totals.ok + 1,
        failedRepos   |-> totals.failedRepos,
        failedEntries |-> totals.failedEntries + o.failed,
        drift         |-> totals.drift \/ o.drift]

EndCount(r) ==
  /\ place[r] = "counting" /\ Release /\ Move(r, "finished")
  /\ res' = Counted(reg[r], outcome[r])
  /\ UNCHANGED <<boss, limit, outcome, reg, out>>

\* Fault: a goroutine that only has to update the counters is not waited for.
JoinEarly ==
  /\ boss = "submitting"
  /\ \A r \in Workers : place[r] \in {"none", "counting", "finished"}
  /\ boss' = "joined"
  /\ UNCHANGED <<limit, place, outcome, mu, reg, res, out>>

\* g.Wait: every repository was submitted and every goroutine has ended.
Join ==
  /\ boss = "submitting"
  /\ \A r \in Workers : place[r] \in {"none", "finished"}
  /\ boss' = "joined"
  /\ UNCHANGED <<limit, place, outcome, mu, reg, res, out>>

Finish(r) == StartFlush(r) \/ EndFlush(r) \/ StartCount(r) \/ EndCount(r)

PoolNext ==
  \/ \E given \in SUBSET Workers : Open(given)
  \/ \E r \in Workers : Submit(r) \/ Finish(r) \/ \E o \in Outcome : Return(r, o)
  \/ Join

PoolSpec == PoolInit /\ [][PoolNext]_poolVars

\* Every worker's call returns, every waiter for the mutex gets it, and the
\* submitting loop goes on.
PoolFairSpec ==
  /\ PoolSpec
  /\ \A r \in Workers : /\ WF_poolVars(Submit(r))
                        /\ WF_poolVars(\E o \in Outcome : Return(r, o))
                        /\ SF_poolVars(StartFlush(r) \/ StartCount(r))
                        /\ WF_poolVars(EndFlush(r) \/ EndCount(r))
  /\ WF_poolVars(Join)

-----------------------------------------------------------------------------
(* Properties.                                                             *)

\* The lines of one repository are never split by those of another one
\* ("flushed atomically, so two repos' lines never interleave").
OutputIsContiguous ==
  /\ \A i \in 1..Len(out) : i % 2 = 0 => out[i] = out[i - 1]
  /\ Len(out) % 2 = 1 => mu = out[Len(out)]

Finished == {r \in Workers : place[r] = "finished"}

\* No update of the shared counters is lost: they always agree with the outcomes
\* of the repositories that finished counting, and failedEntries is zero only
\* when none of them had a failed entry.
NoCountLost ==
  /\ res.ok = Cardinality({r \in Finished : ~outcome[r].err})
  /\ res.failedRepos = Cardinality({r \in Finished : outcome[r].err})
  /\ res.drift <=> \E r \in Finished : ~outcome[r].err /\ outcome[r].drift
  /\ res.failedEntries = 0 <=> \A r \in Finished : outcome[r].err \/ outcome[r].failed = 0

\* When runOrg returns, every repository it was given has been counted and
\* printed, and nobody holds the mutex.
JoinIsComplete ==
  boss = "joined" =>
    LET given == Cardinality({r \in Workers : place[r] # "none"})
    IN mu = Nobody /\ res.ok + res.failedRepos = given /\ Len(out) = 2 * given

\* runOrg returns: whatever --concurrency says, also zero, there is room for the
\* next repository in the end, and nobody waits for the mutex for ever.
PoolEnds == boss = "submitting" ~> boss = "joined"

=============================================================================

----------------------------- MODULE OrgRunProofs -----------------------------
(***************************************************************************)
(* Safety of OrgRun: what an org-wide run promises for every number of     *)
(* repositories, every configuration, and any number of lost calls, foreign*)
(* changes and repositories that come and go.                              *)
(***************************************************************************)
EXTENDS OrgRun, ScopeAlone, PoolProofs, SequenceTheorems

-----------------------------------------------------------------------------
(* The invariant.                                                          *)

\* The pages fetched so far hold a name for each of their positions.
Paged ==
  /\ Len(catalog) + (MaxMoves - moves) <= Cardinality(Workers)
  /\ lister = "idle" => page = 1
  /\ lister \in {"idle", "fetching"} =>
       /\ (page - 1) * PerPage <= Cardinality(Workers)
       /\ Len(names) = IF Theirs THEN (page - 1) * PerPage ELSE 0
  /\ Len(names) <= Cardinality(Workers)

\* Who stayed all the time is either named or still ahead of the listing, unless
\* a repository before it left; and without moves the names are the catalog's.
Caught ==
  Theirs /\ lister # "failed" =>
    /\ ~shrunk => \A i \in DOMAIN catalog : catalog[i] \in stayed =>
                    \/ catalog[i] \in Elements(names)
                    \/ lister # "listed" /\ i > (page - 1) * PerPage
    /\ moves = 0 => \A i \in DOMAIN names : i \in DOMAIN catalog /\ names[i] = catalog[i]

\* The run works on the org scope, too.
HasOrgScope == cfg.org # None /\ ownerType = "org"

RunTypes ==
  /\ main \in {"owner", "orgScope", "listing", "pool", "exited"}
  /\ ownerType \in {"org", "user"} /\ self \in BOOLEAN
  /\ total \in [ok : Nat, failedRepos : Nat, failedEntries : Nat, drift : BOOLEAN, skipped : Nat]
  /\ exit \in {0, 1, None}

\* Where the main goroutine is determines where the others can be.
Stages ==
  /\ main \in {"owner", "orgScope", "listing"} => boss = "idle" /\ exit = None
  /\ main = "pool" => boss = "submitting" /\ exit = None
  /\ main = "exited" => (boss = "idle" /\ exit = 1) \/ boss = "joined"
  /\ main \in {"owner", "orgScope"} => lister = "idle"
  /\ boss # "idle" => lister = "listed"
  /\ main = "orgScope" => HasOrgScope

Over(w) == pc[w] \in {"done", "error"}

\* All work for one command; the org scope comes first, or not at all.
OrgScopeFirst ==
  /\ TargetOf(OrgTask) = OrgScope /\ \A w \in Tasks : Cmd(w) = Command
  /\ main = "owner" \/ ~HasOrgScope => pc[OrgTask] = "start"
  /\ (main \in {"listing", "pool"} \/ boss = "joined") /\ HasOrgScope => Over(OrgTask)

\* A task that has done nothing yet.
Untouched(w) ==
  /\ pc[w] = "start" /\ snap[w] = NoSeen /\ ids[w] = NoIds /\ keyring[w] = {}
  /\ todo[w] = {} /\ body[w] = NoLines /\ failed[w] = 0

ResultOf(w) == [err |-> pc[w] = "error", failed |-> failed[w], drift |-> DriftOf(w)]

\* The workers of the pool and the tasks they are for.
Staffed ==
  /\ \A w \in Workers : place[w] \in {"none", "queued"} => Untouched(w)
  /\ boss # "idle" => \A w \in Workers : /\ place[w] # "none" <=> w \in Addressed
                                         /\ w \in Addressed => TargetOf(w) = names[w]
  /\ \A w \in Workers : place[w] \notin {"none", "queued", "working"} =>
       Over(w) /\ outcome[w] = ResultOf(w)

\* What the org scope contributes to the totals.
OrgPart(skipped) ==
  [ok            |-> 0,
   failedRepos   |-> IF HasOrgScope /\ pc[OrgTask] = "error" THEN 1 ELSE 0,
   failedEntries |-> IF HasOrgScope /\ pc[OrgTask] = "done" THEN failed[OrgTask] ELSE 0,
   drift         |-> HasOrgScope /\ pc[OrgTask] = "done" /\ DriftOf(OrgTask),
   skipped       |-> skipped]

Summed ==
  /\ main \in {"owner", "orgScope"} => total = NoTotal
  /\ main = "listing" => total = OrgPart(0)
  /\ main = "pool" => total = OrgPart(Skipped)
  /\ boss = "joined" => total = Merged(OrgPart(Skipped), res) /\ exit = OrgExitCode(total)

RunPart == RunTypes /\ Stages /\ OrgScopeFirst /\ Staffed /\ Summed

FailedLines(w) == {k \in Keys : body[w][k] = "FAILED"}

\* Each failure is counted once.
Tallied(w) == failed[w] = Cardinality(FailedLines(w))

\* Where everybody only audits, a snapshot shows what outsiders left as it is.
Current(w) ==
  Command = "audit" =>
    \A k \in Keys \ touched[w] :
      Kind(k) \in KindsListed(w) => snap[w][k] = Shows(k, live[TargetOf(w)][k])

\* The tasks that failed although the configuration has all their targets need.
Luckless == {w \in Tasks : pc[w] = "error" /\ ~NoPlan(w) /\ Actionable(TargetOf(w))}

\* Each of them has lost a call of its own.
Paid == Cardinality(Luckless) <= faults

\* The invariant, in four parts: the tasks, the listing, the pool, the run.
ScopePart == /\ IInv /\ LinesTellTheTruth /\ Paid
             /\ \A w \in Tasks : Progress(w) /\ Tallied(w)
ListInv   == ListTypeOK /\ Paged /\ Caught
PoolPart  == PoolInv /\ NoCountLost /\ Accounted
OrgInv    == ScopePart /\ ListInv /\ PoolPart /\ RunPart

-----------------------------------------------------------------------------
(* The listing.                                                            *)

\* The first position on page n, less one.
Skip(n) == (n - 1) * PerPage

LEMMA Products ==
  ASSUME NEW n \in Nat \ {0}
  PROVE  /\ Skip(n) \in Nat /\ Skip(n + 1) = n * PerPage /\ n * PerPage \in Nat
         /\ n * PerPage = Skip(n) + PerPage /\ PerPage \in Nat \ {0} /\ Skip(1) = 0
BY PerPageAssumption DEF Skip

LEMMA PageIsWindow ==
  ASSUME NEW seq \in Seq(Hosted), NEW n \in Nat \ {0}
  PROVE  LET end == IF n * PerPage < Len(seq) THEN n * PerPage ELSE Len(seq)
         IN /\ PageOf(seq, n) \in Seq(Hosted)
            /\ Len(PageOf(seq, n)) = IF Skip(n) < end THEN end - Skip(n) ELSE 0
            /\ \A i \in 1..Len(PageOf(seq, n)) : PageOf(seq, n)[i] = seq[Skip(n) + i]
<1> DEFINE end == IF n * PerPage < Len(seq) THEN n * PerPage ELSE Len(seq)
           from == n * PerPage - PerPage + 1
<1>1. /\ n * PerPage \in Nat /\ Skip(n) \in Nat
      /\ n * PerPage = Skip(n) + PerPage /\ PerPage \in Nat
  BY Products
<1>0. from = Skip(n) + 1 /\ from \in Nat
  BY <1>1
<1>2. Len(seq) \in Nat /\ \A i \in 1..Len(seq) : seq[i] \in Hosted
  BY LenProperties, ElementOfSeq
<1>3. end \in Nat /\ end <= Len(seq) /\ PageOf(seq, n) = SubSeq(seq, from, end)
  BY <1>1, <1>2 DEF PageOf
<1> HIDE DEF end, from
<1>4. from \in Int /\ \A i \in from..end : seq[i] \in Hosted
  BY <1>0, <1>1, <1>2, <1>3
<1>5. /\ SubSeq(seq, from, end) \in Seq(Hosted)
      /\ Len(SubSeq(seq, from, end)) = IF from <= end THEN end - from + 1 ELSE 0
      /\ \A i \in 1..(end - from + 1) : SubSeq(seq, from, end)[i] = seq[from + i - 1]
  BY <1>3, <1>4, SubSeqProperties
<1>6. Len(PageOf(seq, n)) = IF Skip(n) < end THEN end - Skip(n) ELSE 0
  BY <1>0, <1>1, <1>3, <1>5
<1>7. \A i \in 1..Len(PageOf(seq, n)) : PageOf(seq, n)[i] = seq[Skip(n) + i]
  <2> SUFFICES ASSUME NEW i \in 1..Len(PageOf(seq, n)) PROVE PageOf(seq, n)[i] = seq[Skip(n) + i]
    OBVIOUS
  <2>1. i \in 1..(end - from + 1) /\ from + i - 1 = Skip(n) + i
    BY <1>0, <1>1, <1>3, <1>6
  <2> QED BY <2>1, <1>3, <1>5
<1> QED BY <1>3, <1>5, <1>6, <1>7 DEF end

\* A repository comes in at some position.
LEMMA ArriveEffect ==
  ASSUME ListTypeOK, NEW r \in Hosted, Arrive(r)
  PROVE  /\ catalog' \in Seq(Hosted) /\ Len(catalog') = Len(catalog) + 1
         /\ r \notin Elements(catalog)
         /\ \E i \in 0..Len(catalog) :
              \A j \in 1..Len(catalog') : catalog'[j] = IF j <= i THEN catalog[j]
                                                        ELSE IF j = i + 1 THEN r
                                                        ELSE catalog[j - 1]
<1>1. PICK i \in 0..Len(catalog) :
        catalog' = SubSeq(catalog, 1, i) \o <<r>> \o SubSeq(catalog, i + 1, Len(catalog))
  BY DEF Arrive
<1>2. catalog \in Seq(Hosted) /\ Len(catalog) \in Nat
      /\ \A j \in 1..Len(catalog) : catalog[j] \in Hosted
  BY LenProperties, ElementOfSeq DEF ListTypeOK
<1> DEFINE front == SubSeq(catalog, 1, i)
           back  == SubSeq(catalog, i + 1, Len(catalog))
<1>3. front \in Seq(Hosted) /\ Len(front) = i /\ \A j \in 1..i : front[j] = catalog[j]
  BY <1>2, SubSeqProperties
<1>4. /\ back \in Seq(Hosted) /\ Len(back) = Len(catalog) - i
      /\ \A j \in 1..(Len(catalog) - i) : back[j] = catalog[i + j]
  BY <1>2, SubSeqProperties
<1>5. <<r>> \in Seq(Hosted) /\ Len(<<r>>) = 1 /\ <<r>>[1] = r
  OBVIOUS
<1> DEFINE head == front \o <<r>>
<1> HIDE DEF front, back
<1>6. /\ head \in Seq(Hosted) /\ Len(head) = i + 1
      /\ \A j \in 1..(i + 1) : head[j] = IF j <= i THEN front[j] ELSE <<r>>[j - i]
  BY <1>3, <1>5, ConcatProperties
<1>7. /\ head \o back \in Seq(Hosted) /\ Len(head \o back) = Len(catalog) + 1
      /\ \A j \in 1..(Len(catalog) + 1) :
           (head \o back)[j] = IF j <= i + 1 THEN head[j] ELSE back[j - (i + 1)]
  <2> HIDE DEF head
  <2>1. /\ head \o back \in Seq(Hosted) /\ Len(head \o back) = Len(head) + Len(back)
        /\ \A j \in 1..(Len(head) + Len(back)) :
             (head \o back)[j] = IF j <= Len(head) THEN head[j] ELSE back[j - Len(head)]
    BY <1>4, <1>6, ConcatProperties
  <2>2. Len(head) = i + 1 /\ Len(head) + Len(back) = Len(catalog) + 1
    BY <1>2, <1>4, <1>6
  <2> QED BY <2>1, <2>2
<1>8. catalog' = head \o back
  BY <1>1 DEF front, back
<1>9. ASSUME NEW j \in 1..(Len(catalog) + 1)
      PROVE  (head \o back)[j] = IF j <= i THEN catalog[j] ELSE IF j = i + 1 THEN r ELSE catalog[j - 1]
  <2> HIDE DEF head
  <2>1. CASE j <= i
    BY <1>2, <1>3, <1>6, <1>7, <2>1
  <2>2. CASE j = i + 1
    <3>1. j - i = 1 /\ j \in 1..(i + 1) /\ ~(j <= i)
      BY <2>2
    <3> QED BY <1>5, <1>6, <1>7, <2>2, <3>1
  <2>3. CASE j > i + 1
    <3>1. j - (i + 1) \in 1..(Len(catalog) - i) /\ i + (j - (i + 1)) = j - 1
      BY <1>2, <2>3
    <3>2. back[j - (i + 1)] = catalog[j - 1]
      BY <1>4, <3>1
    <3>3. (head \o back)[j] = back[j - (i + 1)] /\ ~(j <= i) /\ j # i + 1
      BY <1>2, <1>7, <2>3
    <3> QED BY <3>2, <3>3
  <2>4. j <= i \/ j = i + 1 \/ j > i + 1
    BY <1>2
  <2> QED BY <2>1, <2>2, <2>3, <2>4
<1>10. r \notin Elements(catalog)
  BY DEF Arrive
<1> HIDE DEF head
<1>11. \A j \in 1..Len(catalog') : catalog'[j] = IF j <= i THEN catalog[j]
                                                ELSE IF j = i + 1 THEN r ELSE catalog[j - 1]
  BY <1>7, <1>8, <1>9
<1> QED BY <1>7, <1>8, <1>10, <1>11

\* A repository goes from its position.
LEMMA LeaveEffect ==
  ASSUME ListTypeOK, NEW r \in Hosted, Leave(r)
  PROVE  /\ catalog' \in Seq(Hosted) /\ Len(catalog') = Len(catalog) - 1 /\ Len(catalog) > 0
         /\ \E i \in 1..Len(catalog) :
              /\ catalog[i] = r
              /\ \A j \in 1..Len(catalog') : catalog'[j] = IF j < i THEN catalog[j] ELSE catalog[j + 1]
<1>1. catalog \in Seq(Hosted) /\ Len(catalog) \in Nat /\ DOMAIN catalog = 1..Len(catalog)
      /\ \A j \in 1..Len(catalog) : catalog[j] \in Hosted
  BY LenProperties, ElementOfSeq DEF ListTypeOK
<1>2. PICK i \in 1..Len(catalog) :
        /\ catalog[i] = r
        /\ catalog' = SubSeq(catalog, 1, i - 1) \o SubSeq(catalog, i + 1, Len(catalog))
  BY <1>1 DEF Leave
<1> DEFINE front == SubSeq(catalog, 1, i - 1)
           back  == SubSeq(catalog, i + 1, Len(catalog))
<1>3. front \in Seq(Hosted) /\ Len(front) = i - 1 /\ \A j \in 1..(i - 1) : front[j] = catalog[j]
  <2>1. 1 \in Int /\ i - 1 \in Int /\ \A j \in 1..(i - 1) : catalog[j] \in Hosted
    BY <1>1
  <2> QED BY <1>1, <2>1, SubSeqProperties
<1>4. /\ back \in Seq(Hosted) /\ Len(back) = Len(catalog) - i
      /\ \A j \in 1..(Len(catalog) - i) : back[j] = catalog[i + j]
  <2>1. /\ i + 1 \in Int /\ Len(catalog) \in Int
        /\ \A j \in (i + 1)..Len(catalog) : catalog[j] \in Hosted
    BY <1>1
  <2>2. /\ back \in Seq(Hosted)
        /\ Len(back) = IF i + 1 <= Len(catalog) THEN Len(catalog) - (i + 1) + 1 ELSE 0
        /\ \A j \in 1..(Len(catalog) - (i + 1) + 1) : back[j] = catalog[(i + 1) + j - 1]
    BY <2>1, SubSeqProperties
  <2> HIDE DEF back
  <2>3. ASSUME NEW j \in 1..(Len(catalog) - i) PROVE back[j] = catalog[i + j]
    <3>1. j \in 1..(Len(catalog) - (i + 1) + 1) /\ (i + 1) + j - 1 = i + j
      BY <1>1
    <3> QED BY <2>2, <3>1
  <2>4. i \in Nat /\ \A l \in Nat : i \in 1..l => (IF i + 1 <= l THEN l - (i + 1) + 1 ELSE 0) = l - i
    BY <1>1
  <2>5. Len(back) = Len(catalog) - i
    BY <1>1, <2>2, <2>4
  <2> QED BY <2>2, <2>3, <2>5
<1> HIDE DEF front, back
<1>5. /\ front \o back \in Seq(Hosted) /\ Len(front \o back) = Len(catalog) - 1
      /\ \A j \in 1..(Len(catalog) - 1) :
           (front \o back)[j] = IF j <= i - 1 THEN front[j] ELSE back[j - (i - 1)]
  <2>1. /\ front \o back \in Seq(Hosted) /\ Len(front \o back) = Len(front) + Len(back)
        /\ \A j \in 1..(Len(front) + Len(back)) :
             (front \o back)[j] = IF j <= Len(front) THEN front[j] ELSE back[j - Len(front)]
    BY <1>3, <1>4, ConcatProperties
  <2>2. Len(front) = i - 1 /\ Len(front) + Len(back) = Len(catalog) - 1
    BY <1>1, <1>3, <1>4
  <2> QED BY <2>1, <2>2
<1>6. ASSUME NEW j \in 1..(Len(catalog) - 1)
      PROVE  (front \o back)[j] = IF j < i THEN catalog[j] ELSE catalog[j + 1]
  <2>1. CASE j < i
    BY <1>1, <1>3, <1>5, <2>1
  <2>2. CASE j >= i
    <3>1. j - (i - 1) \in 1..(Len(catalog) - i) /\ i + (j - (i - 1)) = j + 1 /\ ~(j <= i - 1)
      BY <1>1, <2>2
    <3> QED BY <1>4, <1>5, <2>2, <3>1
  <2>3. j < i \/ j >= i
    BY <1>1
  <2> QED BY <2>1, <2>2, <2>3
<1>7. catalog' = front \o back
  BY <1>2 DEF front, back
<1>8. \A j \in 1..Len(catalog') : catalog'[j] = IF j < i THEN catalog[j] ELSE catalog[j + 1]
  BY <1>5, <1>6, <1>7
<1>9. catalog' \in Seq(Hosted) /\ Len(catalog') = Len(catalog) - 1 /\ Len(catalog) > 0
  <2>1. Len(catalog) > 0
    BY <1>1
  <2> QED BY <1>5, <1>7, <2>1
<1> QED BY <1>2, <1>8, <1>9

\* How many positions there can be.
Room == Cardinality(Workers)

LEMMA RoomType == Room \in Nat
BY WorkersAssumption, FS_CardinalityType DEF Room

LEMMA CatalogBasics ==
  ASSUME ListTypeOK
  PROVE  /\ Len(catalog) \in Nat /\ DOMAIN catalog = 1..Len(catalog)
         /\ Len(names) \in Nat /\ DOMAIN names = 1..Len(names)
         /\ \A i \in 1..Len(names) : names[i] \in Hosted
BY LenProperties, ElementOfSeq DEF ListTypeOK

LEMMA ListingStarts ==
  ASSUME ListInv, StartListing, UNCHANGED <<ownerType, self>>
  PROVE  ListInv'
<1>1. ListTypeOK'
  BY DEF ListInv, ListTypeOK, StartListing, Distinct, Elements
<1>2. Paged'
  BY DEF ListInv, Paged, StartListing, Theirs
<1>3. Caught'
  BY DEF ListInv, Caught, StartListing, Theirs, Elements
<1> QED BY <1>1, <1>2, <1>3 DEF ListInv

\* What a page that was fetched adds.
LEMMA PageEffect ==
  ASSUME ListInv, lister = "fetching", Theirs, names' = names \o PageOf(catalog, page)
  PROVE  LET end == IF page * PerPage < Len(catalog) THEN page * PerPage ELSE Len(catalog)
         IN /\ names' \in Seq(Hosted) /\ Len(names) = Skip(page)
            /\ Len(names') = IF Skip(page) < end THEN end ELSE Skip(page)
            /\ \A i \in 1..Len(names) : names'[i] = names[i]
            /\ \A i \in (Len(names) + 1)..Len(names') : names'[i] = catalog[i]
<1> DEFINE end == IF page * PerPage < Len(catalog) THEN page * PerPage ELSE Len(catalog)
           new == PageOf(catalog, page)
<1>1. /\ page \in Nat \ {0} /\ catalog \in Seq(Hosted) /\ names \in Seq(Hosted)
      /\ Len(names) = Skip(page)
  BY DEF ListInv, ListTypeOK, Paged, Skip
<1>2. /\ Skip(page) \in Nat /\ page * PerPage \in Nat /\ Len(catalog) \in Nat
  BY <1>1, Products, LenProperties
<1>3. end \in Nat
  BY <1>2
<1>4. /\ new \in Seq(Hosted) /\ Len(new) = IF Skip(page) < end THEN end - Skip(page) ELSE 0
      /\ \A i \in 1..Len(new) : new[i] = catalog[Skip(page) + i]
  BY <1>1, PageIsWindow
<1> HIDE DEF end, new
<1>5. /\ names' \in Seq(Hosted) /\ Len(names') = Len(names) + Len(new)
      /\ \A i \in 1..(Len(names) + Len(new)) :
           names'[i] = IF i <= Len(names) THEN names[i] ELSE new[i - Len(names)]
  <2>1. names' = names \o new
    BY DEF new
  <2> QED BY <1>1, <1>4, <2>1, ConcatProperties
<1>6. Len(names') = IF Skip(page) < end THEN end ELSE Skip(page)
  BY <1>1, <1>2, <1>3, <1>4, <1>5
<1>7. ASSUME NEW i \in 1..Len(names) PROVE names'[i] = names[i]
  <2>1. i \in 1..(Len(names) + Len(new)) /\ i <= Len(names)
    BY <1>1, <1>2, <1>3, <1>4
  <2> QED BY <1>5, <2>1
<1>8. ASSUME NEW i \in (Len(names) + 1)..Len(names') PROVE names'[i] = catalog[i]
  <2>1. Len(names) \in Nat /\ Len(new) \in Nat /\ Skip(page) = Len(names)
    BY <1>1, <1>4, LenProperties
  <2>2. i \in Int /\ Len(names) < i /\ i <= Len(names) + Len(new)
    BY <1>5, <2>1
  <2>3. /\ i \in 1..(Len(names) + Len(new)) /\ ~(i <= Len(names))
        /\ i - Len(names) \in 1..Len(new) /\ Skip(page) + (i - Len(names)) = i
    BY <2>1, <2>2
  <2> QED BY <1>4, <1>5, <2>3
<1> QED BY <1>1, <1>5, <1>6, <1>7, <1>8 DEF end

LEMMA PageFetched ==
  ASSUME ListInv, NEW answer, FetchPage(Theirs, answer), UNCHANGED <<ownerType, self>>
  PROVE  ListInv' /\ lister' # "idle"
<1> DEFINE end == IF page * PerPage < Len(catalog) THEN page * PerPage ELSE Len(catalog)
<1>1. /\ lister = "fetching" /\ page \in Nat \ {0} /\ Theirs' = Theirs
      /\ UNCHANGED <<catalog, moves, stayed, shrunk>>
  BY DEF FetchPage, ListInv, ListTypeOK, Theirs
<1>2. /\ Skip(page) \in Nat /\ page * PerPage \in Nat /\ Skip(page + 1) = page * PerPage
      /\ Skip(page) <= page * PerPage /\ Len(catalog) \in Nat /\ moves \in 0..MaxMoves
      /\ DOMAIN catalog = 1..Len(catalog) /\ DOMAIN names = 1..Len(names) /\ Room \in Nat
  <2>1. /\ Skip(page) \in Nat /\ page * PerPage \in Nat /\ Skip(page + 1) = page * PerPage
        /\ Skip(page) <= page * PerPage
    BY <1>1, Products
  <2> QED BY <2>1, RoomType, CatalogBasics DEF ListInv, ListTypeOK
<1>3. /\ Len(catalog) + (MaxMoves - moves) <= Room /\ MaxMoves - moves \in Nat
      /\ Skip(page) <= Room /\ Len(names) = IF Theirs THEN Skip(page) ELSE 0
  <2>1. Len(catalog) + (MaxMoves - moves) <= Room
    BY DEF ListInv, Paged, Room
  <2>2. MaxMoves - moves \in Nat
    BY <1>2, PerPageAssumption
  <2>3. Skip(page) <= Room /\ Len(names) = IF Theirs THEN Skip(page) ELSE 0
    BY <1>1 DEF ListInv, Paged, Room, Skip
  <2> QED BY <2>1, <2>2, <2>3
<1>4. CASE answer # "ok"
  <2>1. names' = <<>> /\ page' = page /\ lister' = "failed"
    BY <1>4 DEF FetchPage
  <2>2. ListTypeOK'
    BY <1>1, <2>1 DEF ListInv, ListTypeOK, Distinct, Elements
  <2>3. Paged'
    BY <1>1, <1>2, <2>1, RoomType DEF ListInv, Paged, Room
  <2>4. Caught'
    BY <2>1 DEF Caught
  <2> QED BY <2>1, <2>2, <2>3, <2>4 DEF ListInv
<1>5. CASE answer = "ok" /\ ~Theirs
  <2>1. /\ names' = names /\ (page' = page \/ page' = page + 1)
        /\ lister' \in {"fetching", "listed"}
        /\ lister' = "fetching" => page' = page + 1 /\ page * PerPage < Len(catalog)
    BY <1>1, <1>5 DEF FetchPage, HasNext
  <2>2. ListTypeOK'
    BY <1>1, <2>1 DEF ListInv, ListTypeOK, Distinct, Elements
  <2>3. Paged'
    BY <1>1, <1>2, <1>3, <1>5, <2>1 DEF ListInv, Paged, Room, Skip
  <2>4. Caught'
    BY <1>1, <1>5 DEF Caught
  <2> QED BY <2>1, <2>2, <2>3, <2>4 DEF ListInv
<1>6. CASE answer = "ok" /\ Theirs
  <2>1. names' = names \o PageOf(catalog, page)
    BY <1>6 DEF FetchPage
  <2>2. /\ names' \in Seq(Hosted) /\ Len(names) = Skip(page)
        /\ Len(names') = IF Skip(page) < end THEN end ELSE Skip(page)
        /\ \A i \in 1..Len(names) : names'[i] = names[i]
        /\ \A i \in (Len(names) + 1)..Len(names') : names'[i] = catalog[i]
    BY <1>1, <1>6, <2>1, PageEffect
  <2>3. DOMAIN names' = 1..Len(names')
    BY <2>2, LenProperties
  <2>4. CASE page * PerPage < Len(catalog)
    <3>1. page' = page + 1 /\ lister' = "fetching"
      BY <1>1, <1>6, <2>4 DEF FetchPage, HasNext
    <3>2. Len(names') = page * PerPage
      BY <1>2, <2>2, <2>4
    <3>3. ListTypeOK'
      BY <1>1, <2>2, <3>1 DEF ListInv, ListTypeOK, Distinct, Elements
    <3>4. Paged'
      BY <1>1, <1>2, <1>3, <1>6, <2>4, <3>1, <3>2 DEF Paged, Room, Skip
    <3>5. ASSUME ~shrunk, NEW i \in DOMAIN catalog, catalog[i] \in stayed
          PROVE  catalog[i] \in Elements(names)' \/ i > Skip(page + 1)
      <4>1. catalog[i] \in Elements(names) \/ i > Skip(page)
        BY <1>1, <1>6, <3>5 DEF ListInv, Caught, Skip
      <4>2. CASE catalog[i] \in Elements(names)
        BY <1>2, <2>2, <2>3, <3>2, <4>2 DEF Elements
      <4>3. CASE i > Skip(page) /\ i <= page * PerPage
        <5>1. i \in (Len(names) + 1)..Len(names') /\ i \in DOMAIN names'
          BY <1>2, <2>2, <2>3, <3>2, <4>3
        <5> QED BY <2>2, <5>1 DEF Elements
      <4>4. CASE i > page * PerPage
        BY <1>2, <4>4
      <4> QED BY <1>2, <4>1, <4>2, <4>3, <4>4
    <3>6. ASSUME moves = 0, NEW i \in DOMAIN names' PROVE i \in DOMAIN catalog /\ names'[i] = catalog[i]
      <4>1. CASE i <= Len(names)
        <5>1. i \in 1..Len(names)
          BY <1>2, <2>2, <2>3, <4>1
        <5>2. i \in DOMAIN catalog /\ names[i] = catalog[i]
          BY <1>1, <1>2, <1>6, <3>6, <5>1 DEF ListInv, Caught
        <5> QED BY <2>2, <5>1, <5>2
      <4>2. CASE i > Len(names)
        <5>1. i \in (Len(names) + 1)..Len(names') /\ i \in 1..Len(catalog)
          BY <1>2, <2>2, <2>3, <2>4, <3>2, <4>2
        <5> QED BY <1>2, <2>2, <5>1
      <4> QED BY <1>2, <2>2, <2>3, <4>1, <4>2
    <3>7. Caught'
      BY <1>1, <3>1, <3>5, <3>6 DEF Caught, Skip
    <3> QED BY <3>1, <3>3, <3>4, <3>7 DEF ListInv
  <2>5. CASE ~(page * PerPage < Len(catalog))
    <3>1. page' = page /\ lister' = "listed"
      BY <1>1, <1>6, <2>5 DEF FetchPage, HasNext
    <3>2. Len(names') = IF Skip(page) < Len(catalog) THEN Len(catalog) ELSE Skip(page)
      BY <2>2, <2>5
    <3>3. ListTypeOK'
      BY <1>1, <2>2, <3>1 DEF ListInv, ListTypeOK, Distinct, Elements
    <3>4. Paged'
      BY <1>1, <1>2, <1>3, <3>1, <3>2 DEF Paged, Room
    <3>5. ASSUME ~shrunk, NEW i \in DOMAIN catalog, catalog[i] \in stayed
          PROVE  catalog[i] \in Elements(names)'
      <4>1. catalog[i] \in Elements(names) \/ i > Skip(page)
        BY <1>1, <1>6, <3>5 DEF ListInv, Caught, Skip
      <4>2. CASE catalog[i] \in Elements(names)
        BY <1>2, <2>2, <2>3, <3>2, <4>2 DEF Elements
      <4>3. CASE i > Skip(page)
        <5>1. i \in (Len(names) + 1)..Len(names') /\ i \in DOMAIN names'
          BY <1>2, <2>2, <2>3, <3>2, <4>3
        <5> QED BY <2>2, <5>1 DEF Elements
      <4> QED BY <4>1, <4>2, <4>3
    <3>6. ASSUME moves = 0, NEW i \in DOMAIN names' PROVE i \in DOMAIN catalog /\ names'[i] = catalog[i]
      <4>1. CASE i <= Len(names)
        <5>1. i \in 1..Len(names)
          BY <1>2, <2>2, <2>3, <4>1
        <5>2. i \in DOMAIN catalog /\ names[i] = catalog[i]
          BY <1>1, <1>2, <1>6, <3>6, <5>1 DEF ListInv, Caught
        <5> QED BY <2>2, <5>1, <5>2
      <4>2. CASE i > Len(names)
        <5>1. i \in (Len(names) + 1)..Len(names') /\ i \in 1..Len(catalog)
          BY <1>2, <2>2, <2>3, <3>2, <4>2
        <5> QED BY <1>2, <2>2, <5>1
      <4> QED BY <1>2, <2>2, <2>3, <4>1, <4>2
    <3>7. Caught'
      BY <1>1, <3>1, <3>5, <3>6 DEF Caught
    <3> QED BY <3>1, <3>3, <3>4, <3>7 DEF ListInv
  <2> QED BY <2>4, <2>5
<1> QED BY <1>4, <1>5, <1>6

LEMMA MovingRoom ==
  ASSUME ListInv, Moving
  PROVE  /\ moves \in Nat /\ moves' = moves + 1 /\ moves' \in 0..MaxMoves /\ moves' # 0
         /\ Len(catalog) + 1 + (MaxMoves - moves') <= Room
         /\ Len(catalog) + (MaxMoves - moves) <= Room
<1>1. moves \in 0..MaxMoves /\ moves < MaxMoves /\ moves' = moves + 1 /\ MaxMoves \in Nat
  BY PerPageAssumption DEF ListInv, ListTypeOK, Moving
<1>2. Len(catalog) + (MaxMoves - moves) <= Room /\ Len(catalog) \in Nat
  BY CatalogBasics DEF ListInv, Paged, Room
<1> QED BY <1>1, <1>2, RoomType

LEMMA ArrivalKeepsListing ==
  ASSUME ListInv, NEW r \in Hosted, Arrive(r), UNCHANGED <<ownerType, self>>
  PROVE  ListInv'
<1>1. /\ Moving /\ lister \in {"idle", "fetching"} /\ Theirs' = Theirs
      /\ UNCHANGED <<lister, page, names, stayed, shrunk>>
  BY DEF Arrive, Moving, Theirs
<1>2. /\ catalog' \in Seq(Hosted) /\ Len(catalog') = Len(catalog) + 1
      /\ r \notin Elements(catalog)
  BY ArriveEffect DEF ListInv
<1>3. PICK i \in 0..Len(catalog) :
        \A j \in 1..Len(catalog') : catalog'[j] = IF j <= i THEN catalog[j]
                                                  ELSE IF j = i + 1 THEN r ELSE catalog[j - 1]
  BY ArriveEffect DEF ListInv
<1>4. /\ Len(catalog) \in Nat /\ DOMAIN catalog = 1..Len(catalog)
      /\ DOMAIN catalog' = 1..(Len(catalog) + 1)
  BY <1>2, CatalogBasics, LenProperties DEF ListInv
<1>5. \A j \in 1..Len(catalog) : catalog[j] # r
  BY <1>2, <1>4 DEF Elements
<1> DEFINE old(j) == IF j <= i THEN j ELSE j - 1
<1>6. ASSUME NEW j \in 1..(Len(catalog) + 1), j # i + 1
      PROVE  old(j) \in 1..Len(catalog) /\ old(j) <= j /\ catalog'[j] = catalog[old(j)]
  BY <1>2, <1>3, <1>4, <1>6
<1>7. catalog'[i + 1] = r
  BY <1>2, <1>3, <1>4
<1>8. ListTypeOK'
  <2>1. ASSUME NEW a \in 1..(Len(catalog) + 1), NEW b \in 1..(Len(catalog) + 1),
               catalog'[a] = catalog'[b]
        PROVE  a = b
    <3>1. CASE a = i + 1 /\ b # i + 1
      <4> HIDE DEF old
      <4> QED BY <1>5, <1>6, <1>7, <2>1, <3>1
    <3>2. CASE b = i + 1 /\ a # i + 1
      <4> HIDE DEF old
      <4> QED BY <1>5, <1>6, <1>7, <2>1, <3>2
    <3>3. CASE a # i + 1 /\ b # i + 1
      <4>1. /\ old(a) \in 1..Len(catalog) /\ old(b) \in 1..Len(catalog)
            /\ catalog[old(a)] = catalog[old(b)]
        <5> HIDE DEF old
        <5> QED BY <1>6, <2>1, <3>3
      <4>2. old(a) = old(b)
        <5> HIDE DEF old
        <5> QED BY <1>4, <4>1 DEF ListInv, ListTypeOK, Distinct
      <4> QED BY <1>4, <3>3, <4>2
    <3> QED BY <3>1, <3>2, <3>3
  <2>2. Distinct(catalog)'
    BY <1>4, <2>1 DEF Distinct
  <2>3. stayed \subseteq Elements(catalog)'
    <3> SUFFICES ASSUME NEW x \in stayed PROVE x \in Elements(catalog)'
      BY <1>1
    <3>1. PICK k \in 1..Len(catalog) : x = catalog[k]
      BY <1>4 DEF ListInv, ListTypeOK, Elements
    <3>2. CASE k <= i
      <4>1. k \in 1..(Len(catalog) + 1) /\ catalog'[k] = catalog[k]
        BY <1>2, <1>3, <1>4, <3>2
      <4> QED BY <1>4, <3>1, <4>1 DEF Elements
    <3>3. CASE k > i
      <4>1. k + 1 \in 1..(Len(catalog) + 1) /\ catalog'[k + 1] = catalog[k]
        <5>1. k + 1 \in 1..Len(catalog') /\ ~(k + 1 <= i) /\ k + 1 # i + 1 /\ (k + 1) - 1 = k
          BY <1>2, <1>4, <3>3
        <5> QED BY <1>2, <1>3, <5>1
      <4> QED BY <1>4, <3>1, <4>1 DEF Elements
    <3> QED BY <1>4, <3>2, <3>3
  <2> QED BY <1>1, <1>2, <2>2, <2>3, MovingRoom DEF ListInv, ListTypeOK
<1>9. Paged'
  BY <1>1, <1>2, MovingRoom DEF ListInv, Paged, Room
<1>10. Caught'
  <2>1. ASSUME Theirs, ~shrunk, NEW j \in 1..(Len(catalog) + 1), catalog'[j] \in stayed
        PROVE  catalog'[j] \in Elements(names) \/ j > (page - 1) * PerPage
    <3>1. j # i + 1
      BY <1>2, <1>7, <2>1 DEF ListInv, ListTypeOK
    <3>2. old(j) \in 1..Len(catalog) /\ old(j) <= j /\ catalog'[j] = catalog[old(j)]
      BY <1>6, <3>1
    <3> HIDE DEF old
    <3>3. catalog[old(j)] \in Elements(names) \/ old(j) > Skip(page)
      BY <1>1, <1>4, <2>1, <3>2 DEF ListInv, Caught, Skip
    <3>4. Skip(page) \in Nat
      BY Products DEF ListInv, ListTypeOK
    <3> QED BY <1>4, <3>2, <3>3, <3>4 DEF Skip
  <2> QED BY <1>1, <1>4, <2>1, MovingRoom DEF Caught, Elements
<1> QED BY <1>8, <1>9, <1>10 DEF ListInv

LEMMA DepartureKeepsListing ==
  ASSUME ListInv, NEW r \in Hosted, Leave(r), UNCHANGED <<ownerType, self>>
  PROVE  ListInv'
<1>1. /\ Moving /\ lister \in {"idle", "fetching"} /\ Theirs' = Theirs
      /\ UNCHANGED <<lister, page, names>>
      /\ stayed' = stayed \ {r} /\ shrunk' = (shrunk \/ page > 1)
  BY DEF Leave, Moving, Theirs
<1>2. /\ catalog' \in Seq(Hosted) /\ Len(catalog') = Len(catalog) - 1 /\ Len(catalog) > 0
  BY LeaveEffect DEF ListInv
<1>3. PICK i \in 1..Len(catalog) :
        /\ catalog[i] = r
        /\ \A j \in 1..Len(catalog') : catalog'[j] = IF j < i THEN catalog[j] ELSE catalog[j + 1]
  BY LeaveEffect DEF ListInv
<1>4. /\ Len(catalog) \in Nat /\ DOMAIN catalog = 1..Len(catalog)
      /\ DOMAIN catalog' = 1..(Len(catalog) - 1)
  BY <1>2, CatalogBasics, LenProperties DEF ListInv
<1> DEFINE old(j) == IF j < i THEN j ELSE j + 1
<1>5. ASSUME NEW j \in 1..(Len(catalog) - 1)
      PROVE  old(j) \in 1..Len(catalog) /\ catalog'[j] = catalog[old(j)]
  BY <1>2, <1>3, <1>4
<1>6. ListTypeOK'
  <2>1. ASSUME NEW a \in 1..(Len(catalog) - 1), NEW b \in 1..(Len(catalog) - 1),
               catalog'[a] = catalog'[b]
        PROVE  a = b
    <3>1. /\ old(a) \in 1..Len(catalog) /\ old(b) \in 1..Len(catalog)
          /\ catalog[old(a)] = catalog[old(b)]
      <4> HIDE DEF old
      <4> QED BY <1>5, <2>1
    <3>2. old(a) = old(b)
      <4> HIDE DEF old
      <4> QED BY <1>4, <3>1 DEF ListInv, ListTypeOK, Distinct
    <3> QED BY <1>4, <3>2
  <2>2. Distinct(catalog)'
    BY <1>4, <2>1 DEF Distinct
  <2>3. stayed' \subseteq Elements(catalog)'
    <3> SUFFICES ASSUME NEW x \in stayed, x # r PROVE x \in Elements(catalog)'
      BY <1>1
    <3>1. PICK k \in 1..Len(catalog) : x = catalog[k]
      BY <1>4 DEF ListInv, ListTypeOK, Elements
    <3>2. CASE k < i
      <4>1. k \in 1..(Len(catalog) - 1) /\ catalog'[k] = catalog[k]
        BY <1>2, <1>3, <1>4, <3>2
      <4> QED BY <1>4, <3>1, <4>1 DEF Elements
    <3>3. CASE k > i
      <4>1. k - 1 \in 1..Len(catalog') /\ ~(k - 1 < i) /\ (k - 1) + 1 = k
        BY <1>2, <1>4, <3>3
      <4>2. catalog'[k - 1] = catalog[k]
        BY <1>3, <4>1
      <4> QED BY <1>2, <1>4, <3>1, <4>1, <4>2 DEF Elements
    <3>4. k # i
      BY <1>3, <3>1
    <3> QED BY <1>4, <3>2, <3>3, <3>4
  <2> QED BY <1>1, <1>2, <2>2, <2>3, MovingRoom DEF ListInv, ListTypeOK
<1>7. Paged'
  <2>1. Len(catalog') + (MaxMoves - moves') <= Room
    <3>1. MaxMoves - moves' \in Nat
      BY <1>1, MovingRoom, PerPageAssumption
    <3> QED BY <1>1, <1>2, <1>4, <3>1, MovingRoom, RoomType
  <2> QED BY <1>1, <2>1 DEF ListInv, Paged, Room
<1>8. Caught'
  <2>1. ASSUME Theirs, ~shrunk', NEW j \in 1..(Len(catalog) - 1)
        PROVE  j > (page - 1) * PerPage
    <3>1. page = 1
      <4>1. ~(page > 1)
        BY <1>1, <2>1, Zenon
      <4> QED BY <4>1 DEF ListInv, ListTypeOK
    <3>2. Skip(1) = 0
      BY Products
    <3> QED BY <3>1, <3>2 DEF Skip
  <2> QED BY <1>1, <1>4, <2>1, MovingRoom DEF Caught, Elements
<1> QED BY <1>6, <1>7, <1>8 DEF ListInv

-----------------------------------------------------------------------------
(* The tasks.                                                              *)

LEMMA TasksAreWorkers ==
  /\ Tasks = Workers \cup {OrgTask} /\ OrgTask \notin Workers /\ Workers = 1..Room
  /\ OrgTask \in Tasks /\ Room \in Nat /\ Workers \subseteq Tasks
BY TasksAssumption, WorkersAssumption, RoomType DEF OrgTask, Room

\* Whoever is addressed has a place among the workers.
LEMMA AddressedAreWorkers ==
  ASSUME ListInv
  PROVE  /\ Addressed \subseteq DOMAIN names /\ DOMAIN names \subseteq Workers
         /\ \A i \in DOMAIN names : names[i] \in Targets /\ names[i] # OrgScope
<1>1. /\ DOMAIN names = 1..Len(names) /\ Len(names) \in Nat /\ Len(names) <= Room
      /\ \A i \in 1..Len(names) : names[i] \in Repos
  BY CatalogBasics, TasksAssumption DEF ListInv, Paged, Room
<1> QED BY <1>1, TasksAreWorkers, ScopeAssumption DEF Addressed, Targets

\* Nothing happens to the tasks or to GitHub; at most a call of the listing is lost.
Quiet == /\ UNCHANGED <<env, live, pc, snap, ids, keyring, todo, body, failed, touched, changes>>
         /\ faults' \in 0..MaxFaults /\ faults' \in {faults, faults + 1}

\* A task of this run takes a step.
Working(w) ==
  /\ Advance(w)
  /\ \/ main = "orgScope" /\ w = OrgTask
     \/ w \in Workers /\ place[w] = "working"
  /\ UNCHANGED <<poolVars, listVars, orgVars>>

LEMMA TaskSteps ==
  ASSUME TypeOK, [OrgNext]_allVars
  PROVE  Quiet \/ (\E w \in Tasks : Working(w)) \/ OthersWrite \/ TargetRepos
<1>1. ASSUME UNCHANGED vars PROVE Quiet
  BY <1>1 DEF Quiet, vars, env, TypeOK
<1>2. ASSUME ResolveOwner \/ ListRepos PROVE Quiet
  BY <1>2, ReplyType DEF Quiet, ResolveOwner, ListRepos, Reply, env
<1>3. ASSUME WorkOnOrgScope PROVE Working(OrgTask)
  BY <1>3 DEF Working, WorkOnOrgScope
<1>4. ASSUME NEW w \in Workers, WorkOnRepo(w) PROVE Working(w)
  BY <1>4 DEF Working, WorkOnRepo
<1>5. ASSUME OrgScopeEnds \/ Summarise \/ OthersMigrate PROVE UNCHANGED vars
  BY <1>5 DEF OrgScopeEnds, Summarise, OthersMigrate
<1>6. ASSUME NEW w \in Workers, RepoReturns(w) \/ PoolStep(w) PROVE UNCHANGED vars
  BY <1>6 DEF RepoReturns, PoolStep
<1> QED BY <1>1, <1>2, <1>3, <1>4, <1>5, <1>6, TasksAreWorkers DEF OrgNext, MainStep, allVars

\* A task of which nothing changes keeps what holds of it.
LEMMA TaskKept ==
  ASSUME NEW w \in Tasks, cfg' = cfg, live' = live, UNCHANGED TaskState(w)
  PROVE  /\ Ready(w) => Ready(w)'
         /\ Progress(w) => Progress(w)'
         /\ Tallied(w) => Tallied(w)'
         /\ Fresh(w) => Fresh(w)'
         /\ Unseen(w) => Unseen(w)'
         /\ \A k \in Keys \ touched[w] : Claims(w, k) => Claims(w, k)'
         /\ TargetOf(w)' = TargetOf(w) /\ Cmd(w)' = Cmd(w) /\ Rows(w)' = Rows(w)
<1> USE DEF TaskState
<1>1. TargetOf(w)' = TargetOf(w) /\ Cmd(w)' = Cmd(w) /\ Rows(w)' = Rows(w) /\ NoPlan(w)' = NoPlan(w)
  BY SameJob, SameRows DEF NoPlan, TargetOf
<1>2. KindsListed(w)' = KindsListed(w)
  BY <1>1 DEF KindsListed
<1>3. Ready(w) => Ready(w)'
  BY StaysReady
<1>4. Progress(w) => Progress(w)'
  BY ProgressKept
<1>5. Tallied(w) => Tallied(w)'
  BY DEF Tallied, FailedLines
<1>6. Fresh(w) => Fresh(w)'
  BY <1>1, <1>2 DEF Fresh
<1>7. Unseen(w) => Unseen(w)'
  BY <1>1, <1>2 DEF Unseen
<1>8. \A k \in Keys \ touched[w] : Claims(w, k) => Claims(w, k)'
  BY <1>1 DEF Claims, IsSet, IsGone, WantedCell
<1> QED BY <1>1, <1>3, <1>4, <1>5, <1>6, <1>7, <1>8

\* What holds of a task that has done nothing, whatever its job.
LEMMA AllWellAtFirst ==
  ASSUME NEW w \in Tasks, Untouched(w)'
  PROVE  /\ Ready(w)' /\ Progress(w)' /\ Tallied(w)' /\ Fresh(w)' /\ Unseen(w)' /\ Current(w)'
         /\ \A k \in Keys : Claims(w, k)'
<1> USE DEF Untouched
<1>1. Ready(w)'
  BY DEF Ready, NoIds, Listing, Ahead, Setting, Kinds
<1>2. FailedLines(w)' = {} /\ Cardinality({}) = 0
  BY FS_EmptySet DEF FailedLines, NoLines
<1>3. Progress(w)' /\ Tallied(w)'
  BY <1>2 DEF Progress, Tallied, Setting, Listing, Ahead, Kinds, NoLines
<1>4. KindsListed(w)' = {}
  BY DEF KindsListed, Ahead
<1>5. Fresh(w)' /\ Unseen(w)' /\ Current(w)'
  BY <1>4 DEF Fresh, Unseen, Current, NoSeen
<1>6. \A k \in Keys : Claims(w, k)'
  BY DEF Claims, NoLines
<1> QED BY <1>1, <1>3, <1>5, <1>6

\* The lines a step writes: none, a preview, or the one of the entry it settles.
LEMMA AdvanceLines ==
  ASSUME IInv, NEW w \in Tasks, Advance(w)
  PROVE  \/ UNCHANGED <<body, failed>>
         \/ Preview(w)
         \/ /\ pc[w] \in Setting \cup {"delete"}
            /\ \E k \in todo[w], how \in Outcomes, line \in {"ok", "deleted"} :
                 Settle(w, k, how, line)
<1>1. CASE Begin(w) \/ List(w) \/ Report(w) \/ Prepare(w) \/ LookUpId(w) \/ FetchActionsKey(w)
  BY <1>1 DEF Begin, List, Report, Prepare, LookUpId, FetchActionsKey
<1>2. CASE FetchDependabotKey(w) \/ FinishApply(w) \/ FinishDelete(w)
  BY <1>2 DEF FetchDependabotKey, FinishApply, FinishDelete
<1>3. CASE UpdateVariable(w)
  BY <1>3 DEF UpdateVariable, Setting, Outcomes
<1>4. CASE CreateVariable(w)
  BY <1>4 DEF CreateVariable, Setting, Outcomes
<1>5. CASE PutSecret(w)
  BY <1>5 DEF PutSecret, Setting, Outcomes
<1>6. CASE DeleteEntry(w)
  BY <1>6 DEF DeleteEntry, Outcomes
<1> QED BY <1>1, <1>2, <1>3, <1>4, <1>5, <1>6 DEF Advance

\* Each failure is counted, and counted once.
LEMMA TalliedAdvance ==
  ASSUME IInv, NEW w \in Tasks, Advance(w), Progress(w), Tallied(w)
  PROVE  Tallied(w)'
<1>1. CASE UNCHANGED <<body, failed>>
  BY <1>1 DEF Tallied, FailedLines
<1>2. CASE Preview(w)
  <2>1. failed' = failed /\ failed[w] = 0
    BY <1>2 DEF Preview, Progress, Early, Listing
  <2>2. FailedLines(w)' = {}
    BY <1>2 DEF Preview, FailedLines, IInv, TypeOK
  <2> QED BY <2>1, <2>2, FS_EmptySet DEF Tallied
<1>3. CASE /\ pc[w] \in Setting \cup {"delete"}
           /\ \E k \in todo[w], how \in Outcomes, line \in {"ok", "deleted"} :
                Settle(w, k, how, line)
  <2>1. PICK k \in todo[w], how \in Outcomes, line \in {"ok", "deleted"} :
          Settle(w, k, how, line)
    BY <1>3
  <2>2. k \in Keys /\ failed[w] \in Nat /\ failed \in [Tasks -> Nat] /\ body \in [Tasks -> [Keys -> Lines]]
    BY DEF IInv, TypeOK
  <2>3. k \notin FailedLines(w)
    BY <1>3 DEF Progress, Attempted, FailedLines
  <2>4. body'[w] = [body[w] EXCEPT ![k] = IF how = "ok" THEN line ELSE "FAILED"]
    BY <2>1, <2>2 DEF Settle
  <2>5. failed'[w] = IF how = "ok" THEN failed[w] ELSE failed[w] + 1
    BY <2>1, <2>2 DEF Settle
  <2>6. FailedLines(w)' = IF how = "ok" THEN FailedLines(w) ELSE FailedLines(w) \cup {k}
    BY <2>2, <2>3, <2>4 DEF FailedLines
  <2>7. IsFiniteSet(FailedLines(w))
    BY FailedAssumption, FS_Subset DEF FailedLines
  <2>8. Cardinality(FailedLines(w) \cup {k}) = Cardinality(FailedLines(w)) + 1
    BY <2>3, <2>7, FS_AddElement
  <2> QED BY <2>5, <2>6, <2>8 DEF Tallied
<1> QED BY <1>1, <1>2, <1>3, AdvanceLines

LEMMA LinesAreClaims ==
  LinesTellTheTruth <=> \A w \in Tasks : \A k \in Keys \ touched[w] : Claims(w, k)
BY DEF LinesTellTheTruth, Claims

LEMMA FiniteTasks == \A S \in SUBSET Tasks : IsFiniteSet(S) /\ Cardinality(S) \in Nat
<1>1. IsFiniteSet(Tasks)
  BY WorkersAssumption, TasksAssumption, FS_AddElement
<1> QED BY <1>1, FS_Subset, FS_CardinalityType

\* Nobody joins the luckless for free.
LEMMA PaidKept ==
  ASSUME TypeOK, TypeOK', Paid, Luckless' \subseteq Luckless, faults' >= faults
  PROVE  Paid'
<1> DEFINE before == Luckless
           after  == Luckless'
<1>1. before \in SUBSET Tasks
  BY DEF Luckless
<1>2. after \subseteq before
  OBVIOUS
<1> HIDE DEF before, after
<1>3. IsFiniteSet(before) /\ Cardinality(before) \in Nat
  BY <1>1, FiniteTasks
<1>4. Cardinality(after) <= Cardinality(before) /\ Cardinality(after) \in Nat
  <2>1. after \in SUBSET Tasks
    BY <1>1, <1>2
  <2> QED BY <1>2, <1>3, <2>1, FiniteTasks, FS_Subset
<1>5. Cardinality(before) <= faults /\ faults \in Nat /\ faults' \in Nat
  BY DEF before, Paid, TypeOK
<1>6. Cardinality(after) <= faults'
  BY <1>3, <1>4, <1>5
<1> QED BY <1>6 DEF Paid, after

LEMMA SameLuck ==
  ASSUME UNCHANGED <<cfg, job, pc>>
  PROVE  Luckless' = Luckless
BY DEF Luckless, NoPlan, Actionable, TargetOf

\* A task of which everything resolves fails by a lost call only, and loses it
\* itself.
LEMMA ErrorsAreLostCalls ==
  ASSUME IInv, NEW w \in Tasks, Advance(w), pc'[w] = "error", ~NoPlan(w),
         Actionable(TargetOf(w))
  PROVE  faults' = faults + 1
<1> USE DEF IInv, TypeOK
<1>1. Resolvable(w) /\ \A r \in SelectedNames(w) : RepoId[r] # None
  BY ActionableIsResolvable
<1>2. CASE Begin(w)
  BY <1>1, <1>2, BeginEffect
<1>3. CASE List(w)
  BY <1>3 DEF List, Reply, Goto, NextListing, Kinds
<1>4. CASE LookUpId(w)
  BY <1>1, <1>4 DEF LookUpId, Reply, Goto
<1>5. CASE FetchActionsKey(w)
  BY <1>5 DEF FetchActionsKey, FetchKey, Reply, Goto
<1>6. CASE FetchDependabotKey(w)
  BY <1>6 DEF FetchDependabotKey, FetchKey, Reply, Goto
<1>7. CASE Report(w) \/ Preview(w) \/ Prepare(w) \/ FinishApply(w) \/ FinishDelete(w)
  BY <1>7 DEF Report, Preview, Prepare, FinishApply, FinishDelete, Goto
<1>8. CASE UpdateVariable(w) \/ CreateVariable(w) \/ PutSecret(w) \/ DeleteEntry(w)
  BY <1>8 DEF UpdateVariable, CreateVariable, PutSecret, DeleteEntry, Goto
<1> QED BY <1>2, <1>3, <1>4, <1>5, <1>6, <1>7, <1>8 DEF Advance

LEMMA FaultsGrow ==
  ASSUME IInv, NEW w \in Tasks, Advance(w)
  PROVE  faults' \in {faults, faults + 1}
<1>1. CASE Begin(w) \/ Report(w) \/ Preview(w) \/ Prepare(w) \/ FinishApply(w) \/ FinishDelete(w)
  BY <1>1 DEF Begin, Report, Preview, Prepare, FinishApply, FinishDelete
<1>2. CASE List(w) \/ LookUpId(w) \/ FetchActionsKey(w) \/ FetchDependabotKey(w)
  BY <1>2 DEF List, LookUpId, FetchActionsKey, FetchDependabotKey, FetchKey, Reply
<1>3. CASE UpdateVariable(w) \/ CreateVariable(w) \/ PutSecret(w) \/ DeleteEntry(w)
  BY <1>3 DEF UpdateVariable, CreateVariable, PutSecret, DeleteEntry, Reply
<1> QED BY <1>1, <1>2, <1>3 DEF Advance

LEMMA WorkingPays ==
  ASSUME IInv, TypeOK', Paid, NEW w \in Tasks, Advance(w)
  PROVE  Paid'
<1>1. /\ cfg' = cfg /\ job' = job /\ faults' \in {faults, faults + 1} /\ faults \in Nat
      /\ \A v \in Tasks \ {w} : pc'[v] = pc[v]
  BY AdvanceFrame, FaultsGrow DEF env, TaskState, IInv, TypeOK
<1>2. ASSUME NEW v \in Tasks
      PROVE  NoPlan(v)' = NoPlan(v) /\ Actionable(TargetOf(v))' = Actionable(TargetOf(v))
  BY <1>1 DEF NoPlan, Actionable, TargetOf
<1>3. CASE pc'[w] = "error" /\ ~NoPlan(w) /\ Actionable(TargetOf(w))
  <2> DEFINE before == Luckless
             after  == Luckless'
  <2>1. after \subseteq before \cup {w} /\ before \in SUBSET Tasks
    BY <1>1, <1>2 DEF Luckless
  <2>2. Cardinality(before) <= faults
    BY DEF Paid
  <2>3. faults' = faults + 1
    BY <1>3, ErrorsAreLostCalls
  <2> HIDE DEF before, after
  <2>4. IsFiniteSet(before) /\ Cardinality(before) \in Nat /\ before \cup {w} \in SUBSET Tasks
    BY <2>1, FiniteTasks
  <2>5. /\ IsFiniteSet(before \cup {w}) /\ Cardinality(before \cup {w}) \in Nat
        /\ Cardinality(before \cup {w}) <= Cardinality(before) + 1
    BY <2>4, FiniteTasks, FS_AddElement
  <2>6. Cardinality(after) <= Cardinality(before \cup {w}) /\ Cardinality(after) \in Nat
    <3>1. after \in SUBSET Tasks
      BY <2>1, <2>4
    <3> QED BY <2>1, <2>5, <3>1, FiniteTasks, FS_Subset
  <2>7. Cardinality(after) <= faults'
    BY <1>1, <2>2, <2>3, <2>4, <2>5, <2>6
  <2> QED BY <2>7 DEF Paid, after
<1>4. CASE ~(pc'[w] = "error" /\ ~NoPlan(w) /\ Actionable(TargetOf(w)))
  <2>1. Luckless' \subseteq Luckless
    BY <1>1, <1>2, <1>4 DEF Luckless
  <2>2. faults' >= faults
    BY <1>1
  <2> QED BY <2>1, <2>2, PaidKept DEF IInv
<1> QED BY <1>3, <1>4

LEMMA QuietTasks ==
  ASSUME ScopePart, Quiet
  PROVE  ScopePart'
<1> USE DEF ScopePart
<1>1. cfg' = cfg /\ live' = live /\ \A w \in Tasks : UNCHANGED TaskState(w)
  BY DEF Quiet, env, TaskState
<1>2. TypeOK'
  BY DEF IInv, TypeOK, Quiet, env
<1>3. \A w \in Tasks : Ready(w)' /\ Progress(w)' /\ Tallied(w)'
  BY <1>1, TaskKept DEF IInv
<1>4. \A w \in Tasks : \A k \in Keys \ touched'[w] : Claims(w, k)'
  <2> SUFFICES ASSUME NEW w \in Tasks, NEW k \in Keys \ touched'[w] PROVE Claims(w, k)'
    OBVIOUS
  <2>1. k \in Keys \ touched[w] /\ Claims(w, k)
    BY LinesAreClaims DEF Quiet
  <2> QED BY <1>1, <2>1, TaskKept
<1>5. LinesTellTheTruth'
  BY <1>4 DEF LinesTellTheTruth, Claims
<1>6. Paid'
  <2>1. UNCHANGED <<cfg, job, pc>> /\ faults \in Nat /\ faults' \in {faults, faults + 1}
    BY DEF Quiet, env, IInv, TypeOK
  <2>2. faults' >= faults
    BY <2>1
  <2> QED BY <1>2, <2>1, <2>2, SameLuck, PaidKept DEF IInv
<1> QED BY <1>2, <1>3, <1>5, <1>6 DEF IInv

LEMMA WorkingTasks ==
  ASSUME ScopePart, NEW w \in Tasks, Working(w)
  PROVE  ScopePart'
<1> USE DEF ScopePart
<1>1. [Next]_vars
  BY DEF Working, Next
<1>2. IInv' /\ LinesTellTheTruth' /\ \A v \in Tasks : Progress(v)'
  BY <1>1, NextIsSafe, LinesStayTrue, ProgressIsInductive
<1>3. ASSUME NEW v \in Tasks PROVE Tallied(v)'
  <2>1. CASE v = w
    BY <2>1, TalliedAdvance DEF Working
  <2>2. CASE v # w
    <3>1. UNCHANGED TaskState(v)
      BY <2>2, AdvanceFrame DEF Working
    <3> QED BY <3>1 DEF TaskState, Tallied, FailedLines
  <2> QED BY <2>1, <2>2
<1>4. Paid'
  BY <1>2, WorkingPays DEF Working, IInv
<1> QED BY <1>2, <1>3, <1>4

LEMMA OthersTasks ==
  ASSUME ScopePart, OthersWrite
  PROVE  ScopePart'
<1> USE DEF ScopePart
<1>1. [Next]_vars /\ UNCHANGED <<body, failed>>
  BY DEF OthersWrite, Next, ForeignChange
<1>2. IInv' /\ LinesTellTheTruth' /\ \A v \in Tasks : Progress(v)'
  BY <1>1, NextIsSafe, LinesStayTrue, ProgressIsInductive
<1>3. \A v \in Tasks : Tallied(v)'
  BY <1>1 DEF Tallied, FailedLines
<1>4. Paid'
  <2>1. UNCHANGED <<cfg, job, pc, faults>> /\ faults \in Nat
    BY DEF OthersWrite, ForeignChange, env, IInv, TypeOK
  <2>2. faults' >= faults
    BY <2>1
  <2> QED BY <1>2, <2>1, <2>2, SameLuck, PaidKept DEF IInv
<1> QED BY <1>2, <1>3, <1>4

\* What is left of the job of a worker before it gets its repository.
LEMMA HiringEffect ==
  ASSUME TypeOK, ListInv, PoolInv, Staffed, TargetRepos
  PROVE  /\ TypeOK' /\ UNCHANGED <<cfg, live, names, lister, changes>> /\ lister = "listed"
         /\ UNCHANGED TaskState(OrgTask)
         /\ \A w \in Workers : Untouched(w)' /\ touched'[w] = {} /\ job'[w].cmd = job[w].cmd
         /\ \A w \in Workers : w \in Addressed => TargetOf(w)' = names[w]
         /\ \A w \in Workers : place'[w] = IF w \in Addressed THEN "queued" ELSE "none"
         /\ boss = "idle" /\ boss' = "submitting" /\ Addressed' = Addressed
<1>1. boss = "idle" /\ \A w \in Workers : place[w] = "none" /\ Untouched(w)
  BY DEF TargetRepos, Open, PoolInv, Resting, Staffed
<1>2. /\ UNCHANGED <<cfg, live, names, lister, pc, snap, ids, keyring, todo, body, failed,
                     forecast, faults, changes>>
      /\ lister = "listed"
  BY DEF TargetRepos, listVars
<1>3. Addressed' = Addressed
  BY <1>2 DEF Addressed, IsAddressed
<1>4. ASSUME NEW w \in Tasks, w \in Addressed
      PROVE  names[w] \in Targets
  BY <1>4, AddressedAreWorkers
<1>5. job' \in [Tasks -> Job] /\ \A w \in Tasks : job'[w].cmd = job[w].cmd
  BY <1>4 DEF TargetRepos, TypeOK, Job
<1>6. job'[OrgTask] = job[OrgTask] /\ touched'[OrgTask] = touched[OrgTask]
  BY AddressedAreWorkers, TasksAreWorkers DEF TargetRepos
<1>7. touched' \in [Tasks -> SUBSET Keys] /\ \A w \in Workers : touched'[w] = {}
  BY TasksAreWorkers DEF TargetRepos, TypeOK
<1>8. TypeOK'
  BY <1>2, <1>5, <1>7 DEF TypeOK
<1>9. \A w \in Workers : w \in Addressed => TargetOf(w)' = names[w]
  BY TasksAreWorkers DEF TargetRepos, TargetOf, TypeOK, Job
<1>10. \A w \in Workers : Untouched(w)'
  BY <1>1, <1>2 DEF Untouched
<1>11. /\ boss' = "submitting"
       /\ \A w \in Workers : place'[w] = IF w \in Addressed THEN "queued" ELSE "none"
  BY DEF TargetRepos, Open
<1> QED BY <1>1, <1>2, <1>3, <1>5, <1>6, <1>7, <1>8, <1>9, <1>10, <1>11, TasksAreWorkers DEF TaskState

LEMMA HiringTasks ==
  ASSUME ScopePart, ListInv, PoolInv, Staffed, TargetRepos
  PROVE  ScopePart'
<1> USE DEF ScopePart
<1>1. /\ TypeOK' /\ cfg' = cfg /\ live' = live /\ UNCHANGED TaskState(OrgTask)
      /\ \A w \in Workers : Untouched(w)'
  BY HiringEffect DEF IInv
<1>2. \A w \in Workers : /\ Ready(w)' /\ Progress(w)' /\ Tallied(w)'
                         /\ \A k \in Keys : Claims(w, k)'
  BY <1>1, TasksAreWorkers, AllWellAtFirst
<1>3. Ready(OrgTask)' /\ Progress(OrgTask)' /\ Tallied(OrgTask)'
  BY <1>1, TasksAreWorkers, TaskKept DEF IInv
<1>4. \A k \in Keys \ touched[OrgTask] : Claims(OrgTask, k)'
  BY <1>1, TasksAreWorkers, TaskKept, LinesAreClaims
<1>5. touched'[OrgTask] = touched[OrgTask]
  BY <1>1 DEF TaskState
<1>6. \A w \in Tasks : \A k \in Keys \ touched'[w] : Claims(w, k)'
  BY <1>2, <1>4, <1>5, TasksAreWorkers
<1>7. LinesTellTheTruth'
  BY <1>6 DEF LinesTellTheTruth, Claims
<1>8. Paid'
  <2>1. faults' = faults /\ faults \in Nat
    BY DEF TargetRepos, IInv, TypeOK
  <2>2. pc'[OrgTask] = pc[OrgTask] /\ job'[OrgTask] = job[OrgTask]
    BY <1>1 DEF TaskState
  <2>3. \A w \in Tasks : pc'[w] = "error" => w = OrgTask
    BY <1>1, TasksAreWorkers DEF Untouched
  <2>4. NoPlan(OrgTask)' = NoPlan(OrgTask)
        /\ Actionable(TargetOf(OrgTask))' = Actionable(TargetOf(OrgTask))
    BY <1>1, <2>2 DEF NoPlan, Actionable, TargetOf
  <2>5. Luckless' \subseteq Luckless
    BY <2>2, <2>3, <2>4 DEF Luckless
  <2>6. faults' >= faults
    BY <2>1
  <2> QED BY <1>1, <2>5, <2>6, PaidKept DEF IInv
<1> QED BY <1>1, <1>2, <1>3, <1>7, <1>8, TasksAreWorkers DEF IInv

LEMMA ScopePartKept ==
  ASSUME ScopePart, ListInv, PoolInv, Staffed, [OrgNext]_allVars
  PROVE  ScopePart'
BY TaskSteps, QuietTasks, WorkingTasks, OthersTasks, HiringTasks DEF ScopePart, IInv

-----------------------------------------------------------------------------
(* The listing and the pool, as parts of the run.                          *)

LEMMA QuietListing ==
  ASSUME ListInv, UNCHANGED <<listVars, ownerType, self>>
  PROVE  ListInv'
<1> USE DEF listVars
<1>1. ListTypeOK'
  BY DEF ListInv, ListTypeOK, Distinct, Elements
<1>2. Paged' /\ Caught'
  BY DEF ListInv, Paged, Caught, Theirs, Elements
<1> QED BY <1>1, <1>2 DEF ListInv

\* What a step does to the listing.
LEMMA ListingSteps ==
  ASSUME [OrgNext]_allVars
  PROVE  /\ UNCHANGED <<ownerType, self>>
         /\ \/ UNCHANGED listVars
            \/ StartListing /\ main' = "listing" /\ (ResolveOwner \/ OrgScopeEnds)
            \/ ListRepos
            \/ OthersMigrate
<1>1. CASE ResolveOwner
  BY <1>1 DEF ResolveOwner, Proceed, Exit
<1>2. CASE OrgScopeEnds
  BY <1>2 DEF OrgScopeEnds, Proceed
<1>3. CASE WorkOnOrgScope \/ TargetRepos \/ Summarise
  BY <1>3 DEF WorkOnOrgScope, TargetRepos, Summarise, orgVars
<1>4. CASE ListRepos
  BY <1>4 DEF ListRepos
<1>5. ASSUME NEW w \in Workers, WorkOnRepo(w) \/ RepoReturns(w) \/ PoolStep(w)
      PROVE  UNCHANGED <<listVars, ownerType, self>>
  BY <1>5 DEF WorkOnRepo, RepoReturns, PoolStep, orgVars
<1>6. CASE OthersWrite \/ OthersMigrate
  BY <1>6 DEF OthersWrite, OthersMigrate, orgVars
<1>7. CASE UNCHANGED allVars
  BY <1>7 DEF allVars, orgVars
<1> QED BY <1>1, <1>2, <1>3, <1>4, <1>5, <1>6, <1>7 DEF OrgNext, MainStep

LEMMA ListPartKept ==
  ASSUME ListInv, [OrgNext]_allVars
  PROVE  ListInv'
<1>1. UNCHANGED <<ownerType, self>>
  BY ListingSteps
<1>2. CASE UNCHANGED listVars
  BY <1>1, <1>2, QuietListing
<1>3. CASE StartListing
  BY <1>1, <1>3, ListingStarts
<1>4. CASE ListRepos
  BY <1>1, <1>4, PageFetched DEF ListRepos
<1>5. CASE OthersMigrate
  BY <1>1, <1>5, ArrivalKeepsListing, DepartureKeepsListing DEF OthersMigrate, Migrate
<1> QED BY <1>2, <1>3, <1>4, <1>5, ListingSteps

\* A task's result is one the pool can take.
LEMMA ResultType ==
  ASSUME ScopePart, NEW w \in Tasks
  PROVE  ResultOf(w) \in Outcome
<1>1. IsFiniteSet(Keys) /\ Cardinality(Keys) <= MaxFailed /\ FailedLines(w) \subseteq Keys
  BY FailedAssumption DEF FailedLines
<1>2. Cardinality(FailedLines(w)) <= Cardinality(Keys) /\ Cardinality(Keys) \in Nat
      /\ Cardinality(FailedLines(w)) \in Nat
  BY <1>1, FS_Subset, FS_CardinalityType
<1>3. failed[w] \in 0..MaxFailed
  BY <1>1, <1>2, ConcurrencyAssumption DEF ScopePart, Tallied
<1> QED BY <1>3 DEF ResultOf, Outcome, DriftOf

LEMMA ReturnsResult ==
  ASSUME NEW w \in Workers, RepoReturns(w)
  PROVE  Over(w) /\ Return(w, ResultOf(w)) /\ UNCHANGED <<vars, listVars, orgVars>>
BY DEF RepoReturns, Over, ResultOf

LEMMA PoolSteps ==
  ASSUME ScopePart, ListInv, [OrgNext]_allVars
  PROVE  [PoolNext]_poolVars
<1>1. CASE ResolveOwner \/ OrgScopeEnds \/ WorkOnOrgScope \/ ListRepos
  BY <1>1 DEF ResolveOwner, OrgScopeEnds, WorkOnOrgScope, ListRepos
<1>2. CASE TargetRepos
  <2>1. Addressed \in SUBSET Workers
    BY AddressedAreWorkers
  <2> QED BY <1>2, <2>1 DEF TargetRepos, PoolNext
<1>3. CASE Summarise
  BY <1>3 DEF Summarise, PoolNext
<1>4. ASSUME NEW w \in Workers, WorkOnRepo(w) PROVE UNCHANGED poolVars
  BY <1>4 DEF WorkOnRepo
<1>5. ASSUME NEW w \in Workers, RepoReturns(w) PROVE PoolNext
  <2>1. Return(w, ResultOf(w)) /\ ResultOf(w) \in Outcome
    BY <1>5, ReturnsResult, ResultType, TasksAreWorkers
  <2> QED BY <2>1 DEF PoolNext
<1>6. ASSUME NEW w \in Workers, PoolStep(w) PROVE PoolNext
  BY <1>6 DEF PoolStep, PoolNext
<1>7. CASE OthersWrite \/ OthersMigrate \/ UNCHANGED allVars
  BY <1>7 DEF OthersWrite, OthersMigrate, allVars
<1> QED BY <1>1, <1>2, <1>3, <1>4, <1>5, <1>6, <1>7 DEF OrgNext, MainStep

LEMMA PoolPartKept ==
  ASSUME ScopePart, ListInv, PoolPart, [OrgNext]_allVars
  PROVE  PoolPart'
BY PoolSteps, Inductive, CountStep, AccountedStep DEF PoolPart

-----------------------------------------------------------------------------
(* The run.                                                                *)

\* What the org scope and the configuration alone determine.
LEMMA OrgSame ==
  ASSUME cfg' = cfg, UNCHANGED <<ownerType, names>>,
         UNCHANGED <<job[OrgTask], pc[OrgTask], snap[OrgTask], failed[OrgTask]>>
  PROVE  /\ HasOrgScope' = HasOrgScope /\ Command' = Command /\ Addressed' = Addressed
         /\ Skipped' = Skipped /\ TargetOf(OrgTask)' = TargetOf(OrgTask)
         /\ Over(OrgTask)' = Over(OrgTask)
         /\ DriftOf(OrgTask)' = DriftOf(OrgTask)
         /\ \A n : OrgPart(n)' = OrgPart(n)
         /\ \A sum : OrgExitCode(sum)' = OrgExitCode(sum)
<1>1. HasOrgScope' = HasOrgScope /\ Command' = Command /\ TargetOf(OrgTask)' = TargetOf(OrgTask)
  BY DEF HasOrgScope, Command, TargetOf
<1>2. Addressed' = Addressed
  BY DEF Addressed, IsAddressed
<1>3. Rows(OrgTask)' = Rows(OrgTask)
  BY SameRows, TasksAreWorkers
<1>4. DriftOf(OrgTask)' = DriftOf(OrgTask)
  BY <1>1, <1>3 DEF DriftOf
<1> QED BY <1>1, <1>2, <1>4 DEF OrgPart, OrgExitCode, Skipped, Over

\* A worker whose task is left alone.
LEMMA WorkerSame ==
  ASSUME NEW w \in Workers, cfg' = cfg, Command' = Command,
         UNCHANGED <<job[w], pc[w], snap[w], ids[w], keyring[w], todo[w], body[w], failed[w]>>
  PROVE  /\ Untouched(w)' = Untouched(w) /\ Over(w)' = Over(w) /\ ResultOf(w)' = ResultOf(w)
         /\ TargetOf(w)' = TargetOf(w)
<1>1. Rows(w)' = Rows(w)
  BY SameRows, TasksAreWorkers
<1> QED BY <1>1 DEF Untouched, Over, ResultOf, TargetOf, DriftOf

\* Everything the run part looks at, but the main goroutine and the pool.
TasksStill == /\ cfg' = cfg /\ UNCHANGED <<ownerType, self>>
              /\ \A w \in Tasks : UNCHANGED <<job[w], pc[w], snap[w], ids[w], keyring[w], todo[w],
                                              body[w], failed[w]>>

LEMMA QuietIsStill ==
  ASSUME TypeOK, [OrgNext]_allVars, Quiet \/ OthersWrite
  PROVE  TasksStill
BY ListingSteps DEF TasksStill, Quiet, OthersWrite, ForeignChange, env

LEMMA StaffStill ==
  ASSUME TasksStill, Staffed, UNCHANGED <<boss, place, outcome, names>>
  PROVE  Staffed'
<1>1. /\ UNCHANGED Command /\ Addressed' = Addressed
  BY OrgSame, TasksAreWorkers DEF TasksStill
<1>2. \A w \in Workers : /\ Untouched(w)' = Untouched(w) /\ Over(w)' = Over(w)
                         /\ ResultOf(w)' = ResultOf(w) /\ TargetOf(w)' = TargetOf(w)
  BY <1>1, WorkerSame, TasksAreWorkers DEF TasksStill
<1> QED BY <1>1, <1>2 DEF Staffed

LEMMA RunStill ==
  ASSUME TasksStill, RunPart, UNCHANGED <<poolVars, orgVars, names, lister>>
  PROVE  RunPart'
<1> USE DEF RunPart
<1>1. /\ HasOrgScope' = HasOrgScope /\ Command' = Command /\ Skipped' = Skipped
      /\ TargetOf(OrgTask)' = TargetOf(OrgTask) /\ Over(OrgTask)' = Over(OrgTask)
      /\ \A n : OrgPart(n)' = OrgPart(n)
      /\ \A sum : OrgExitCode(sum)' = OrgExitCode(sum)
  BY OrgSame, TasksAreWorkers DEF TasksStill
<1>2. RunTypes' /\ Stages'
  BY <1>1 DEF RunTypes, Stages, poolVars, orgVars
<1>3. OrgScopeFirst'
  BY <1>1, TasksAreWorkers DEF OrgScopeFirst, TasksStill, Cmd, poolVars, orgVars
<1>4. Staffed'
  BY StaffStill DEF poolVars
<1>5. Summed'
  BY <1>1 DEF Summed, poolVars, orgVars, Merged
<1> QED BY <1>2, <1>3, <1>4, <1>5

SumType == [ok : Nat, failedRepos : Nat, failedEntries : Nat, drift : BOOLEAN, skipped : Nat]

LEMMA SumsEqual ==
  ASSUME NEW s \in SumType, NEW t \in SumType, s.ok = t.ok, s.failedRepos = t.failedRepos,
         s.failedEntries = t.failedEntries, s.drift = t.drift, s.skipped = t.skipped
  PROVE  s = t
BY DEF SumType

LEMMA SkippedType ==
  ASSUME ListInv
  PROVE  Skipped \in Nat /\ IsFiniteSet(Addressed) /\ Cardinality(Addressed) \in Nat
<1>1. DOMAIN names = 1..Len(names) /\ Len(names) \in Nat
  BY CatalogBasics DEF ListInv
<1>2. IsFiniteSet(1..Len(names)) /\ Cardinality(1..Len(names)) = Len(names)
  <2>1. /\ IsFiniteSet(1..Len(names))
        /\ Cardinality(1..Len(names)) = IF 1 > Len(names) THEN 0 ELSE Len(names) - 1 + 1
    <3>1. 1 \in Int /\ Len(names) \in Int
      BY <1>1
    <3> QED BY <3>1, FS_Interval
  <2> QED BY <1>1, <2>1
<1>3. Addressed \in SUBSET (1..Len(names))
  BY <1>1 DEF Addressed
<1>4. /\ IsFiniteSet(Addressed) /\ Cardinality(Addressed) \in Nat
      /\ Cardinality(Addressed) <= Len(names)
  BY <1>2, <1>3, FS_Subset, FS_CardinalityType
<1> QED BY <1>1, <1>4 DEF Skipped

LEMMA OrgPartType ==
  ASSUME TypeOK, NEW n \in Nat
  PROVE  OrgPart(n) \in SumType
<1>1. failed[OrgTask] \in Nat
  BY TasksAreWorkers DEF TypeOK
<1> QED BY <1>1 DEF OrgPart, SumType, DriftOf

\* The owner is known: the org scope is next, if there is one to work on.
LEMMA ResolveOwnerRuns ==
  ASSUME TypeOK, RunPart, ResolveOwner
  PROVE  RunPart'
<1> USE DEF RunPart
<1>1. /\ main = "owner" /\ boss = "idle" /\ exit = None /\ lister = "idle" /\ total = NoTotal
  BY DEF ResolveOwner, Stages, Summed
<1>2. /\ UNCHANGED <<cfg, job, pc, snap, ids, keyring, todo, body, failed, poolVars, ownerType,
                     self, total, names>>
      /\ \/ main' = "orgScope" /\ HasOrgScope /\ exit' = None /\ lister' = "idle"
         \/ main' = "listing" /\ ~HasOrgScope /\ exit' = None
         \/ main' = "exited" /\ exit' = 1
  BY <1>1 DEF ResolveOwner, Proceed, Exit, HasOrgScope, StartListing, listVars
<1>3. TasksStill /\ UNCHANGED <<boss, place, outcome>>
  BY <1>2 DEF TasksStill, poolVars
<1>4. HasOrgScope' = HasOrgScope /\ Command' = Command
  BY <1>2 DEF HasOrgScope, Command
<1>5. RunTypes'
  BY <1>2 DEF RunTypes
<1>6. Stages'
  BY <1>1, <1>2, <1>3, <1>4 DEF Stages
<1>7. OrgScopeFirst'
  BY <1>1, <1>2, <1>3, <1>4 DEF OrgScopeFirst, Cmd, TargetOf, Over
<1>8. Staffed'
  BY <1>2, <1>3, StaffStill
<1>9. Summed'
  BY <1>1, <1>2, <1>3, <1>4 DEF Summed, OrgPart, NoTotal
<1> QED BY <1>5, <1>6, <1>7, <1>8, <1>9

\* The org scope is over; its result is the first part of the totals.
LEMMA OrgScopeEndRuns ==
  ASSUME TypeOK, RunPart, OrgScopeEnds
  PROVE  RunPart'
<1> USE DEF RunPart
<1>1. /\ main = "orgScope" /\ boss = "idle" /\ exit = None /\ total = NoTotal
      /\ HasOrgScope /\ Over(OrgTask)
  BY DEF OrgScopeEnds, Stages, Summed, Over
<1>2. /\ UNCHANGED <<vars, poolVars, ownerType, self, exit, names>>
      /\ main' = "listing" /\ lister' # "idle"
  BY DEF OrgScopeEnds, Proceed, StartListing
<1>3. TasksStill /\ UNCHANGED <<boss, place, outcome>>
  BY <1>2 DEF TasksStill, poolVars, vars
<1>4. /\ HasOrgScope' = HasOrgScope /\ Command' = Command
      /\ TargetOf(OrgTask)' = TargetOf(OrgTask) /\ Over(OrgTask)' = Over(OrgTask)
      /\ OrgPart(0)' = OrgPart(0)
  BY <1>2, <1>3, OrgSame, TasksAreWorkers DEF TasksStill
<1>5. total' = OrgPart(0)
  <2>1. NoTotal \in SumType /\ OrgPart(0) \in SumType /\ failed[OrgTask] \in Nat
    BY OrgPartType, TasksAreWorkers DEF NoTotal, SumType, TypeOK
  <2>4. /\ NoTotal.ok = 0 /\ NoTotal.failedRepos = 0 /\ NoTotal.failedEntries = 0
        /\ NoTotal.drift = FALSE /\ NoTotal.skipped = 0
    BY DEF NoTotal
  <2>2. CASE pc[OrgTask] = "error"
    <3>1. total' = [NoTotal EXCEPT !.failedRepos = @ + 1]
      BY <1>1, <2>2 DEF OrgScopeEnds
    <3>2. /\ total' \in SumType /\ total'.ok = 0 /\ total'.failedRepos = 1
          /\ total'.failedEntries = 0 /\ total'.drift = FALSE /\ total'.skipped = 0
      <4>1. total' = [NoTotal EXCEPT !.failedRepos = 1]
        BY <2>4, <3>1
      <4> QED BY <2>1, <2>4, <4>1 DEF SumType
    <3>3. /\ OrgPart(0).ok = 0 /\ OrgPart(0).failedRepos = 1 /\ OrgPart(0).failedEntries = 0
          /\ OrgPart(0).drift = FALSE /\ OrgPart(0).skipped = 0
      BY <1>1, <2>2 DEF OrgPart
    <3> QED BY <2>1, <3>2, <3>3, SumsEqual
  <2>3. CASE pc[OrgTask] = "done"
    <3>1. total' = [NoTotal EXCEPT !.failedEntries = @ + failed[OrgTask],
                                   !.drift = @ \/ DriftOf(OrgTask)]
      BY <1>1, <2>3 DEF OrgScopeEnds
    <3>2. DriftOf(OrgTask) \in BOOLEAN
      BY DEF DriftOf
    <3>5. total' = [NoTotal EXCEPT !.failedEntries = failed[OrgTask], !.drift = DriftOf(OrgTask)]
      <4>1. /\ NoTotal.failedEntries + failed[OrgTask] = failed[OrgTask]
            /\ (NoTotal.drift \/ DriftOf(OrgTask)) = DriftOf(OrgTask)
        BY <2>1, <2>4, <3>2
      <4> QED BY <3>1, <4>1
    <3>3. /\ total' \in SumType /\ total'.ok = 0 /\ total'.failedRepos = 0
          /\ total'.failedEntries = failed[OrgTask] /\ total'.drift = DriftOf(OrgTask)
          /\ total'.skipped = 0
      BY <2>1, <2>4, <3>2, <3>5 DEF SumType
    <3>4. /\ OrgPart(0).ok = 0 /\ OrgPart(0).failedRepos = 0
          /\ OrgPart(0).failedEntries = failed[OrgTask]
          /\ OrgPart(0).drift = DriftOf(OrgTask) /\ OrgPart(0).skipped = 0
      BY <1>1, <2>3, <3>2 DEF OrgPart
    <3> QED BY <2>1, <3>3, <3>4, SumsEqual
  <2> QED BY <1>1, <2>2, <2>3 DEF Over
<1>6. RunTypes'
  BY <1>2, <1>5, OrgPartType DEF RunTypes, SumType
<1>7. Stages'
  BY <1>1, <1>2, <1>3 DEF Stages
<1>8. OrgScopeFirst'
  BY <1>1, <1>2, <1>3, <1>4, TasksAreWorkers DEF OrgScopeFirst, Cmd, TasksStill
<1>9. Staffed'
  BY <1>2, <1>3, StaffStill
<1>10. Summed'
  BY <1>1, <1>2, <1>3, <1>4, <1>5 DEF Summed
<1> QED BY <1>6, <1>7, <1>8, <1>9, <1>10

\* One call of the listing.
LEMMA ListReposRuns ==
  ASSUME TypeOK, RunPart, PoolPart, ListRepos
  PROVE  RunPart'
<1> USE DEF RunPart
<1>1. /\ main = "listing" /\ boss = "idle" /\ exit = None
  BY DEF ListRepos, Stages
<1>2. /\ UNCHANGED <<cfg, job, pc, snap, ids, keyring, todo, body, failed, poolVars, ownerType, self>>
      /\ \/ UNCHANGED <<main, total, exit>>
         \/ main' = "exited" /\ exit' = 1 /\ total' = NoTotal
  BY DEF ListRepos, Exit
<1>3. TasksStill /\ UNCHANGED <<boss, place, outcome>>
  BY <1>2 DEF TasksStill, poolVars
<1>4. /\ HasOrgScope' = HasOrgScope /\ Command' = Command /\ DriftOf(OrgTask)' = DriftOf(OrgTask)
  <2>1. Rows(OrgTask)' = Rows(OrgTask)
    BY <1>3, SameRows, TasksAreWorkers DEF TasksStill
  <2> QED BY <1>2, <2>1 DEF HasOrgScope, Command, DriftOf
<1>5. OrgPart(0)' = OrgPart(0)
  BY <1>2, <1>4 DEF OrgPart
<1>6. RunTypes'
  <2>1. NoTotal \in SumType
    BY DEF NoTotal, SumType
  <2> QED BY <1>2, <2>1 DEF RunTypes, SumType
<1>10. Stages'
  BY <1>1, <1>2, <1>3 DEF Stages
<1>7. OrgScopeFirst'
  BY <1>1, <1>2, <1>3, <1>4 DEF OrgScopeFirst, Cmd, TargetOf, Over
<1>8. Staffed'
  <2>1. /\ boss' = "idle" /\ \A w \in Workers : place'[w] = "none" /\ Untouched(w)
    BY <1>1, <1>3 DEF PoolPart, PoolInv, Resting, Staffed
  <2>2. \A w \in Workers : Untouched(w)'
    BY <1>2, <2>1 DEF Untouched
  <2> QED BY <2>1, <2>2 DEF Staffed
<1>9. Summed'
  BY <1>1, <1>2, <1>3, <1>5 DEF Summed
<1> QED BY <1>6, <1>7, <1>8, <1>9, <1>10

\* The pool opens for the repositories the configuration addresses.
LEMMA TargetReposRuns ==
  ASSUME TypeOK, RunPart, ListInv, PoolPart, TargetRepos
  PROVE  RunPart'
<1> USE DEF RunPart, PoolPart
<1>1. /\ main = "listing" /\ exit = None /\ main' = "pool"
      /\ UNCHANGED <<ownerType, self, exit, names, pc, snap, failed, cfg>>
      /\ total = OrgPart(0) /\ total' = [total EXCEPT !.skipped = Skipped]
  BY DEF TargetRepos, Stages, Summed, Skipped, listVars
<1>2. /\ UNCHANGED <<lister, names>> /\ lister = "listed" /\ UNCHANGED TaskState(OrgTask)
      /\ \A w \in Workers : Untouched(w)' /\ job'[w].cmd = job[w].cmd
      /\ \A w \in Workers : w \in Addressed => TargetOf(w)' = names[w]
      /\ \A w \in Workers : place'[w] = IF w \in Addressed THEN "queued" ELSE "none"
      /\ boss = "idle" /\ boss' = "submitting" /\ Addressed' = Addressed
  BY HiringEffect
<1>3. /\ HasOrgScope' = HasOrgScope /\ Command' = Command /\ Skipped' = Skipped
      /\ TargetOf(OrgTask)' = TargetOf(OrgTask) /\ Over(OrgTask)' = Over(OrgTask)
      /\ \A n : OrgPart(n)' = OrgPart(n)
  BY <1>1, <1>2, OrgSame DEF TaskState
<1>4. total' = OrgPart(Skipped)
  BY <1>1 DEF OrgPart
<1>5. RunTypes'
  BY <1>1, <1>4, OrgPartType, SkippedType DEF RunTypes, SumType
<1>6. Stages'
  BY <1>1, <1>2 DEF Stages
<1>7. OrgScopeFirst'
  BY <1>1, <1>2, <1>3, TasksAreWorkers DEF OrgScopeFirst, Cmd, Command, TaskState
<1>8. Staffed'
  BY <1>2 DEF Staffed
<1>9. Summed'
  BY <1>1, <1>2, <1>3, <1>4 DEF Summed
<1> QED BY <1>5, <1>6, <1>7, <1>8, <1>9

\* The totals are merged and become the exit code.
LEMMA SummariseRuns ==
  ASSUME TypeOK, RunPart, ListInv, PoolPart, Summarise
  PROVE  RunPart'
<1> USE DEF RunPart, PoolPart
<1>1. /\ main = "pool" /\ main' = "exited" /\ boss = "submitting" /\ boss' = "joined"
      /\ UNCHANGED <<vars, listVars, ownerType, self, place, outcome, mu, reg, res, out>>
      /\ total = OrgPart(Skipped) /\ total' = Merged(total, res)
      /\ exit' = OrgExitCode(total')
  BY DEF Summarise, Join, Exit, Summed
<1>2. TasksStill /\ UNCHANGED <<names, lister>>
  BY <1>1 DEF TasksStill, vars, listVars
<1>3. /\ HasOrgScope' = HasOrgScope /\ Command' = Command /\ Addressed' = Addressed
      /\ Skipped' = Skipped /\ TargetOf(OrgTask)' = TargetOf(OrgTask)
      /\ Over(OrgTask)' = Over(OrgTask)
      /\ \A n : OrgPart(n)' = OrgPart(n)
  BY <1>2, OrgSame, TasksAreWorkers DEF TasksStill
<1>10. exit' = OrgExitCode(total)'
  BY <1>1, <1>3 DEF OrgExitCode
<1>4. total' \in SumType
  <2>1. total \in SumType /\ res \in Totals
    BY <1>1, OrgPartType, SkippedType DEF PoolInv, PoolTypeOK
  <2> QED BY <1>1, <2>1 DEF Merged, SumType, Totals
<1>5. RunTypes'
  BY <1>1, <1>4 DEF RunTypes, SumType, OrgExitCode
<1>6. Stages'
  BY <1>1, <1>2, <1>3 DEF Stages
<1>7. OrgScopeFirst'
  BY <1>1, <1>2, <1>3, TasksAreWorkers DEF OrgScopeFirst, Cmd, TasksStill
<1>8. Staffed'
  BY <1>1, <1>2, <1>3, WorkerSame, TasksAreWorkers DEF Staffed, Stages, TasksStill
<1>9. Summed'
  BY <1>1, <1>3, <1>10 DEF Summed, Merged
<1> QED BY <1>5, <1>6, <1>7, <1>8, <1>9

\* A task works: the others, and what the pool has been told, stay as they are.
LEMMA WorkingRuns ==
  ASSUME ScopePart, RunPart, PoolPart, NEW w \in Tasks, Working(w)
  PROVE  RunPart'
<1> USE DEF RunPart, PoolPart, ScopePart
<1>1. /\ UNCHANGED <<poolVars, listVars, orgVars, cfg, job>>
      /\ \A v \in Tasks \ {w} : UNCHANGED TaskState(v)
  BY AdvanceFrame DEF Working, env
<1>2. Command' = Command /\ HasOrgScope' = HasOrgScope /\ Addressed' = Addressed
  BY <1>1 DEF Command, HasOrgScope, Addressed, IsAddressed, orgVars, listVars
<1>3. ASSUME NEW v \in Workers, v # w
      PROVE  /\ Untouched(v)' = Untouched(v) /\ Over(v)' = Over(v) /\ ResultOf(v)' = ResultOf(v)
             /\ TargetOf(v)' = TargetOf(v)
  BY <1>1, <1>2, <1>3, WorkerSame, TasksAreWorkers DEF TaskState
<1>4. RunTypes' /\ Stages'
  BY <1>1, <1>2 DEF RunTypes, Stages, poolVars, orgVars, listVars
<1>5. CASE w = OrgTask /\ main = "orgScope"
  <2>1. boss = "idle" /\ HasOrgScope
    BY <1>5 DEF Stages
  <2>2. OrgScopeFirst'
    BY <1>1, <1>2, <1>5, <2>1 DEF OrgScopeFirst, Cmd, TargetOf, poolVars, orgVars
  <2>3. Staffed'
    BY <1>1, <1>2, <1>3, <1>5, TasksAreWorkers DEF Staffed, poolVars, listVars
  <2>4. Summed'
    BY <1>1, <1>5, <2>1 DEF Summed, poolVars, orgVars
  <2> QED BY <1>4, <2>2, <2>3, <2>4
<1>6. CASE w \in Workers /\ place[w] = "working"
  <2>1. w # OrgTask
    BY <1>6, TasksAreWorkers
  <2>2. /\ Over(OrgTask)' = Over(OrgTask) /\ TargetOf(OrgTask)' = TargetOf(OrgTask)
        /\ pc'[OrgTask] = pc[OrgTask] /\ Skipped' = Skipped
        /\ \A n : OrgPart(n)' = OrgPart(n)
        /\ \A sum : OrgExitCode(sum)' = OrgExitCode(sum)
    BY <1>1, <2>1, OrgSame, TasksAreWorkers DEF TaskState, orgVars, listVars
  <2>3. OrgScopeFirst'
    BY <1>1, <1>2, <2>2 DEF OrgScopeFirst, Cmd, poolVars, orgVars
  <2>4. Staffed'
    <3>1. place' = place /\ boss' = boss /\ outcome' = outcome /\ names' = names
      BY <1>1 DEF poolVars, listVars
    <3>2. TargetOf(w)' = TargetOf(w)
      BY <1>1 DEF TargetOf
    <3> QED BY <1>2, <1>3, <1>6, <3>1, <3>2 DEF Staffed
  <2>5. Summed'
    BY <1>1, <2>2 DEF Summed, poolVars, orgVars, Merged
  <2> QED BY <1>4, <2>3, <2>4, <2>5
<1> QED BY <1>5, <1>6 DEF Working

\* A task ends, and hands its result to the pool.
LEMMA ReturningRuns ==
  ASSUME ScopePart, RunPart, PoolPart, NEW w \in Workers, RepoReturns(w)
  PROVE  RunPart'
<1> USE DEF RunPart, PoolPart, ScopePart
<1>1. /\ UNCHANGED <<vars, listVars, orgVars, boss, mu, reg, res, out>>
      /\ place[w] = "working" /\ place' = [place EXCEPT ![w] = "returned"]
      /\ outcome' = [outcome EXCEPT ![w] = ResultOf(w)] /\ Over(w)
  BY ReturnsResult DEF Return, Move
<1>2. TasksStill /\ UNCHANGED <<names, lister, ownerType>>
  BY <1>1 DEF TasksStill, vars, listVars, orgVars
<1>3. /\ HasOrgScope' = HasOrgScope /\ Command' = Command /\ Addressed' = Addressed
      /\ Skipped' = Skipped /\ TargetOf(OrgTask)' = TargetOf(OrgTask)
      /\ Over(OrgTask)' = Over(OrgTask)
      /\ \A n : OrgPart(n)' = OrgPart(n)
      /\ \A sum : OrgExitCode(sum)' = OrgExitCode(sum)
  BY <1>2, OrgSame, TasksAreWorkers DEF TasksStill
<1>4. \A v \in Workers : /\ Untouched(v)' = Untouched(v) /\ Over(v)' = Over(v)
                         /\ ResultOf(v)' = ResultOf(v) /\ TargetOf(v)' = TargetOf(v)
  BY <1>2, <1>3, WorkerSame, TasksAreWorkers DEF TasksStill
<1>5. \A v \in Workers : /\ place'[v] = IF v = w THEN "returned" ELSE place[v]
                         /\ outcome'[v] = IF v = w THEN ResultOf(w) ELSE outcome[v]
  BY <1>1 DEF PoolInv, PoolTypeOK
<1>6. RunTypes' /\ Stages'
  BY <1>1, <1>2, <1>3 DEF RunTypes, Stages, orgVars
<1>7. OrgScopeFirst'
  BY <1>1, <1>3, TasksAreWorkers DEF OrgScopeFirst, Cmd, vars, orgVars
<1>8. Staffed'
  BY <1>1, <1>2, <1>3, <1>4, <1>5 DEF Staffed
<1>9. Summed'
  BY <1>1, <1>3 DEF Summed, orgVars, Merged
<1> QED BY <1>6, <1>7, <1>8, <1>9

\* A worker starts, prints or counts.
LEMMA PoolRuns ==
  ASSUME ScopePart, RunPart, PoolPart, NEW w \in Workers, PoolStep(w)
  PROVE  RunPart'
<1> USE DEF RunPart, PoolPart, ScopePart
<1>1. /\ UNCHANGED <<vars, listVars, orgVars, boss, outcome>>
      /\ \/ place[w] = "queued" /\ place' = [place EXCEPT ![w] = "working"]
         \/ /\ place[w] \in {"returned", "flushing", "flushed", "counting"}
            /\ \E p \in {"flushing", "flushed", "counting", "finished"} :
                 place' = [place EXCEPT ![w] = p]
  BY DEF PoolStep, Submit, IsNext, Finish, StartFlush, EndFlush, StartCount, EndCount, Move
<1>2. TasksStill /\ UNCHANGED <<names, lister, ownerType>>
  BY <1>1 DEF TasksStill, vars, listVars, orgVars
<1>3. /\ HasOrgScope' = HasOrgScope /\ Command' = Command /\ Addressed' = Addressed
      /\ Skipped' = Skipped /\ TargetOf(OrgTask)' = TargetOf(OrgTask)
      /\ Over(OrgTask)' = Over(OrgTask)
      /\ \A n : OrgPart(n)' = OrgPart(n)
      /\ \A sum : OrgExitCode(sum)' = OrgExitCode(sum)
  BY <1>2, OrgSame, TasksAreWorkers DEF TasksStill
<1>4. \A v \in Workers : /\ Untouched(v)' = Untouched(v) /\ Over(v)' = Over(v)
                         /\ ResultOf(v)' = ResultOf(v) /\ TargetOf(v)' = TargetOf(v)
  BY <1>2, <1>3, WorkerSame, TasksAreWorkers DEF TasksStill
<1>5. \A v \in Workers : /\ v # w => place'[v] = place[v]
                         /\ place'[w] # "none" /\ place'[w] # "queued"
                         /\ place'[w] # "working" => place[w] \notin {"none", "queued", "working"}
  BY <1>1 DEF PoolInv, PoolTypeOK
<1>6. RunTypes' /\ Stages'
  BY <1>1, <1>2, <1>3 DEF RunTypes, Stages, orgVars
<1>7. OrgScopeFirst'
  BY <1>1, <1>3, TasksAreWorkers DEF OrgScopeFirst, Cmd, vars, orgVars
<1>8. Staffed'
  BY <1>1, <1>2, <1>3, <1>4, <1>5 DEF Staffed
<1>9. Summed'
  <2>1. boss # "joined"
    BY <1>1 DEF Accounted
  <2> QED BY <1>1, <1>3, <2>1 DEF Summed, orgVars
<1> QED BY <1>6, <1>7, <1>8, <1>9

LEMMA RunPartKept ==
  ASSUME OrgInv, [OrgNext]_allVars
  PROVE  RunPart'
<1> USE DEF OrgInv
<1>1. TypeOK
  BY DEF ScopePart, IInv
<1>2. CASE ResolveOwner \/ OrgScopeEnds \/ ListRepos \/ TargetRepos \/ Summarise
  BY <1>1, <1>2, ResolveOwnerRuns, OrgScopeEndRuns, ListReposRuns, TargetReposRuns, SummariseRuns
<1>3. CASE WorkOnOrgScope
  BY <1>3, TasksAreWorkers, WorkingRuns DEF WorkOnOrgScope, Working
<1>4. ASSUME NEW w \in Workers, WorkOnRepo(w) \/ RepoReturns(w) \/ PoolStep(w)
      PROVE  RunPart'
  BY <1>4, TasksAreWorkers, WorkingRuns, ReturningRuns, PoolRuns DEF WorkOnRepo, Working
<1>5. CASE OthersWrite
  <2>1. UNCHANGED <<poolVars, orgVars, names, lister>>
    BY <1>5 DEF OthersWrite, listVars
  <2>2. TasksStill
    BY <1>1, <1>5, QuietIsStill
  <2> QED BY <2>1, <2>2, RunStill
<1>6. CASE OthersMigrate \/ UNCHANGED allVars
  <2>1. UNCHANGED <<poolVars, orgVars, names, lister, vars>>
    BY <1>6 DEF OthersMigrate, Migrate, Arrive, Leave, allVars, listVars
  <2>2. TasksStill
    BY <2>1 DEF TasksStill, vars, orgVars
  <2> QED BY <2>1, <2>2, RunStill
<1> QED BY <1>2, <1>3, <1>4, <1>5, <1>6 DEF OrgNext, MainStep

LEMMA OrgInvKept ==
  ASSUME OrgInv, [OrgNext]_allVars
  PROVE  OrgInv'
BY ScopePartKept, ListPartKept, PoolPartKept, RunPartKept DEF OrgInv, RunPart, PoolPart

LEMMA OrgInvAtFirst ==
  ASSUME OrgInit
  PROVE  OrgInv
<1> USE DEF OrgInit
<1>1. PICK s \in Scenarios : cfg = s.cfg /\ live = s.live /\ job = s.job
  BY DEF Init
<1>2. TargetOf(OrgTask) = OrgScope /\ \A w \in Tasks : Cmd(w) = Command
  BY <1>1, TasksAssumption, TasksAreWorkers DEF TargetOf, Cmd, Command
<1>3. \A w \in Tasks : Untouched(w)
  BY DEF Init, Untouched
<1>4. ScopePart
  <2>1. \A w \in Tasks : FailedLines(w) = {}
    BY DEF Init, FailedLines, NoLines
  <2>2. \A w \in Tasks : Tallied(w)
    BY <2>1, FS_EmptySet DEF Init, Tallied
  <2>3. LinesTellTheTruth
    BY DEF Init, LinesTellTheTruth, NoLines
  <2>4. Luckless = {} /\ faults = 0
    BY DEF Init, Luckless
  <2>5. Paid
    BY <2>4, FS_EmptySet DEF Paid
  <2> QED BY <2>2, <2>3, <2>5, InitIsSafe, ProgressAtFirst DEF ScopePart
<1>5. ListInv
  <2>1. /\ catalog \in Seq(Hosted) /\ Distinct(catalog) /\ Len(catalog) + MaxMoves <= Room
        /\ lister = "idle" /\ page = 1 /\ names = <<>> /\ moves = 0 /\ MaxMoves \in Nat
        /\ stayed = Elements(catalog) /\ shrunk = FALSE
    BY CatalogsAssumption, TasksAssumption, PerPageAssumption DEF ListInit, Room
  <2>2. ListTypeOK
    <3>1. <<>> \in Seq(Hosted) /\ 0 \in 0..MaxMoves /\ 1 \in Nat \ {0}
      BY <2>1
    <3>2. shrunk \in BOOLEAN
      BY <2>1
    <3> QED BY <2>1, <3>1, <3>2 DEF ListTypeOK
  <2>3. Len(names) = 0 /\ (page - 1) * PerPage = 0 /\ Room \in Nat /\ Len(catalog) \in Nat
        /\ DOMAIN catalog = 1..Len(catalog) /\ DOMAIN names = {}
    <3>1. Skip(1) = 0
      BY Products
    <3> QED BY <2>1, <2>2, <3>1, RoomType, CatalogBasics DEF Skip
  <2>4. Paged
    BY <2>1, <2>3 DEF Paged, Room
  <2>5. Caught
    BY <2>1, <2>3 DEF Caught
  <2> QED BY <2>2, <2>4, <2>5 DEF ListInv
<1>6. PoolPart
  BY Initially, CountsAtFirst, AccountedAtFirst DEF PoolPart
<1>7. RunPart
  <2>1. RunTypes
    BY DEF RunTypes, NoTotal
  <2>2. Stages
    BY DEF Stages, PoolInit, ListInit
  <2>3. OrgScopeFirst
    BY <1>2, <1>3, TasksAreWorkers DEF OrgScopeFirst, PoolInit, Untouched
  <2>4. Staffed
    BY <1>3, TasksAreWorkers DEF Staffed, PoolInit
  <2>5. Summed
    BY DEF Summed, PoolInit
  <2> QED BY <2>1, <2>2, <2>3, <2>4, <2>5 DEF RunPart
<1> QED BY <1>4, <1>5, <1>6, <1>7 DEF OrgInv

-----------------------------------------------------------------------------
(* What follows.                                                           *)

\* The inductive invariant of an org-wide run: the tasks, the listing, the pool
\* and the main goroutine agree, whatever the interleaving of the workers with
\* each other, with outsiders, and with repositories that come and go.
THEOREM OrgInvariance == OrgSpec => []OrgInv
BY OrgInvAtFirst, OrgInvKept, PTL DEF OrgSpec

\* An org-wide run is well typed; the sums never go below zero, SkippedRepos
\* included, and no repository has more failed entries than the pool can take.
THEOREM OrgTypeCorrect == OrgSpec => []OrgTypeOK
<1>1. OrgInv => OrgTypeOK
  BY DEF OrgInv, ScopePart, IInv, ListInv, PoolPart, PoolInv, RunPart, RunTypes, OrgTypeOK
<1> QED BY <1>1, OrgInvariance, PTL

\* Audit, Apply and Enforce use the pool as Pool says: what the theorems of
\* PoolProofs promise of runOrg holds in an org-wide run.
THEOREM OrgRunUsesPool == OrgSpec => PoolSpec
<1>1. OrgInit => PoolInit
  BY DEF OrgInit
<1>2. OrgInv /\ [OrgNext]_allVars => [PoolNext]_poolVars
  BY PoolSteps DEF OrgInv
<1> QED BY <1>1, <1>2, OrgInvariance, PTL DEF OrgSpec, PoolSpec

\* The lines of an org-wide run are true, also when a repository is worked on
\* by two workers because it was listed twice.
THEOREM OrgLinesAreTrue == OrgSpec => []LinesTellTheTruth
BY OrgInvariance, PTL DEF OrgInv, ScopePart

\* What changes GitHub in an org-wide run is a step of one of its tasks, or an
\* outsider's; assigning the repositories to the workers changes nothing there.
LEMMA WritesAreTaskSteps ==
  ASSUME OrgInv, [OrgNext]_allVars, live' # live
  PROVE  [Next]_vars
<1>1. Quiet \/ (\E w \in Tasks : Working(w)) \/ OthersWrite \/ TargetRepos
  BY TaskSteps DEF OrgInv, ScopePart, IInv
<1>2. ~Quiet /\ ~TargetRepos
  BY DEF Quiet, TargetRepos
<1> QED BY <1>1, <1>2 DEF Working, OthersWrite, Next

\* Also in an org-wide run, whatever the tool changes becomes what the precedence
\* rules ask for, and only an enforce removes entries: workers that are on one
\* repository, and the org scope before them, do not spoil each other's work.
THEOREM OrgRunOnlyReconciles == OrgSpec => ToolOnlyReconciles
<1>1. ASSUME OrgInv, [OrgNext]_allVars, changes' = changes,
             NEW t \in Targets, NEW k \in Keys, live'[t][k] # live[t][k]
      PROVE  \/ IsSet(t, k)'
             \/ IsGone(t, k)' /\ \E w \in Tasks : job[w].target = t /\ job[w].cmd = "enforce"
  <2>1. IInv /\ [Next]_vars
    BY <1>1, WritesAreTaskSteps DEF OrgInv, ScopePart
  <2> QED BY <1>1, <2>1, StepReconciles
<1>2. OrgInv /\ [OrgNext]_allVars =>
        (changes' = changes =>
           \A t \in Targets, k \in Keys : live'[t][k] # live[t][k] =>
             \/ IsSet(t, k)'
             \/ IsGone(t, k)' /\ \E w \in Tasks : job[w].target = t /\ job[w].cmd = "enforce")
  BY <1>1
<1> QED BY <1>2, OrgInvariance, PTL DEF OrgSpec, ToolOnlyReconciles

\* Also in an org-wide run, a scope one of whose values or selected repositories
\* does not resolve is not written to, while the other scopes are; and a scope
\* that ends with an error has written nothing, whatever failed.
THEOREM OrgPreflightComesFirst == OrgSpec => AllOrNothing
<1> DEFINE Step ==
             /\ changes' = changes =>
                  \A t \in Targets : live'[t] # live[t] =>
                    /\ Actionable(t)
                    /\ \E w \in Tasks : /\ job[w].target = t
                                        /\ job[w].cmd \in {"apply", "enforce"}
                                        /\ body'[w] # body[w]
             /\ \A w \in Tasks : pc'[w] = "error" => body'[w] = NoLines
<1>1. ASSUME OrgInv, OrgInv', [OrgNext]_allVars PROVE Step
  <2>1. \A w \in Tasks : pc'[w] = "error" => body'[w] = NoLines
    BY <1>1 DEF OrgInv, ScopePart, Progress
  <2>2. ASSUME changes' = changes, NEW t \in Targets, live'[t] # live[t]
        PROVE  /\ Actionable(t)
               /\ \E w \in Tasks : /\ job[w].target = t
                                   /\ job[w].cmd \in {"apply", "enforce"}
                                   /\ body'[w] # body[w]
    <3>1. IInv /\ [Next]_vars /\ \A w \in Tasks : Progress(w)
      BY <1>1, <2>2, WritesAreTaskSteps DEF OrgInv, ScopePart
    <3> QED BY <2>2, <3>1, StepIsActionable
  <2> QED BY <2>1, <2>2
<1>2. AllOrNothing <=> [][Step]_vars
  BY DEF AllOrNothing
<1>3. OrgInv /\ OrgInv' /\ [OrgNext]_allVars => [Step]_vars
  BY <1>1
<1> HIDE DEF Step
<1> QED BY <1>2, <1>3, OrgInvariance, PTL DEF OrgSpec

\* Every repository that was there all the time and that the configuration
\* addresses gets a worker, exactly one if none came or went, when no repository
\* left between two pages and the token can see them.
THEOREM NobodyIsLeftOut == OrgSpec => []NobodyIsForgotten
<1>1. ASSUME OrgInv, boss # "idle", ownerType = "org" \/ self
      PROVE  /\ ~shrunk => \A r \in stayed : IsAddressed(r) => \E w \in Crew : TargetOf(w) = r
             /\ moves = 0 => \A v, w \in Crew : TargetOf(v) = TargetOf(w) => v = w
  <2>0. ListInv /\ ListTypeOK /\ Caught /\ Stages /\ Staffed
    BY <1>1 DEF OrgInv, ListInv, RunPart
  <2>1. Theirs /\ lister = "listed"
    BY <1>1, <2>0 DEF Theirs, Stages
  <2>2. \A w \in Workers : /\ w \in Crew <=> w \in Addressed
                           /\ w \in Addressed => TargetOf(w) = names[w]
    BY <1>1, <2>0 DEF Staffed, Crew
  <2>3. Addressed \subseteq DOMAIN names /\ DOMAIN names \subseteq Workers
    BY <2>0, AddressedAreWorkers
  <2>4. ASSUME ~shrunk, NEW r \in stayed, IsAddressed(r)
        PROVE  \E w \in Crew : TargetOf(w) = r
    <3>1. PICK i \in DOMAIN catalog : r = catalog[i]
      BY <2>0 DEF ListTypeOK, Elements
    <3>2. PICK w \in DOMAIN names : names[w] = r
      BY <2>0, <2>1, <2>4, <3>1 DEF Caught, Elements
    <3>3. w \in Addressed
      BY <2>4, <3>2 DEF Addressed
    <3> QED BY <2>2, <2>3, <3>2, <3>3
  <2>5. ASSUME moves = 0, NEW v \in Crew, NEW w \in Crew, TargetOf(v) = TargetOf(w)
        PROVE  v = w
    <3>1. v \in Workers /\ w \in Workers
      BY DEF Crew
    <3>2. v \in DOMAIN names /\ w \in DOMAIN names /\ names[v] = names[w]
      BY <2>2, <2>3, <2>5, <3>1
    <3>3. v \in DOMAIN catalog /\ w \in DOMAIN catalog /\ catalog[v] = catalog[w]
      BY <2>0, <2>1, <2>5, <3>2 DEF Caught
    <3> QED BY <2>0, <3>3 DEF ListTypeOK, Distinct
  <2> QED BY <2>4, <2>5
<1>2. OrgInv => NobodyIsForgotten
  BY <1>1 DEF NobodyIsForgotten
<1> QED BY <1>2, OrgInvariance, PTL

LEMMA TeamMembers == Team = IF HasOrgScope THEN Crew \cup {OrgTask} ELSE Crew
<1>1. CASE HasOrgScope
  <2>1. cfg.org # None /\ ownerType = "org"
    BY <1>1 DEF HasOrgScope
  <2>2. Team = Crew \cup {OrgTask}
    BY <2>1 DEF Team
  <2> QED BY <1>1, <2>2
<1>2. CASE ~HasOrgScope
  <2>1. ~(cfg.org # None /\ ownerType = "org")
    BY <1>2 DEF HasOrgScope
  <2>2. Team = Crew
    BY <2>1 DEF Team
  <2> QED BY <1>2, <2>2
<1> QED BY <1>1, <1>2

\* When the pool has been joined.
LEMMA AfterJoin ==
  ASSUME OrgInv, boss = "joined"
  PROVE  /\ Crew = Finished /\ Crew \subseteq Workers /\ Crew = Addressed
         /\ \A w \in Crew : Over(w) /\ outcome[w] = ResultOf(w) /\ TargetOf(w) = names[w]
         /\ HasOrgScope => Over(OrgTask)
         /\ total = Merged(OrgPart(Skipped), res) /\ exit = OrgExitCode(total) /\ res \in Totals
<1>1. PoolInv /\ Accounted /\ Staffed /\ OrgScopeFirst /\ Summed /\ ListInv
  BY DEF OrgInv, PoolPart, RunPart
<1>2. \A w \in Workers : place[w] \in {"none", "finished"}
  BY <1>1 DEF Accounted
<1>3. Crew = Finished /\ Crew \subseteq Workers
  BY <1>2 DEF Crew, Finished
<1>4. Crew = Addressed
  <2>1. \A w \in Workers : place[w] # "none" <=> w \in Addressed
    BY <1>1 DEF Staffed
  <2>2. Addressed \subseteq Workers
    BY <1>1, AddressedAreWorkers
  <2> QED BY <2>1, <2>2 DEF Crew
<1>5. \A w \in Crew : Over(w) /\ outcome[w] = ResultOf(w)
  BY <1>1, <1>3 DEF Staffed, Finished
<1>6. \A w \in Crew : TargetOf(w) = names[w]
  BY <1>1, <1>3, <1>4 DEF Staffed
<1>7. HasOrgScope => Over(OrgTask)
  BY <1>1 DEF OrgScopeFirst
<1>8. total = Merged(OrgPart(Skipped), res) /\ exit = OrgExitCode(total) /\ res \in Totals
  BY <1>1 DEF Summed, PoolInv, PoolTypeOK
<1> QED BY <1>3, <1>4, <1>5, <1>6, <1>7, <1>8

\* A scope the run takes on has a block in the configuration, and so its failure,
\* if all it needs is there, is paid for.
LEMMA LucklessTeam ==
  ASSUME OrgInv, boss = "joined"
  PROVE  Cardinality(Unlucky) <= faults
<1>1. TypeOK /\ Paid /\ ListInv /\ TargetOf(OrgTask) = OrgScope
  BY DEF OrgInv, ScopePart, IInv, RunPart, OrgScopeFirst
<1>2. Crew = Addressed /\ Crew \subseteq Workers /\ \A w \in Crew : TargetOf(w) = names[w]
  BY AfterJoin
<1>3. ASSUME NEW w \in Crew PROVE w \in Tasks /\ ~NoPlan(w)
  <2>1. w \in DOMAIN names /\ IsAddressed(names[w]) /\ names[w] # OrgScope
    BY <1>1, <1>2, AddressedAreWorkers DEF Addressed
  <2> QED BY <1>2, <2>1, TasksAreWorkers DEF NoPlan, IsAddressed
<1>4. HasOrgScope => OrgTask \in Tasks /\ ~NoPlan(OrgTask)
  BY <1>1, TasksAreWorkers DEF NoPlan, HasOrgScope
<1>5. Unlucky \subseteq Luckless
  BY <1>3, <1>4, TeamMembers DEF Unlucky, Luckless
<1>6. Luckless \in SUBSET Tasks /\ Cardinality(Luckless) <= faults /\ faults \in Nat
  BY <1>1 DEF Luckless, Paid, TypeOK
<1> HIDE DEF Luckless
<1>7. Unlucky \in SUBSET Tasks
  BY <1>5, <1>6
<1>8. /\ Cardinality(Unlucky) <= Cardinality(Luckless)
      /\ Cardinality(Unlucky) \in Nat /\ Cardinality(Luckless) \in Nat
  BY <1>5, <1>6, <1>7, FiniteTasks, FS_Subset
<1> QED BY <1>6, <1>8

\* The totals are those of the workers and of the org scope.
LEMMA NothingDropped ==
  ASSUME OrgInv, boss = "joined"
  PROVE  /\ total.failedEntries = 0 <=> \A w \in Team : pc[w] = "done" => failed[w] = 0
         /\ total.drift <=> \E w \in Team : pc[w] = "done" /\ DriftOf(w)
<1> DEFINE part == OrgPart(Skipped)
<1>1. /\ Crew = Finished /\ \A w \in Crew : Over(w) /\ outcome[w] = ResultOf(w)
      /\ total = Merged(part, res) /\ res \in Totals
  BY AfterJoin
<1>2. NoCountLost /\ TypeOK /\ ListInv
  BY DEF OrgInv, PoolPart, ScopePart, IInv
<1>3. ASSUME NEW w \in Crew
      PROVE  /\ (outcome[w].err <=> pc[w] = "error") /\ (~outcome[w].err <=> pc[w] = "done")
             /\ outcome[w].failed = failed[w] /\ (outcome[w].drift <=> DriftOf(w))
  <2>1. /\ ResultOf(w).err = (pc[w] = "error") /\ ResultOf(w).failed = failed[w]
        /\ ResultOf(w).drift = DriftOf(w)
    BY DEF ResultOf
  <2> QED BY <1>1, <2>1 DEF Over
<1>4. res.failedEntries = 0 <=> \A w \in Crew : pc[w] = "done" => failed[w] = 0
  BY <1>1, <1>2, <1>3 DEF NoCountLost
<1>5. res.drift <=> \E w \in Crew : pc[w] = "done" /\ DriftOf(w)
  BY <1>1, <1>2, <1>3 DEF NoCountLost
<1>6. part.failedEntries \in Nat /\ res.failedEntries \in Nat
  BY <1>1, <1>2, SkippedType, OrgPartType DEF SumType, Totals
<1>7. /\ total.failedEntries = part.failedEntries + res.failedEntries
      /\ total.drift <=> (part.drift \/ res.drift)
  BY <1>1 DEF Merged
<1>8. /\ part.failedEntries = IF HasOrgScope /\ pc[OrgTask] = "done" THEN failed[OrgTask] ELSE 0
      /\ part.drift <=> (HasOrgScope /\ pc[OrgTask] = "done" /\ DriftOf(OrgTask))
  BY DEF OrgPart
<1> HIDE DEF part
<1>9. CASE HasOrgScope
  <2>1. Team = Crew \cup {OrgTask}
    BY <1>9, TeamMembers
  <2> QED BY <1>4, <1>5, <1>6, <1>7, <1>8, <1>9, <2>1
<1>10. CASE ~HasOrgScope
  <2>1. Team = Crew
    BY <1>10, TeamMembers
  <2> QED BY <1>4, <1>5, <1>6, <1>7, <1>8, <1>10, <2>1
<1> QED BY <1>9, <1>10

\* A run that prints its summary has taken every scope to its own end, whatever
\* happened to the others; none that has all it needs failed without losing a call
\* of its own; and the totals count each scope once, and hide no failed entry and
\* no drift.
THEOREM FailuresStayIsolated == OrgSpec => []FailuresAreIsolated
<1>1. ASSUME OrgInv, boss = "joined"
      PROVE  /\ \A w \in Team : pc[w] \in {"done", "error"}
             /\ Cardinality(Unlucky) <= faults
             /\ total.failedEntries = 0 <=> \A w \in Team : pc[w] = "done" => failed[w] = 0
             /\ total.drift <=> \E w \in Team : pc[w] = "done" /\ DriftOf(w)
             /\ total.ok = Cardinality({w \in Crew : pc[w] = "done"})
             /\ total.failedRepos = Cardinality({w \in Team : pc[w] = "error"})
             /\ total.skipped = Len(names) - Cardinality(Crew)
  <2> DEFINE ended(place_) == {w \in Crew : pc[w] = place_}
  <2>1. /\ Crew = Finished /\ Crew \subseteq Workers /\ Crew = Addressed
        /\ \A w \in Crew : Over(w) /\ outcome[w] = ResultOf(w)
        /\ HasOrgScope => Over(OrgTask)
        /\ total = Merged(OrgPart(Skipped), res) /\ res \in Totals
    BY <1>1, AfterJoin
  <2>2. NoCountLost
    BY <1>1 DEF OrgInv, PoolPart
  <2>3. /\ {r \in Finished : ~outcome[r].err} = ended("done")
        /\ {r \in Finished : outcome[r].err} = ended("error")
    <3>1. ASSUME NEW w \in Crew PROVE outcome[w].err = (pc[w] = "error")
      <4>1. ResultOf(w).err = (pc[w] = "error")
        BY DEF ResultOf
      <4>2. outcome[w] = ResultOf(w)
        BY <2>1
      <4> QED BY <4>1, <4>2
    <3>2. \A w \in Crew : (~outcome[w].err <=> pc[w] = "done") /\ (outcome[w].err <=> pc[w] = "error")
      BY <2>1, <3>1 DEF Over
    <3> QED BY <2>1, <3>2
  <2>4. res.ok = Cardinality(ended("done")) /\ res.failedRepos = Cardinality(ended("error"))
    BY <2>2, <2>3 DEF NoCountLost
  <2>5. /\ total.ok = 0 + res.ok /\ total.skipped = Skipped
        /\ total.failedRepos = OrgPart(Skipped).failedRepos + res.failedRepos
        /\ OrgPart(Skipped).failedRepos = IF HasOrgScope /\ pc[OrgTask] = "error" THEN 1 ELSE 0
        /\ res.ok \in Nat /\ res.failedRepos \in Nat
    BY <2>1 DEF Merged, OrgPart, Totals
  <2>6. \A w \in Team : pc[w] \in {"done", "error"}
    BY <2>1, TeamMembers DEF Over
  <2>7. total.failedRepos = Cardinality({w \in Team : pc[w] = "error"})
    <3> DEFINE failing == {w \in Team : pc[w] = "error"}
    <3>1. CASE HasOrgScope /\ pc[OrgTask] = "error"
      <4>1. Team = Crew \cup {OrgTask}
        BY <3>1, TeamMembers
      <4>2. failing = ended("error") \cup {OrgTask}
        BY <3>1, <4>1
      <4>3. OrgTask \notin ended("error") /\ IsFiniteSet(ended("error"))
        <5>1. IsFiniteSet(Workers) /\ OrgTask \notin Workers
          BY TasksAreWorkers, WorkersAssumption
        <5>2. ended("error") \subseteq Workers
          BY <2>1
        <5> HIDE DEF ended
        <5> QED BY <5>1, <5>2, FS_Subset
      <4>4. Cardinality(ended("error") \cup {OrgTask}) = Cardinality(ended("error")) + 1
        <5> HIDE DEF ended
        <5> QED BY <4>3, FS_AddElement
      <4>5. OrgPart(Skipped).failedRepos = 1
        BY <2>5, <3>1
      <4>6. total.failedRepos = 1 + res.failedRepos
        BY <2>5, <4>5
      <4>7. Cardinality(failing) = res.failedRepos + 1
        BY <2>4, <4>2, <4>4
      <4>8. total.failedRepos = Cardinality(failing)
        <5> HIDE DEF failing
        <5> QED BY <2>5, <4>6, <4>7
      <4> QED BY <4>8
    <3>2. CASE ~(HasOrgScope /\ pc[OrgTask] = "error")
      <4>1. failing = ended("error")
        <5>1. \A w \in Team : pc[w] = "error" => w \in Crew
          BY <3>2, TeamMembers
        <5>2. Crew \subseteq Team
          BY TeamMembers
        <5> QED BY <5>1, <5>2
      <4>2. OrgPart(Skipped).failedRepos = 0
        BY <2>5, <3>2
      <4>3. total.failedRepos = res.failedRepos
        BY <2>5, <4>2
      <4> QED BY <2>4, <4>1, <4>3
    <3> QED BY <3>1, <3>2
  <2>8. total.ok = Cardinality({w \in Crew : pc[w] = "done"})
    BY <2>4, <2>5
  <2>9. total.skipped = Len(names) - Cardinality(Crew)
    BY <2>1, <2>5 DEF Skipped
  <2>10. Cardinality(Unlucky) <= faults
    BY <1>1, LucklessTeam
  <2>11. /\ total.failedEntries = 0 <=> \A w \in Team : pc[w] = "done" => failed[w] = 0
         /\ total.drift <=> \E w \in Team : pc[w] = "done" /\ DriftOf(w)
    BY <1>1, NothingDropped
  <2> QED BY <2>6, <2>7, <2>8, <2>9, <2>10, <2>11
<1>2. OrgInv => FailuresAreIsolated
  BY <1>1 DEF FailuresAreIsolated
<1> QED BY <1>2, OrgInvariance, PTL

\* A task writes to its own target only.
LEMMA AdvanceStores ==
  ASSUME IInv, NEW w \in Tasks, Advance(w), NEW t \in Targets, live'[t] # live[t]
  PROVE  t = TargetOf(w)
<1> SUFFICES ASSUME NEW k \in Keys, NEW cell, NEW answer, Store(w, k, cell, answer)
             PROVE  t = TargetOf(w)
  <2>1. CASE Begin(w) \/ List(w) \/ Report(w) \/ Preview(w) \/ Prepare(w) \/ LookUpId(w)
             \/ FetchActionsKey(w) \/ FetchDependabotKey(w) \/ FinishApply(w) \/ FinishDelete(w)
    BY <2>1 DEF Begin, List, Report, Preview, Prepare, LookUpId, FetchActionsKey,
       FetchDependabotKey, FinishApply, FinishDelete
  <2>2. todo[w] \subseteq Keys
    BY DEF IInv, TypeOK
  <2>3. CASE UpdateVariable(w)
    BY <2>2, <2>3 DEF UpdateVariable
  <2>4. CASE CreateVariable(w)
    BY <2>2, <2>4 DEF CreateVariable
  <2>5. CASE PutSecret(w)
    BY <2>2, <2>5 DEF PutSecret
  <2>6. CASE DeleteEntry(w)
    BY <2>2, <2>6 DEF DeleteEntry
  <2> QED BY <2>1, <2>3, <2>4, <2>5, <2>6 DEF Advance
<1>1. live \in World /\ live' = [live EXCEPT ![TargetOf(w)][k] = cell]
  BY DEF Store, IInv, TypeOK
<1> QED BY <1>1 DEF World

\* While nobody else writes, GitHub changes only at the target of a scope this run
\* works on: the org scope while the run is on it, an addressed repository of the
\* listing afterwards.
THEOREM NothingOutOfScope == OrgSpec => OnlyInScope
<1>1. ASSUME OrgInv, [OrgNext]_allVars, changes' = changes, NEW t \in Targets, live'[t] # live[t]
      PROVE  /\ \E w \in Team : TargetOf(w) = t
             /\ t # OrgScope => IsAddressed(t) /\ t \in Elements(names)
             /\ main = "orgScope" <=> t = OrgScope
  <2>1. ListInv /\ TypeOK /\ IInv /\ Stages /\ Staffed /\ PoolInv /\ TargetOf(OrgTask) = OrgScope
    BY <1>1 DEF OrgInv, ScopePart, IInv, PoolPart, RunPart, OrgScopeFirst
  <2>2. ~OthersWrite
    BY <1>1, <2>1, BoundAssumption DEF OthersWrite, ForeignChange, TypeOK
  <2>3. ~TargetRepos /\ ~Quiet
    BY <1>1 DEF TargetRepos, Quiet
  <2>4. PICK w \in Tasks : Working(w)
    BY <1>1, <2>1, <2>2, <2>3, TaskSteps
  <2>5. t = TargetOf(w)
    BY <1>1, <2>1, <2>4, AdvanceStores DEF Working
  <2>6. CASE w = OrgTask /\ main = "orgScope"
    <3>1. HasOrgScope /\ t = OrgScope
      BY <2>1, <2>5, <2>6 DEF Stages
    <3>2. OrgTask \in Team
      BY <3>1, TeamMembers
    <3> QED BY <2>1, <2>6, <3>1, <3>2
  <2>7. CASE w \in Workers /\ place[w] = "working"
    <3>1. boss # "idle" /\ w \in Crew /\ w \in Team
      BY <2>1, <2>7, TeamMembers DEF PoolInv, Resting, Crew
    <3>2. w \in Addressed /\ t = names[w] /\ main # "orgScope"
      BY <2>1, <2>5, <2>7, <3>1 DEF Staffed, Stages
    <3>3. t # OrgScope /\ IsAddressed(t) /\ t \in Elements(names)
      BY <2>1, <3>2, AddressedAreWorkers DEF Addressed, Elements
    <3> QED BY <2>5, <3>1, <3>2, <3>3
  <2> QED BY <2>4, <2>6, <2>7 DEF Working
<1>2. OrgInv /\ [OrgNext]_allVars =>
        (changes' = changes =>
           \A t \in Targets : live'[t] # live[t] =>
             /\ \E w \in Team : TargetOf(w) = t
             /\ t # OrgScope => IsAddressed(t) /\ t \in Elements(names)
             /\ main = "orgScope" <=> t = OrgScope)
  BY <1>1
<1> QED BY <1>2, OrgInvariance, PTL DEF OrgSpec, OnlyInScope

-----------------------------------------------------------------------------
(* The exit code.                                                          *)

\* What a task can go by: what it did not see is not there, what it has still to
\* list it has not seen, and in an audit what it saw is what is there.
Seeing(w) == Fresh(w) /\ Unseen(w) /\ Current(w)

LEMMA CurrentKept ==
  ASSUME NEW w \in Tasks, Current(w), cfg' = cfg, live' = live, Command' = Command,
         job'[w] = job[w], snap'[w] = snap[w], touched'[w] = touched[w],
         KindsListed(w)' \subseteq KindsListed(w)
  PROVE  Current(w)'
BY DEF Current, TargetOf

\* A task that gets an answer to its listing has seen what is there.
LEMMA CurrentAfterListing ==
  ASSUME Fits, IInv, NEW w \in Tasks, Current(w), Unseen(w), Command' = Command, List(w)
  PROVE  Current(w)'
<1> DEFINE t == TargetOf(w)
<1>1. /\ pc[w] \in Kinds /\ live' = live /\ t' = t /\ touched' = touched
  BY ListEffect DEF TargetOf, env
<1>2. CASE KindsListed(w)' = {}
  BY <1>2 DEF Current
<1>3. CASE KindsListed(w)' # {}
  <2>1. PICK shown \in Pages(t, pc[w]) : \A k \in Keys :
          snap'[w][k] = IF k \in shown THEN View(k, live[t][k]) ELSE snap[w][k]
    BY <1>3, ListEffect
  <2>2. KindsListed(w)' \subseteq KindsListed(w) \cup {pc[w]} /\ pc[w] \notin KindsListed(w)
    BY <1>3, ListEffect
  <2>3. shown = {k \in Keys : Kind(k) = pc[w] /\ live[t][k] # None}
    BY <1>1, PageIsComplete
  <2>4. ASSUME Command = "audit", NEW k \in Keys \ touched[w], Kind(k) \in KindsListed(w)'
        PROVE  snap'[w][k] = Shows(k, live[t][k])
    <3>1. CASE Kind(k) = pc[w]
      BY <1>1, <2>1, <2>2, <2>3, <3>1 DEF Shows, Unseen
    <3>2. CASE Kind(k) # pc[w]
      BY <2>1, <2>2, <2>3, <2>4, <3>2 DEF Current
    <3> QED BY <3>1, <3>2
  <2> QED BY <1>1, <2>4 DEF Current
<1> QED BY <1>2, <1>3

\* Where everybody audits nobody writes, and each sees what it lists.
LEMMA CurrentWorking ==
  ASSUME Fits, IInv, OrgScopeFirst, NEW v \in Tasks, Working(v), NEW w \in Tasks,
         Current(w), Unseen(w)
  PROVE  Current(w)'
<1>1. /\ Advance(v) /\ UNCHANGED <<cfg, job, touched>> /\ Command' = Command
      /\ w # v => UNCHANGED TaskState(w)
  BY AdvanceFrame DEF Working, env, Command
<1>2. SUFFICES ASSUME Command = "audit" PROVE Current(w)'
  BY <1>1 DEF Current
<1>3. live' = live
  <2>1. OnlyLooks(v)
    BY <1>2 DEF OrgScopeFirst, OnlyLooks
  <2> QED BY <1>1, <2>1, LookersDoNotWrite DEF Begin, List, Report, Preview
<1>4. CASE w # v
  <2>1. KindsListed(w)' = KindsListed(w) /\ snap'[w] = snap[w]
    BY <1>1, <1>4 DEF TaskState, KindsListed, NoPlan, Cmd, TargetOf
  <2> QED BY <1>1, <1>3, <2>1, CurrentKept
<1>5. CASE w = v /\ List(w)
  BY <1>1, <1>5, CurrentAfterListing
<1>6. CASE w = v /\ ~List(w)
  <2>1. KindsListed(w)' \subseteq KindsListed(w) /\ snap'[w] = snap[w]
    BY <1>1, <1>6, KindsListedShrink
  <2> QED BY <1>1, <1>3, <2>1, CurrentKept
<1> QED BY <1>4, <1>5, <1>6

\* What outsiders change no longer counts.
LEMMA CurrentOthers ==
  ASSUME IInv, OthersWrite, NEW w \in Tasks, Current(w)
  PROVE  Current(w)'
<1>1. PICK t \in Targets, j \in Keys, cell \in ForeignCells \cup {None} :
        /\ live' = [live EXCEPT ![t][j] = cell]
        /\ touched' = [v \in Tasks |-> IF TargetOf(v) = t THEN touched[v] \cup {j}
                                       ELSE touched[v]]
        /\ UNCHANGED <<env, pc, snap>>
  BY DEF OthersWrite, ForeignChange
<1>2. live \in World /\ TargetOf(w) \in Targets /\ TargetOf(w)' = TargetOf(w) /\ Command' = Command
  BY <1>1 DEF IInv, TypeOK, TargetOf, Job, Command, env
<1>3. KindsListed(w)' = KindsListed(w)
  BY <1>1 DEF KindsListed, NoPlan, Cmd, TargetOf, env
<1>4. \A k \in Keys \ touched'[w] : k \notin touched[w] /\ live'[TargetOf(w)][k] = live[TargetOf(w)][k]
  BY <1>1, <1>2 DEF World
<1> QED BY <1>1, <1>2, <1>3, <1>4 DEF Current

\* A task that nobody touches.
LEMMA SeeingKept ==
  ASSUME NEW w \in Tasks, Seeing(w), cfg' = cfg, live' = live, UNCHANGED TaskState(w),
         Command' = Command
  PROVE  Seeing(w)'
<1>1. Fresh(w)' /\ Unseen(w)'
  BY TaskKept DEF Seeing
<1>2. KindsListed(w)' = KindsListed(w)
  BY DEF TaskState, KindsListed, NoPlan, Cmd, TargetOf
<1>3. Current(w)'
  BY <1>2, CurrentKept DEF Seeing, TaskState
<1> QED BY <1>1, <1>3 DEF Seeing

LEMMA SeeingIsInductive ==
  ASSUME Fits, OrgInv, \A w \in Tasks : Seeing(w), [OrgNext]_allVars
  PROVE  \A w \in Tasks : Seeing(w)'
<1>1. IInv /\ TypeOK /\ ListInv /\ PoolInv /\ Staffed /\ OrgScopeFirst
  BY DEF OrgInv, ScopePart, IInv, PoolPart, RunPart
<1>2. CASE Quiet
  BY <1>2, SeeingKept DEF Quiet, env, TaskState, Command
<1>3. ASSUME NEW v \in Tasks, Working(v) PROVE \A w \in Tasks : Seeing(w)'
  <2>1. [Next]_vars
    BY <1>3 DEF Working, Next
  <2> QED BY <1>1, <1>3, <2>1, FreshIsInductive, UnseenIsInductive, CurrentWorking DEF Seeing
<1>4. CASE OthersWrite
  <2>1. [Next]_vars
    BY <1>4 DEF OthersWrite, Next
  <2> QED BY <1>1, <1>4, <2>1, FreshIsInductive, UnseenIsInductive, CurrentOthers DEF Seeing
<1>5. CASE TargetRepos
  <2>1. /\ UNCHANGED <<cfg, live>> /\ UNCHANGED TaskState(OrgTask)
        /\ \A w \in Workers : Untouched(w)'
    BY <1>1, <1>5, HiringEffect
  <2>2. Command' = Command
    BY <2>1 DEF TaskState, Command
  <2>3. Seeing(OrgTask)'
    BY <2>1, <2>2, SeeingKept, TasksAreWorkers
  <2>4. \A w \in Workers : Seeing(w)'
    BY <2>1, AllWellAtFirst, TasksAreWorkers DEF Seeing
  <2> QED BY <2>3, <2>4, TasksAreWorkers
<1> QED BY <1>1, <1>2, <1>3, <1>4, <1>5, TaskSteps

LEMMA SeeingAtFirst ==
  ASSUME OrgInit
  PROVE  \A w \in Tasks : Seeing(w)
<1>1. Init
  BY DEF OrgInit
<1>2. \A w \in Tasks : Current(w)
  BY <1>1 DEF Init, Current, KindsListed, Ahead
<1> QED BY <1>1, <1>2, FreshAtFirst, LookingAtFirst DEF Seeing

\* The pool counts an error of each worker that had one.
LEMMA NobodyFailed ==
  ASSUME NoCountLost, res.failedRepos = 0, NEW w \in Finished
  PROVE  ~outcome[w].err
<1> DEFINE failing == {r \in Finished : outcome[r].err}
<1>1. failing \in SUBSET Workers
  BY DEF Finished
<1>2. IsFiniteSet(failing)
  BY <1>1, FiniteSets
<1>3. Cardinality(failing) = 0
  BY DEF NoCountLost
<1>4. failing = {}
  <2> HIDE DEF failing
  <2> QED BY <1>2, <1>3, FS_EmptySet
<1> QED BY <1>4

\* An audit tries nothing, and so nothing of it fails.
LEMMA AuditsDoNotFail ==
  ASSUME OrgInv, NEW w \in Tasks, pc[w] = "done", Command = "audit"
  PROVE  failed[w] = 0
<1>1. Progress(w) /\ Tallied(w) /\ Cmd(w) = "audit"
  BY DEF OrgInv, ScopePart, RunPart, OrgScopeFirst
<1>2. Attempted(w) = {}
  BY <1>1 DEF Progress, Due
<1>3. FailedLines(w) = {}
  BY <1>2 DEF Attempted, FailedLines
<1> QED BY <1>1, <1>3, FS_EmptySet DEF Tallied

\* No total of a run that exits with 0 hides a failure or a drift.
LEMMA NothingHidden ==
  ASSUME OrgInv, exit = 0, NEW w \in Team
  PROVE  w \in Tasks /\ pc[w] = "done" /\ failed[w] = 0 /\ ~DriftOf(w) /\ ~NoPlan(w)
<1> DEFINE part == OrgPart(Skipped)
<1>1. boss = "joined" /\ TypeOK /\ ListInv /\ NoCountLost /\ TargetOf(OrgTask) = OrgScope
  BY ExitAssumption DEF OrgInv, ScopePart, IInv, PoolPart, RunPart, RunTypes, Stages, OrgScopeFirst
<1>2. /\ Crew = Finished /\ Crew \subseteq Workers /\ Crew = Addressed
      /\ \A v \in Crew : Over(v) /\ outcome[v] = ResultOf(v) /\ TargetOf(v) = names[v]
      /\ HasOrgScope => Over(OrgTask)
      /\ total = Merged(part, res) /\ 0 = OrgExitCode(total) /\ res \in Totals
  BY <1>1, AfterJoin
<1>3. ~(total.failedRepos > 0) /\ ~(IF Command = "audit" THEN total.drift ELSE total.failedEntries > 0)
  BY <1>2 DEF OrgExitCode
<1>4. part \in SumType
  BY <1>1, SkippedType, OrgPartType
<1>5. /\ part.failedRepos = 0 /\ res.failedRepos = 0
      /\ Command = "audit" => ~part.drift /\ ~res.drift
      /\ Command # "audit" => part.failedEntries = 0 /\ res.failedEntries = 0
  BY <1>2, <1>3, <1>4 DEF Merged, SumType, Totals
<1>6. ASSUME w \in Crew
      PROVE  pc[w] = "done" /\ failed[w] = 0 /\ ~DriftOf(w) /\ ~NoPlan(w)
  <2>1. w \in Finished /\ w \in Addressed /\ TargetOf(w) = names[w] /\ w \in Tasks
    BY <1>2, <1>6, TasksAreWorkers
  <2>2. outcome[w] = ResultOf(w) /\ Over(w)
    BY <1>2, <1>6
  <2>3. /\ outcome[w].err <=> pc[w] = "error"
        /\ outcome[w].failed = failed[w]
        /\ outcome[w].drift <=> DriftOf(w)
    <3>1. /\ ResultOf(w).err = (pc[w] = "error") /\ ResultOf(w).failed = failed[w]
          /\ ResultOf(w).drift = DriftOf(w)
      BY DEF ResultOf
    <3> QED BY <2>2, <3>1
  <2>4. pc[w] = "done"
    <3>1. ~outcome[w].err
      BY <1>1, <1>5, <2>1, NobodyFailed
    <3> QED BY <2>2, <2>3, <3>1 DEF Over
  <2>5. ~DriftOf(w)
    BY <1>1, <1>5, <2>1, <2>3, <2>4 DEF NoCountLost, DriftOf
  <2>6. failed[w] = 0
    <3>1. CASE Command = "audit"
      BY <2>1, <2>4, <3>1, AuditsDoNotFail
    <3>2. CASE Command # "audit"
      BY <1>1, <1>5, <2>1, <2>3, <2>4, <3>2 DEF NoCountLost
    <3> QED BY <3>1, <3>2
  <2>7. ~NoPlan(w)
    <3>1. w \in DOMAIN names /\ IsAddressed(names[w]) /\ names[w] # OrgScope
      BY <1>1, <2>1, AddressedAreWorkers DEF Addressed
    <3> QED BY <2>1, <3>1 DEF NoPlan, IsAddressed
  <2> QED BY <2>4, <2>5, <2>6, <2>7
<1>7. ASSUME HasOrgScope, w = OrgTask
      PROVE  pc[w] = "done" /\ failed[w] = 0 /\ ~DriftOf(w) /\ ~NoPlan(w)
  <2>1. pc[OrgTask] = "done"
    <3>1. pc[OrgTask] # "error"
      BY <1>5, <1>7 DEF OrgPart
    <3> QED BY <1>2, <1>7, <3>1 DEF Over
  <2>2. ~DriftOf(OrgTask)
    <3>1. part.drift <=> DriftOf(OrgTask)
      BY <1>7, <2>1 DEF OrgPart
    <3> QED BY <1>5, <3>1 DEF DriftOf
  <2>3. failed[OrgTask] = 0
    <3>1. CASE Command = "audit"
      BY <2>1, <3>1, AuditsDoNotFail, TasksAreWorkers
    <3>2. CASE Command # "audit"
      BY <1>5, <1>7, <2>1, <3>2 DEF OrgPart
    <3> QED BY <3>1, <3>2
  <2>4. ~NoPlan(OrgTask)
    BY <1>1, <1>7 DEF NoPlan, HasOrgScope
  <2> QED BY <1>7, <2>1, <2>2, <2>3, <2>4
<1> QED BY <1>2, <1>6, <1>7, TeamMembers, TasksAreWorkers

\* What a scope without errors and without drift has come to.
LEMMA HonestScope ==
  ASSUME OrgInv, NEW w \in Tasks, Seeing(w),
         pc[w] = "done", failed[w] = 0, ~DriftOf(w), ~NoPlan(w), NEW k \in Keys \ touched[w]
  PROVE  LET t == TargetOf(w)
         IN /\ Command \in {"apply", "enforce"} /\ Wanted(cfg, t, k) # None => IsSet(t, k)
            /\ Command = "enforce" /\ ~Listed(cfg, t, k) => IsGone(t, k)
            /\ Command = "audit" => ~Drifted(t, k)
<1>1. IInv /\ LinesTellTheTruth /\ Progress(w) /\ Cmd(w) = Command
  BY DEF OrgInv, ScopePart, RunPart, OrgScopeFirst
<1>2. ExitCode(w) = 0
  BY <1>1 DEF ExitCode, DriftOf
<1>3. /\ Command \in {"apply", "enforce"} /\ Wanted(cfg, TargetOf(w), k) # None
           => IsSet(TargetOf(w), k)
      /\ Command = "enforce" /\ ~Listed(cfg, TargetOf(w), k) => IsGone(TargetOf(w), k)
  BY <1>1, <1>2, HonestExit DEF Seeing
<1>4. ASSUME Command = "audit" PROVE ~Drifted(TargetOf(w), k)
  <2>1. Kind(k) \in KindsListed(w)
    BY <1>1, <1>4, KeysAssumption DEF KindsListed, Kind, Ahead
  <2>2. Rows(w)[k].status \in {"missing", "mismatch", "extra"} <=> Drifted(TargetOf(w), k)
    BY <1>1, <1>4, <2>1, RowsAreExact DEF Seeing, Current
  <2>3. ~HasDrift(Rows(w))
    BY <1>4 DEF DriftOf
  <2> QED BY <2>2, <2>3 DEF HasDrift
<1> QED BY <1>3, <1>4

\* If the listings of entries fit on a page, exit code 0 of an org-wide run speaks
\* for every scope it took on: after apply and enforce each is as configured, and
\* audit found each free of drift, but for the entries outsiders touched.
THEOREM OrgExitCodeIsHonest ==
  ASSUME Fits
  PROVE  OrgSpec => []OrgExitZeroIsHonest
<1> DEFINE Past == \A w \in Tasks : Seeing(w)
<1>1. OrgInit => Past
  BY SeeingAtFirst
<1>2. OrgInv /\ Past /\ [OrgNext]_allVars => Past'
  BY SeeingIsInductive
<1>3. OrgInv /\ Past => OrgExitZeroIsHonest
  BY NothingHidden, HonestScope DEF OrgExitZeroIsHonest
<1> HIDE DEF Past
<1> QED BY <1>1, <1>2, <1>3, OrgInvariance, PTL DEF OrgSpec

=============================================================================

------------------------------- MODULE Listing -------------------------------
(***************************************************************************)
(* ListOrgRepos and ListUserRepos: the repositories of an owner, fetched   *)
(* page by page.                                                           *)
(*                                                                         *)
(* A page is asked for by its number, so it is a window on the listing as  *)
(* it is at that moment.  While the pages are fetched, repositories come   *)
(* and go, at any position of GitHub's order.                              *)
(***************************************************************************)
EXTENDS Integers, FiniteSets, Sequences

CONSTANTS
  Hosted,    \* the repositories there can be
  Catalogs,  \* initial listings
  PerPage,   \* entries on a page (100 in the code)
  MaxMoves   \* bound: repositories that come or go

ASSUME CatalogsAssumption == Catalogs \subseteq Seq(Hosted)
ASSUME PerPageAssumption  == PerPage \in Nat \ {0} /\ MaxMoves \in Nat

VARIABLES
  catalog,  \* GitHub: the repositories of the owner, in the order of the listing
  lister,   \* idle, fetching, listed, failed
  page,     \* opts.Page
  names,    \* the names collected so far
  moves,    \* how much of the bound is used up
  stayed,   \* history: the repositories that were there all the time
  shrunk    \* history: a repository left between two pages

listVars == <<catalog, lister, page, names, moves, stayed, shrunk>>

Elements(seq) == {seq[i] : i \in DOMAIN seq}

Distinct(seq) == \A i, j \in DOMAIN seq : seq[i] = seq[j] => i = j

ListTypeOK ==
  /\ catalog \in Seq(Hosted) /\ Distinct(catalog)
  /\ lister \in {"idle", "fetching", "listed", "failed"}
  /\ page \in Nat \ {0}
  /\ names \in Seq(Hosted)
  /\ moves \in 0..MaxMoves
  /\ stayed \subseteq Elements(catalog)
  /\ shrunk \in BOOLEAN

ListInit ==
  /\ catalog \in Catalogs
  /\ lister = "idle" /\ page = 1 /\ names = <<>>
  /\ moves = 0 /\ stayed = Elements(catalog) /\ shrunk = FALSE

StartListing ==
  /\ lister = "idle" /\ lister' = "fetching"
  /\ UNCHANGED <<catalog, page, names, moves, stayed, shrunk>>

\* The repositories on page number n; none beyond the last one.
PageOf(seq, n) == LET last == n * PerPage
                  IN SubSeq(seq, last - PerPage + 1, IF last < Len(seq) THEN last ELSE Len(seq))

\* Fault: the loop ends with the first page.
HasNextNever(seq, n) == FALSE

\* resp.NextPage # 0.
HasNext(seq, n) == n * PerPage < Len(seq)

\* One call: the names of the page are appended if the account they belong to is the
\* owner; without a next page, or after an error, the loop ends, and an error
\* drops all names.
FetchPage(theirs, answer) ==
  /\ lister = "fetching"
  /\ IF answer = "ok"
     THEN /\ names' = IF theirs THEN names \o PageOf(catalog, page) ELSE names
          /\ IF HasNext(catalog, page) THEN page' = page + 1 /\ lister' = lister
             ELSE page' = page /\ lister' = "listed"
     ELSE names' = <<>> /\ page' = page /\ lister' = "failed"
  /\ UNCHANGED <<catalog, moves, stayed, shrunk>>

Moving == lister \in {"idle", "fetching"} /\ moves < MaxMoves /\ moves' = moves + 1

\* A repository is created or transferred to the owner.
Arrive(r) ==
  /\ Moving /\ r \notin Elements(catalog)
  /\ \E i \in 0..Len(catalog) :
       catalog' = SubSeq(catalog, 1, i) \o <<r>> \o SubSeq(catalog, i + 1, Len(catalog))
  /\ UNCHANGED <<lister, page, names, stayed, shrunk>>

\* A repository is deleted, renamed or transferred away.
Leave(r) ==
  /\ Moving
  /\ \E i \in DOMAIN catalog :
       /\ catalog[i] = r
       /\ catalog' = SubSeq(catalog, 1, i - 1) \o SubSeq(catalog, i + 1, Len(catalog))
  /\ stayed' = stayed \ {r}
  /\ shrunk' = (shrunk \/ page > 1)
  /\ UNCHANGED <<lister, page, names>>

Migrate == \E r \in Hosted : Arrive(r) \/ Leave(r)

=============================================================================

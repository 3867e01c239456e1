----------------------------- MODULE Ingestion ------------------------------
(***************************************************************************)
(* JobIngestionService and the connectors of one source: a bounded, paged  *)
(* fetch from a portal that fails and changes, then an upsert per posting  *)
(* in a session that nobody rolls back.                                    *)
(*                                                                         *)
(* Ingestions are the calls the monitoring executor and the command line   *)
(* make; two of them can work on one source (see Monitoring).              *)
(***************************************************************************)
EXTENDS Integers, Sequences, FiniteSets

CONSTANTS
  Call,          \* ingestions of the source
  Posting,       \* external ids the portal lists
  Malformed,     \* postings JobCreate refuses
  PageLimit,     \* postings per request: 100 (Lever), 20 (Workday)
  MaxPages,      \* Lever's MAX_PAGES: 50
  MaxOffset,     \* Workday's MAX_OFFSET_LIMIT: 5000
  MaxRetries,    \* of ConnectorHttpClient: 3
  MaxRepublished \* bound: changes of the portal's list

ASSUME IngestionAssumption ==
  /\ Malformed \subseteq Posting
  /\ PageLimit \in Nat \ {0} /\ MaxPages \in Nat \ {0} /\ MaxOffset \in Nat \ {0}
  /\ MaxRetries \in Nat /\ MaxRepublished \in Nat
  /\ IsFiniteSet(Call) /\ IsFiniteSet(Posting)

VARIABLES
  provider,  \* the source's type
  totals,    \* Workday: the responses carry the total (it defaults to 0)
  trims,     \* pages may hold fewer postings than asked for and listed
  feed,      \* what the portal lists, in its order
  changes,   \* changes of the list so far
  jobs,      \* external ids of the source's rows in the jobs table
  phase,     \* where each ingestion is
  attempt,   \* of the request being made
  page,      \* pages begun
  offset,    \* postings skipped by the next request
  fetched,   \* normalized_jobs
  next,      \* index of the item being stored
  found,     \* get_by_external_id found the item's row
  broken,    \* a flush failed: the session needs a rollback
  count,     \* items persisted, updated and skipped
  sent,      \* ghost: requests sent
  moved,     \* ghost: the list changed during the fetch
  faulty     \* ghost: a statement of the ingestion failed in the database

portalVars == <<provider, totals, trims, feed, changes>>
fetchVars == <<attempt, page, offset, fetched, sent, moved>>
storeVars == <<jobs, next, found, broken, count, faulty>>
ingestionVars == <<portalVars, phase, fetchVars, storeVars>>

Ended == {"done", "failed", "lost"}

Lists == {l \in UNION {[1..n -> Posting] : n \in 0..Cardinality(Posting)} :
            \A i, k \in DOMAIN l : i # k => l[i] # l[k]}

IngestionInit ==
  /\ provider \in {"greenhouse", "lever", "workday"}
  /\ totals \in BOOLEAN
  /\ trims \in BOOLEAN
  /\ feed \in Lists
  /\ changes = 0
  /\ jobs = {}
  /\ phase = [c \in Call |-> "idle"]
  /\ attempt = [c \in Call |-> 0]
  /\ page = [c \in Call |-> 0]
  /\ offset = [c \in Call |-> 0]
  /\ fetched = [c \in Call |-> <<>>]
  /\ next = [c \in Call |-> 1]
  /\ found = [c \in Call |-> FALSE]
  /\ broken = [c \in Call |-> FALSE]
  /\ count = [c \in Call |-> [persisted |-> 0, updated |-> 0, skipped |-> 0]]
  /\ sent = [c \in Call |-> 0]
  /\ moved = [c \in Call |-> FALSE]
  /\ faulty = [c \in Call |-> FALSE]

Goes(c, where) == phase' = [phase EXCEPT ![c] = where]

-----------------------------------------------------------------------------
(* Fetching                                                                *)

\* ingest_source_instance of an active source; an inactive one raises at once.
StartIngestion(c) ==
  /\ phase[c] = "idle"
  /\ Goes(c, "fetch")
  /\ attempt' = [attempt EXCEPT ![c] = 1]
  /\ page' = [page EXCEPT ![c] = 1]
  /\ sent' = [sent EXCEPT ![c] = 1]
  /\ UNCHANGED <<portalVars, offset, fetched, moved, storeVars>>

\* The connector returns or raises.
EndFetch(c, where) ==
  /\ Goes(c, where)
  /\ attempt' = [attempt EXCEPT ![c] = 0]
  /\ page' = [page EXCEPT ![c] = 0]
  /\ offset' = [offset EXCEPT ![c] = 0]
  /\ sent' = [sent EXCEPT ![c] = 0]
  /\ moved' = [moved EXCEPT ![c] = FALSE]

\* The one counter of request() counts the attempts, whatever they end with;
\* each of its three error paths compares it on its own.
StatusRetries(c) == attempt[c] <= MaxRetries

\* Mutant of TimeoutRetries: one attempt too many after timeouts.
TimeoutRetriesOnceMore(c) == attempt[c] <= MaxRetries + 1

TimeoutRetries(c) == attempt[c] <= MaxRetries

NetworkRetries(c) == attempt[c] <= MaxRetries

\* The request is repeated after a pause, or gives up with a typed error.
RepeatOrRaise(c, repeated) ==
  /\ phase[c] = "fetch"
  /\ IF repeated
     THEN /\ attempt' = [attempt EXCEPT ![c] = @ + 1]
          /\ sent' = [sent EXCEPT ![c] = @ + 1]
          /\ UNCHANGED <<phase, page, offset, fetched, moved>>
     ELSE /\ EndFetch(c, "failed")
          /\ fetched' = [fetched EXCEPT ![c] = <<>>]
  /\ UNCHANGED <<portalVars, storeVars>>

\* 429, 502, 503 or 504; a timeout; no connection.
TransientError(c) ==
  \/ RepeatOrRaise(c, StatusRetries(c))
  \/ RepeatOrRaise(c, TimeoutRetries(c))
  \/ RepeatOrRaise(c, NetworkRetries(c))

\* Any other status, a body that is no JSON, or a posting that does not parse:
\* the pages fetched before are thrown away.
PermanentError(c) ==
  /\ phase[c] = "fetch"
  /\ EndFetch(c, "failed")
  /\ fetched' = [fetched EXCEPT ![c] = <<>>]
  /\ UNCHANGED <<portalVars, storeVars>>

Least(m, n) == IF m < n THEN m ELSE n

\* Postings listed behind the offset.
Rest(c) == IF offset[c] < Len(feed) THEN Len(feed) - offset[c] ELSE 0

\* How many postings the portal answers with: all of them, or a page.
Answers(c) ==
  LET full == IF provider = "greenhouse" THEN Len(feed) ELSE Least(PageLimit, Rest(c))
  IN IF trims /\ provider # "greenhouse" /\ full > 0 THEN 1..full ELSE {full}

Page(c, n) ==
  IF provider = "greenhouse" THEN feed ELSE SubSeq(feed, offset[c] + 1, offset[c] + n)

Reported == IF totals THEN Len(feed) ELSE 0

\* Mutant of LastPage: an exactly full page counts as the last one.
LastFullPage(c, n) ==
  \/ provider = "greenhouse"
  \/ n <= PageLimit
  \/ page[c] = MaxPages

\* The answer that ends the fetch.
LastPage(c, n) ==
  \/ provider = "greenhouse"
  \/ n = 0
  \/ provider = "lever" /\ (n < PageLimit \/ page[c] = MaxPages)
  \/ provider = "workday" /\ (offset[c] + n >= Reported \/ offset[c] + n >= MaxOffset)

ReceivePage(c, n) ==
  /\ phase[c] = "fetch"
  /\ fetched' = [fetched EXCEPT ![c] = @ \o Page(c, n)]
  /\ IF LastPage(c, n)
     THEN EndFetch(c, "store")
     ELSE /\ offset' = [offset EXCEPT ![c] = @ + n]
          /\ page' = [page EXCEPT ![c] = @ + 1]
          /\ attempt' = [attempt EXCEPT ![c] = 1]
          /\ sent' = [sent EXCEPT ![c] = @ + 1]
          /\ UNCHANGED <<phase, moved>>
  /\ UNCHANGED <<portalVars, storeVars>>

\* The portal adds, closes or reorders postings.
ListChanges ==
  /\ changes < MaxRepublished
  /\ changes' = changes + 1
  /\ feed' \in Lists \ {feed}
  /\ moved' = [c \in Call |-> moved[c] \/ phase[c] = "fetch"]
  /\ UNCHANGED <<provider, totals, trims, phase, attempt, page, offset, fetched, sent, storeVars>>

-----------------------------------------------------------------------------
(* Storing                                                                 *)

Item(c) == fetched[c][next[c]]

\* The item is dealt with; its counter goes up.
Count(c, counter) ==
  /\ count' = [count EXCEPT ![c][counter] = @ + 1]
  /\ next' = [next EXCEPT ![c] = @ + 1]
  /\ found' = [found EXCEPT ![c] = FALSE]
  /\ Goes(c, "store")

\* JobCreate, then get_by_external_id; either may raise.
FindItem(c) ==
  /\ phase[c] = "store" /\ next[c] <= Len(fetched[c])
  /\ IF Item(c) \in Malformed \/ broken[c]
     THEN Count(c, "skipped")
     ELSE /\ found' = [found EXCEPT ![c] = Item(c) \in jobs]
          /\ Goes(c, "upsert")
          /\ UNCHANGED <<next, count>>
  /\ UNCHANGED <<portalVars, fetchVars, jobs, broken, faulty>>

\* Mutant of Free: the unique key is missing.
AlwaysFree(c) == TRUE

\* The unique (career_source_id, external_id).
Free(c) == Item(c) \notin jobs

UpdateItem(c) ==
  /\ phase[c] = "upsert" /\ found[c]
  /\ Count(c, "updated")
  /\ UNCHANGED <<portalVars, fetchVars, jobs, broken, faulty>>

\* The insert is due, and the key lets it pass.
Inserts(c) == phase[c] = "upsert" /\ ~found[c] /\ Free(c)

InsertItem(c) ==
  /\ Inserts(c)
  /\ jobs' = jobs \cup {Item(c)}
  /\ Count(c, "persisted")
  /\ UNCHANGED <<portalVars, fetchVars, broken, faulty>>

\* Mutant of Poisoned: every failure is taken to break the session.
PoisonedByAnything(c) == broken' = [d \in Call |-> TRUE]

Poisoned(c) == broken' = [broken EXCEPT ![c] = TRUE]

\* The except clause counts the item and goes on with a session that raises
\* from now on.
Swallowed(c) ==
  /\ Poisoned(c)
  /\ faulty' = [faulty EXCEPT ![c] = TRUE]
  /\ Count(c, "skipped")
  /\ UNCHANGED <<portalVars, fetchVars>>

\* The insert is refused, or the database fails before the commit or in the
\* refresh of a row that was there already.
ItemFails(c) ==
  /\ phase[c] \in {"store", "upsert"} /\ next[c] <= Len(fetched[c])
  /\ Swallowed(c)
  /\ UNCHANGED jobs

\* The new row is committed, then its refresh fails: ingestion counts it as
\* skipped.
InsertUnnoticed(c) ==
  /\ Inserts(c)
  /\ jobs' = jobs \cup {Item(c)}
  /\ Swallowed(c)

\* Deduplication (module Deduplication) is tried and its errors are logged; with
\* a broken session, the attributes of the source that the log and the result
\* read may raise, and the ingestion ends with an exception after all.
FinishIngestion(c) ==
  /\ phase[c] = "store" /\ next[c] > Len(fetched[c])
  /\ Goes(c, "done") \/ (broken[c] /\ Goes(c, "failed"))
  /\ UNCHANGED <<portalVars, fetchVars, storeVars>>

\* Cancelled, timed out or killed, possibly between a commit and its count.
LoseIngestion(c) ==
  /\ phase[c] \notin Ended \cup {"idle"}
  /\ EndFetch(c, "lost")
  /\ UNCHANGED jobs \/ (Inserts(c) /\ jobs' = jobs \cup {Item(c)})
  /\ UNCHANGED <<portalVars, fetched, next, found, broken, count, faulty>>

IngestionStep(c) ==
  \/ StartIngestion(c)
  \/ TransientError(c)
  \/ PermanentError(c)
  \/ \E n \in Answers(c) : ReceivePage(c, n)
  \/ FindItem(c)
  \/ UpdateItem(c)
  \/ InsertItem(c)
  \/ ItemFails(c)
  \/ InsertUnnoticed(c)
  \/ FinishIngestion(c)
  \/ LoseIngestion(c)

IngestionNext == ListChanges \/ \E c \in Call : IngestionStep(c)

IngestionSpec == IngestionInit /\ [][IngestionNext]_ingestionVars

-----------------------------------------------------------------------------

IngestionTypeOK ==
  /\ provider \in {"greenhouse", "lever", "workday"}
  /\ totals \in BOOLEAN
  /\ trims \in BOOLEAN
  /\ feed \in Seq(Posting)
  /\ changes \in 0..MaxRepublished
  /\ jobs \in SUBSET Posting
  /\ phase \in [Call -> {"idle", "fetch", "store", "upsert"} \cup Ended]
  /\ attempt \in [Call -> 0..(MaxRetries + 1)]
  /\ page \in [Call -> Nat]
  /\ offset \in [Call -> Nat]
  /\ fetched \in [Call -> Seq(Posting)]
  /\ next \in [Call -> Nat \ {0}]
  /\ found \in [Call -> BOOLEAN]
  /\ broken \in [Call -> BOOLEAN]
  /\ count \in [Call -> [persisted : Nat, updated : Nat, skipped : Nat]]
  /\ sent \in [Call -> Nat]
  /\ moved \in [Call -> BOOLEAN]
  /\ faulty \in [Call -> BOOLEAN]

\* Requests without their retries: one, MAX_PAGES, or one per posting below
\* MAX_OFFSET_LIMIT, should the portal answer with one at a time.
MostPages ==
  IF provider = "greenhouse" THEN 1 ELSE IF provider = "lever" THEN MaxPages ELSE MaxOffset

\* However the portal fails, cuts its pages short and changes its list, a fetch
\* sends no more requests than its limits and retries allow: 4, 200 or 20000.
RequestsBounded ==
  \A c \in Call : sent[c] <= (MaxRetries + 1) * MostPages

\* Lever takes a short page for the last one, Workday goes by the total.
Fits(list) ==
  \/ provider = "greenhouse"
  \/ provider = "lever" /\ ~trims /\ Len(list) <= PageLimit * MaxPages
  \/ provider = "workday" /\ totals /\ Len(list) <= MaxOffset

\* A list that does not change while it is fetched, and fits the limits, is
\* fetched whole, in order and without repetition, across page boundaries.
QuietListFetchedWhole ==
  [][\A c \in Call :
       phase[c] = "fetch" /\ phase'[c] = "store" /\ ~moved[c] /\ Fits(feed)
         => fetched'[c] = feed]_ingestionVars

\* Items counted as persisted by all ingestions together.
Persisted ==
  LET persisted == [c \in Call |-> count[c].persisted]
      P[S \in SUBSET Call] ==
        IF S = {} THEN 0
        ELSE LET c == CHOOSE c \in S : TRUE IN persisted[c] + P[S \ {c}]
  IN P[Call]

\* However ingestions overlap and the database fails, no row of the jobs table
\* was counted as persisted twice, and of the rows an ingestion inserted at most
\* one went uncounted: the one it was at when its session broke or it was lost.
RowsCountedOnce ==
  /\ Persisted <= Cardinality(jobs)
  /\ Cardinality(jobs) <= Persisted + Cardinality({c \in Call : faulty[c] \/ phase[c] = "lost"})

\* A posting is skipped only because JobCreate refuses it or because a statement
\* of this ingestion failed, before or at it; and what a finished ingestion
\* without such a failure did not skip is in the table.
SkipsExplained ==
  \A c \in Call :
    LET bad == {i \in 1..(next[c] - 1) : fetched[c][i] \in Malformed} IN
    ~faulty[c] =>
      /\ count[c].skipped = Cardinality(bad)
      /\ \A i \in 1..(next[c] - 1) : fetched[c][i] \in jobs \cup Malformed

=============================================================================

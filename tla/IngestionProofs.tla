--------------------------- MODULE IngestionProofs ---------------------------
(***************************************************************************)
(* Proofs about Ingestion: the invariant IngestionInv holds initially, and *)
(* every step of IngestionNext and every step that leaves ingestionVars    *)
(* alone keeps it.  It adds to the properties how many requests the pages  *)
(* before account for, that every page of Workday but the last advances    *)
(* its offset, that an undisturbed fetch has a prefix of the list, and how *)
(* far the loop over the items has come.  That the rows are counted once   *)
(* (CountedStep) needs besides that a broken session inserts nothing.      *)
(***************************************************************************)
EXTENDS Ingestion, SequenceTheorems, FiniteSetTheorems, WellFoundedInduction, TLAPS

\* A request sent belongs to a page begun, or is a retry of one; and a page begun
\* belongs to a posting received or to Lever's limit.
FetchInv ==
  \A c \in Call :
    IF phase[c] = "fetch"
    THEN /\ attempt[c] \in 1..(MaxRetries + 1)
         /\ page[c] \in 1..MostPages
         /\ provider = "workday" => page[c] - 1 <= offset[c] /\ offset[c] < MaxOffset
         /\ sent[c] <= (page[c] - 1) * (MaxRetries + 1) + attempt[c]
    ELSE sent[c] = 0 /\ offset[c] = 0 /\ moved[c] = FALSE

\* As long as the list stays as it was, a prefix of it has been fetched, in full
\* pages where a short one would be the last.
QuietInv ==
  \A c \in Call : phase[c] = "fetch" /\ moved[c] = FALSE =>
    /\ offset[c] \in 0..Len(feed)
    /\ fetched[c] = SubSeq(feed, 1, offset[c])
    /\ provider = "greenhouse" => offset[c] = 0
    /\ provider = "lever" /\ trims = FALSE => offset[c] = PageLimit * (page[c] - 1)

\* The items before next are dealt with, and the one in hand is good.
StoreInv ==
  \A c \in Call :
    /\ phase[c] = "idle" => fetched[c] = <<>>
    /\ phase[c] \in {"idle", "fetch"} => next[c] = 1 /\ count[c].skipped = 0
    /\ next[c] <= Len(fetched[c]) + 1
    /\ phase[c] = "upsert" =>
         /\ next[c] <= Len(fetched[c])
         /\ Item(c) \notin Malformed
         /\ found[c] = TRUE => Item(c) \in jobs
         /\ broken[c] = FALSE
    /\ broken[c] = faulty[c]

IngestionInv == IngestionTypeOK /\ FetchInv /\ QuietInv /\ StoreInv /\ SkipsExplained

-----------------------------------------------------------------------------

LEMMA ListsAreSequences == \A l \in Lists : l \in Seq(Posting)
BY DEF Lists

\* Attempts of the pages before and of the present one.
LEMMA RequestArithmetic ==
  ASSUME NEW retries \in Nat, NEW pages \in Nat \ {0},
         NEW p \in 1..pages, NEW a \in 1..(retries + 1)
  PROVE  (p - 1) * (retries + 1) + a <= (retries + 1) * pages
<1>1. (p - 1) * (retries + 1) <= (pages - 1) * (retries + 1)
  OBVIOUS
<1>2. (pages - 1) * (retries + 1) + (retries + 1) = (retries + 1) * pages
  OBVIOUS
<1>3. QED
  BY <1>1, <1>2

LEMMA NextPageArithmetic ==
  ASSUME NEW n \in Nat, NEW p \in Nat \ {0}
  PROVE  /\ (p - 1) * n + n = ((p + 1) - 1) * n
         /\ n * (p - 1) + n = n * p
         /\ n * (p - 1) + n = n * ((p + 1) - 1)
OBVIOUS

\* There is at least one page to a fetch.
LEMMA PagesAreSome == MostPages \in Nat \ {0}
BY IngestionAssumption DEF MostPages

LEMMA IngestionInvInit == IngestionInit => IngestionInv
<1> SUFFICES ASSUME IngestionInit PROVE IngestionInv
  OBVIOUS
<1> USE DEF IngestionInit
<1>1. IngestionTypeOK
  BY IngestionAssumption, ListsAreSequences DEF IngestionTypeOK, Ended
<1>2. FetchInv /\ QuietInv
  BY DEF FetchInv, QuietInv
<1>3. StoreInv
  BY DEF StoreInv
<1>4. SkipsExplained
  <2>1. ASSUME NEW c \in Call
        PROVE  {i \in 1..(next[c] - 1) : fetched[c][i] \in Malformed} = {}
    OBVIOUS
  <2>2. QED
    BY <2>1, FS_EmptySet DEF SkipsExplained
<1>5. QED
  BY <1>1, <1>2, <1>3, <1>4 DEF IngestionInv

\* A step of another component.
LEMMA IngestionInvStutter == IngestionInv /\ UNCHANGED ingestionVars => IngestionInv'
<1> SUFFICES ASSUME IngestionInv, UNCHANGED ingestionVars PROVE IngestionInv'
  OBVIOUS
<1> USE DEF IngestionInv, ingestionVars, portalVars, fetchVars, storeVars
<1>1. IngestionTypeOK'
  BY DEF IngestionTypeOK
<1>2. FetchInv' /\ QuietInv'
  <2>1. MostPages' = MostPages
    BY DEF MostPages
  <2>2. FetchInv'
    BY <2>1 DEF FetchInv
  <2>3. QuietInv'
    BY DEF QuietInv
  <2>4. QED
    BY <2>2, <2>3
<1>3. StoreInv'
  BY DEF StoreInv, Item
<1>4. SkipsExplained'
  BY DEF SkipsExplained
<1>5. QED
  BY <1>1, <1>2, <1>3, <1>4

\* The properties that are parts of, or follow from, the invariant.
LEMMA RequestsFollow == IngestionInv => RequestsBounded
<1> SUFFICES ASSUME IngestionInv, NEW c \in Call
             PROVE  sent[c] <= (MaxRetries + 1) * MostPages
  BY DEF RequestsBounded
<1> USE IngestionAssumption DEF IngestionInv
<1>1. CASE phase[c] = "fetch"
  <2>1. /\ attempt[c] \in 1..(MaxRetries + 1)
        /\ page[c] \in 1..MostPages
        /\ sent[c] <= (page[c] - 1) * (MaxRetries + 1) + attempt[c]
        /\ sent[c] \in Nat
    BY <1>1 DEF FetchInv, IngestionTypeOK
  <2>2. (page[c] - 1) * (MaxRetries + 1) + attempt[c] <= (MaxRetries + 1) * MostPages
    BY <2>1, PagesAreSome, RequestArithmetic
  <2> DEFINE before == (page[c] - 1) * (MaxRetries + 1)
             most == (MaxRetries + 1) * MostPages
  <2>3. before \in Int /\ most \in Int /\ attempt[c] \in Int
    BY <2>1, PagesAreSome
  <2> HIDE DEF before, most
  <2>4. sent[c] <= before + attempt[c] /\ before + attempt[c] <= most
    BY <2>1, <2>2 DEF before, most
  <2>5. sent[c] <= most
    BY <2>1, <2>3, <2>4
  <2>6. QED
    BY <2>5 DEF most
<1>2. CASE phase[c] # "fetch"
  <2>1. sent[c] = 0 /\ MaxRetries + 1 \in Nat \ {0} /\ MostPages \in Nat \ {0}
    BY <1>2, PagesAreSome DEF FetchInv
  <2>2. 1 \in 1..MostPages /\ 1 \in 1..(MaxRetries + 1)
    BY <2>1
  <2>3. (1 - 1) * (MaxRetries + 1) + 1 <= (MaxRetries + 1) * MostPages
    BY <2>1, <2>2, RequestArithmetic
  <2>4. (1 - 1) * (MaxRetries + 1) = 0
    BY <2>1
  <2> DEFINE most == (MaxRetries + 1) * MostPages
  <2>5. most \in Int
    BY <2>1
  <2> HIDE DEF most
  <2>6. 0 <= most
    BY <2>3, <2>4, <2>5 DEF most
  <2>7. QED
    BY <2>1, <2>6 DEF most
<1>3. QED
  BY <1>1, <1>2

-----------------------------------------------------------------------------
(* Types                                                                   *)

LEMMA EndFetchTypes ==
  ASSUME IngestionTypeOK, NEW c \in Call, NEW where \in {"store"} \cup Ended, EndFetch(c, where),
         fetched' \in [Call -> Seq(Posting)], jobs' \in SUBSET Posting,
         UNCHANGED <<portalVars, next, found, broken, count, faulty>>
  PROVE  IngestionTypeOK'
<1>1. /\ phase' \in [Call -> {"idle", "fetch", "store", "upsert"} \cup Ended]
      /\ attempt' \in [Call -> 0..(MaxRetries + 1)]
      /\ page' \in [Call -> Nat]
      /\ offset' \in [Call -> Nat]
  BY IngestionAssumption DEF IngestionTypeOK, EndFetch, Goes
<1>2. sent' \in [Call -> Nat] /\ moved' \in [Call -> BOOLEAN]
  BY DEF IngestionTypeOK, EndFetch
<1>3. QED
  BY <1>1, <1>2 DEF IngestionTypeOK, portalVars

LEMMA CountTypes ==
  ASSUME IngestionTypeOK, NEW c \in Call, NEW counter \in {"persisted", "updated", "skipped"},
         Count(c, counter), jobs' \in SUBSET Posting,
         broken' \in [Call -> BOOLEAN], faulty' \in [Call -> BOOLEAN],
         UNCHANGED <<portalVars, fetchVars>>
  PROVE  IngestionTypeOK'
<1>1. count' \in [Call -> [persisted : Nat, updated : Nat, skipped : Nat]]
  BY SMTT(30) DEF IngestionTypeOK, Count
<1>2. phase' \in [Call -> {"idle", "fetch", "store", "upsert"} \cup Ended]
  BY DEF IngestionTypeOK, Count, Goes
<1>3. next' \in [Call -> Nat \ {0}] /\ found' \in [Call -> BOOLEAN]
  BY DEF IngestionTypeOK, Count
<1>4. QED
  BY <1>1, <1>2, <1>3 DEF IngestionTypeOK, portalVars, fetchVars

\* A page is a part of the list.
LEMMA PageProperties ==
  ASSUME IngestionTypeOK, NEW c \in Call, NEW n \in Answers(c)
  PROVE  /\ n \in Nat
         /\ Page(c, n) \in Seq(Posting)
         /\ Len(Page(c, n)) = n
         /\ provider # "greenhouse" =>
              /\ Page(c, n) = SubSeq(feed, offset[c] + 1, offset[c] + n)
              /\ n <= PageLimit
              /\ offset[c] <= Len(feed) => offset[c] + n <= Len(feed)
              /\ n = 0 => offset[c] >= Len(feed)
              /\ trims = FALSE => n = Least(PageLimit, Rest(c))
<1> USE IngestionAssumption
<1>1. /\ feed \in Seq(Posting) /\ offset[c] \in Nat /\ Len(feed) \in Nat
      /\ trims \in BOOLEAN
  BY DEF IngestionTypeOK
<1>2. CASE provider = "greenhouse"
  BY <1>1, <1>2 DEF Answers, Page
<1>3. CASE provider # "greenhouse"
  <2> DEFINE full == Least(PageLimit, Rest(c))
  <2>1. Rest(c) \in Nat /\ (Rest(c) = 0 => offset[c] >= Len(feed))
        /\ (Rest(c) > 0 => offset[c] + Rest(c) = Len(feed))
    BY <1>1 DEF Rest
  <2>2. full \in Nat /\ full <= PageLimit /\ full <= Rest(c) /\ (full = 0 => Rest(c) = 0)
    BY <2>1 DEF Least
  <2> HIDE DEF full
  <2>3. n \in Nat /\ n <= full /\ (n = 0 => full = 0) /\ (trims = FALSE => n = full)
    BY <1>1, <1>3, <2>2 DEF Answers, full
  <2>4. n <= Rest(c) /\ (n = 0 => Rest(c) = 0)
    BY <2>1, <2>2, <2>3
  <2>5. n = 0 \/ offset[c] + n <= Len(feed)
    BY <1>1, <2>1, <2>3, <2>4
  <2>6. \A i \in (offset[c] + 1)..(offset[c] + n) : feed[i] \in Posting
    BY <1>1, <2>3, <2>5
  <2>7. /\ SubSeq(feed, offset[c] + 1, offset[c] + n) \in Seq(Posting)
        /\ Len(SubSeq(feed, offset[c] + 1, offset[c] + n)) = n
    <3>1. offset[c] + 1 \in Int /\ offset[c] + n \in Int
      BY <1>1, <2>3
    <3>2. IF offset[c] + 1 <= offset[c] + n
          THEN (offset[c] + n) - (offset[c] + 1) + 1 = n ELSE 0 = n
      BY <1>1, <2>3
    <3>3. QED
      BY <1>1, <2>6, <3>1, <3>2, SubSeqProperties
  <2>8. Page(c, n) = SubSeq(feed, offset[c] + 1, offset[c] + n)
    BY <1>3 DEF Page
  <2>9. n <= PageLimit /\ (n = 0 => offset[c] >= Len(feed))
         /\ (offset[c] <= Len(feed) => offset[c] + n <= Len(feed))
    BY <1>1, <2>1, <2>2, <2>3, <2>4, <2>5
  <2>10. QED
    BY <1>3, <2>3, <2>7, <2>8, <2>9 DEF full
<1>4. QED
  BY <1>2, <1>3

\* What a transient error does, whichever of the three paths it takes.
Repeated(c) ==
  /\ attempt[c] <= MaxRetries
  /\ attempt' = [attempt EXCEPT ![c] = @ + 1]
  /\ sent' = [sent EXCEPT ![c] = @ + 1]
  /\ UNCHANGED <<phase, page, offset, fetched, moved>>

GivenUp(c) == EndFetch(c, "failed") /\ fetched' = [fetched EXCEPT ![c] = <<>>]

LEMMA TransientCases ==
  ASSUME NEW c \in Call, TransientError(c)
  PROVE  /\ phase[c] = "fetch" /\ UNCHANGED <<portalVars, storeVars>>
         /\ Repeated(c) \/ GivenUp(c)
BY DEF TransientError, RepeatOrRaise, StatusRetries, TimeoutRetries, NetworkRetries, Repeated, GivenUp

LEMMA IngestionTypeStep ==
  IngestionTypeOK /\ FetchInv /\ StoreInv /\ IngestionNext => IngestionTypeOK'
<1> SUFFICES ASSUME IngestionTypeOK, FetchInv, StoreInv, IngestionNext PROVE IngestionTypeOK'
  OBVIOUS
<1> USE IngestionAssumption
<1>1. CASE ListChanges
  BY <1>1, ListsAreSequences DEF ListChanges, IngestionTypeOK, storeVars
<1>2. ASSUME NEW c \in Call, IngestionStep(c) PROVE IngestionTypeOK'
  <2>1. CASE StartIngestion(c)
    <3>1. 1 \in 0..(MaxRetries + 1) /\ 1 \in Nat
      OBVIOUS
    <3>2. /\ attempt' \in [Call -> 0..(MaxRetries + 1)] /\ page' \in [Call -> Nat]
          /\ sent' \in [Call -> Nat]
      BY <2>1, <3>1 DEF StartIngestion, IngestionTypeOK
    <3>3. phase' \in [Call -> {"idle", "fetch", "store", "upsert"} \cup Ended]
      BY <2>1 DEF StartIngestion, Goes, IngestionTypeOK
    <3>4. QED
      BY <2>1, <3>2, <3>3 DEF StartIngestion, IngestionTypeOK, portalVars, storeVars
  <2>2. CASE TransientError(c)
    <3>1. CASE Repeated(c)
      <4>1. attempt[c] + 1 \in 0..(MaxRetries + 1)
        BY <3>1 DEF Repeated, IngestionTypeOK
      <4>2. attempt' \in [Call -> 0..(MaxRetries + 1)] /\ sent' \in [Call -> Nat]
        BY <3>1, <4>1 DEF Repeated, IngestionTypeOK
      <4>3. QED
        BY <2>2, <3>1, <4>2, TransientCases DEF Repeated, IngestionTypeOK, portalVars, storeVars
    <3>2. CASE GivenUp(c)
      <4>1. fetched' \in [Call -> Seq(Posting)]
        BY <3>2 DEF GivenUp, IngestionTypeOK
      <4>2. QED
        BY <2>2, <3>2, <4>1, TransientCases, EndFetchTypes
        DEF GivenUp, Ended, IngestionTypeOK, storeVars
    <3>3. QED
      BY <2>2, <3>1, <3>2, TransientCases
  <2>3. CASE PermanentError(c)
    <3>1. fetched' \in [Call -> Seq(Posting)]
      BY <2>3 DEF PermanentError, IngestionTypeOK
    <3>2. QED
      BY <2>3, <3>1, EndFetchTypes DEF PermanentError, Ended, IngestionTypeOK, storeVars
  <2>4. ASSUME NEW n \in Answers(c), ReceivePage(c, n) PROVE IngestionTypeOK'
    <3>1. Page(c, n) \in Seq(Posting) /\ n \in Nat
      BY PageProperties
    <3>2. fetched' \in [Call -> Seq(Posting)]
      BY <2>4, <3>1 DEF ReceivePage, IngestionTypeOK
    <3>3. CASE LastPage(c, n)
      BY <2>4, <3>2, <3>3, EndFetchTypes DEF ReceivePage, IngestionTypeOK, storeVars
    <3>4. CASE ~LastPage(c, n)
      <4>1. /\ page' = [page EXCEPT ![c] = @ + 1] /\ sent' = [sent EXCEPT ![c] = @ + 1]
            /\ offset' = [offset EXCEPT ![c] = @ + n]
            /\ attempt' = [attempt EXCEPT ![c] = 1]
            /\ UNCHANGED <<phase, moved, portalVars, storeVars>>
        BY <2>4, <3>4 DEF ReceivePage
      <4>2. 1 \in 0..(MaxRetries + 1)
        OBVIOUS
      <4>3. page' \in [Call -> Nat] /\ attempt' \in [Call -> 0..(MaxRetries + 1)]
        BY <4>1, <4>2 DEF IngestionTypeOK
      <4>4. offset' \in [Call -> Nat] /\ sent' \in [Call -> Nat]
        BY <3>1, <4>1, SMTT(30) DEF IngestionTypeOK
      <4>5. QED
        BY <3>2, <4>1, <4>3, <4>4 DEF IngestionTypeOK, portalVars, storeVars
    <3>5. QED
      BY <3>3, <3>4
  <2>5. CASE FindItem(c)
    <3>1. CASE Item(c) \in Malformed \/ broken[c]
      BY <2>5, <3>1, CountTypes DEF FindItem, IngestionTypeOK
    <3>2. CASE ~(Item(c) \in Malformed \/ broken[c])
      <4>1. found' = [found EXCEPT ![c] = Item(c) \in jobs]
        BY <2>5, <3>2 DEF FindItem
      <4>2. found' \in [Call -> BOOLEAN]
        <5> DEFINE known == Item(c) \in jobs
        <5>1. known \in BOOLEAN
          BY SMT
        <5>2. found' = [found EXCEPT ![c] = known]
          BY <4>1
        <5> HIDE DEF known
        <5>3. [found EXCEPT ![c] = known] \in [Call -> BOOLEAN]
          BY <5>1 DEF IngestionTypeOK
        <5>4. QED
          BY <5>2, <5>3
      <4>3. phase' \in [Call -> {"idle", "fetch", "store", "upsert"} \cup Ended]
        BY <2>5, <3>2 DEF FindItem, Goes, IngestionTypeOK
      <4>4. UNCHANGED <<portalVars, fetchVars, jobs, next, broken, count, faulty>>
        BY <2>5, <3>2 DEF FindItem
      <4>5. QED
        BY <4>2, <4>3, <4>4 DEF IngestionTypeOK, portalVars, fetchVars
    <3>3. QED
      BY <3>1, <3>2
  <2>6. CASE UpdateItem(c)
    BY <2>6, CountTypes DEF UpdateItem, IngestionTypeOK
  <2>7. CASE InsertItem(c)
    <3>1. Item(c) \in Posting
      BY <2>7 DEF InsertItem, Inserts, StoreInv, Item, IngestionTypeOK
    <3>2. QED
      BY <2>7, <3>1, CountTypes DEF InsertItem, IngestionTypeOK
  <2>8. CASE ItemFails(c)
    BY <2>8, CountTypes DEF ItemFails, Swallowed, Poisoned, IngestionTypeOK
  <2>9. CASE InsertUnnoticed(c)
    <3>1. Item(c) \in Posting
      BY <2>9 DEF InsertUnnoticed, Inserts, StoreInv, Item, IngestionTypeOK
    <3>2. QED
      BY <2>9, <3>1, CountTypes DEF InsertUnnoticed, Swallowed, Poisoned, IngestionTypeOK
  <2>10. CASE FinishIngestion(c)
    BY <2>10 DEF FinishIngestion, Goes, IngestionTypeOK, portalVars, fetchVars, storeVars, Ended
  <2>11. CASE LoseIngestion(c)
    <3>1. jobs' \in SUBSET Posting
      <4>1. Inserts(c) => Item(c) \in Posting
        BY DEF Inserts, StoreInv, Item, IngestionTypeOK
      <4>2. jobs' = jobs \/ (Inserts(c) /\ jobs' = jobs \cup {Item(c)})
        BY <2>11 DEF LoseIngestion
      <4>3. QED
        BY <4>1, <4>2 DEF IngestionTypeOK
    <3>2. QED
      BY <2>11, <3>1, EndFetchTypes DEF LoseIngestion, IngestionTypeOK, Ended
  <2>12. QED
    BY <1>2, <2>1, <2>2, <2>3, <2>4, <2>5, <2>6, <2>7, <2>8, <2>10, <2>11, <2>9 DEF IngestionStep
<1>3. QED
  BY <1>1, <1>2 DEF IngestionNext

-----------------------------------------------------------------------------
(* What a step of one ingestion leaves to the others                       *)

\* Everything a call has, except what the table of jobs gains.
LeftAlone(c) ==
  /\ phase'[c] = phase[c] /\ attempt'[c] = attempt[c] /\ page'[c] = page[c]
  /\ offset'[c] = offset[c] /\ fetched'[c] = fetched[c] /\ sent'[c] = sent[c]
  /\ moved'[c] = moved[c] /\ next'[c] = next[c] /\ found'[c] = found[c]
  /\ broken'[c] = broken[c] /\ faulty'[c] = faulty[c] /\ count'[c] = count[c]

LEMMA OthersLeftAlone ==
  ASSUME IngestionTypeOK, NEW d \in Call, IngestionStep(d)
  PROVE  /\ \A c \in Call \ {d} : LeftAlone(c)
         /\ jobs \subseteq jobs'
         /\ UNCHANGED portalVars
<1> USE DEF IngestionTypeOK, LeftAlone, Goes, portalVars, fetchVars, storeVars
<1>1. CASE StartIngestion(d)
  BY <1>1 DEF StartIngestion
<1>2. CASE TransientError(d)
  <2>1. UNCHANGED <<portalVars, storeVars>>
    BY <1>2, TransientCases
  <2>2. CASE Repeated(d)
    BY <2>1, <2>2 DEF Repeated
  <2>3. CASE GivenUp(d)
    BY <2>1, <2>3 DEF GivenUp, EndFetch
  <2>4. QED
    BY <1>2, <2>2, <2>3, TransientCases
<1>3. CASE PermanentError(d)
  BY <1>3 DEF PermanentError, EndFetch
<1>4. CASE \E n \in Answers(d) : ReceivePage(d, n)
  BY <1>4, SMTT(30) DEF ReceivePage, EndFetch
<1>5. CASE FindItem(d)
  BY <1>5 DEF FindItem, Count
<1>6. CASE UpdateItem(d)
  BY <1>6 DEF UpdateItem, Count
<1>7. CASE InsertItem(d)
  BY <1>7 DEF InsertItem, Count
<1>8. CASE ItemFails(d) \/ InsertUnnoticed(d)
  BY <1>8 DEF ItemFails, InsertUnnoticed, Swallowed, Count, Poisoned
<1>9. CASE FinishIngestion(d)
  BY <1>9 DEF FinishIngestion
<1>10. CASE LoseIngestion(d)
  BY <1>10 DEF LoseIngestion, EndFetch
<1>11. QED
  BY <1>1, <1>2, <1>3, <1>4, <1>5, <1>6, <1>7, <1>8, <1>9, <1>10 DEF IngestionStep

\* The steps that store leave the fetch alone and stay out of its phase.
LEMMA StoringStays ==
  ASSUME IngestionTypeOK, NEW c \in Call,
         \/ FindItem(c) \/ UpdateItem(c) \/ InsertItem(c)
         \/ ItemFails(c) \/ InsertUnnoticed(c) \/ FinishIngestion(c)
  PROVE  /\ phase[c] \in {"store", "upsert"}
         /\ phase'[c] \in {"store", "upsert", "done", "failed"}
         /\ UNCHANGED <<portalVars, fetchVars>>
BY DEF IngestionTypeOK, FindItem, UpdateItem, InsertItem, Inserts, ItemFails, InsertUnnoticed,
       Swallowed, FinishIngestion, Count, Goes, storeVars, fetchVars, portalVars

\* The steps that end a fetch.
LEMMA FetchEnds ==
  ASSUME IngestionTypeOK, NEW c \in Call,
         \/ GivenUp(c)
         \/ PermanentError(c)
         \/ \E n \in Answers(c) : ReceivePage(c, n) /\ LastPage(c, n)
         \/ LoseIngestion(c)
  PROVE  /\ phase'[c] \in {"store"} \cup Ended /\ phase'[c] # "fetch"
         /\ sent'[c] = 0 /\ offset'[c] = 0 /\ moved'[c] = FALSE
<1>1. EndFetch(c, "failed") \/ EndFetch(c, "store") \/ EndFetch(c, "lost")
  BY DEF GivenUp, PermanentError, ReceivePage, LoseIngestion
<1>2. QED
  BY <1>1 DEF Ended, EndFetch, Goes, IngestionTypeOK

-----------------------------------------------------------------------------
(* Fetching                                                                *)

LEMMA FetchStep == IngestionInv /\ IngestionNext => FetchInv'
<1> SUFFICES ASSUME IngestionInv, IngestionNext PROVE FetchInv'
  OBVIOUS
<1> USE IngestionAssumption DEF IngestionInv
<1>1. CASE ListChanges
  BY <1>1 DEF ListChanges, FetchInv, MostPages, storeVars, IngestionTypeOK
<1>2. ASSUME NEW d \in Call, IngestionStep(d) PROVE FetchInv'
  <2>0. provider' = provider
    BY <1>2, OthersLeftAlone DEF portalVars
  <2> SUFFICES ASSUME NEW c \in Call
      PROVE  IF phase'[c] = "fetch"
             THEN /\ attempt'[c] \in 1..(MaxRetries + 1)
                  /\ page'[c] \in 1..MostPages
                  /\ provider = "workday" => page'[c] - 1 <= offset'[c] /\ offset'[c] < MaxOffset
                  /\ sent'[c] <= (page'[c] - 1) * (MaxRetries + 1) + attempt'[c]
             ELSE sent'[c] = 0 /\ offset'[c] = 0 /\ moved'[c] = FALSE
    BY <2>0 DEF FetchInv, MostPages
  <2>1. CASE c # d
    BY <1>2, <2>1, OthersLeftAlone DEF LeftAlone, FetchInv
  <2>2. CASE c = d
    <3>1. CASE StartIngestion(c)
      <4>1. /\ phase[c] = "idle" /\ page'[c] = 1 /\ offset'[c] = offset[c] /\ attempt'[c] = 1
            /\ sent'[c] = 1 /\ phase'[c] = "fetch"
        BY <3>1 DEF StartIngestion, Goes, IngestionTypeOK
      <4>2. offset[c] = 0
        BY <4>1 DEF FetchInv
      <4>3. QED
        BY <4>1, <4>2, PagesAreSome
    <3>2. CASE TransientError(c)
      <4>1. CASE Repeated(c)
        <5>1. /\ phase[c] = "fetch" /\ phase'[c] = "fetch" /\ page'[c] = page[c]
              /\ offset'[c] = offset[c]
              /\ attempt'[c] = attempt[c] + 1 /\ sent'[c] = sent[c] + 1
          BY <3>2, <4>1, TransientCases DEF Repeated, IngestionTypeOK
        <5>2. /\ attempt[c] \in 1..(MaxRetries + 1) /\ page[c] \in 1..MostPages
              /\ provider = "workday" => page[c] - 1 <= offset[c] /\ offset[c] < MaxOffset
              /\ sent[c] <= (page[c] - 1) * (MaxRetries + 1) + attempt[c]
          BY <5>1 DEF FetchInv
        <5>3. attempt[c] <= MaxRetries
          BY <4>1 DEF Repeated
        <5>4. attempt[c] + 1 \in 1..(MaxRetries + 1)
          BY <5>2, <5>3
        <5>5. sent[c] \in Nat
          BY DEF IngestionTypeOK
        <5> DEFINE before == (page[c] - 1) * (MaxRetries + 1)
        <5>6. before \in Int
          BY <5>2
        <5> HIDE DEF before
        <5>7. sent[c] + 1 <= before + (attempt[c] + 1)
          BY <5>2, <5>5, <5>6 DEF before
        <5>8. QED
          BY <5>1, <5>2, <5>4, <5>7 DEF before
      <4>2. CASE GivenUp(c)
        BY <4>2, FetchEnds
      <4>3. QED
        BY <3>2, <4>1, <4>2, TransientCases
    <3>3. CASE PermanentError(c)
      BY <3>3, FetchEnds
    <3>4. CASE \E n \in Answers(c) : ReceivePage(c, n)
      <4> PICK n \in Answers(c) : ReceivePage(c, n)
        BY <3>4
      <4>1. CASE LastPage(c, n)
        BY <4>1, FetchEnds
      <4>2. CASE ~LastPage(c, n)
        <5>1. /\ phase'[c] = "fetch" /\ page'[c] = page[c] + 1 /\ offset'[c] = offset[c] + n
              /\ attempt'[c] = 1 /\ sent'[c] = sent[c] + 1
          BY <4>2 DEF ReceivePage, IngestionTypeOK
        <5>2. /\ attempt[c] \in 1..(MaxRetries + 1) /\ page[c] \in 1..MostPages
              /\ provider = "workday" => page[c] - 1 <= offset[c] /\ offset[c] < MaxOffset
              /\ sent[c] <= (page[c] - 1) * (MaxRetries + 1) + attempt[c]
          BY DEF ReceivePage, FetchInv
        <5>3. /\ page[c] + 1 \in 1..MostPages
              /\ provider = "workday" => page[c] <= offset[c] + n /\ offset[c] + n < MaxOffset
          <6>1. n \in Nat /\ offset[c] \in Nat
            BY PageProperties DEF IngestionTypeOK
          <6>2. CASE provider = "lever"
            <7>1. page[c] # MaxPages
              BY <4>2, <6>2 DEF LastPage
            <7>2. MostPages = MaxPages /\ provider # "workday"
              BY <6>2 DEF MostPages
            <7>3. page[c] \in 1..MaxPages
              BY <5>2, <7>2
            <7>4. page[c] + 1 \in 1..MaxPages
              BY <7>1, <7>3
            <7>5. QED
              BY <7>2, <7>4
          <6>3. CASE provider = "workday"
            <7>1. n # 0 /\ ~(offset[c] + n >= MaxOffset)
              BY <4>2, <6>3 DEF LastPage
            <7>2. page[c] <= offset[c] + n /\ offset[c] + n < MaxOffset
              BY <5>2, <6>1, <6>3, <7>1
            <7>3. QED
              BY <5>2, <6>1, <6>3, <7>2 DEF MostPages
          <6>4. QED
            BY <4>2, <6>2, <6>3 DEF LastPage, IngestionTypeOK
        <5>4. sent[c] \in Nat
          BY DEF IngestionTypeOK
        <5> DEFINE before == (page[c] - 1) * (MaxRetries + 1)
        <5>5. before \in Int
          BY <5>2
        <5>6. before + (MaxRetries + 1) = ((page[c] + 1) - 1) * (MaxRetries + 1)
          BY <5>2, NextPageArithmetic
        <5> HIDE DEF before
        <5>7. sent[c] + 1 <= before + (MaxRetries + 1) + 1
          BY <5>2, <5>4, <5>5 DEF before
        <5>8. QED
          BY <5>1, <5>2, <5>3, <5>6, <5>7
      <4>3. QED
        BY <4>1, <4>2
    <3>5. CASE \/ FindItem(c) \/ UpdateItem(c) \/ InsertItem(c)
               \/ ItemFails(c) \/ InsertUnnoticed(c) \/ FinishIngestion(c)
      BY <3>5, StoringStays DEF FetchInv, fetchVars
    <3>6. CASE LoseIngestion(c)
      BY <3>6, FetchEnds
    <3>7. QED
      BY <1>2, <2>2, <3>1, <3>2, <3>3, <3>4, <3>5, <3>6 DEF IngestionStep
  <2>3. QED
    BY <2>1, <2>2
<1>3. QED
  BY <1>1, <1>2 DEF IngestionNext

\* What a page adds to the part of an undisturbed list fetched before it.
LEMMA PageAppended ==
  ASSUME IngestionInv, NEW c \in Call, phase[c] = "fetch", moved[c] = FALSE,
         provider # "greenhouse", NEW n \in Answers(c)
  PROVE  /\ n \in Nat /\ offset[c] + n \in 0..Len(feed)
         /\ fetched[c] \o Page(c, n) = SubSeq(feed, 1, offset[c] + n)
<1> DEFINE k == offset[c]
<1>1. feed \in Seq(Posting) /\ k \in 0..Len(feed) /\ fetched[c] = SubSeq(feed, 1, k)
  BY DEF IngestionInv, QuietInv, IngestionTypeOK
<1>2. n \in Nat /\ Page(c, n) = SubSeq(feed, k + 1, k + n) /\ k + n <= Len(feed)
  <2>1. IngestionTypeOK /\ k <= Len(feed)
    BY <1>1 DEF IngestionInv
  <2>2. QED
    BY <2>1, PageProperties
<1>3. Len(feed) \in Nat
  BY <1>1
<1> HIDE DEF k
<1>4. 1 \in 1..(Len(feed) + 1) /\ k \in (1 - 1)..Len(feed) /\ k + n \in k..Len(feed)
  BY <1>1, <1>2, <1>3
<1>5. SubSeq(feed, 1, k) \o SubSeq(feed, k + 1, k + n) = SubSeq(feed, 1, k + n)
  BY <1>1, <1>4, ConcatAdjacentSubSeq
<1>6. k + n \in 0..Len(feed)
  BY <1>1, <1>2, <1>3
<1>7. QED
  BY <1>1, <1>2, <1>5, <1>6 DEF k

LEMMA UndisturbedStep == IngestionInv /\ IngestionNext => QuietInv'
<1> SUFFICES ASSUME IngestionInv, IngestionNext PROVE QuietInv'
  OBVIOUS
<1>1. CASE ListChanges
  <2>1. ASSUME NEW c \in Call, phase'[c] = "fetch" PROVE moved'[c] # FALSE
    BY <1>1, <2>1 DEF ListChanges
  <2>2. QED
    BY <2>1 DEF QuietInv
<1>2. ASSUME NEW d \in Call, IngestionStep(d) PROVE QuietInv'
  <2>0. IngestionTypeOK /\ feed' = feed /\ provider' = provider /\ trims' = trims
    BY <1>2, OthersLeftAlone DEF portalVars, IngestionInv
  <2> SUFFICES ASSUME NEW c \in Call, phase'[c] = "fetch", moved'[c] = FALSE
      PROVE  /\ offset'[c] \in 0..Len(feed')
             /\ fetched'[c] = SubSeq(feed', 1, offset'[c])
             /\ provider = "greenhouse" => offset'[c] = 0
             /\ provider = "lever" /\ trims = FALSE => offset'[c] = PageLimit * (page'[c] - 1)
    BY <2>0 DEF QuietInv
  <2>1. CASE c # d
    BY <1>2, <2>0, <2>1, OthersLeftAlone DEF LeftAlone, QuietInv, IngestionInv
  <2>2. CASE c = d
    <3>1. CASE StartIngestion(c)
      <4>1. /\ phase[c] = "idle" /\ page'[c] = 1 /\ offset'[c] = offset[c]
            /\ fetched'[c] = fetched[c]
        BY <2>0, <3>1 DEF StartIngestion, IngestionTypeOK
      <4>2. offset[c] = 0 /\ fetched[c] = <<>>
        BY <4>1 DEF IngestionInv, FetchInv, StoreInv
      <4>3. SubSeq(feed, 1, 0) = <<>> /\ Len(feed) \in Nat
        BY <2>0 DEF IngestionTypeOK
      <4>4. PageLimit * (1 - 1) = 0
        BY IngestionAssumption
      <4>5. QED
        BY <2>0, <4>1, <4>2, <4>3, <4>4
    <3>2. CASE TransientError(c)
      <4>1. phase[c] = "fetch" /\ ~GivenUp(c)
        BY <2>0, <3>2, FetchEnds, TransientCases
      <4>2. /\ page'[c] = page[c] /\ offset'[c] = offset[c]
            /\ fetched'[c] = fetched[c] /\ moved'[c] = moved[c]
        BY <3>2, <4>1, TransientCases DEF Repeated
      <4>3. QED
        BY <2>0, <4>1, <4>2 DEF QuietInv, IngestionInv
    <3>3. CASE PermanentError(c)
      BY <2>0, <3>3, FetchEnds
    <3>4. CASE \E n \in Answers(c) : ReceivePage(c, n)
      <4> PICK n \in Answers(c) : ReceivePage(c, n)
        BY <3>4
      <4>1. ~LastPage(c, n)
        BY <2>0, FetchEnds
      <4>2. /\ phase[c] = "fetch" /\ moved[c] = FALSE /\ provider # "greenhouse"
            /\ page'[c] = page[c] + 1 /\ offset'[c] = offset[c] + n
            /\ fetched'[c] = fetched[c] \o Page(c, n)
        BY <2>0, <4>1 DEF ReceivePage, LastPage, IngestionTypeOK
      <4>3. offset'[c] \in 0..Len(feed) /\ fetched'[c] = SubSeq(feed, 1, offset'[c])
        BY <4>2, PageAppended
      <4>4. ASSUME provider = "lever", trims = FALSE
            PROVE  offset'[c] = PageLimit * (page'[c] - 1)
        <5>1. offset[c] = PageLimit * (page[c] - 1) /\ page[c] \in Nat \ {0}
          BY <4>2, <4>4, PagesAreSome DEF QuietInv, FetchInv, IngestionInv
        <5>2. n = PageLimit
          <6>1. n \in Nat /\ n <= PageLimit
            BY <2>0, <4>2, PageProperties
          <6>2. ~(n < PageLimit)
            BY <4>1, <4>4 DEF LastPage
          <6>3. QED
            BY <6>1, <6>2, IngestionAssumption
        <5>3. PageLimit * (page[c] - 1) + PageLimit = PageLimit * ((page[c] + 1) - 1)
          BY <5>1, NextPageArithmetic, IngestionAssumption
        <5>4. QED
          BY <4>2, <5>1, <5>2, <5>3
      <4>5. QED
        BY <2>0, <4>2, <4>3, <4>4
    <3>5. CASE \/ FindItem(c) \/ UpdateItem(c) \/ InsertItem(c)
               \/ ItemFails(c) \/ InsertUnnoticed(c) \/ FinishIngestion(c)
      BY <2>0, <3>5, StoringStays
    <3>6. CASE LoseIngestion(c)
      BY <2>0, <3>6, FetchEnds
    <3>7. QED
      BY <1>2, <2>2, <3>1, <3>2, <3>3, <3>4, <3>5, <3>6 DEF IngestionStep
  <2>3. QED
    BY <2>1, <2>2
<1>3. QED
  BY <1>1, <1>2 DEF IngestionNext

\* The page that ends an undisturbed fetch of a list within the limits brings
\* the rest of it.
LEMMA FetchWhole ==
  IngestionInv /\ IngestionNext =>
    \A c \in Call :
      phase[c] = "fetch" /\ phase'[c] = "store" /\ ~moved[c] /\ Fits(feed)
        => fetched'[c] = feed
<1> SUFFICES ASSUME IngestionInv, IngestionNext, NEW c \in Call,
                    phase[c] = "fetch", phase'[c] = "store", ~moved[c], Fits(feed)
             PROVE  fetched'[c] = feed
  OBVIOUS
<1>0. IngestionTypeOK /\ moved[c] = FALSE
  BY DEF IngestionInv, IngestionTypeOK
<1>1. PICK n \in Answers(c) : ReceivePage(c, n) /\ LastPage(c, n)
  <2>1. ~ListChanges
    BY DEF ListChanges
  <2>2. PICK d \in Call : IngestionStep(d)
    BY <2>1 DEF IngestionNext
  <2>3. c = d
    BY <1>0, <2>2, OthersLeftAlone DEF LeftAlone
  <2>4. ~(StartIngestion(c) \/ TransientError(c) \/ PermanentError(c) \/ LoseIngestion(c))
    BY <1>0, TransientCases
    DEF StartIngestion, PermanentError, LoseIngestion, Repeated, GivenUp, EndFetch, Goes,
        IngestionTypeOK
  <2>5. ~(\/ FindItem(c) \/ UpdateItem(c) \/ InsertItem(c)
          \/ ItemFails(c) \/ InsertUnnoticed(c) \/ FinishIngestion(c))
    BY <1>0, StoringStays
  <2>6. PICK n \in Answers(c) : ReceivePage(c, n)
    BY <2>2, <2>3, <2>4, <2>5 DEF IngestionStep
  <2>7. QED
    BY <2>6 DEF ReceivePage
<1>2. fetched'[c] = fetched[c] \o Page(c, n)
  BY <1>0, <1>1 DEF ReceivePage, IngestionTypeOK
<1>3. feed \in Seq(Posting) /\ Len(feed) \in Nat
  BY <1>0 DEF IngestionTypeOK
<1>4. CASE provider = "greenhouse"
  <2>1. fetched[c] = <<>>
    BY <1>0, <1>3, <1>4 DEF IngestionInv, QuietInv
  <2>2. QED
    BY <1>2, <1>3, <1>4, <2>1 DEF Page
<1>5. CASE provider # "greenhouse"
  <2>1. /\ n \in Nat /\ offset[c] + n \in 0..Len(feed)
        /\ fetched[c] \o Page(c, n) = SubSeq(feed, 1, offset[c] + n)
    BY <1>0, <1>5, PageAppended
  <2>2. offset[c] \in 0..Len(feed)
    BY <1>0 DEF IngestionInv, QuietInv
  <2>3. offset[c] + n = Len(feed)
    <3>1. CASE n = 0
      <4>1. offset[c] >= Len(feed)
        BY <1>0, <1>5, <3>1, PageProperties
      <4>2. QED
        BY <1>3, <2>2, <3>1, <4>1
    <3>2. CASE provider = "workday"
      <4>1. Reported = Len(feed) /\ Len(feed) <= MaxOffset
        BY <3>2 DEF Fits, Reported
      <4>2. n = 0 \/ offset[c] + n >= Len(feed)
        BY <1>1, <1>3, <2>1, <2>2, <3>2, <4>1, IngestionAssumption DEF LastPage
      <4>3. QED
        BY <1>3, <2>1, <2>2, <3>1, <4>2
    <3>3. CASE provider = "lever"
      <4>1. /\ trims = FALSE /\ Len(feed) <= PageLimit * MaxPages
            /\ offset[c] = PageLimit * (page[c] - 1)
        BY <1>0, <3>3 DEF Fits, QuietInv, IngestionInv, IngestionTypeOK
      <4>2. n = Least(PageLimit, Rest(c)) /\ Rest(c) = Len(feed) - offset[c]
        <5>1. n = Least(PageLimit, Rest(c))
          BY <1>0, <1>5, <4>1, PageProperties
        <5>2. Rest(c) = Len(feed) - offset[c]
          BY <1>3, <2>2 DEF Rest
        <5>3. QED
          BY <5>1, <5>2
      <4>3. CASE n < PageLimit
        BY <1>3, <2>2, <4>2, <4>3, IngestionAssumption DEF Least
      <4>4. CASE page[c] = MaxPages
        <5>1. PageLimit * (page[c] - 1) + PageLimit = PageLimit * MaxPages
          BY <4>4, NextPageArithmetic, IngestionAssumption
        <5> DEFINE most == PageLimit * MaxPages
        <5>2. offset[c] + PageLimit = most /\ Len(feed) <= most
          BY <4>1, <5>1
        <5> HIDE DEF most
        <5>3. Len(feed) <= offset[c] + PageLimit
          BY <5>2
        <5>4. QED
          BY <1>3, <2>2, <4>2, <5>3, IngestionAssumption DEF Least
      <4>5. QED
        BY <1>1, <3>1, <3>3, <4>3, <4>4 DEF LastPage
    <3>4. QED
      BY <1>0, <1>5, <3>2, <3>3 DEF IngestionTypeOK
  <2>4. SubSeq(feed, 1, Len(feed)) = feed
    BY <1>3, SubSeqFull
  <2>5. QED
    BY <1>2, <2>1, <2>3, <2>4
<1>6. QED
  BY <1>4, <1>5

-----------------------------------------------------------------------------
(* Storing                                                                 *)

\* What the counting of an item changes.
LEMMA ItemSkipped ==
  ASSUME IngestionTypeOK, NEW c \in Call, Count(c, "skipped")
  PROVE  /\ next'[c] = next[c] + 1 /\ phase'[c] = "store" /\ found'[c] = FALSE
         /\ count'[c].skipped = count[c].skipped + 1
BY DEF IngestionTypeOK, Count, Goes

LEMMA ItemStored ==
  ASSUME IngestionTypeOK, NEW c \in Call, Count(c, "persisted") \/ Count(c, "updated")
  PROVE  /\ next'[c] = next[c] + 1 /\ phase'[c] = "store" /\ found'[c] = FALSE
         /\ count'[c].skipped = count[c].skipped
BY DEF IngestionTypeOK, Count, Goes

LEMMA ItemsStep == IngestionInv /\ IngestionNext => StoreInv'
<1> SUFFICES ASSUME IngestionInv, IngestionNext PROVE StoreInv'
  OBVIOUS
<1>0. IngestionTypeOK /\ StoreInv
  BY DEF IngestionInv
<1>1. CASE ListChanges
  BY <1>0, <1>1 DEF ListChanges, StoreInv, storeVars, Item
<1>2. ASSUME NEW d \in Call, IngestionStep(d) PROVE StoreInv'
  <2> SUFFICES ASSUME NEW c \in Call
      PROVE  /\ phase'[c] = "idle" => fetched'[c] = <<>>
             /\ phase'[c] \in {"idle", "fetch"} => next'[c] = 1 /\ count'[c].skipped = 0
             /\ next'[c] <= Len(fetched'[c]) + 1
             /\ phase'[c] = "upsert" =>
                  /\ next'[c] <= Len(fetched'[c])
                  /\ fetched'[c][next'[c]] \notin Malformed
                  /\ found'[c] = TRUE => fetched'[c][next'[c]] \in jobs'
                  /\ broken'[c] = FALSE
             /\ broken'[c] = faulty'[c]
    BY DEF StoreInv, Item
  <2>0. /\ phase[c] = "idle" => fetched[c] = <<>>
        /\ phase[c] \in {"idle", "fetch"} => next[c] = 1 /\ count[c].skipped = 0
        /\ next[c] <= Len(fetched[c]) + 1
        /\ phase[c] = "upsert" =>
             /\ next[c] <= Len(fetched[c])
             /\ fetched[c][next[c]] \notin Malformed
             /\ found[c] = TRUE => fetched[c][next[c]] \in jobs
             /\ broken[c] = FALSE
        /\ broken[c] = faulty[c]
        /\ next[c] \in Nat /\ Len(fetched[c]) \in Nat
    BY <1>0 DEF StoreInv, Item, IngestionTypeOK
  <2>1. CASE c # d
    BY <1>0, <1>2, <2>0, <2>1, OthersLeftAlone DEF LeftAlone
  <2>2. CASE c = d
    <3>1. CASE StartIngestion(c)
      BY <1>0, <2>0, <3>1 DEF StartIngestion, Goes, IngestionTypeOK, storeVars
    <3>2. CASE TransientError(c) \/ PermanentError(c)
      <4>1. /\ phase[c] = "fetch" /\ phase'[c] \in {"fetch", "failed"}
            /\ fetched'[c] = fetched[c] \/ fetched'[c] = <<>>
            /\ UNCHANGED storeVars
        BY <1>0, <3>2, TransientCases
        DEF Repeated, GivenUp, PermanentError, EndFetch, Goes, IngestionTypeOK
      <4>2. QED
        BY <2>0, <4>1 DEF storeVars
    <3>3. CASE \E n \in Answers(c) : ReceivePage(c, n)
      <4> PICK n \in Answers(c) : ReceivePage(c, n)
        BY <3>3
      <4>1. /\ phase[c] = "fetch" /\ phase'[c] \in {"fetch", "store"}
            /\ fetched'[c] = fetched[c] \o Page(c, n)
            /\ UNCHANGED storeVars
        BY <1>0, SMTT(30) DEF ReceivePage, EndFetch, Goes, IngestionTypeOK
      <4>2. Page(c, n) \in Seq(Posting) /\ fetched[c] \in Seq(Posting)
        BY <1>0, PageProperties DEF IngestionTypeOK
      <4>3. Len(fetched'[c]) = Len(fetched[c]) + Len(Page(c, n)) /\ Len(Page(c, n)) \in Nat
        BY <4>1, <4>2
      <4>4. QED
        BY <2>0, <4>1, <4>3 DEF storeVars
    <3>4. CASE FindItem(c)
      <4>1. CASE Item(c) \in Malformed \/ broken[c]
        <5>1. Count(c, "skipped") /\ next[c] <= Len(fetched[c])
              /\ UNCHANGED <<fetched, broken, faulty>>
          BY <3>4, <4>1 DEF FindItem, fetchVars
        <5>2. next'[c] = next[c] + 1 /\ phase'[c] = "store" /\ found'[c] = FALSE
          BY <1>0, <5>1, ItemSkipped
        <5>3. fetched'[c] = fetched[c] /\ broken'[c] = faulty'[c]
          BY <2>0, <5>1
        <5>4. QED
          BY <2>0, <5>1, <5>2, <5>3
      <4>2. CASE ~(Item(c) \in Malformed \/ broken[c])
        <5> DEFINE known == Item(c) \in jobs
        <5>1. /\ found' = [found EXCEPT ![c] = known] /\ next[c] <= Len(fetched[c])
              /\ UNCHANGED <<fetched, next, count, broken, faulty, jobs>>
          BY <3>4, <4>2 DEF FindItem, fetchVars
        <5>2. phase'[c] = "upsert"
          BY <1>0, <3>4, <4>2 DEF FindItem, Goes, IngestionTypeOK
        <5> HIDE DEF known
        <5>3. found'[c] = known
          BY <1>0, <5>1 DEF IngestionTypeOK
        <5>4. found'[c] = TRUE => Item(c) \in jobs
          BY <5>3 DEF known
        <5>5. broken[c] = FALSE
          BY <1>0, <4>2 DEF IngestionTypeOK
        <5>6. QED
          BY <2>0, <4>2, <5>1, <5>2, <5>4, <5>5 DEF Item
      <4>3. QED
        BY <4>1, <4>2
    <3>5. CASE UpdateItem(c)
      <4>1. Count(c, "updated") /\ phase[c] = "upsert" /\ UNCHANGED <<fetched, broken, faulty>>
        BY <3>5 DEF UpdateItem, fetchVars
      <4>2. next'[c] = next[c] + 1 /\ phase'[c] = "store" /\ found'[c] = FALSE
        BY <1>0, <4>1, ItemStored
      <4>3. fetched'[c] = fetched[c] /\ broken'[c] = faulty'[c]
        BY <2>0, <4>1
      <4>4. QED
        BY <2>0, <4>1, <4>2, <4>3
    <3>6. CASE InsertItem(c)
      <4>1. Count(c, "persisted") /\ phase[c] = "upsert" /\ UNCHANGED <<fetched, broken, faulty>>
        BY <3>6 DEF InsertItem, Inserts, fetchVars
      <4>2. next'[c] = next[c] + 1 /\ phase'[c] = "store" /\ found'[c] = FALSE
        BY <1>0, <4>1, ItemStored
      <4>3. fetched'[c] = fetched[c] /\ broken'[c] = faulty'[c]
        BY <2>0, <4>1
      <4>4. QED
        BY <2>0, <4>1, <4>2, <4>3
    <3>7. CASE ItemFails(c) \/ InsertUnnoticed(c)
      <4>1. /\ Count(c, "skipped") /\ next[c] <= Len(fetched[c])
            /\ UNCHANGED fetched
            /\ broken'[c] = TRUE /\ faulty'[c] = TRUE
        BY <1>0, <2>0, <3>7
        DEF ItemFails, InsertUnnoticed, Inserts, Swallowed, Poisoned, fetchVars, IngestionTypeOK
      <4>2. next'[c] = next[c] + 1 /\ phase'[c] = "store" /\ found'[c] = FALSE
        BY <1>0, <4>1, ItemSkipped
      <4>3. fetched'[c] = fetched[c] /\ broken'[c] = faulty'[c]
        BY <4>1
      <4>4. phase[c] \in {"store", "upsert"}
        BY <3>7 DEF ItemFails, InsertUnnoticed, Inserts
      <4>5. QED
        BY <2>0, <4>1, <4>2, <4>3, <4>4
    <3>8. CASE FinishIngestion(c)
      BY <1>0, <2>0, <3>8 DEF FinishIngestion, Goes, fetchVars, storeVars, IngestionTypeOK
    <3>9. CASE LoseIngestion(c)
      <4>1. /\ phase'[c] = "lost"
            /\ UNCHANGED <<fetched, next, found, broken, count, faulty>>
        BY <1>0, <3>9 DEF LoseIngestion, EndFetch, Goes, IngestionTypeOK
      <4>2. QED
        BY <2>0, <4>1
    <3>10. QED
      BY <1>2, <2>2, <3>1, <3>2, <3>3, <3>4, <3>5, <3>6, <3>7, <3>8, <3>9 DEF IngestionStep
  <2>3. QED
    BY <2>1, <2>2
<1>3. QED
  BY <1>1, <1>2 DEF IngestionNext

\* The malformed items a call has behind it, and what SkipsExplained says of it.
Bad(c) == {i \in 1..(next[c] - 1) : fetched[c][i] \in Malformed}

Explained(c) ==
  ~faulty[c] =>
    /\ count[c].skipped = Cardinality(Bad(c))
    /\ \A i \in 1..(next[c] - 1) : fetched[c][i] \in jobs \cup Malformed

\* The items behind a call stay what they were, and the rows stay.
LEMMA ExplainedStays ==
  ASSUME NEW c \in Call, Explained(c), jobs \subseteq jobs',
         next'[c] = next[c], faulty'[c] = faulty[c], count'[c].skipped = count[c].skipped,
         fetched'[c] = fetched[c]
  PROVE  Explained(c)'
<1>1. Bad(c)' = Bad(c)
  BY DEF Bad
<1>2. QED
  BY <1>1 DEF Explained

\* One more item lies behind it.
LEMMA ExplainedGrows ==
  ASSUME IngestionTypeOK, NEW c \in Call, Explained(c), jobs \subseteq jobs',
         next'[c] = next[c] + 1, faulty'[c] = faulty[c], fetched'[c] = fetched[c],
         ~faulty[c] => /\ Item(c) \in jobs' \cup Malformed
                       /\ Item(c) \in Malformed => count'[c].skipped = count[c].skipped + 1
                       /\ Item(c) \notin Malformed => count'[c].skipped = count[c].skipped
  PROVE  Explained(c)'
<1> SUFFICES ASSUME ~faulty[c]
             PROVE  /\ count'[c].skipped = Cardinality(Bad(c)')
                    /\ \A i \in 1..(next'[c] - 1) : fetched'[c][i] \in jobs' \cup Malformed
  BY DEF Explained
<1>0. next[c] \in Nat \ {0}
  BY DEF IngestionTypeOK
<1>1. 1..(next'[c] - 1) = 1..(next[c] - 1) \cup {next[c]}
  BY <1>0
<1>2. \A i \in 1..(next'[c] - 1) : fetched'[c][i] \in jobs' \cup Malformed
  BY <1>1 DEF Explained, Item
<1>3. IsFiniteSet(Bad(c))
  <2>1. IsFiniteSet(1..(next[c] - 1)) /\ Bad(c) \subseteq 1..(next[c] - 1)
    BY <1>0, FS_Interval DEF Bad
  <2>2. QED
    BY <2>1, FS_Subset
<1>4. count[c].skipped = Cardinality(Bad(c))
  BY DEF Explained
<1>5. CASE Item(c) \in Malformed
  <2>1. Bad(c)' = Bad(c) \cup {next[c]} /\ next[c] \notin Bad(c)
    BY <1>0, <1>1, <1>5 DEF Bad, Item
  <2>2. Cardinality(Bad(c) \cup {next[c]}) = Cardinality(Bad(c)) + 1
    BY <1>3, <2>1, FS_AddElement
  <2>3. QED
    BY <1>2, <1>4, <1>5, <2>1, <2>2
<1>6. CASE Item(c) \notin Malformed
  <2>1. Bad(c)' = Bad(c)
    BY <1>0, <1>1, <1>6 DEF Bad, Item
  <2>2. QED
    BY <1>2, <1>4, <1>6, <2>1
<1>7. QED
  BY <1>5, <1>6

LEMMA SkipsStep == IngestionInv /\ IngestionNext => SkipsExplained'
<1> SUFFICES ASSUME IngestionInv, IngestionNext PROVE SkipsExplained'
  OBVIOUS
<1>0. IngestionTypeOK /\ FetchInv /\ StoreInv /\ \A c \in Call : Explained(c)
  BY DEF IngestionInv, SkipsExplained, Explained, Bad
<1> SUFFICES ASSUME NEW c \in Call PROVE Explained(c)'
  BY DEF SkipsExplained, Explained, Bad
<1>1. CASE ListChanges
  BY <1>0, <1>1, ExplainedStays DEF ListChanges, storeVars
<1>2. ASSUME NEW d \in Call, IngestionStep(d) PROVE Explained(c)'
  <2>1. jobs \subseteq jobs'
    BY <1>0, <1>2, OthersLeftAlone
  <2>2. CASE c # d
    BY <1>0, <1>2, <2>1, <2>2, OthersLeftAlone, ExplainedStays DEF LeftAlone
  <2>3. CASE c = d
    <3>1. CASE StartIngestion(c) \/ FinishIngestion(c) \/ LoseIngestion(c)
      <4>1. UNCHANGED <<fetched, next, faulty, count>>
        BY <3>1 DEF StartIngestion, FinishIngestion, LoseIngestion, fetchVars, storeVars
      <4>2. QED
        BY <1>0, <2>1, <4>1, ExplainedStays
    <3>2. CASE \/ TransientError(c) \/ PermanentError(c)
               \/ \E n \in Answers(c) : ReceivePage(c, n)
      <4>1. phase[c] = "fetch" /\ UNCHANGED storeVars
        BY <3>2, TransientCases DEF PermanentError, ReceivePage
      <4>2. next[c] = 1 /\ count[c].skipped = 0
        BY <1>0, <4>1 DEF StoreInv
      <4>3. next'[c] = 1 /\ count'[c].skipped = 0
        BY <4>1, <4>2 DEF storeVars
      <4>4. 1..(next'[c] - 1) = {}
        BY <4>3
      <4>5. Bad(c)' = {} /\ Cardinality({}) = 0
        BY <4>4, FS_EmptySet DEF Bad
      <4>6. QED
        BY <4>3, <4>4, <4>5 DEF Explained
    <3>3. CASE FindItem(c)
      <4>1. CASE Item(c) \in Malformed \/ broken[c]
        <5>1. Count(c, "skipped") /\ UNCHANGED <<fetched, faulty>>
          BY <3>3, <4>1 DEF FindItem, fetchVars
        <5>2. ~faulty[c] => Item(c) \in Malformed
          BY <1>0, <4>1 DEF StoreInv, IngestionTypeOK
        <5>3. QED
          BY <1>0, <2>1, <5>1, <5>2, ItemSkipped, ExplainedGrows
      <4>2. CASE ~(Item(c) \in Malformed \/ broken[c])
        BY <1>0, <2>1, <3>3, <4>2, ExplainedStays DEF FindItem, fetchVars
      <4>3. QED
        BY <4>1, <4>2
    <3>4. CASE UpdateItem(c)
      <4>1. /\ Count(c, "updated") /\ phase[c] = "upsert" /\ found[c] = TRUE
            /\ UNCHANGED <<fetched, faulty, jobs>>
        BY <1>0, <3>4 DEF UpdateItem, fetchVars, IngestionTypeOK
      <4>2. Item(c) \notin Malformed /\ Item(c) \in jobs
        BY <1>0, <4>1 DEF StoreInv
      <4>3. QED
        BY <1>0, <2>1, <4>1, <4>2, ItemStored, ExplainedGrows
    <3>5. CASE InsertItem(c)
      <4>1. /\ Count(c, "persisted") /\ phase[c] = "upsert" /\ Item(c) \in jobs'
            /\ UNCHANGED <<fetched, faulty>>
        BY <3>5 DEF InsertItem, Inserts, fetchVars
      <4>2. Item(c) \notin Malformed
        BY <1>0, <4>1 DEF StoreInv
      <4>3. QED
        BY <1>0, <2>1, <4>1, <4>2, ItemStored, ExplainedGrows
    <3>6. CASE ItemFails(c) \/ InsertUnnoticed(c)
      BY <1>0, <3>6 DEF ItemFails, InsertUnnoticed, Swallowed, Explained, IngestionTypeOK
    <3>7. QED
      BY <1>2, <2>3, <3>1, <3>2, <3>3, <3>4, <3>5, <3>6 DEF IngestionStep
  <2>4. QED
    BY <2>2, <2>3
<1>3. QED
  BY <1>1, <1>2 DEF IngestionNext

-----------------------------------------------------------------------------

LEMMA IngestionInvStep == IngestionInv /\ IngestionNext => IngestionInv'
<1> SUFFICES ASSUME IngestionInv, IngestionNext PROVE IngestionInv'
  OBVIOUS
<1>1. IngestionTypeOK'
  BY IngestionTypeStep DEF IngestionInv
<1>2. FetchInv' /\ QuietInv' /\ StoreInv' /\ SkipsExplained'
  BY FetchStep, UndisturbedStep, ItemsStep, SkipsStep
<1>3. QED
  BY <1>1, <1>2 DEF IngestionInv

\* The invariant holds in every state of an ingestion on its own, whatever the
\* portal does and however many ingestions of the source overlap.
THEOREM IngestionInvariant == IngestionSpec => []IngestionInv
<1>1. IngestionInv /\ [IngestionNext]_ingestionVars => IngestionInv'
  BY IngestionInvStep, IngestionInvStutter
<1>2. QED
  BY <1>1, IngestionInvInit, PTL DEF IngestionSpec

-----------------------------------------------------------------------------
(* The sum of RowsCountedOnce.  It is a recursive function on the sets of  *)
(* calls; a least counterexample among their cardinalities stands for an   *)
(* induction.                                                              *)

\* The call the recursion takes out of a set.
First(S) == CHOOSE c \in S : TRUE

\* P is the sum of f over the sets in D.
IsSum(f, D, P) ==
  P = [S \in D |-> IF S = {} THEN 0 ELSE f[First(S)] + P[S \ {First(S)}]]

Total(f) == (CHOOSE P : IsSum(f, SUBSET Call, P))[Call]

Smaller(n) == {S \in SUBSET Call : Cardinality(S) <= n}

LEMMA LeastNumber ==
  ASSUME NEW T, T \subseteq Nat, T # {}
  PROVE  \E n \in T : \A m \in T : n <= m
<1>1. PICK n \in T : \A m \in T : ~ (<<m, n>> \in OpToRel(<, Nat))
  BY NatLessThanWellFounded, WFMin
<1>2. \A m \in T : ~(m < n)
  BY <1>1 DEF OpToRel
<1>3. QED
  BY <1>2

\* Taking the first call out of a set makes it smaller by one.
LEMMA OneLess ==
  ASSUME NEW S \in SUBSET Call
  PROVE  /\ IsFiniteSet(S) /\ Cardinality(S) \in Nat
         /\ S # {} => /\ First(S) \in S
                      /\ S \ {First(S)} \in SUBSET Call
                      /\ Cardinality(S \ {First(S)}) = Cardinality(S) - 1
<1>1. IsFiniteSet(S)
  BY IngestionAssumption, FS_Subset
<1>2. Cardinality(S) \in Nat
  BY <1>1, FS_CardinalityType
<1>3. S # {} => First(S) \in S
  BY DEF First
<1>4. S # {} => Cardinality(S \ {First(S)}) = Cardinality(S) - 1
  BY <1>1, <1>3, FS_RemoveElement
<1>5. QED
  BY <1>1, <1>2, <1>3, <1>4

\* What holds of the empty set and passes to every set from the set without its
\* first call holds of all sets of calls.
LEMMA SetsByFirst ==
  ASSUME NEW Good, {} \in Good,
         \A S \in SUBSET Call : S # {} /\ S \ {First(S)} \in Good => S \in Good
  PROVE  \A S \in SUBSET Call : S \in Good
<1>0. \A S \in SUBSET Call : Cardinality(S) \in Nat
  BY OneLess
<1> DEFINE T == {Cardinality(S) : S \in {S \in SUBSET Call : S \notin Good}}
<1>1. T = {}
  <2> SUFFICES ASSUME T # {} PROVE FALSE
    OBVIOUS
  <2>1. T \subseteq Nat
    BY <1>0
  <2>2. PICK n \in T : \A m \in T : n <= m
    BY <2>1, LeastNumber, Zenon
  <2>3. PICK S \in SUBSET Call : S \notin Good /\ n = Cardinality(S)
    BY <2>2
  <2>4. S # {}
    BY <2>3
  <2>5. /\ S \ {First(S)} \in SUBSET Call /\ Cardinality(S) \in Nat
        /\ Cardinality(S \ {First(S)}) = Cardinality(S) - 1
    BY <2>4, OneLess
  <2>6. S \ {First(S)} \notin Good
    BY <2>3, <2>4
  <2>7. Cardinality(S \ {First(S)}) \in T
    BY <2>5, <2>6
  <2> HIDE DEF T
  <2>8. n <= Cardinality(S) - 1
    BY <2>2, <2>5, <2>7
  <2>9. QED
    BY <2>3, <2>5, <2>8
<1>2. QED
  BY <1>1

\* The recursion defines a function.
LEMMA SumsExist ==
  ASSUME NEW f
  PROVE  \E P : IsSum(f, SUBSET Call, P)
<1> DEFINE T == {n \in Nat : ~ \E P : IsSum(f, Smaller(n), P)}
<1>1. T = {}
  <2> SUFFICES ASSUME T # {} PROVE FALSE
    OBVIOUS
  <2>1. PICK n \in T : \A m \in T : n <= m
    BY LeastNumber
  <2>2. n \in Nat /\ ~ \E P : IsSum(f, Smaller(n), P)
    BY <2>1
  <2>3. CASE n = 0
    <3>1. ASSUME NEW S \in Smaller(0) PROVE S = {}
      <4>1. IsFiniteSet(S) /\ Cardinality(S) \in Nat /\ Cardinality(S) <= 0
        BY OneLess DEF Smaller
      <4>2. Cardinality(S) = 0
        BY <4>1
      <4>3. QED
        BY <4>1, <4>2, FS_EmptySet
    <3> DEFINE P == [S \in Smaller(0) |-> 0]
    <3>2. P = [S \in Smaller(0) |-> IF S = {} THEN 0 ELSE f[First(S)] + P[S \ {First(S)}]]
      BY <3>1
    <3> HIDE DEF P
    <3>3. QED
      BY <2>2, <2>3, <3>2 DEF IsSum
  <2>4. CASE n # 0
    <3>1. n - 1 \in Nat /\ n - 1 \notin T
      BY <2>1, <2>2, <2>4
    <3>2. PICK G : IsSum(f, Smaller(n - 1), G)
      BY <3>1
    <3>3. \A S \in Smaller(n - 1) : G[S] = IF S = {} THEN 0 ELSE f[First(S)] + G[S \ {First(S)}]
      BY <3>2 DEF IsSum
    <3> DEFINE P == [S \in Smaller(n) |-> IF S = {} THEN 0 ELSE f[First(S)] + G[S \ {First(S)}]]
    <3>4. ASSUME NEW S \in Smaller(n - 1) PROVE S \in Smaller(n)
      <4>1. S \in SUBSET Call /\ Cardinality(S) <= n - 1
        BY DEF Smaller
      <4>2. Cardinality(S) \in Nat
        BY <4>1, OneLess
      <4>3. Cardinality(S) <= n
        BY <2>2, <4>1, <4>2
      <4>4. QED
        BY <4>1, <4>3 DEF Smaller
    <3>5. \A S \in Smaller(n - 1) : P[S] = G[S]
      BY <3>3, <3>4
    <3>6. \A S \in Smaller(n) : S # {} => S \ {First(S)} \in Smaller(n - 1)
      <4> TAKE S \in Smaller(n)
      <4>1. S \in SUBSET Call /\ Cardinality(S) <= n
        BY DEF Smaller
      <4>2. HAVE S # {}
      <4>3. /\ S \ {First(S)} \in SUBSET Call /\ Cardinality(S) \in Nat
            /\ Cardinality(S \ {First(S)}) = Cardinality(S) - 1
        BY <4>1, <4>2, OneLess
      <4>4. QED
        BY <2>2, <4>1, <4>3 DEF Smaller
    <3>7. \A S \in Smaller(n) : P[S] = IF S = {} THEN 0 ELSE f[First(S)] + P[S \ {First(S)}]
      BY <3>5, <3>6
    <3>8. P = [S \in Smaller(n) |-> P[S]]
      OBVIOUS
    <3> HIDE DEF P
    <3>9. QED
      BY <2>2, <3>7, <3>8 DEF IsSum
  <2>5. QED
    BY <2>3, <2>4
<1>2. Cardinality(Call) \in Nat /\ Smaller(Cardinality(Call)) = SUBSET Call
  <2>1. Cardinality(Call) \in Nat
    BY OneLess
  <2>2. \A S \in SUBSET Call : Cardinality(S) <= Cardinality(Call)
    BY IngestionAssumption, FS_Subset
  <2>3. QED
    BY <2>1, <2>2 DEF Smaller
<1>3. \E P : IsSum(f, Smaller(Cardinality(Call)), P)
  BY <1>1, <1>2
<1>4. QED
  BY <1>2, <1>3

\* The sum of zeros.
LEMMA TotalOfNothing == Total([c \in Call |-> 0]) = 0
<1> DEFINE f == [c \in Call |-> 0]
           P == CHOOSE P : IsSum(f, SUBSET Call, P)
           Good == {S \in SUBSET Call : P[S] = 0}
<1>1. IsSum(f, SUBSET Call, P)
  BY SumsExist
<1> HIDE DEF P
<1>2. \A S \in SUBSET Call : P[S] = IF S = {} THEN 0 ELSE f[First(S)] + P[S \ {First(S)}]
  BY <1>1 DEF IsSum
<1>3. {} \in Good
  BY <1>2
<1>4. ASSUME NEW S \in SUBSET Call, S # {}, S \ {First(S)} \in Good PROVE S \in Good
  <2>1. First(S) \in Call
    BY <1>4, OneLess
  <2>2. P[S] = f[First(S)] + P[S \ {First(S)}]
    BY <1>2, <1>4
  <2>3. f[First(S)] = 0 /\ P[S \ {First(S)}] = 0
    BY <1>4, <2>1
  <2>4. P[S] = 0
    BY <2>2, <2>3
  <2>5. QED
    BY <2>4
<1>5. \A S \in SUBSET Call : S \in Good
  <2> HIDE DEF Good
  <2>1. QED
    BY <1>3, <1>4, SetsByFirst
<1>6. P[Call] = 0
  BY <1>5
<1>7. QED
  BY <1>6 DEF Total, P

\* One more for one call is one more in all.
LEMMA TotalOfOneMore ==
  ASSUME NEW f \in [Call -> Nat], NEW c \in Call, NEW g, g = [f EXCEPT ![c] = @ + 1]
  PROVE  Total(f) \in Nat /\ Total(g) = Total(f) + 1
<1> DEFINE P == CHOOSE P : IsSum(f, SUBSET Call, P)
           Q == CHOOSE Q : IsSum(g, SUBSET Call, Q)
           Good == {S \in SUBSET Call : P[S] \in Nat /\ Q[S] = P[S] + IF c \in S THEN 1 ELSE 0}
<1>1. IsSum(f, SUBSET Call, P) /\ IsSum(g, SUBSET Call, Q)
  BY SumsExist
<1>2. Total(f) = P[Call] /\ Total(g) = Q[Call]
  BY DEF Total
<1> HIDE DEF P, Q
<1>3. \A S \in SUBSET Call :
        /\ P[S] = IF S = {} THEN 0 ELSE f[First(S)] + P[S \ {First(S)}]
        /\ Q[S] = IF S = {} THEN 0 ELSE g[First(S)] + Q[S \ {First(S)}]
  BY <1>1 DEF IsSum
<1>4. {} \in Good
  <2>1. P[{}] = 0 /\ Q[{}] = 0
    BY <1>3
  <2>2. QED
    BY <2>1
<1>5. ASSUME NEW S \in SUBSET Call, S # {}, S \ {First(S)} \in Good PROVE S \in Good
  <2> DEFINE x == First(S)
             R == S \ {First(S)}
  <2>1. x \in S /\ x \in Call
    BY <1>5, OneLess
  <2>2. P[S] = f[x] + P[R] /\ Q[S] = g[x] + Q[R]
    BY <1>3, <1>5
  <2>3. P[R] \in Nat /\ Q[R] = P[R] + IF c \in R THEN 1 ELSE 0
    BY <1>5
  <2>4. c \in R <=> c \in S /\ c # x
    OBVIOUS
  <2>5. f[x] \in Nat /\ g[x] = f[x] + IF c = x THEN 1 ELSE 0
    BY <2>1
  <2> HIDE DEF x, R
  <2>6. P[S] \in Nat /\ Q[S] = P[S] + IF c \in S THEN 1 ELSE 0
    BY <2>1, <2>2, <2>3, <2>4, <2>5
  <2>7. QED
    BY <2>6
<1>6. \A S \in SUBSET Call : S \in Good
  <2> HIDE DEF Good
  <2>1. QED
    BY <1>4, <1>5, SetsByFirst
<1>7. QED
  BY <1>2, <1>6

\* The ingestions that may have inserted a row they did not count.
Suspects == {c \in Call : faulty[c] \/ phase[c] = "lost"}

\* RowsCountedOnce, before and after a step, in terms of Total.
LEMMA RowsAre ==
  /\ Persisted = Total([c \in Call |-> count[c].persisted])
  /\ Persisted' = Total([c \in Call |-> count'[c].persisted])
  /\ RowsCountedOnce <=>
       /\ Persisted <= Cardinality(jobs)
       /\ Cardinality(jobs) <= Persisted + Cardinality(Suspects)
BY DEF RowsCountedOnce, Persisted, Suspects, Total, IsSum, First

LEMMA RowsInit == IngestionInit => RowsCountedOnce
<1> SUFFICES ASSUME IngestionInit PROVE RowsCountedOnce
  OBVIOUS
<1>1. [c \in Call |-> count[c].persisted] = [c \in Call |-> 0] /\ jobs = {} /\ Suspects = {}
  BY DEF IngestionInit, Suspects
<1>2. Persisted = 0 /\ Cardinality({}) = 0
  BY <1>1, RowsAre, TotalOfNothing, FS_EmptySet
<1>3. QED
  BY <1>1, <1>2, RowsAre

\* The numbers RowsCountedOnce is about.
LEMMA RowNumbers ==
  ASSUME IngestionTypeOK
  PROVE  /\ IsFiniteSet(jobs) /\ Cardinality(jobs) \in Nat
         /\ IsFiniteSet(Suspects) /\ Cardinality(Suspects) \in Nat
         /\ Call # {} => Persisted \in Nat
<1>1. IsFiniteSet(jobs)
  BY IngestionAssumption, FS_Subset DEF IngestionTypeOK
<1>2. IsFiniteSet(Suspects)
  <2>1. Suspects \in SUBSET Call
    BY DEF Suspects
  <2>2. QED
    BY <2>1, IngestionAssumption, FS_Subset
<1>3. ASSUME NEW c \in Call PROVE Persisted \in Nat
  <2> DEFINE f == [d \in Call |-> count[d].persisted]
  <2>1. f \in [Call -> Nat]
    BY DEF IngestionTypeOK
  <2> HIDE DEF f
  <2>2. Total(f) \in Nat
    <3> DEFINE g == [f EXCEPT ![c] = @ + 1]
    <3>1. g = [f EXCEPT ![c] = @ + 1]
      OBVIOUS
    <3> HIDE DEF g
    <3>2. QED
      BY <2>1, <3>1, TotalOfOneMore
  <2>3. QED
    BY <2>2, RowsAre DEF f
<1>4. QED
  BY <1>1, <1>2, <1>3, FS_CardinalityType

\* A step that counts nothing keeps the equation when it adds a row only with
\* a new suspect.
LEMMA UncountedKeeps ==
  ASSUME IngestionTypeOK, RowsCountedOnce, NEW c \in Call,
         \A d \in Call : count'[d].persisted = count[d].persisted,
         \/ jobs' = jobs /\ (Suspects' = Suspects \/ Suspects' = Suspects \cup {c})
         \/ /\ \E j : j \notin jobs /\ jobs' = jobs \cup {j}
            /\ c \notin Suspects /\ Suspects' = Suspects \cup {c}
  PROVE  RowsCountedOnce'
<1> DEFINE P == Persisted  R == Cardinality(jobs)  U == Cardinality(Suspects)
           R1 == Cardinality(jobs')  U1 == Cardinality(Suspects')
<1>1. Persisted' = P
  <2>1. [d \in Call |-> count[d].persisted] = [d \in Call |-> count'[d].persisted]
    OBVIOUS
  <2>2. QED
    BY <2>1, RowsAre
<1>2. P \in Nat /\ R \in Nat /\ U \in Nat /\ P <= R /\ R <= P + U
  BY RowNumbers, RowsAre
<1>3. \/ R1 = R /\ (U1 = U \/ U1 = U + 1)
      \/ R1 = R + 1 /\ U1 = U + 1
  <2>1. Cardinality(Suspects \cup {c}) = IF c \in Suspects THEN U ELSE U + 1
    BY RowNumbers, FS_AddElement
  <2>2. \A j : j \notin jobs => Cardinality(jobs \cup {j}) = R + 1
    BY RowNumbers, FS_AddElement
  <2>3. QED
    BY <2>1, <2>2
<1> HIDE DEF P, R, U, R1, U1
<1>4. P <= R1 /\ R1 <= P + U1
  BY <1>2, <1>3
<1>5. QED
  BY <1>1, <1>4 DEF RowsCountedOnce, Suspects, R1, U1

\* An insertion that is counted is counted once, for a row that was not there;
\* an insertion that is not counted breaks the session or ends with its caller.
LEMMA CountedStep ==
  IngestionInv /\ RowsCountedOnce /\ [IngestionNext]_ingestionVars => RowsCountedOnce'
<1> SUFFICES ASSUME IngestionInv, RowsCountedOnce, [IngestionNext]_ingestionVars
             PROVE  RowsCountedOnce'
  OBVIOUS
<1>0. IngestionTypeOK /\ StoreInv
  BY DEF IngestionInv
<1>1. ASSUME UNCHANGED <<jobs, faulty, count>>,
             \A c \in Call : phase'[c] = "lost" <=> phase[c] = "lost"
      PROVE  RowsCountedOnce'
  <2>1. Suspects' = Suspects
    BY <1>1 DEF Suspects
  <2>2. Persisted' = Persisted
    BY <1>1 DEF Persisted
  <2>3. QED
    BY <1>1, <2>1, <2>2 DEF RowsCountedOnce, Suspects
<1>2. ASSUME NEW c \in Call, InsertItem(c) PROVE RowsCountedOnce'
  <2> DEFINE f == [d \in Call |-> count[d].persisted]
             g == [d \in Call |-> count'[d].persisted]
  <2>1. /\ jobs' = jobs \cup {Item(c)} /\ Item(c) \notin jobs
        /\ count' = [count EXCEPT ![c]["persisted"] = @ + 1]
    BY <1>2 DEF InsertItem, Inserts, Free, Count
  <2>2. f \in [Call -> Nat] /\ g = [f EXCEPT ![c] = @ + 1]
    BY <1>0, <2>1 DEF IngestionTypeOK
  <2>3. Cardinality(jobs') = Cardinality(jobs) + 1
    BY <1>0, <2>1, RowNumbers, FS_AddElement
  <2>4. Suspects' = Suspects
    <3>1. UNCHANGED faulty /\ phase' = [phase EXCEPT ![c] = "store"] /\ phase[c] = "upsert"
      BY <1>2 DEF InsertItem, Inserts, Count, Goes
    <3>2. QED
      BY <1>0, <3>1 DEF Suspects, IngestionTypeOK
  <2> HIDE DEF f, g
  <2>5. Total(g) = Total(f) + 1
    BY <2>2, TotalOfOneMore
  <2>6. Persisted' = Persisted + 1
    BY <2>5, RowsAre DEF f, g
  <2>7. /\ Persisted \in Nat /\ Cardinality(jobs) \in Nat /\ Cardinality(Suspects) \in Nat
        /\ Persisted <= Cardinality(jobs)
        /\ Cardinality(jobs) <= Persisted + Cardinality(Suspects)
    BY <1>0, RowNumbers, RowsAre
  <2>8. QED
    BY <2>3, <2>4, <2>6, <2>7 DEF RowsCountedOnce, Suspects
<1>3. ASSUME NEW c \in Call, NEW counter \in {"updated", "skipped"}, Count(c, counter)
      PROVE  \A d \in Call : count'[d].persisted = count[d].persisted
  <2>1. count' = [count EXCEPT ![c][counter] = @ + 1]
    BY <1>3 DEF Count
  <2>2. QED
    BY <1>0, <2>1 DEF IngestionTypeOK
<1>4. ASSUME NEW c \in Call, FindItem(c) \/ UpdateItem(c) PROVE RowsCountedOnce'
  <2>1. \A d \in Call : count'[d].persisted = count[d].persisted
    BY <1>3, <1>4 DEF FindItem, UpdateItem
  <2>2. UNCHANGED <<jobs, faulty>> /\ \A d \in Call : phase'[d] = "lost" <=> phase[d] = "lost"
    BY <1>0, <1>4 DEF FindItem, UpdateItem, Count, Goes, IngestionTypeOK
  <2>3. jobs' = jobs /\ Suspects' = Suspects
    BY <2>2 DEF Suspects
  <2>4. QED
    BY <1>0, <2>1, <2>3, UncountedKeeps
<1>5. ASSUME NEW c \in Call, ItemFails(c) \/ InsertUnnoticed(c) PROVE RowsCountedOnce'
  <2>1. Swallowed(c) /\ phase[c] \in {"store", "upsert"}
    BY <1>5 DEF ItemFails, InsertUnnoticed, Inserts
  <2>2. \A d \in Call : count'[d].persisted = count[d].persisted
    BY <1>3, <2>1 DEF Swallowed
  <2>3. /\ faulty' = [faulty EXCEPT ![c] = TRUE]
        /\ phase' = [phase EXCEPT ![c] = "store"]
    BY <2>1 DEF Swallowed, Count, Goes
  <2>4. Suspects' = Suspects \cup {c}
    BY <1>0, <2>1, <2>3 DEF Suspects, IngestionTypeOK
  <2>5. CASE ItemFails(c)
    <3>1. jobs' = jobs
      BY <2>5 DEF ItemFails
    <3>2. QED
      BY <1>0, <2>2, <2>4, <3>1, UncountedKeeps
  <2>6. CASE InsertUnnoticed(c)
    <3>1. Item(c) \notin jobs /\ jobs' = jobs \cup {Item(c)} /\ phase[c] = "upsert"
      BY <2>6 DEF InsertUnnoticed, Inserts, Free
    <3>2. c \notin Suspects
      BY <1>0, <3>1 DEF Suspects, StoreInv, IngestionTypeOK
    <3>3. QED
      BY <1>0, <2>2, <2>4, <3>1, <3>2, UncountedKeeps
  <2>7. QED
    BY <1>5, <2>5, <2>6
<1>6. ASSUME NEW c \in Call, LoseIngestion(c) PROVE RowsCountedOnce'
  <2>1. /\ phase' = [phase EXCEPT ![c] = "lost"] /\ UNCHANGED <<faulty, count>>
        /\ phase[c] # "lost"
    BY <1>6 DEF LoseIngestion, EndFetch, Goes, Ended
  <2>2. Suspects' = Suspects \cup {c}
    BY <1>0, <2>1 DEF Suspects, IngestionTypeOK
  <2>3. CASE jobs' = jobs
    BY <1>0, <2>1, <2>2, <2>3, UncountedKeeps
  <2>4. CASE Inserts(c) /\ jobs' = jobs \cup {Item(c)}
    <3>1. Item(c) \notin jobs /\ phase[c] = "upsert"
      BY <2>4 DEF Inserts, Free
    <3>2. c \notin Suspects
      BY <1>0, <2>1, <3>1 DEF Suspects, StoreInv, IngestionTypeOK
    <3>3. QED
      BY <1>0, <2>1, <2>2, <2>4, <3>1, <3>2, UncountedKeeps
  <2>5. QED
    BY <1>6, <2>3, <2>4 DEF LoseIngestion
<1>7. CASE UNCHANGED ingestionVars \/ ListChanges
  BY <1>1, <1>7 DEF ListChanges, ingestionVars, storeVars
<1>8. ASSUME NEW c \in Call,
             \/ StartIngestion(c) \/ TransientError(c) \/ PermanentError(c)
             \/ \E n \in Answers(c) : ReceivePage(c, n)
             \/ FinishIngestion(c)
      PROVE  RowsCountedOnce'
  <2>1. UNCHANGED storeVars
    BY <1>8, TransientCases DEF StartIngestion, PermanentError, ReceivePage, FinishIngestion
  <2>2. \A d \in Call : phase'[d] = "lost" <=> phase[d] = "lost"
    <3>1. \E where \in {"fetch", "store", "done", "failed"} :
            phase' = phase \/ (phase' = [phase EXCEPT ![c] = where] /\ phase[c] # "lost")
      BY <1>8, TransientCases
      DEF StartIngestion, PermanentError, ReceivePage, FinishIngestion, Repeated, GivenUp,
          EndFetch, Goes
    <3>2. QED
      BY <1>0, <3>1 DEF IngestionTypeOK
  <2>3. QED
    BY <1>1, <2>1, <2>2 DEF storeVars
<1>9. QED
  BY <1>2, <1>4, <1>5, <1>6, <1>7, <1>8 DEF IngestionNext, IngestionStep

=============================================================================

----------------------------- MODULE JobListing -----------------------------
(***************************************************************************)
(* GET jobs: how a listing is cut into pages, for a candidate who asks for *)
(* one page after the other while jobs and match scores stay as they are.  *)
(*                                                                         *)
(* The jobs of a query are those that match its text filters; key is the   *)
(* column search_and_filter orders them by, and score what                 *)
(* list_for_profile returns for the candidate.  Nothing breaks ties of the *)
(* column: every page is a statement of its own, and the database returns  *)
(* tied rows in any order each time.                                       *)
(***************************************************************************)
EXTENDS Integers, FiniteSets

CONSTANTS
  NoScore,  \* a job without a match
  NoQuery,
  Window,   \* jobs considered by best_match: the first 200
  Queries   \* [jobs, key, score, sort, minimum, size]

IsListing(q) ==
  /\ IsFiniteSet(q.jobs)
  /\ q.key \in [q.jobs -> Int]
  /\ q.score \in [q.jobs -> Int \cup {NoScore}]
  /\ q.minimum \in Int \cup {NoScore}
  /\ q.size \in Nat \ {0}

ASSUME ListingAssumption ==
  /\ Window \in Nat
  /\ NoScore \notin Int
  /\ \A q \in Queries \ {NoQuery} : IsListing(q)

VARIABLE query  \* what the candidate asks for

Ceiling(n, d) == (n + d - 1) \div d

\* The orders in which a statement may return the jobs: order[job] rows come before job.
Orders(q) ==
  {order \in [q.jobs -> 0..(Cardinality(q.jobs) - 1)] :
     \A x, y \in q.jobs :
       /\ order[x] = order[y] => x = y
       /\ q.key[x] < q.key[y] => order[x] < order[y]}

\* The places that belong to a page.
Places(q, page) == ((page - 1) * q.size)..(page * q.size - 1)

\* offset and limit of the statement
Rows(q, order, page) ==
  LET asked == IF q.sort = "best_match" THEN 0..(Window - 1) ELSE Places(q, page)
  IN {job \in q.jobs : order[job] \in asked}

Good(q, job) ==
  q.minimum = NoScore \/ (q.score[job] # NoScore /\ q.score[job] >= q.minimum)

\* Mutant of Kept: the filter drops what has no score even without a minimum.
KeptIfScored(q, order, page) == {job \in Rows(q, order, page) : q.score[job] # NoScore}

\* The cards left by min_score, which is applied to the rows of the page.
Kept(q, order, page) == {job \in Rows(q, order, page) : Good(q, job)}

\* x has the higher score; none is below every score.
Above(q, x, y) ==
  q.score[x] # NoScore /\ (q.score[y] = NoScore \/ q.score[x] > q.score[y])

\* card_items.sort is stable: cards of one score stay in the order of the statement.
Precedes(q, order, x, y) == Above(q, x, y) \/ (~Above(q, y, x) /\ order[x] < order[y])

\* The place of a card among the sorted cards.
Rank(q, order, cards, job) == Cardinality({other \in cards : Precedes(q, order, other, job)})

Items(q, order, page) ==
  LET cards == Kept(q, order, page)
  IN IF q.sort = "best_match"
     THEN {job \in cards : Rank(q, order, cards, job) \in Places(q, page)}
     ELSE cards

Total(q, order, page) ==
  IF q.sort = "best_match" \/ q.minimum # NoScore
  THEN Cardinality(Kept(q, order, page))
  ELSE Cardinality(q.jobs)

TotalPages(q, order, page) == Ceiling(Total(q, order, page), q.size)

-----------------------------------------------------------------------------

ListingInit == query \in Queries

\* Neither the column nor, for best_match, the score says which of the two comes first.
Tied(q, x, y) ==
  /\ q.key[x] = q.key[y]
  /\ q.sort = "best_match" => ~Above(q, x, y) /\ ~Above(q, y, x)

\* What the candidate asks for.
Wanted(q) == {job \in q.jobs : Good(q, job)}

\* The filter sees the whole listing: there is none, or the window holds all jobs.
Whole(q) ==
  IF q.sort = "best_match" THEN Cardinality(q.jobs) <= Window ELSE q.minimum = NoScore

\* A candidate follows the total_pages of the first answer, and every page comes from a
\* statement that orders ties anew.  For every sort without a minimum score, and for
\* best_match with one as long as the window holds the listing: the total is the number
\* of jobs asked for, every page but the last is full and the last holds the rest, and a
\* job that ties with no other is on one page and no other, whatever became of the ties.
\* (A minimum with another sort filters page by page and hides what comes after the first.)
PagesPartition ==
  query # NoQuery /\ Whole(query) =>
    LET q == query
        n == Cardinality(Wanted(q))
    IN \A first \in Orders(q) :
         LET pages == 1..TotalPages(q, first, 1)
         IN /\ Total(q, first, 1) = n
            /\ \A order \in Orders(q), page \in pages :
                 /\ Items(q, order, page) \subseteq Wanted(q)
                 /\ Cardinality(Items(q, order, page)) =
                      IF page * q.size <= n THEN q.size ELSE n - (page - 1) * q.size
            /\ \A job \in Wanted(q) :
                 (\A other \in Wanted(q) \ {job} : ~Tied(q, job, other)) =>
                   \E page \in pages : \A order \in Orders(q), other \in pages :
                     job \in Items(q, order, other) <=> other = page

=============================================================================

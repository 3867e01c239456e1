---------------------------- MODULE Deduplication ----------------------------
(***************************************************************************)
(* DeduplicationService over the jobs of one company.                      *)
(*                                                                         *)
(* A session is either an ingestion, which upserts the jobs of a batch and *)
(* then runs deduplicate_job for each of them, or a request POST           *)
(* /dedup/run/{job_id}, which runs it once.  Nothing inside deduplicate_job *)
(* awaits, but requests run on threads and ingestions in another process.  *)
(* The pointer jobs.canonical_job_id and the row of job_duplicates that    *)
(* explains it are two commits.  A session reads pointers from its         *)
(* identity map (expire_on_commit=False), rows of job_duplicates from the  *)
(* table.                                                                  *)
(*                                                                         *)
(* The score is abstract: alike holds the pairs whose score reaches        *)
(* DEDUP_HIGH_THRESHOLD now; an upsert changes the pairs of the job whose  *)
(* content it changes.  first_seen_at is a position, without ties, so that *)
(* the last two tie-breakers of select_canonical never matter; all jobs    *)
(* are inside the lookback window and none is ever deleted.                *)
(***************************************************************************)
EXTENDS Integers, FiniteSets, Sequences

CONSTANTS
  Job,            \* jobs of the company
  Ingestion,      \* sessions that ingest
  Request,        \* sessions that serve POST /dedup/run/{job_id}
  MaxCandidates,  \* DEDUP_MAX_CANDIDATES
  MaxChanges,     \* bound: upserts that change what a job is alike to
  MaxCrashes,     \* bound: sessions lost in one behaviour
  None

Session == Ingestion \cup Request
Pairs == {{a, b} : a, b \in Job}

ASSUME DeduplicationAssumption ==
  /\ MaxCandidates \in Nat \ {0}
  /\ MaxChanges \in Nat /\ MaxCrashes \in Nat
  /\ None \notin Job /\ "UNLOADED" \notin Job /\ None # "UNLOADED"
  /\ IsFiniteSet(Job)
  /\ Ingestion \cap Request = {}

VARIABLES
  seen,       \* first_seen_at as a position; 0 before the job is ingested
  alike,      \* pairs whose score reaches the threshold
  canonical,  \* jobs.canonical_job_id
  record,     \* job_duplicates: the canonical of a duplicate's row
  pc, todo,   \* where each session is, and its jobs still to deduplicate
  target,     \* the job in hand
  view,       \* the pointers of its identity map
  plan,       \* the pointer it is about to write
  overlapped, \* ghost: have two sessions ever been at work at once?
  changes, crashes

vars ==
  <<seen, alike, canonical, record, pc, todo, target, view, plan, overlapped, changes, crashes>>
session == <<pc, todo, target, view, plan>>

Known == {j \in Job : seen[j] > 0}
NoView == [j \in Job |-> "UNLOADED"]
NoPlan == [dup |-> None, root |-> None]

TypeOK ==
  /\ seen \in [Job -> 0..Cardinality(Job)]
  /\ alike \in SUBSET Pairs
  /\ canonical \in [Job -> Job \cup {None}]
  /\ record \in [Job -> Job \cup {None}]
  /\ pc \in [Session -> {"idle", "upsert", "next", "decide", "link", "record"}]
  /\ todo \in [Session -> Seq(Job)]
  /\ overlapped \in BOOLEAN
  /\ target \in [Session -> Job \cup {None}]
  /\ view \in [Session -> [Job -> Job \cup {None, "UNLOADED"}]]
  /\ plan \in [Session -> [dup : Job \cup {None}, root : Job \cup {None}]]
  /\ \A w \in Session :
       pc[w] \in {"link", "record"} => plan[w].dup \in Job /\ plan[w].root \in Job
  /\ changes \in 0..MaxChanges
  /\ crashes \in 0..MaxCrashes

-----------------------------------------------------------------------------
(* Operators                                                               *)

\* get_candidates: the oldest other jobs.
Candidates(t) ==
  {c \in Known \ {t} : Cardinality({d \in Known \ {t} : seen[d] < seen[c]}) < MaxCandidates}

Oldest(S) == CHOOSE j \in S : \A k \in S : seen[j] <= seen[k]

\* Mutant of FirstSeen: an upsert counts as a discovery.
SeenAgain(j) == Cardinality(Known) + 1

\* first_seen_at after an upsert of j, as a position.
FirstSeen(j) == IF j \in Known THEN seen[j] ELSE Cardinality(Known) + 1

\* The candidate that ends the loop, in the order of first_seen_at.
FirstHit(S) == Oldest(S)

\* Mutant of Canonical: the job that is being deduplicated wins.
TargetWins(v, a, b) == a

\* select_canonical, on the pointers v of the session.
Canonical(v, a, b) ==
  IF (v[a] = None /\ v[b] # None) \/ v[b] = a THEN a
  ELSE IF (v[b] = None /\ v[a] # None) \/ v[a] = b THEN b
  ELSE Oldest({a, b})

\* resolve_canonical_root: up from j until a job has no pointer, at most as many
\* steps as there are jobs (in the code: ten).
Root(v, j) ==
  LET Up(x) == IF v[x] = None THEN x ELSE v[x]
      up[m \in 0..Cardinality(Job)] == IF m = 0 THEN j ELSE Up(up[m - 1])
  IN up[Cardinality(Job)]

\* Whoever is not at a root then is on a cycle: CanonicalCycleError.
Cyclic(v, j) == v[Root(v, j)] # None

Other(t, c, j) == IF j = t THEN c ELSE t

\* Mutant of PlanFor: canonical and duplicate are swapped.
SwappedPlan(v, t, c) ==
  LET can == Canonical(v, t, c)
  IN [dup |-> Root(v, can), root |-> Other(t, c, can)]

\* What the pair of t and candidate c asks for.
PlanFor(v, t, c) ==
  LET can == Canonical(v, t, c)
  IN [dup |-> Other(t, c, can), root |-> Root(v, can)]

\* The pair of t and c would point a job at itself.
Itself(v, t, c) ==
  ~Cyclic(v, Canonical(v, t, c)) /\ PlanFor(v, t, c).root = PlanFor(v, t, c).dup

\* The candidates that end the loop: those t is alike to.
Hits(v, t) ==
  {c \in Candidates(t) : v[c] # "UNLOADED" /\ {t, c} \in alike /\ ~Itself(v, t, c)}

\* Session w begins or goes on while others may be at work.
Begin(w) == overlapped' = (overlapped \/ \E u \in Session \ {w} : pc[u] # "idle")

\* Mutant of Unexplained: the check for an existing record is dropped.
AlwaysUnexplained(j) == TRUE

\* get_by_duplicate_id finds no row.
Unexplained(j) == record[j] = None

EndSession(w) ==
  /\ pc' = [pc EXCEPT ![w] = "idle"]
  /\ todo' = [todo EXCEPT ![w] = << >>]
  /\ target' = [target EXCEPT ![w] = None]
  /\ view' = [view EXCEPT ![w] = NoView]
  /\ plan' = [plan EXCEPT ![w] = NoPlan]

\* deduplicate_job returns.
Return(w) ==
  /\ pc' = [pc EXCEPT ![w] = "next"]
  /\ target' = [target EXCEPT ![w] = None]
  /\ plan' = [plan EXCEPT ![w] = NoPlan]

Init ==
  /\ seen = [j \in Job |-> 0]
  /\ alike \in SUBSET {p \in Pairs : Cardinality(p) = 2}
  /\ canonical = [j \in Job |-> None]
  /\ record = [j \in Job |-> None]
  /\ pc = [w \in Session |-> "idle"]
  /\ todo = [w \in Session |-> << >>]
  /\ overlapped = FALSE
  /\ target = [w \in Session |-> None]
  /\ view = [w \in Session |-> NoView]
  /\ plan = [w \in Session |-> NoPlan]
  /\ changes = 0
  /\ crashes = 0

-----------------------------------------------------------------------------
(* Sessions                                                                *)

\* JobRepository.upsert of a job of the feed, and its refresh.
Upsert(w, j) ==
  /\ w \in Ingestion
  /\ pc[w] \in {"idle", "upsert"}
  /\ \A i \in 1..Len(todo[w]) : todo[w][i] # j
  /\ Begin(w)
  /\ seen' = [seen EXCEPT ![j] = FirstSeen(j)]
  /\ \/ UNCHANGED <<alike, changes>>
     \/ /\ j \in Known
        /\ changes < MaxChanges
        /\ changes' = changes + 1
        /\ \E S \in SUBSET (Job \ {j}) :
             alike' = {p \in alike : j \notin p} \cup {{j, k} : k \in S}
  /\ pc' = [pc EXCEPT ![w] = "upsert"]
  /\ todo' = [todo EXCEPT ![w] = Append(@, j)]
  /\ view' = [view EXCEPT ![w] = [@ EXCEPT ![j] = canonical[j]]]
  /\ UNCHANGED <<canonical, record, target, plan, crashes>>

\* deduplicate_batch begins.
StartBatch(w) ==
  /\ pc[w] = "upsert"
  /\ pc' = [pc EXCEPT ![w] = "next"]
  /\ UNCHANGED <<overlapped, seen, alike, canonical, record, todo, target, view, plan, changes, crashes>>

\* POST /dedup/run/{j}.
Run(w, j) ==
  /\ w \in Request
  /\ pc[w] = "idle"
  /\ j \in Known
  /\ Begin(w)
  /\ todo' = [todo EXCEPT ![w] = <<j>>]
  /\ pc' = [pc EXCEPT ![w] = "next"]
  /\ UNCHANGED <<seen, alike, canonical, record, target, view, plan, changes, crashes>>

\* The target and the candidates are read; jobs the session has seen before keep
\* the pointers it knows.  (A parent outside the candidates, which the code
\* fetches a moment later, is read here too.)
Load(w) ==
  /\ pc[w] = "next"
  /\ todo[w] # << >>
  /\ todo' = [todo EXCEPT ![w] = Tail(@)]
  /\ target' = [target EXCEPT ![w] = Head(todo[w])]
  /\ view' = [view EXCEPT ![w] =
                [j \in Job |-> IF view[w][j] = "UNLOADED" /\ j \in Known
                                 THEN canonical[j] ELSE view[w][j]]]
  /\ pc' = [pc EXCEPT ![w] = "decide"]
  /\ UNCHANGED <<overlapped, seen, alike, canonical, record, plan, changes, crashes>>

\* The loop over the candidates, up to the check for an existing record.
Decide(w) ==
  /\ pc[w] = "decide"
  /\ LET v == view[w]
         t == target[w]
         hits == Hits(v, t)
         c == FirstHit(hits)
     IN IF hits # {} /\ ~Cyclic(v, Canonical(v, t, c)) /\ Unexplained(PlanFor(v, t, c).dup)
          THEN /\ plan' = [plan EXCEPT ![w] = PlanFor(v, t, c)]
               /\ pc' = [pc EXCEPT ![w] = "link"]
               /\ UNCHANGED target
          ELSE Return(w)
  /\ UNCHANGED <<overlapped, seen, alike, canonical, record, todo, view, changes, crashes>>

\* duplicate_candidate.canonical_job_id is committed, if it is news to the session.
Link(w) ==
  /\ pc[w] = "link"
  /\ LET dup == plan[w].dup
         root == plan[w].root
     IN /\ canonical' = IF view[w][dup] = root THEN canonical ELSE [canonical EXCEPT ![dup] = root]
        /\ view' = [view EXCEPT ![w] = [@ EXCEPT ![dup] = root]]
  /\ pc' = [pc EXCEPT ![w] = "record"]
  /\ UNCHANGED <<overlapped, seen, alike, record, todo, target, plan, changes, crashes>>

\* JobDuplicateRepository.create.
Explain(w) ==
  /\ pc[w] = "record"
  /\ record[plan[w].dup] = None
  /\ record' = [record EXCEPT ![plan[w].dup] = plan[w].root]
  /\ Return(w)
  /\ UNCHANGED <<overlapped, seen, alike, canonical, todo, view, changes, crashes>>

\* The unique constraint on duplicate_job_id: the session is of no use any more,
\* the rest of a batch fails with it.
Collide(w) ==
  /\ pc[w] = "record"
  /\ record[plan[w].dup] # None
  /\ EndSession(w)
  /\ UNCHANGED <<overlapped, seen, alike, canonical, record, changes, crashes>>

Close(w) ==
  /\ pc[w] = "next"
  /\ todo[w] = << >>
  /\ EndSession(w)
  /\ UNCHANGED <<overlapped, seen, alike, canonical, record, changes, crashes>>

Crash(w) ==
  /\ pc[w] # "idle"
  /\ crashes < MaxCrashes
  /\ crashes' = crashes + 1
  /\ EndSession(w)
  /\ UNCHANGED <<overlapped, seen, alike, canonical, record, changes>>

Next ==
  \E w \in Session :
    \/ \E j \in Job : Upsert(w, j) \/ Run(w, j)
    \/ StartBatch(w) \/ Load(w) \/ Decide(w) \/ Link(w) \/ Explain(w) \/ Collide(w)
    \/ Close(w) \/ Crash(w)

Spec == Init /\ [][Next]_vars
-----------------------------------------------------------------------------
(* What deduplication promises                                             *)

\* The pointers have no cycle, which would make resolve_canonical_root raise for
\* every job that reaches it, again and again: no set of jobs is closed under them.
\* Crashes and changing content do not build one; overlapping sessions do.
NoCycle ==
  ~overlapped =>
    \A S \in (SUBSET Job) \ {{}} : \E j \in S : canonical[j] \notin S

\* Unless sessions overlap, the row of job_duplicates explains the pointer that is
\* in force, whatever was committed without its row before a crash.
RecordMatchesPointer ==
  ~overlapped => \A j \in Job : record[j] # None => canonical[j] = record[j]

\* Unless sessions overlap, a duplicate that has its row is never linked anew,
\* although its content and its neighbours change.
LinkIsFinal ==
  [][~overlapped' =>
       \A j \in Job : record[j] # None => canonical'[j] = canonical[j] /\ record'[j] = record[j]]_vars

\* Unless sessions overlap and as long as nothing was lost, a job is linked only to
\* one that is alike to it and was discovered before it: the root that
\* deduplicate_job resolves is always the canonical it has just compared, whatever
\* became of its neighbours since, although an established root is preferred to an
\* older job.
LinksMatch ==
  [][~overlapped' /\ crashes' = 0 =>
       \A j \in Job : canonical'[j] # canonical[j] =>
         {j, canonical'[j]} \in alike /\ seen[canonical'[j]] < seen[j]]_vars

\* Jobs that are alike to the same job are alike.
Transitive ==
  \A i, j, k \in Job : {i, j} \in alike /\ {j, k} \in alike /\ i # k => {i, k} \in alike

\* One session at a time, nothing lost and no content changed: if jobs match as
\* copies of one posting would, each of them all others, then a pointer leads to a
\* root, in whatever order and however often they are deduplicated, and whichever
\* of them MaxCandidates leaves out.
FlatWhereMatchesAgree ==
  ~overlapped /\ crashes = 0 /\ changes = 0 /\ Transitive =>
    \A j \in Job : canonical[j] # None => canonical[canonical[j]] = None

-----------------------------------------------------------------------------
(* What the repository says of deduplication and the code does not do      *)

\* docs/deduplication.md: "Chaining (A -> B -> C) is strictly prevented by resolving
\* the root canonical before persisting", here where nothing is lost and no
\* content changes.
ChainingPrevented ==
  ~overlapped /\ crashes = 0 /\ changes = 0 =>
    \A j \in Job : canonical[j] # None => canonical[canonical[j]] = None
=============================================================================

------------------------ MODULE DeduplicationProofs ------------------------
(***************************************************************************)
(* Proofs about Deduplication.                                             *)
(*                                                                         *)
(* The root that a session resolves stays in every set of jobs that is     *)
(* closed under the pointers it has loaded (RootStays), by a least         *)
(* counterexample among the numbers of steps: that it is a job, has no     *)
(* pointer of its own and is not younger than the canonical all follow.    *)
(* A session that is alone has the pointers of the table (Alone), so it    *)
(* points jobs at roots only, which closes no cycle and leaves pointers    *)
(* that have their row as they are.  Where nothing was lost either, every  *)
(* pointer has its row or is about to get it (Lossless): then an           *)
(* established canonical that select_canonical prefers to an older job     *)
(* ends in a duplicate that is explained already, and what is linked goes  *)
(* from the younger to the older.  It joins two jobs without a pointer,    *)
(* hence (Matched) two that match each other; and where all copies of a    *)
(* posting match, the older of the two has no older match itself: such     *)
(* jobs are never linked, so pointers lead to roots.                       *)
(***************************************************************************)
EXTENDS Deduplication, FiniteSetTheorems, WellFoundedInduction, TLAPS

-----------------------------------------------------------------------------
(* Roots                                                                   *)

LEMMA LeastNumber ==
  ASSUME NEW T, T \subseteq Nat, T # {}
  PROVE  \E n \in T : \A m \in T : n <= m
<1>1. PICK n \in T : \A m \in T : ~ (<<m, n>> \in OpToRel(<, Nat))
  BY NatLessThanWellFounded, WFMin
<1>2. \A m \in T : ~(m < n)
  BY <1>1 DEF OpToRel
<1>3. QED
  BY <1>2

\* The walk of resolve_canonical_root: f[m] is where m steps from j lead.
IsWalk(v, j, n, f) ==
  f = [m \in 0..n |-> IF m = 0 THEN j
                      ELSE IF v[f[m - 1]] = None THEN f[m - 1] ELSE v[f[m - 1]]]

\* A walk along pointers is well defined for any number of steps.
LEMMA WalksExist ==
  ASSUME NEW v, NEW j, NEW length \in Nat
  PROVE  \E f : IsWalk(v, j, length, f)
<1> DEFINE Up(x) == IF v[x] = None THEN x ELSE v[x]
           Walk(f, n) == f = [m \in 0..n |-> IF m = 0 THEN j ELSE Up(f[m - 1])]
           T == {n \in Nat : ~ \E f : Walk(f, n)}
<1>1. T = {}
  <2> SUFFICES ASSUME T # {} PROVE FALSE
    OBVIOUS
  <2>1. PICK n \in T : \A m \in T : n <= m
    BY LeastNumber
  <2>2. CASE n = 0
    <3> DEFINE f == [m \in 0..0 |-> j]
    <3>1. f = [m \in 0..0 |-> IF m = 0 THEN j ELSE Up(f[m - 1])]
      OBVIOUS
    <3>2. Walk(f, 0)
      BY <3>1
    <3>3. QED
      BY <2>1, <2>2, <3>2
  <2>3. CASE n # 0
    <3>1. n - 1 \in Nat /\ n - 1 \notin T
      BY <2>1, <2>3
    <3>2. PICK g : Walk(g, n - 1)
      BY <3>1
    <3> HIDE DEF T
    <3> DEFINE f == [m \in 0..n |-> IF m = n THEN Up(g[n - 1]) ELSE g[m]]
    <3>3. \A m \in 0..(n - 1) : g[m] = IF m = 0 THEN j ELSE Up(g[m - 1])
      BY <3>2
    <3>4. n \in Nat \ {0}
      BY <2>1, <2>3 DEF T
    <3>5. \A m \in 0..n : m # 0 => f[m - 1] = g[m - 1]
      BY <3>4
    <3>6. \A m \in 0..n : f[m] = IF m = 0 THEN j ELSE Up(f[m - 1])
      <4> TAKE m \in 0..n
      <4>1. CASE m = n
        <5>1. f[m] = Up(g[n - 1]) /\ f[m - 1] = g[n - 1]
          BY <3>4, <3>5, <4>1
        <5> HIDE DEF Up, f
        <5>2. QED
          BY <3>4, <4>1, <5>1
      <4>2. CASE m # n
        <5>1. f[m] = g[m] /\ m \in 0..(n - 1)
          BY <3>4, <4>2
        <5> HIDE DEF Up, f
        <5>2. QED
          BY <3>3, <3>5, <5>1
      <4>3. QED
        BY <4>1, <4>2
    <3>7. f = [m \in 0..n |-> IF m = 0 THEN j ELSE Up(f[m - 1])]
      <4>1. f = [m \in 0..n |-> f[m]]
        OBVIOUS
      <4> HIDE DEF Up, f
      <4>2. QED
        BY <3>6, <4>1
    <3>8. Walk(f, n)
      BY <3>7
    <3>9. QED
      BY <2>1, <3>8 DEF T
  <2>4. QED
    BY <2>2, <2>3
<1>2. \E f : Walk(f, length)
  BY <1>1
<1>3. QED
  BY <1>2 DEF IsWalk

\* The root of a job is in every set of jobs that holds the job and what its
\* members point to.
LEMMA RootStays ==
  ASSUME NEW v, NEW S, NEW j \in S, \A x \in S : v[x] # None => v[x] \in S
  PROVE  Root(v, j) \in S
<1> DEFINE N == Cardinality(Job)
           up == CHOOSE f : IsWalk(v, j, N, f)
           T == {m \in 0..N : up[m] \notin S}
<1>1. N \in Nat
  BY DeduplicationAssumption, FS_CardinalityType
<1>2. Root(v, j) = up[N]
  BY DEF Root, IsWalk
<1> HIDE DEF N
<1>3. \E f : IsWalk(v, j, N, f)
  BY <1>1, WalksExist
<1>4. IsWalk(v, j, N, up)
  BY <1>3
<1> HIDE DEF up
<1>5. \A m \in 0..N : up[m] = IF m = 0 THEN j
                     ELSE IF v[up[m - 1]] = None THEN up[m - 1] ELSE v[up[m - 1]]
  BY <1>4 DEF IsWalk
<1>6. T = {}
  <2> SUFFICES ASSUME T # {} PROVE FALSE
    OBVIOUS
  <2>0. T \subseteq Nat
    BY <1>1
  <2>1. PICK n \in T : \A m \in T : n <= m
    BY <2>0, LeastNumber, Zenon
  <2>2. n # 0
    BY <1>1, <1>5, <2>1
  <2>3. n - 1 \in 0..N /\ up[n - 1] \in S
    BY <1>1, <2>1, <2>2
  <2>4. QED
    BY <1>1, <1>5, <2>1, <2>2, <2>3
<1>7. QED
  BY <1>1, <1>2, <1>6

-----------------------------------------------------------------------------
(* The invariant                                                           *)

\* Positions tell known jobs apart and are counted up.
SeenInv ==
  \A i \in Known :
    seen[i] <= Cardinality(Known) /\ \A j \in Known : seen[i] = seen[j] => i = j

\* What sessions know and hold is about known jobs; when a session decides, it has
\* loaded its target and everything the pointers it has loaded lead to.
Decides(w) ==
  /\ target[w] \in Known /\ view[w][target[w]] # "UNLOADED"
  /\ \A j \in Job : view[w][j] \in Job => view[w][view[w][j]] # "UNLOADED"

ViewInv ==
  /\ \A j \in Job : canonical[j] \in Known \cup {None}
  /\ \A w \in Session :
       /\ \A j \in Job : view[w][j] \in Known \cup {None, "UNLOADED"}
       /\ \A i \in 1..Len(todo[w]) : todo[w][i] \in Known
       /\ pc[w] = "idle" => \A j \in Job : view[w][j] = "UNLOADED"
       /\ pc[w] = "decide" => Decides(w)
       /\ pc[w] \in {"link", "record"} => plan[w].dup \in Known /\ plan[w].root \in Known

\* A session that is alone has the pointers of the table, and the row it is to
\* write is still missing.
Undisturbed(w) ==
  /\ \A u \in Session \ {w} : pc[u] = "idle"
  /\ \A j \in Job : view[w][j] \in {canonical[j], "UNLOADED"}
  /\ pc[w] \in {"link", "record"} => record[plan[w].dup] = None
  /\ pc[w] = "link" => plan[w].root # plan[w].dup /\ canonical[plan[w].root] = None
  /\ pc[w] = "record" => canonical[plan[w].dup] = plan[w].root

Alone == ~overlapped => \A w \in Session : pc[w] # "idle" => Undisturbed(w)

\* As long as nothing was lost either, a pointer has its row or is about to get it,
\* and the pointers planned lead to older jobs.
Lossless ==
  ~overlapped /\ crashes = 0 =>
    /\ \A j \in Job : canonical[j] # None =>
         record[j] # None \/ \E w \in Session : pc[w] = "record" /\ plan[w].dup = j
    /\ \A w \in Session : pc[w] = "link" => seen[plan[w].root] < seen[plan[w].dup]

\* Without overlaps and losses every pointer leads to a job discovered earlier.
CanonicalIsOlder ==
  ~overlapped /\ crashes = 0 =>
    \A j \in Job : canonical[j] # None => seen[canonical[j]] < seen[j]

BaseInv == TypeOK /\ SeenInv /\ ViewInv

DedupInv ==
  BaseInv /\ Alone /\ RecordMatchesPointer /\ NoCycle /\ Lossless /\ CanonicalIsOlder

-----------------------------------------------------------------------------
(* Initially, and at the end of a session                                  *)

LEMMA KnownIsFinite ==
  ASSUME seen \in [Job -> 0..Cardinality(Job)]
  PROVE  /\ Cardinality(Job) \in Nat /\ IsFiniteSet(Known) /\ Cardinality(Known) \in Nat
         /\ Cardinality(Known) <= Cardinality(Job)
         /\ \A j \in Job \ Known : Cardinality(Known) < Cardinality(Job)
<1>1. IsFiniteSet(Job) /\ Known \subseteq Job
  BY DeduplicationAssumption DEF Known
<1>2. /\ IsFiniteSet(Known) /\ Cardinality(Known) <= Cardinality(Job)
      /\ Cardinality(Job) = Cardinality(Known) => Job = Known
  BY <1>1, FS_Subset, Zenon
<1>3. Cardinality(Job) \in Nat /\ Cardinality(Known) \in Nat
  BY <1>1, <1>2, FS_CardinalityType
<1>4. \A j \in Job \ Known : Cardinality(Known) # Cardinality(Job)
  BY <1>2
<1>5. QED
  BY <1>2, <1>3, <1>4

LEMMA DedupInvInit == Init => DedupInv
<1> SUFFICES ASSUME Init PROVE DedupInv
  OBVIOUS
<1> USE DEF Init, NoView, NoPlan
<1>1. Known = {}
  BY DEF Known
<1>2. TypeOK
  <2>1. Cardinality(Job) \in Nat
    BY DeduplicationAssumption, FS_CardinalityType
  <2>2. alike \in SUBSET Pairs
    OBVIOUS
  <2>3. seen \in [Job -> 0..Cardinality(Job)] /\ changes \in 0..MaxChanges /\ crashes \in 0..MaxCrashes
    BY <2>1, DeduplicationAssumption
  <2>4. /\ canonical \in [Job -> Job \cup {None}] /\ record \in [Job -> Job \cup {None}]
        /\ target \in [Session -> Job \cup {None}] /\ overlapped \in BOOLEAN
        /\ view \in [Session -> [Job -> Job \cup {None, "UNLOADED"}]]
        /\ plan \in [Session -> [dup : Job \cup {None}, root : Job \cup {None}]]
    OBVIOUS
  <2>5. todo \in [Session -> Seq(Job)]
    OBVIOUS
  <2>6. QED
    BY <2>2, <2>3, <2>4, <2>5 DEF TypeOK
<1>3. SeenInv /\ ViewInv
  BY <1>1 DEF SeenInv, ViewInv
<1>4. Alone /\ RecordMatchesPointer /\ Lossless /\ CanonicalIsOlder
  BY DEF Alone, RecordMatchesPointer, Lossless, CanonicalIsOlder
<1>5. NoCycle
  BY DeduplicationAssumption DEF NoCycle
<1>6. QED
  BY <1>2, <1>3, <1>4, <1>5 DEF DedupInv, BaseInv

-----------------------------------------------------------------------------
(* Plans                                                                   *)

LEMMA OldestIs ==
  ASSUME TypeOK, NEW S \in SUBSET Job, S # {}
  PROVE  Oldest(S) \in S /\ \A k \in S : seen[Oldest(S)] <= seen[k]
<1> DEFINE T == {seen[j] : j \in S}
<1>1. T \subseteq Nat /\ T # {}
  BY DeduplicationAssumption, FS_CardinalityType DEF TypeOK
<1>2. PICK n \in T : \A m \in T : n <= m
  BY <1>1, LeastNumber, Zenon
<1>3. PICK j \in S : n = seen[j]
  BY <1>2
<1>4. \A k \in S : seen[j] <= seen[k]
  BY <1>2, <1>3
<1>5. QED
  BY <1>4 DEF Oldest

\* What the loop over the candidates settles on.
Chosen(w) == FirstHit(Hits(view[w], target[w]))

\* The pair to be linked, and the two sides of it.
LEMMA PairChosen ==
  ASSUME BaseInv, NEW w \in Session, pc[w] = "decide", Hits(view[w], target[w]) # {}
  PROVE  LET v == view[w]
             t == target[w]
             c == Chosen(w)
             can == Canonical(v, t, c)
         IN /\ t \in Known /\ c \in Known /\ c # t /\ v[c] # "UNLOADED" /\ v[t] # "UNLOADED"
            /\ ~Itself(v, t, c)
            /\ can \in {t, c} /\ PlanFor(v, t, c).dup = Other(t, c, can)
            /\ PlanFor(v, t, c).root = Root(v, can)
<1> DEFINE v == view[w]
           t == target[w]
           c == Chosen(w)
           can == Canonical(v, t, c)
<1>1. Hits(v, t) \subseteq Known /\ Known \subseteq Job
  BY DEF Hits, Candidates, Known
<1>2. c \in Hits(v, t)
  BY <1>1, OldestIs DEF BaseInv, Chosen, FirstHit
<1>3. c \in Known /\ c # t /\ v[c] # "UNLOADED" /\ ~Itself(v, t, c)
  BY <1>2 DEF Hits, Candidates
<1>4. t \in Known /\ v[t] # "UNLOADED"
  BY DEF BaseInv, ViewInv, Decides
<1>5. can \in {t, c}
  <2>1. Oldest({t, c}) \in {t, c}
    BY <1>1, <1>3, <1>4, OldestIs DEF BaseInv
  <2>2. QED
    BY <2>1 DEF Canonical
<1>6. QED
  BY <1>3, <1>4, <1>5 DEF PlanFor

\* The root planned is known and has been loaded.
LEMMA RootsKnown ==
  ASSUME BaseInv, NEW w \in Session, pc[w] = "decide", NEW j \in Known, view[w][j] # "UNLOADED"
  PROVE  Root(view[w], j) \in Known /\ view[w][Root(view[w], j)] # "UNLOADED"
<1> DEFINE v == view[w]
           S == {k \in Known : v[k] # "UNLOADED"}
<1>1. ASSUME NEW x \in S, v[x] # None PROVE v[x] \in S
  <2>1. x \in Job /\ v[x] \in Known /\ v[x] \in Job
    BY <1>1 DEF BaseInv, ViewInv, Known
  <2>2. v[v[x]] # "UNLOADED"
    BY <2>1 DEF BaseInv, ViewInv, Decides
  <2>3. QED
    BY <2>1, <2>2
<1>2. Root(v, j) \in S
  BY <1>1, RootStays
<1>3. QED
  BY <1>2

\* A decision is a plan for the pair, or none.
LEMMA DecisionsPlan ==
  ASSUME BaseInv, NEW w \in Session, Decide(w)
  PROVE  /\ UNCHANGED <<overlapped, seen, alike, canonical, record, todo, view, changes, crashes>>
         /\ \A u \in Session \ {w} : pc'[u] = pc[u] /\ plan'[u] = plan[u] /\ target'[u] = target[u]
         /\ \/ Return(w) /\ pc'[w] = "next" /\ plan'[w] = NoPlan /\ target'[w] = None
            \/ LET v == view[w]
                   t == target[w]
                   c == Chosen(w)
                   can == Canonical(v, t, c)
               IN /\ pc'[w] = "link" /\ target' = target
                  /\ plan' = [plan EXCEPT ![w] = PlanFor(v, t, c)]
                  /\ plan'[w].dup = Other(t, c, can) /\ plan'[w].root = Root(v, can)
                  /\ t \in Known /\ c \in Known /\ c # t
                  /\ v[c] # "UNLOADED" /\ v[t] # "UNLOADED" /\ can \in {t, c}
                  /\ plan'[w].root \in Known /\ plan'[w].dup \in Known
                  /\ plan'[w].root # plan'[w].dup
                  /\ v[plan'[w].root] = None /\ record[plan'[w].dup] = None
<1> DEFINE v == view[w]
           t == target[w]
           c == Chosen(w)
           can == Canonical(v, t, c)
<1>1. pc[w] = "decide" /\ UNCHANGED <<overlapped, seen, alike, canonical, record, todo, view, changes, crashes>>
  BY DEF Decide
<1>2. CASE Return(w)
  BY <1>1, <1>2 DEF Return, BaseInv, TypeOK
<1>3. CASE ~Return(w)
  <2>1. /\ Hits(v, t) # {} /\ ~Cyclic(v, can) /\ Unexplained(PlanFor(v, t, c).dup)
        /\ plan' = [plan EXCEPT ![w] = PlanFor(v, t, c)]
        /\ pc' = [pc EXCEPT ![w] = "link"]
        /\ target' = target
    BY <1>3 DEF Decide, Chosen
  <2>2. /\ t \in Known /\ c \in Known /\ c # t /\ v[c] # "UNLOADED" /\ v[t] # "UNLOADED"
        /\ ~Itself(v, t, c)
        /\ can \in {t, c} /\ PlanFor(v, t, c).dup = Other(t, c, can)
        /\ PlanFor(v, t, c).root = Root(v, can)
    BY <1>1, <2>1, PairChosen
  <2>3. Root(v, can) \in Known
    BY <1>1, <2>2, RootsKnown
  <2>4. plan'[w] = PlanFor(v, t, c) /\ pc'[w] = "link"
    BY <2>1 DEF BaseInv, TypeOK
  <2>5. Root(v, can) # Other(t, c, can)
    BY <2>1, <2>2 DEF Itself
  <2>6. v[Root(v, can)] = None /\ record[Other(t, c, can)] = None
    BY <2>1, <2>2 DEF Cyclic, Unexplained
  <2>7. Other(t, c, can) \in Known
    BY <2>2 DEF Other
  <2>8. \A u \in Session \ {w} : pc'[u] = pc[u] /\ plan'[u] = plan[u] /\ target'[u] = target[u]
    BY <2>1 DEF BaseInv, TypeOK
  <2> HIDE DEF v, t, c, can
  <2>9. QED
    BY <1>1, <2>1, <2>2, <2>3, <2>4, <2>5, <2>6, <2>7, <2>8 DEF v, t, c, can
<1>4. QED
  BY <1>2, <1>3

-----------------------------------------------------------------------------
(* Types and views                                                         *)

\* What is known stays known.
LEMMA KnownStays ==
  ASSUME seen' = seen
  PROVE  Known' = Known
BY DEF Known

LEMMA SeenUpserted ==
  ASSUME BaseInv, NEW w \in Session, NEW j \in Job, Upsert(w, j)
  PROVE  /\ seen' \in [Job -> 0..Cardinality(Job)] /\ SeenInv'
         /\ Known' = Known \cup {j}
         /\ \A i \in Known : seen'[i] = seen[i]
<1>0. /\ Cardinality(Job) \in Nat /\ IsFiniteSet(Known) /\ Cardinality(Known) \in Nat
      /\ Cardinality(Known) <= Cardinality(Job) /\ Known \subseteq Job
      /\ \A i \in Job \ Known : Cardinality(Known) < Cardinality(Job)
      /\ seen \in [Job -> 0..Cardinality(Job)]
  BY KnownIsFinite DEF BaseInv, TypeOK, Known
<1>1. CASE j \in Known
  <2>1. seen' = seen
    BY <1>0, <1>1 DEF Upsert, FirstSeen
  <2>2. Known' = Known
    BY <2>1, KnownStays
  <2>3. QED
    BY <1>0, <1>1, <2>1, <2>2 DEF BaseInv, SeenInv
<1>2. CASE j \notin Known
  <2> DEFINE n == Cardinality(Known)
  <2>1. seen' = [seen EXCEPT ![j] = n + 1] /\ n + 1 <= Cardinality(Job)
    BY <1>0, <1>2 DEF Upsert, FirstSeen
  <2>2. Known' = Known \cup {j}
    BY <1>0, <2>1 DEF Known
  <2>3. Cardinality(Known') = n + 1
    BY <1>0, <1>2, <2>2, FS_AddElement
  <2>4. \A i \in Known : seen'[i] = seen[i] /\ seen[i] <= n /\ seen[i] \in Nat
    BY <1>0, <1>2, <2>1 DEF BaseInv, SeenInv
  <2>5. seen' \in [Job -> 0..Cardinality(Job)] /\ seen'[j] = n + 1
    BY <1>0, <2>1
  <2>6. SeenInv'
    <3> HIDE DEF n
    <3>1. ASSUME NEW i \in Known' PROVE seen'[i] <= n + 1
      BY <1>0, <2>2, <2>4, <2>5, <3>1 DEF n
    <3>2. ASSUME NEW i \in Known', NEW k \in Known', seen'[i] = seen'[k] PROVE i = k
      <4>1. CASE i \in Known /\ k \in Known
        BY <2>4, <3>2, <4>1 DEF BaseInv, SeenInv
      <4>2. CASE i = j \/ k = j
        BY <1>0, <2>2, <2>4, <2>5, <3>2, <4>2 DEF n
      <4>3. QED
        BY <2>2, <4>1, <4>2
    <3>3. QED
      BY <2>3, <3>1, <3>2 DEF SeenInv, n
  <2>7. QED
    BY <2>2, <2>4, <2>5, <2>6
<1>3. QED
  BY <1>1, <1>2

\* The end of a session leaves nothing of it.
LEMMA EndKeepsBase ==
  ASSUME BaseInv, NEW w \in Session, EndSession(w), crashes' \in 0..MaxCrashes,
         UNCHANGED <<overlapped, seen, alike, canonical, record, changes>>
  PROVE  BaseInv'
<1>1. TypeOK'
  <2>1. /\ pc' \in [Session -> {"idle", "upsert", "next", "decide", "link", "record"}]
        /\ todo' \in [Session -> Seq(Job)] /\ target' \in [Session -> Job \cup {None}]
        /\ view' \in [Session -> [Job -> Job \cup {None, "UNLOADED"}]]
        /\ plan' \in [Session -> [dup : Job \cup {None}, root : Job \cup {None}]]
    BY DEF BaseInv, TypeOK, EndSession, NoView, NoPlan
  <2>2. \A u \in Session : pc'[u] \in {"link", "record"} => plan'[u].dup \in Job /\ plan'[u].root \in Job
    BY DEF BaseInv, TypeOK, EndSession
  <2>3. QED
    BY <2>1, <2>2 DEF BaseInv, TypeOK
<1>2. SeenInv' /\ Known' = Known
  BY DEF BaseInv, SeenInv, Known
<1>3. ViewInv'
  <2>1. ASSUME NEW u \in Session \ {w}
        PROVE  /\ pc'[u] = pc[u] /\ todo'[u] = todo[u] /\ target'[u] = target[u]
               /\ view'[u] = view[u] /\ plan'[u] = plan[u]
    BY DEF EndSession, BaseInv, TypeOK
  <2>2. /\ pc'[w] = "idle" /\ todo'[w] = << >> /\ view'[w] = NoView
    BY DEF EndSession, BaseInv, TypeOK
  <2>3. \A j \in Job : view'[w][j] = "UNLOADED"
    BY <2>2 DEF NoView
  <2>4. QED
    BY <1>2, <2>1, <2>2, <2>3 DEF BaseInv, ViewInv, Decides
<1>4. QED
  BY <1>1, <1>2, <1>3 DEF BaseInv

\* A step of session w.
Step(w) ==
  \/ \E j \in Job : Upsert(w, j) \/ Run(w, j)
  \/ StartBatch(w) \/ Load(w) \/ Decide(w) \/ Link(w) \/ Explain(w) \/ Collide(w)
  \/ Close(w) \/ Crash(w)

\* What a step of w leaves of the other sessions.
Apart(w) ==
  \A u \in Session \ {w} :
    /\ pc'[u] = pc[u] /\ todo'[u] = todo[u] /\ target'[u] = target[u]
    /\ view'[u] = view[u] /\ plan'[u] = plan[u]

LEMMA StepsApart ==
  ASSUME BaseInv, NEW w \in Session, Step(w)
  PROVE  Apart(w)
<1> USE DEF BaseInv, TypeOK, Apart
<1>1. ASSUME NEW j \in Job, Upsert(w, j) \/ Run(w, j) PROVE Apart(w)
  BY <1>1 DEF Upsert, Run
<1>2. CASE StartBatch(w) \/ Load(w)
  BY <1>2 DEF StartBatch, Load
<1>3. CASE Decide(w)
  BY <1>3, DecisionsPlan
<1>4. CASE Link(w)
  BY <1>4 DEF Link
<1>5. CASE Explain(w)
  BY <1>5 DEF Explain, Return
<1>6. CASE Collide(w) \/ Close(w) \/ Crash(w)
  <2>1. EndSession(w)
    BY <1>6 DEF Collide, Close, Crash
  <2>2. QED
    BY <2>1 DEF EndSession
<1>7. QED
  BY <1>1, <1>2, <1>3, <1>4, <1>5, <1>6 DEF Step

\* The parts of ViewInv about one session.
Views(w) ==
  /\ \A j \in Job : view[w][j] \in Known \cup {None, "UNLOADED"}
  /\ \A i \in 1..Len(todo[w]) : todo[w][i] \in Known
  /\ pc[w] = "idle" => \A j \in Job : view[w][j] = "UNLOADED"
  /\ pc[w] = "decide" => Decides(w)
  /\ pc[w] \in {"link", "record"} => plan[w].dup \in Known /\ plan[w].root \in Known

\* The session that acts is the only one whose view has to be looked at.
LEMMA ViewsKept ==
  ASSUME BaseInv, NEW w \in Session, Apart(w), Known \subseteq Known', Views(w)',
         \A j \in Job : canonical'[j] \in Known' \cup {None}
  PROVE  ViewInv'
<1>1. ASSUME NEW u \in Session \ {w} PROVE Views(u)'
  <2>1. Views(u)
    BY DEF BaseInv, ViewInv, Views
  <2>2. /\ pc'[u] = pc[u] /\ todo'[u] = todo[u] /\ target'[u] = target[u]
        /\ view'[u] = view[u] /\ plan'[u] = plan[u]
    BY DEF Apart
  <2>3. QED
    BY <2>1, <2>2 DEF Views, Decides
<1>2. QED
  BY <1>1 DEF ViewInv, Views

LEMMA BaseStep ==
  ASSUME BaseInv, NEW w \in Session, Step(w)
  PROVE  BaseInv'
<1>a. Apart(w)
  BY StepsApart
<1>b. /\ pc \in [Session -> {"idle", "upsert", "next", "decide", "link", "record"}]
      /\ todo \in [Session -> Seq(Job)] /\ target \in [Session -> Job \cup {None}]
      /\ view \in [Session -> [Job -> Job \cup {None, "UNLOADED"}]]
      /\ plan \in [Session -> [dup : Job \cup {None}, root : Job \cup {None}]]
      /\ canonical \in [Job -> Job \cup {None}] /\ record \in [Job -> Job \cup {None}]
  BY DEF BaseInv, TypeOK
<1>c. Views(w) /\ \A j \in Job : canonical[j] \in Known \cup {None}
  BY DEF BaseInv, ViewInv, Views
<1>d. Known \subseteq Job
  BY DEF Known
<1>1. ASSUME NEW j \in Job, Upsert(w, j) PROVE BaseInv'
  <2>1. /\ seen' \in [Job -> 0..Cardinality(Job)] /\ SeenInv' /\ Known' = Known \cup {j}
    BY <1>1, SeenUpserted
  <2>2. /\ pc'[w] = "upsert" /\ todo'[w] = Append(todo[w], j)
        /\ view'[w] = [view[w] EXCEPT ![j] = canonical[j]]
        /\ UNCHANGED <<canonical, record, target, plan, crashes>>
    BY <1>1, <1>b DEF Upsert
  <2>3. TypeOK'
    <3>1. alike' \in SUBSET Pairs /\ changes' \in 0..MaxChanges
      <4>1. CASE UNCHANGED <<alike, changes>>
        BY <4>1 DEF BaseInv, TypeOK
      <4>2. CASE /\ changes < MaxChanges /\ changes' = changes + 1
                 /\ \E S \in SUBSET (Job \ {j}) :
                      alike' = {p \in alike : j \notin p} \cup {{j, k} : k \in S}
        <5>1. changes' \in 0..MaxChanges
          BY <4>2, DeduplicationAssumption DEF BaseInv, TypeOK
        <5>2. PICK S \in SUBSET (Job \ {j}) :
                alike' = {p \in alike : j \notin p} \cup {{j, k} : k \in S}
          BY <4>2
        <5>3. {{j, k} : k \in S} \subseteq Pairs
          BY DEF Pairs
        <5>4. QED
          BY <5>1, <5>2, <5>3 DEF BaseInv, TypeOK
      <4>3. QED
        BY <1>1, <4>1, <4>2 DEF Upsert
    <3>2. /\ pc' \in [Session -> {"idle", "upsert", "next", "decide", "link", "record"}]
          /\ todo' \in [Session -> Seq(Job)]
          /\ view' \in [Session -> [Job -> Job \cup {None, "UNLOADED"}]]
      BY <1>1, <1>b DEF Upsert
    <3>3. overlapped' \in BOOLEAN
      BY <1>1 DEF Upsert, Begin, BaseInv, TypeOK
    <3>4. \A u \in Session : pc'[u] \in {"link", "record"} => plan'[u].dup \in Job /\ plan'[u].root \in Job
      BY <1>a, <2>2 DEF Apart, BaseInv, TypeOK
    <3>5. QED
      BY <2>1, <2>2, <3>1, <3>2, <3>3, <3>4 DEF BaseInv, TypeOK
  <2>4. Views(w)'
    <3>1. \A i \in 1..Len(todo'[w]) : todo'[w][i] \in Known'
      BY <1>b, <1>c, <2>1, <2>2 DEF Views
    <3>2. \A i \in Job : view'[w][i] \in Known' \cup {None, "UNLOADED"}
      BY <1>b, <1>c, <2>1, <2>2 DEF Views
    <3>3. QED
      BY <2>2, <3>1, <3>2 DEF Views
  <2>5. QED
    BY <1>a, <1>c, <2>1, <2>2, <2>3, <2>4, ViewsKept DEF BaseInv
<1>2. ASSUME NEW j \in Job, Run(w, j) PROVE BaseInv'
  <2>1. /\ pc' = [pc EXCEPT ![w] = "next"] /\ todo' = [todo EXCEPT ![w] = <<j>>]
        /\ pc'[w] = "next" /\ todo'[w] = <<j>> /\ j \in Known
        /\ UNCHANGED <<seen, alike, canonical, record, target, view, plan, changes, crashes>>
    BY <1>2, <1>b DEF Run
  <2>2. TypeOK'
    <3>1. todo' \in [Session -> Seq(Job)]
      BY <1>b, <2>1
    <3>2. overlapped' \in BOOLEAN
      BY <1>2 DEF Run, Begin, BaseInv, TypeOK
    <3>3. \A u \in Session : pc'[u] \in {"link", "record"} => plan'[u].dup \in Job /\ plan'[u].root \in Job
      BY <1>a, <2>1 DEF Apart, BaseInv, TypeOK
    <3>4. QED
      BY <2>1, <3>1, <3>2, <3>3 DEF BaseInv, TypeOK
  <2>3. Known' = Known /\ SeenInv'
    BY <2>1 DEF Known, BaseInv, SeenInv
  <2>4. Views(w)'
    BY <1>c, <2>1, <2>3 DEF Views
  <2>5. QED
    BY <1>a, <1>c, <2>1, <2>2, <2>3, <2>4, ViewsKept DEF BaseInv
<1>3. CASE StartBatch(w)
  <2>1. pc' = [pc EXCEPT ![w] = "next"] /\ pc'[w] = "next"
        /\ UNCHANGED <<overlapped, seen, alike, canonical, record, todo, target, view, plan, changes, crashes>>
    BY <1>3, <1>b DEF StartBatch
  <2>2. TypeOK'
    BY <2>1 DEF BaseInv, TypeOK
  <2>3. Known' = Known /\ SeenInv'
    BY <2>1 DEF Known, BaseInv, SeenInv
  <2>4. Views(w)'
    BY <1>c, <2>1, <2>3 DEF Views
  <2>5. QED
    BY <1>a, <1>c, <2>1, <2>2, <2>3, <2>4, ViewsKept DEF BaseInv
<1>4. CASE Load(w)
  <2> DEFINE loaded == [j \in Job |-> IF view[w][j] = "UNLOADED" /\ j \in Known
                                     THEN canonical[j] ELSE view[w][j]]
  <2>1. /\ todo[w] # << >> /\ todo'[w] = Tail(todo[w]) /\ target'[w] = Head(todo[w])
        /\ view'[w] = loaded /\ pc'[w] = "decide"
        /\ UNCHANGED <<overlapped, seen, alike, canonical, record, plan, changes, crashes>>
    BY <1>4, <1>b DEF Load
  <2>2. loaded \in [Job -> Job \cup {None, "UNLOADED"}]
    BY <1>b
  <2>3. Head(todo[w]) \in Known
    BY <1>b, <1>c, <2>1 DEF Views
  <2>4. TypeOK'
    <3>1. todo' \in [Session -> Seq(Job)]
      BY <1>4, <1>b DEF Load
    <3>2. target' \in [Session -> Job \cup {None}]
      <4>1. target' = [target EXCEPT ![w] = Head(todo[w])]
        BY <1>4 DEF Load
      <4>2. QED
        BY <1>b, <1>d, <2>3, <4>1
    <3>3. view' \in [Session -> [Job -> Job \cup {None, "UNLOADED"}]]
      <4>1. view' = [view EXCEPT ![w] = loaded]
        BY <1>4 DEF Load
      <4> HIDE DEF loaded
      <4>2. QED
        BY <1>b, <2>2, <4>1
    <3>4. pc' \in [Session -> {"idle", "upsert", "next", "decide", "link", "record"}]
      BY <1>4, <1>b DEF Load
    <3>5. \A u \in Session : pc'[u] \in {"link", "record"} => plan'[u].dup \in Job /\ plan'[u].root \in Job
      BY <1>a, <2>1 DEF Apart, BaseInv, TypeOK
    <3>6. QED
      BY <2>1, <3>1, <3>2, <3>3, <3>4, <3>5 DEF BaseInv, TypeOK
  <2>5. Known' = Known /\ SeenInv'
    BY <2>1 DEF Known, BaseInv, SeenInv
  <2>6. \A j \in Known : loaded[j] # "UNLOADED"
    BY <1>c, <1>d, DeduplicationAssumption
  <2>7. \A j \in Job : loaded[j] \in Known \cup {None, "UNLOADED"}
    BY <1>c DEF Views
  <2>8. Views(w)'
    <3> HIDE DEF loaded
    <3>1. \A i \in 1..Len(todo'[w]) : todo'[w][i] \in Known'
      BY <1>b, <1>c, <2>1, <2>5 DEF Views
    <3>2. Decides(w)'
      BY <1>d, <2>1, <2>3, <2>5, <2>6, <2>7, DeduplicationAssumption DEF Decides
    <3>3. QED
      BY <2>1, <2>5, <2>7, <3>1, <3>2 DEF Views
  <2>9. QED
    BY <1>a, <1>c, <2>1, <2>4, <2>5, <2>8, ViewsKept DEF BaseInv
<1>5. CASE Decide(w)
  <2>1. UNCHANGED <<overlapped, seen, alike, canonical, record, todo, view, changes, crashes>>
    BY <1>5, DecisionsPlan
  <2>2. Known' = Known /\ SeenInv'
    BY <2>1 DEF Known, BaseInv, SeenInv
  <2>3. \/ Return(w) /\ pc'[w] = "next"
        \/ /\ pc'[w] = "link" /\ target' = target
           /\ plan'[w].root \in Known /\ plan'[w].dup \in Known
    BY <1>5, DecisionsPlan
  <2>4. Views(w)'
    BY <1>c, <2>1, <2>2, <2>3 DEF Views
  <2>5. TypeOK'
    <3>1. \A u \in Session : pc'[u] \in {"link", "record"} => plan'[u].dup \in Job /\ plan'[u].root \in Job
      BY <1>a, <1>d, <2>3 DEF Apart, BaseInv, TypeOK
    <3>2. CASE Return(w)
      BY <1>b, <2>1, <3>1, <3>2 DEF Return, NoPlan, BaseInv, TypeOK
    <3>3. CASE ~Return(w)
      <4>1. /\ pc' = [pc EXCEPT ![w] = "link"] /\ target' = target
            /\ plan' = [plan EXCEPT ![w] = PlanFor(view[w], target[w], Chosen(w))]
        BY <1>5, <3>3 DEF Decide, Chosen
      <4>2. plan'[w] = PlanFor(view[w], target[w], Chosen(w))
        BY <1>b, <4>1
      <4>3. /\ plan'[w].root \in Known /\ plan'[w].dup \in Known
        BY <2>3, <3>3
      <4>4. PlanFor(view[w], target[w], Chosen(w)) \in [dup : Job, root : Job]
        BY <1>d, <4>2, <4>3 DEF PlanFor
      <4>5. QED
        BY <1>b, <2>1, <3>1, <4>1, <4>4 DEF BaseInv, TypeOK
    <3>4. QED
      BY <3>2, <3>3
  <2>6. QED
    BY <1>a, <1>c, <2>1, <2>2, <2>4, <2>5, ViewsKept DEF BaseInv
<1>6. CASE Link(w)
  <2> DEFINE dup == plan[w].dup
             root == plan[w].root
  <2>1. /\ pc[w] = "link" /\ pc' = [pc EXCEPT ![w] = "record"] /\ pc'[w] = "record"
        /\ canonical' = IF view[w][dup] = root THEN canonical ELSE [canonical EXCEPT ![dup] = root]
        /\ view' = [view EXCEPT ![w] = [view[w] EXCEPT ![dup] = root]]
        /\ UNCHANGED <<overlapped, seen, alike, record, todo, target, plan, changes, crashes>>
    BY <1>6, <1>b DEF Link
  <2>2. dup \in Known /\ root \in Known
    BY <1>c, <2>1 DEF Views
  <2> HIDE DEF dup, root
  <2>3. /\ canonical' \in [Job -> Job \cup {None}] /\ \A j \in Job : canonical'[j] \in Known \cup {None}
        /\ view' \in [Session -> [Job -> Job \cup {None, "UNLOADED"}]]
        /\ \A j \in Job : view'[w][j] \in Known \cup {None, "UNLOADED"}
    BY <1>b, <1>c, <1>d, <2>1, <2>2 DEF Views
  <2>4. Known' = Known /\ SeenInv'
    BY <2>1 DEF Known, BaseInv, SeenInv
  <2>5. TypeOK'
    <3>1. \A u \in Session : pc'[u] \in {"link", "record"} => plan'[u].dup \in Job /\ plan'[u].root \in Job
      BY <1>a, <1>d, <2>1, <2>2 DEF Apart, BaseInv, TypeOK, dup, root
    <3>2. QED
      BY <2>1, <2>3, <3>1 DEF BaseInv, TypeOK
  <2>6. Views(w)'
    BY <1>c, <2>1, <2>2, <2>3, <2>4 DEF Views, dup, root
  <2>7. QED
    BY <1>a, <2>3, <2>4, <2>5, <2>6, ViewsKept DEF BaseInv
<1>7. CASE Explain(w)
  <2>1. /\ pc[w] = "record" /\ record' = [record EXCEPT ![plan[w].dup] = plan[w].root] /\ Return(w)
        /\ UNCHANGED <<overlapped, seen, alike, canonical, todo, view, changes, crashes>>
    BY <1>7 DEF Explain
  <2>2. plan[w].root \in Known /\ pc'[w] = "next"
    BY <1>b, <1>c, <2>1 DEF Views, Return
  <2>3. Known' = Known /\ SeenInv'
    BY <2>1 DEF Known, BaseInv, SeenInv
  <2>4. TypeOK'
    <3>1. \A u \in Session : pc'[u] \in {"link", "record"} => plan'[u].dup \in Job /\ plan'[u].root \in Job
      BY <1>a, <2>2 DEF Apart, BaseInv, TypeOK
    <3>2. record' \in [Job -> Job \cup {None}]
      BY <1>b, <1>d, <2>1, <2>2
    <3>3. QED
      BY <1>b, <2>1, <3>1, <3>2 DEF Return, NoPlan, BaseInv, TypeOK
  <2>5. Views(w)'
    BY <1>c, <2>1, <2>2, <2>3 DEF Views
  <2>6. QED
    BY <1>a, <1>c, <2>1, <2>3, <2>4, <2>5, ViewsKept DEF BaseInv
<1>8. CASE Collide(w) \/ Close(w)
  BY <1>8, EndKeepsBase DEF Collide, Close, BaseInv, TypeOK
<1>9. CASE Crash(w)
  <2>1. crashes' \in 0..MaxCrashes
    BY <1>9, DeduplicationAssumption DEF Crash, BaseInv, TypeOK
  <2>2. QED
    BY <1>9, <2>1, EndKeepsBase DEF Crash
<1>10. QED
  BY <1>1, <1>2, <1>3, <1>4, <1>5, <1>6, <1>7, <1>8, <1>9 DEF Step

-----------------------------------------------------------------------------
(* One session at a time                                                   *)

\* What the table of pointers goes through: one pointer of a job without a row is
\* set, or nothing.
Pointers(w) ==
  \/ canonical' = canonical
  \/ /\ Link(w) /\ record' = record
     /\ canonical' = [canonical EXCEPT ![plan[w].dup] = plan[w].root]

LEMMA PointersStep ==
  ASSUME NEW w \in Session, Step(w)
  PROVE  Pointers(w)
<1>1. CASE Link(w)
  BY <1>1 DEF Link, Pointers
<1>2. CASE ~Link(w)
  BY <1>2 DEF Step, Pointers, Upsert, Run, StartBatch, Load, Decide, Explain, Collide, Close, Crash
<1>3. QED
  BY <1>1, <1>2

\* Whoever acts without overlapping is the only one at work.
LEMMA SoleActor ==
  ASSUME BaseInv, Alone, NEW w \in Session, Step(w), ~overlapped'
  PROVE  /\ ~overlapped /\ \A u \in Session \ {w} : pc[u] = "idle"
         /\ \A j \in Job : view[w][j] \in {canonical[j], "UNLOADED"}
         /\ pc[w] # "idle" => Undisturbed(w)
<1>1. ~overlapped
  BY DEF Step, Upsert, Run, Begin, StartBatch, Load, Decide, Link, Explain, Collide, Close, Crash
<1>2. CASE pc[w] # "idle"
  BY <1>1, <1>2 DEF Alone, Undisturbed
<1>3. CASE pc[w] = "idle"
  <2>1. \A j \in Job : view[w][j] = "UNLOADED"
    BY <1>3 DEF BaseInv, ViewInv
  <2>2. Begin(w)
    BY <1>3 DEF Step, Upsert, Run, StartBatch, Load, Decide, Link, Explain, Collide, Close, Crash
  <2>3. QED
    BY <1>1, <1>3, <2>1, <2>2 DEF Begin
<1>4. QED
  BY <1>2, <1>3

LEMMA AloneStep ==
  ASSUME BaseInv, Alone, NEW w \in Session, Step(w)
  PROVE  Alone'
<1> SUFFICES ASSUME ~overlapped', pc'[w] # "idle" PROVE Undisturbed(w)'
  <2>1. ASSUME ~overlapped', NEW u \in Session, pc'[u] # "idle" PROVE u = w
    BY <2>1, SoleActor, StepsApart DEF Apart
  <2>2. QED
    BY <2>1 DEF Alone
<1>1. /\ \A u \in Session \ {w} : pc'[u] = "idle"
      /\ \A j \in Job : view[w][j] \in {canonical[j], "UNLOADED"}
      /\ pc[w] # "idle" => Undisturbed(w)
  BY SoleActor, StepsApart DEF Apart
<1>b. /\ pc \in [Session -> {"idle", "upsert", "next", "decide", "link", "record"}]
      /\ view \in [Session -> [Job -> Job \cup {None, "UNLOADED"}]]
      /\ canonical \in [Job -> Job \cup {None}]
  BY DEF BaseInv, TypeOK
<1>2. ASSUME NEW j \in Job, Upsert(w, j) PROVE Undisturbed(w)'
  <2>1. /\ pc'[w] = "upsert" /\ view'[w] = [view[w] EXCEPT ![j] = canonical[j]]
        /\ canonical' = canonical
    BY <1>2, <1>b DEF Upsert
  <2>2. QED
    BY <1>1, <1>b, <2>1 DEF Undisturbed
<1>3. ASSUME NEW j \in Job, Run(w, j) PROVE Undisturbed(w)'
  BY <1>1, <1>3, <1>b DEF Run, Undisturbed
<1>4. CASE StartBatch(w)
  BY <1>1, <1>4, <1>b DEF StartBatch, Undisturbed
<1>5. CASE Load(w)
  <2>1. /\ pc'[w] = "decide" /\ canonical' = canonical
        /\ view'[w] = [j \in Job |-> IF view[w][j] = "UNLOADED" /\ j \in Known
                                     THEN canonical[j] ELSE view[w][j]]
    BY <1>5, <1>b DEF Load
  <2>2. QED
    BY <1>1, <2>1 DEF Undisturbed
<1>6. CASE Decide(w)
  <2>1. canonical' = canonical /\ view' = view /\ record' = record
    BY <1>6, DecisionsPlan
  <2>2. CASE pc'[w] = "next"
    BY <1>1, <2>1, <2>2 DEF Undisturbed
  <2>3. CASE pc'[w] # "next"
    <3>1. /\ pc'[w] = "link" /\ plan'[w].root \in Known /\ plan'[w].root # plan'[w].dup
          /\ view[w][plan'[w].root] = None /\ record[plan'[w].dup] = None
      BY <1>6, <2>3, DecisionsPlan
    <3>2. canonical[plan'[w].root] = None
      BY <1>1, <3>1, DeduplicationAssumption DEF Known
    <3>3. QED
      BY <1>1, <2>1, <3>1, <3>2 DEF Undisturbed
  <2>4. QED
    BY <2>2, <2>3
<1>7. CASE Link(w)
  <2> DEFINE dup == plan[w].dup
             root == plan[w].root
  <2>1. /\ pc[w] = "link" /\ pc'[w] = "record" /\ plan' = plan /\ record' = record
        /\ canonical' = IF view[w][dup] = root THEN canonical ELSE [canonical EXCEPT ![dup] = root]
        /\ view'[w] = [view[w] EXCEPT ![dup] = root]
    BY <1>7, <1>b DEF Link
  <2>2. dup \in Job /\ root \in Job
    BY <2>1 DEF BaseInv, TypeOK
  <2>3. record[dup] = None
    BY <1>1, <2>1 DEF Undisturbed
  <2> HIDE DEF dup, root
  <2>4. canonical'[dup] = root
    BY <1>1, <1>b, <2>1, <2>2, DeduplicationAssumption
  <2>5. \A j \in Job : view'[w][j] \in {canonical'[j], "UNLOADED"}
    BY <1>1, <1>b, <2>1, <2>2, <2>4
  <2>6. QED
    BY <1>1, <2>1, <2>3, <2>4, <2>5 DEF Undisturbed, dup, root
<1>8. CASE Explain(w)
  <2>1. pc'[w] = "next" /\ view' = view /\ canonical' = canonical
    BY <1>8, <1>b DEF Explain, Return
  <2>2. QED
    BY <1>1, <2>1 DEF Undisturbed
<1>9. CASE Collide(w) \/ Close(w) \/ Crash(w)
  <2>1. pc'[w] = "idle"
    BY <1>9, <1>b DEF Collide, Close, Crash, EndSession
  <2>2. QED
    BY <2>1
<1>10. QED
  BY <1>2, <1>3, <1>4, <1>5, <1>6, <1>7, <1>8, <1>9 DEF Step

\* Rows are written for pointers in force, and only for jobs without one.
LEMMA RecordsStep ==
  ASSUME BaseInv, Alone, RecordMatchesPointer, NEW w \in Session, Step(w), ~overlapped'
  PROVE  /\ RecordMatchesPointer'
         /\ \A j \in Job : record[j] # None => canonical'[j] = canonical[j] /\ record'[j] = record[j]
<1>1. ~overlapped /\ (pc[w] # "idle" => Undisturbed(w))
  BY SoleActor
<1>b. /\ record \in [Job -> Job \cup {None}] /\ canonical \in [Job -> Job \cup {None}]
  BY DEF BaseInv, TypeOK
<1>2. CASE Link(w)
  <2>1. record[plan[w].dup] = None /\ record' = record
    BY <1>1, <1>2 DEF Link, Undisturbed
  <2>2. \A j \in Job : record[j] # None => canonical'[j] = canonical[j]
    BY <1>b, <2>1, PointersStep DEF Pointers
  <2>3. QED
    BY <1>1, <2>1, <2>2 DEF RecordMatchesPointer
<1>3. CASE Explain(w)
  <2>1. /\ canonical[plan[w].dup] = plan[w].root /\ record[plan[w].dup] = None
        /\ record' = [record EXCEPT ![plan[w].dup] = plan[w].root] /\ canonical' = canonical
    BY <1>1, <1>3 DEF Explain, Undisturbed
  <2>2. QED
    BY <1>1, <1>b, <2>1 DEF RecordMatchesPointer
<1>4. CASE ~Link(w) /\ ~Explain(w)
  <2>1. canonical' = canonical /\ record' = record
    BY <1>4 DEF Step, Upsert, Run, StartBatch, Load, Decide, Collide, Close, Crash
  <2>2. QED
    BY <1>1, <2>1 DEF RecordMatchesPointer
<1>5. QED
  BY <1>2, <1>3, <1>4

\* A pointer is set to a root, so no set of jobs becomes closed under pointers.
LEMMA CyclesStep ==
  ASSUME BaseInv, Alone, NoCycle, NEW w \in Session, Step(w)
  PROVE  NoCycle'
<1> SUFFICES ASSUME ~overlapped', NEW S \in (SUBSET Job) \ {{}},
                    \A j \in S : canonical'[j] \in S
             PROVE  FALSE
  BY DEF NoCycle
<1>1. ~overlapped /\ (pc[w] # "idle" => Undisturbed(w))
  BY SoleActor
<1>2. canonical' # canonical
  BY <1>1 DEF NoCycle
<1> DEFINE dup == plan[w].dup
           root == plan[w].root
<1>3. Link(w) /\ canonical' = [canonical EXCEPT ![dup] = root]
  BY <1>2, PointersStep DEF Pointers
<1>4. root # dup /\ canonical[root] = None /\ dup \in Job /\ root \in Job
  BY <1>1, <1>3 DEF Link, Undisturbed, BaseInv, TypeOK
<1>5. canonical \in [Job -> Job \cup {None}]
  BY DEF BaseInv, TypeOK
<1> HIDE DEF dup, root
<1>6. root \notin S
  BY <1>3, <1>4, <1>5, DeduplicationAssumption
<1>7. dup \notin S
  BY <1>3, <1>4, <1>5, <1>6
<1>8. \A j \in S : canonical[j] \in S
  BY <1>3, <1>5, <1>7
<1>9. QED
  BY <1>1, <1>8 DEF NoCycle

-----------------------------------------------------------------------------
(* Age                                                                     *)

\* The root of a job is not younger than the job.
LEMMA RootsAreOld ==
  ASSUME BaseInv, CanonicalIsOlder, ~overlapped, crashes = 0,
         NEW w \in Session, pc[w] = "decide", \A i \in Job : view[w][i] \in {canonical[i], "UNLOADED"},
         NEW j \in Known, view[w][j] # "UNLOADED"
  PROVE  seen[Root(view[w], j)] <= seen[j]
<1> DEFINE v == view[w]
           S == {k \in Known : v[k] # "UNLOADED" /\ seen[k] <= seen[j]}
<1>0. \A k \in Known : k \in Job /\ seen[k] \in Nat
  BY KnownIsFinite DEF BaseInv, TypeOK, Known
<1>1. ASSUME NEW x \in S, v[x] # None PROVE v[x] \in S
  <2>1. x \in Job /\ v[x] \in Known /\ v[x] \in Job
    BY <1>1 DEF BaseInv, ViewInv, Known
  <2>2. v[v[x]] # "UNLOADED"
    BY <2>1 DEF BaseInv, ViewInv, Decides
  <2>3. v[x] = canonical[x] /\ seen[v[x]] < seen[x]
    BY <1>1, <2>1 DEF CanonicalIsOlder
  <2>4. QED
    BY <1>0, <2>1, <2>2, <2>3
<1>2. j \in S
  BY <1>0
<1>3. Root(v, j) \in S
  BY <1>1, <1>2, RootStays
<1>4. QED
  BY <1>3

\* Without losses the established roots that select_canonical prefers are found
\* only in pairs whose duplicate has its row, so what is planned is the older job.
LEMMA PlansAreOld ==
  ASSUME BaseInv, Alone, Lossless, CanonicalIsOlder, ~overlapped, crashes = 0,
         NEW w \in Session, Decide(w), pc'[w] = "link"
  PROVE  seen[plan'[w].root] < seen[plan'[w].dup]
<1> DEFINE v == view[w]
           t == target[w]
           c == Chosen(w)
           can == Canonical(v, t, c)
           dup == Other(t, c, can)
<1>1. pc[w] = "decide" /\ Undisturbed(w)
  BY DEF Decide, Alone
<1>2. /\ plan'[w].dup = dup /\ plan'[w].root = Root(v, can)
      /\ t \in Known /\ c \in Known /\ c # t
      /\ v[c] # "UNLOADED" /\ v[t] # "UNLOADED" /\ can \in {t, c}
      /\ record[dup] = None
  BY DecisionsPlan
<1>3. /\ t \in Job /\ c \in Job /\ seen[t] \in Nat /\ seen[c] \in Nat /\ seen[t] # seen[c]
  BY <1>2, KnownIsFinite, SMTT(30) DEF BaseInv, TypeOK, SeenInv, Known
<1>4. dup \in {t, c} /\ dup # can
  BY <1>2 DEF Other
<1>5. v[t] = canonical[t] /\ v[c] = canonical[c]
  BY <1>1, <1>2, <1>3 DEF Undisturbed
<1>6. canonical[dup] = None
  BY <1>1, <1>2, <1>3, <1>4 DEF Lossless, Undisturbed
<1>7. can = Oldest({t, c})
  <2> HIDE DEF t, c, v, dup
  <2>1. v[dup] = None
    BY <1>4, <1>5, <1>6
  <2>2. CASE (v[t] = None /\ v[c] # None) \/ v[c] = t
    <3>1. can = t
      BY <2>2 DEF Canonical
    <3>2. dup = c
      BY <1>4, <3>1
    <3>3. QED
      BY <1>3, <2>1, <2>2, <3>2, DeduplicationAssumption
  <2>3. CASE /\ ~((v[t] = None /\ v[c] # None) \/ v[c] = t)
             /\ (v[c] = None /\ v[t] # None) \/ v[t] = c
    <3>1. can = c
      BY <2>3 DEF Canonical
    <3>2. dup = t
      BY <1>4, <3>1
    <3>3. QED
      BY <1>3, <2>1, <2>3, <3>2, DeduplicationAssumption
  <2>4. CASE /\ ~((v[t] = None /\ v[c] # None) \/ v[c] = t)
             /\ ~((v[c] = None /\ v[t] # None) \/ v[t] = c)
    BY <2>4 DEF Canonical
  <2>5. QED
    BY <2>2, <2>3, <2>4
<1>8. seen[can] <= seen[t] /\ seen[can] <= seen[c]
  BY <1>3, <1>7, OldestIs DEF BaseInv
<1>9. seen[can] < seen[dup]
  BY <1>2, <1>3, <1>4, <1>8
<1>10. seen[Root(v, can)] <= seen[can]
  BY <1>1, <1>2, RootsAreOld DEF Undisturbed
<1>11. seen[Root(v, can)] \in Nat
  BY <1>1, <1>2, RootsKnown, KnownIsFinite DEF BaseInv, TypeOK, Known
<1>12. QED
  BY <1>2, <1>3, <1>4, <1>9, <1>10, <1>11

LEMMA AgeStep ==
  ASSUME BaseInv, Alone, Lossless, CanonicalIsOlder, NEW w \in Session, Step(w)
  PROVE  Lossless' /\ CanonicalIsOlder'
<1> SUFFICES ASSUME ~overlapped', crashes' = 0 PROVE Lossless' /\ CanonicalIsOlder'
  BY DEF Lossless, CanonicalIsOlder
<1>1. /\ ~overlapped /\ \A u \in Session \ {w} : pc[u] = "idle" /\ pc'[u] = "idle"
      /\ pc[w] # "idle" => Undisturbed(w)
  BY SoleActor, StepsApart DEF Apart
<1>2. crashes = 0 /\ ~Crash(w)
  BY DEF Step, Upsert, Run, StartBatch, Load, Decide, Link, Explain, Collide, Close, Crash,
         BaseInv, TypeOK
<1>b. /\ pc \in [Session -> {"idle", "upsert", "next", "decide", "link", "record"}]
      /\ canonical \in [Job -> Job \cup {None}] /\ record \in [Job -> Job \cup {None}]
  BY DEF BaseInv, TypeOK
<1>3. /\ \A j \in Job : canonical[j] # None =>
           /\ record[j] # None \/ (pc[w] = "record" /\ plan[w].dup = j)
           /\ seen[canonical[j]] < seen[j] /\ canonical[j] \in Known
      /\ pc[w] = "link" => seen[plan[w].root] < seen[plan[w].dup]
  BY <1>1, <1>2 DEF Lossless, CanonicalIsOlder, BaseInv, ViewInv
\* Steps that leave pointers and rows alone.
<1>4. ASSUME canonical' = canonical, record' = record, pc[w] # "record",
             seen' = seen, pc'[w] = "link" => seen[plan'[w].root] < seen[plan'[w].dup]
      PROVE  Lossless' /\ CanonicalIsOlder'
  BY <1>1, <1>3, <1>4 DEF Lossless, CanonicalIsOlder
<1>5. ASSUME NEW j \in Job, Upsert(w, j) PROVE Lossless' /\ CanonicalIsOlder'
  <2>1. /\ canonical' = canonical /\ record' = record /\ pc[w] \in {"idle", "upsert"}
        /\ pc'[w] = "upsert"
    BY <1>5, <1>b DEF Upsert
  <2>2. \A i \in Job : canonical[i] # None => i \in Known
    BY <1>3, KnownIsFinite DEF BaseInv, TypeOK, Known
  <2>3. \A i \in Known : seen'[i] = seen[i]
    BY <1>5, SeenUpserted
  <2>4. QED
    BY <1>1, <1>3, <2>1, <2>2, <2>3 DEF Lossless, CanonicalIsOlder
<1>6. ASSUME NEW j \in Job, Run(w, j) PROVE Lossless' /\ CanonicalIsOlder'
  BY <1>4, <1>6, <1>b DEF Run
<1>7. CASE StartBatch(w) \/ Load(w)
  BY <1>4, <1>7, <1>b DEF StartBatch, Load
<1>8. CASE Decide(w)
  <2>1. pc[w] = "decide" /\ canonical' = canonical /\ record' = record /\ seen' = seen
    BY <1>8, DecisionsPlan DEF Decide
  <2>2. pc'[w] = "link" => seen[plan'[w].root] < seen[plan'[w].dup]
    BY <1>1, <1>2, <1>8, PlansAreOld
  <2>3. QED
    BY <1>4, <2>1, <2>2
<1>9. CASE Link(w)
  <2> DEFINE dup == plan[w].dup
             root == plan[w].root
  <2>1. /\ pc[w] = "link" /\ pc'[w] = "record" /\ plan' = plan /\ record' = record /\ seen' = seen
        /\ canonical' = canonical \/ canonical' = [canonical EXCEPT ![dup] = root]
    BY <1>9, <1>b DEF Link
  <2>2. dup \in Job /\ root \in Job /\ seen[root] < seen[dup]
    BY <1>3, <2>1 DEF BaseInv, TypeOK
  <2> HIDE DEF root
  <2>3. \A j \in Job : canonical'[j] # None =>
          /\ record'[j] # None \/ (pc'[w] = "record" /\ plan'[w].dup = j)
          /\ seen'[canonical'[j]] < seen'[j]
    BY <1>3, <1>b, <2>1, <2>2
  <2>4. QED
    BY <1>1, <2>1, <2>3 DEF Lossless, CanonicalIsOlder
<1>10. CASE Explain(w)
  <2>1. /\ pc'[w] = "next" /\ canonical' = canonical /\ seen' = seen
        /\ record' = [record EXCEPT ![plan[w].dup] = plan[w].root]
        /\ plan[w].root \in Job
    BY <1>10, <1>b DEF Explain, Return, BaseInv, TypeOK
  <2>2. \A j \in Job : canonical[j] # None => record'[j] # None
    BY <1>3, <1>b, <2>1, DeduplicationAssumption
  <2>3. QED
    BY <1>1, <1>3, <2>1, <2>2 DEF Lossless, CanonicalIsOlder
<1>11. ~Collide(w)
  BY <1>1 DEF Collide, Undisturbed
<1>12. CASE Close(w)
  <2>1. pc'[w] = "idle" /\ pc[w] = "next" /\ canonical' = canonical /\ record' = record /\ seen' = seen
    BY <1>12, <1>b DEF Close, EndSession
  <2>2. QED
    BY <1>4, <2>1
<1>13. QED
  BY <1>2, <1>5, <1>6, <1>7, <1>8, <1>9, <1>10, <1>11, <1>12 DEF Step

-----------------------------------------------------------------------------
(* Matches                                                                 *)

\* The older jobs that t is compared with and alike to.
Older(t) == {c \in Candidates(t) : {t, c} \in alike /\ seen[c] < seen[t]}

\* A session that is alone decides on all there is, and what it then links are two
\* jobs alike, to the older one.  Where content does not change and all copies of a
\* posting are alike, it links to jobs only that have no older match, which are
\* therefore never linked themselves.
Loaded ==
  ~overlapped =>
    \A w \in Session : pc[w] = "decide" => \A j \in Known : view[w][j] # "UNLOADED"

Links(w, j, k) == pc[w] = "link" /\ plan[w].dup = j /\ plan[w].root = k

Matched ==
  ~overlapped /\ crashes = 0 =>
    /\ \A w \in Session : \A j, k \in Job : Links(w, j, k) => k \in Older(j)
    /\ changes = 0 /\ Transitive =>
         /\ \A w \in Session : \A j, k \in Job : Links(w, j, k) => Older(k) = {}
         /\ \A j, k \in Job : canonical[j] = k => k \in Older(j) /\ Older(k) = {}

LEMMA OlderStays ==
  ASSUME seen' = seen, alike' = alike
  PROVE  \A t \in Job : Older(t)' = Older(t)
BY DEF Older, Candidates, Known

\* A job that becomes known is the youngest.
LEMMA OlderAfterUpsert ==
  ASSUME BaseInv, NEW w \in Session, NEW j \in Job, Upsert(w, j), alike' = alike,
         NEW t \in Known
  PROVE  Older(t)' = Older(t)
<1>0. \A i \in Known : seen[i] \in Nat
  BY KnownIsFinite DEF BaseInv, TypeOK, Known
<1>1. /\ Known' = Known \cup {j} /\ Cardinality(Known) \in Nat
      /\ \A i \in Known : seen'[i] = seen[i] /\ seen[i] \in Nat /\ seen[i] <= Cardinality(Known)
  BY <1>0, SeenUpserted, KnownIsFinite DEF BaseInv, TypeOK, SeenInv
<1>2. j \notin Known => seen'[j] = Cardinality(Known) + 1
  BY DEF Upsert, FirstSeen, BaseInv, TypeOK
<1>3. ASSUME NEW c, seen'[c] < seen'[t], c \in Known' PROVE c \in Known /\ seen'[c] = seen[c]
  BY <1>1, <1>2, <1>3
<1>4. ASSUME NEW c \in Known
      PROVE  {d \in Known' \ {t} : seen'[d] < seen'[c]} = {d \in Known \ {t} : seen[d] < seen[c]}
  BY <1>1, <1>2
<1>5. ASSUME NEW c, c \in Known \/ (c \in Known' /\ seen'[c] < seen'[t])
      PROVE  c \in Older(t)' <=> c \in Older(t)
  <2>1. c \in Known /\ seen'[c] = seen[c] /\ seen'[t] = seen[t] /\ c \in Known'
    BY <1>1, <1>3, <1>5
  <2>2. c \in Candidates(t)' <=> c \in Candidates(t)
    BY <1>1, <1>4, <2>1 DEF Candidates
  <2>3. QED
    BY <2>1, <2>2 DEF Older
<1>6. \A c : c \in Older(t) => c \in Known
  BY DEF Older, Candidates
<1>7. \A c : c \in Older(t)' => c \in Known' /\ seen'[c] < seen'[t]
  BY DEF Older, Candidates
<1>8. \A c : c \in Older(t)' <=> c \in Older(t)
  BY <1>5, <1>6, <1>7
<1>9. QED
  BY <1>8 DEF Older

\* Whoever is older than a candidate is one.
LEMMA CandidatesBelow ==
  ASSUME BaseInv, NEW t \in Known, NEW c \in Candidates(t),
         NEW x \in Known \ {t}, seen[x] <= seen[c]
  PROVE  x \in Candidates(t)
<1> DEFINE Before(y) == {d \in Known \ {t} : seen[d] < seen[y]}
<1>1. /\ IsFiniteSet(Known) /\ \A d \in Known : seen[d] \in Nat
      /\ MaxCandidates \in Nat /\ c \in Known
  BY KnownIsFinite, DeduplicationAssumption DEF BaseInv, TypeOK, Known, Candidates
<1>2. Before(x) \subseteq Before(c)
  BY <1>1
<1>3. Before(c) \subseteq Known
  OBVIOUS
<1>4. IsFiniteSet(Before(c)) /\ Cardinality(Before(c)) < MaxCandidates
  BY <1>1, <1>3, FS_Subset DEF Candidates
<1> HIDE DEF Before
<1>5. /\ Cardinality(Before(x)) <= Cardinality(Before(c)) /\ IsFiniteSet(Before(x))
  BY <1>2, <1>4, FS_Subset
<1>6. Cardinality(Before(x)) \in Nat /\ Cardinality(Before(c)) \in Nat
  BY <1>4, <1>5, FS_CardinalityType
<1>7. Cardinality(Before(x)) < MaxCandidates
  BY <1>1, <1>4, <1>5, <1>6
<1>8. QED
  BY <1>7 DEF Candidates, Before

\* A job that has a younger candidate is one of that candidate's.
LEMMA CandidatesBack ==
  ASSUME BaseInv, NEW t \in Known, NEW c \in Candidates(t), seen[t] < seen[c]
  PROVE  t \in Candidates(c)
<1> DEFINE Before(y, z) == {d \in Known \ {y} : seen[d] < seen[z]}
<1>1. /\ IsFiniteSet(Known) /\ \A d \in Known : seen[d] \in Nat
      /\ MaxCandidates \in Nat /\ c \in Known
  BY KnownIsFinite, DeduplicationAssumption DEF BaseInv, TypeOK, Known, Candidates
<1>2. Before(c, t) \subseteq Before(t, c)
  BY <1>1
<1>3. Before(t, c) \subseteq Known
  OBVIOUS
<1>4. IsFiniteSet(Before(t, c)) /\ Cardinality(Before(t, c)) < MaxCandidates
  BY <1>1, <1>3, FS_Subset DEF Candidates
<1> HIDE DEF Before
<1>5. /\ Cardinality(Before(c, t)) <= Cardinality(Before(t, c)) /\ IsFiniteSet(Before(c, t))
  BY <1>2, <1>4, FS_Subset
<1>6. Cardinality(Before(c, t)) \in Nat /\ Cardinality(Before(t, c)) \in Nat
  BY <1>4, <1>5, FS_CardinalityType
<1>7. Cardinality(Before(c, t)) < MaxCandidates
  BY <1>1, <1>4, <1>5, <1>6
<1>8. t \in Known \ {c}
  BY <1>1
<1>9. QED
  BY <1>7, <1>8 DEF Candidates, Before

\* A job without a pointer is its own root.
LEMMA RootOfRoot ==
  ASSUME NEW v, NEW j, v[j] = None
  PROVE  Root(v, j) = j
<1>1. Root(v, j) \in {j}
  BY RootStays
<1>2. QED
  BY <1>1

\* Without losses what is planned joins the target and the first of its hits, both
\* without a pointer, for the one that has no pointer and no row yet is preferred
\* to any other.
LEMMA PlansJoinRoots ==
  ASSUME BaseInv, Alone, Lossless, CanonicalIsOlder, ~overlapped, crashes = 0,
         NEW w \in Session, Decide(w), pc'[w] = "link"
  PROVE  LET t == target[w]
             c == Chosen(w)
             dup == plan'[w].dup
             root == plan'[w].root
         IN /\ t \in Known /\ c \in Known /\ t # c
            /\ c \in Hits(view[w], t) /\ \A x \in Hits(view[w], t) : seen[c] <= seen[x]
            /\ (dup = t /\ root = c) \/ (dup = c /\ root = t)
            /\ canonical[dup] = None /\ canonical[root] = None
            /\ seen[root] < seen[dup]
<1> DEFINE v == view[w]
           t == target[w]
           c == Chosen(w)
           can == Canonical(v, t, c)
           dup == Other(t, c, can)
<1>1. pc[w] = "decide" /\ Undisturbed(w)
  BY DEF Decide, Alone
<1>2. /\ plan'[w].dup = dup /\ plan'[w].root = Root(v, can)
      /\ t \in Known /\ c \in Known /\ c # t
      /\ v[c] # "UNLOADED" /\ v[t] # "UNLOADED" /\ can \in {t, c}
      /\ record[dup] = None
  BY DecisionsPlan
<1>3. t \in Job /\ c \in Job
  BY <1>2 DEF Known
<1>4. dup \in {t, c} /\ dup # can
  BY <1>2 DEF Other
<1>5. v[t] = canonical[t] /\ v[c] = canonical[c]
  BY <1>1, <1>2, <1>3 DEF Undisturbed
<1>6. canonical[dup] = None
  BY <1>1, <1>2, <1>3, <1>4 DEF Lossless, Undisturbed
<1>7. canonical[can] = None
  <2> HIDE DEF t, c, dup
  <2> SUFFICES ASSUME v[can] # None PROVE FALSE
    BY <1>2, <1>5
  <2>1. v[dup] = None
    BY <1>4, <1>5, <1>6
  <2>2. CASE can = t
    <3>1. dup = c /\ v[c] = None /\ v[t] # None
      BY <1>4, <2>1, <2>2
    <3>2. v[c] # t
      BY <1>3, <3>1, DeduplicationAssumption
    <3>3. can = c
      BY <3>1, <3>2 DEF Canonical
    <3>4. QED
      BY <1>4, <3>1, <3>3
  <2>3. CASE can = c
    <3>1. dup = t /\ v[t] = None /\ v[c] # None
      BY <1>4, <2>1, <2>3
    <3>2. can = t
      BY <3>1 DEF Canonical
    <3>3. QED
      BY <1>4, <3>1, <3>2
  <2>4. QED
    BY <1>2, <2>2, <2>3
<1>8. Root(v, can) = can
  BY <1>2, <1>5, <1>7, RootOfRoot
<1>9. Hits(v, t) # {} /\ Hits(v, t) \subseteq Job
  BY <1>1, DecisionsPlan DEF Decide, Return, Hits, Candidates, Known, BaseInv, TypeOK
<1>10. c \in Hits(v, t) /\ \A x \in Hits(v, t) : seen[c] <= seen[x]
  BY <1>9, OldestIs DEF BaseInv, Chosen, FirstHit
<1>11. seen[plan'[w].root] < seen[plan'[w].dup]
  BY PlansAreOld
<1> HIDE DEF v, t, c, can, dup
<1>12. (dup = t /\ can = c) \/ (dup = c /\ can = t)
  BY <1>2, <1>4
<1>13. QED
  BY <1>2, <1>6, <1>7, <1>8, <1>10, <1>11, <1>12 DEF v, t, c, can, dup

\* A job without a pointer is never asked to point at itself.
LEMMA OlderHits ==
  ASSUME NEW v, NEW t \in Job, NEW x \in Older(t), v[t] = None, v[x] # "UNLOADED",
         TypeOK
  PROVE  x \in Hits(v, t)
<1>1. /\ x \in Candidates(t) /\ {t, x} \in alike /\ x # t /\ x \in Job
      /\ seen[x] < seen[t] /\ seen[x] \in Nat /\ seen[t] \in Nat
  BY KnownIsFinite DEF Older, Candidates, Known, TypeOK
<1> DEFINE can == Canonical(v, t, x)
<1>2. v[can] = None /\ can \in {t, x}
  <2>1. CASE v[x] = None
    <3>1. Oldest({t, x}) \in {t, x}
      BY <1>1, OldestIs
    <3>2. v[Oldest({t, x})] = None
      BY <2>1, <3>1
    <3>3. QED
      BY <2>1, <3>1, <3>2 DEF Canonical
  <2>2. CASE v[x] # None
    BY <2>2 DEF Canonical
  <2>3. QED
    BY <2>1, <2>2
<1>3. Root(v, can) = can
  BY <1>2, RootOfRoot
<1>4. PlanFor(v, t, x).root = can /\ PlanFor(v, t, x).dup = Other(t, x, can)
  BY <1>3 DEF PlanFor
<1>5. Other(t, x, can) # can
  BY <1>1, <1>2 DEF Other
<1>6. ~Itself(v, t, x)
  BY <1>4, <1>5 DEF Itself
<1>7. QED
  BY <1>1, <1>6 DEF Hits

\* The job linked to is an older match of the other, and, where matches agree, the
\* oldest match there is.
LEMMA PlansMatch ==
  ASSUME DedupInv, Loaded, ~overlapped, crashes = 0,
         NEW w \in Session, Decide(w), pc'[w] = "link"
  PROVE  /\ plan'[w].root \in Older(plan'[w].dup)
         /\ Transitive => Older(plan'[w].root) = {}
<1> DEFINE v == view[w]
           t == target[w]
           c == Chosen(w)
           dup == plan'[w].dup
           root == plan'[w].root
<1>0. BaseInv /\ Alone /\ Lossless /\ CanonicalIsOlder /\ TypeOK
  BY DEF DedupInv, BaseInv
<1>1. pc[w] = "decide" /\ Undisturbed(w) /\ \A j \in Known : v[j] # "UNLOADED"
  BY <1>0 DEF Decide, Alone, Loaded
<1>2. /\ t \in Known /\ c \in Known /\ t # c
      /\ c \in Hits(v, t) /\ \A x \in Hits(v, t) : seen[c] <= seen[x]
      /\ (dup = t /\ root = c) \/ (dup = c /\ root = t)
      /\ canonical[dup] = None /\ canonical[root] = None
      /\ seen[root] < seen[dup]
  BY <1>0, PlansJoinRoots
<1>3. c \in Candidates(t) /\ {t, c} \in alike
  BY <1>2 DEF Hits
<1>4. Known \subseteq Job /\ \A j \in Known : seen[j] \in Nat
  BY <1>0, KnownIsFinite DEF TypeOK, Known
<1> HIDE DEF v, t, c, dup, root
<1>5. root \in Older(dup)
  <2>1. CASE dup = t /\ root = c
    BY <1>2, <1>3, <2>1 DEF Older
  <2>2. CASE dup = c /\ root = t
    <3>1. t \in Candidates(c)
      BY <1>0, <1>2, <1>3, <2>2, CandidatesBack
    <3>2. {c, t} \in alike
      BY <1>3
    <3>3. QED
      BY <1>2, <2>2, <3>1, <3>2 DEF Older
  <2>3. QED
    BY <1>2, <2>1, <2>2
<1>6. ASSUME Transitive, NEW x \in Older(root) PROVE FALSE
  <2>1. /\ x \in Known /\ x \in Candidates(root) /\ {root, x} \in alike
        /\ seen[x] < seen[root]
    BY <1>6 DEF Older, Candidates
  <2>2. /\ seen[x] < seen[t] /\ seen[x] < seen[c] /\ x # t /\ x # c
        /\ t \in Job /\ c \in Job /\ x \in Job
    BY <1>2, <1>4, <2>1
  <2>3. {t, x} \in alike
    <3>1. CASE root = t
      BY <2>1, <3>1
    <3>2. CASE root = c
      BY <1>3, <1>6, <2>1, <2>2, <3>2 DEF Transitive
    <3>3. QED
      BY <1>2, <3>1, <3>2
  <2>4. x \in Candidates(t)
    BY <1>0, <1>2, <1>3, <1>4, <2>1, <2>2, CandidatesBelow
  <2>5. x \in Older(t)
    BY <2>2, <2>3, <2>4 DEF Older
  <2>6. v[t] = None
    BY <1>1, <1>2, <2>2 DEF Undisturbed, v
  <2>7. x \in Hits(v, t)
    BY <1>0, <1>1, <2>1, <2>2, <2>5, <2>6, OlderHits
  <2>8. QED
    BY <1>2, <1>4, <2>1, <2>2, <2>7
<1>7. QED
  BY <1>5, <1>6 DEF dup, root

LEMMA LoadedStep ==
  ASSUME BaseInv, Alone, NEW w \in Session, Step(w)
  PROVE  Loaded'
<1> SUFFICES ASSUME ~overlapped', NEW u \in Session, pc'[u] = "decide", NEW j \in Known'
             PROVE  view'[u][j] # "UNLOADED"
  BY DEF Loaded
<1>b. /\ pc \in [Session -> {"idle", "upsert", "next", "decide", "link", "record"}]
      /\ view \in [Session -> [Job -> Job \cup {None, "UNLOADED"}]]
      /\ canonical \in [Job -> Job \cup {None}]
  BY DEF BaseInv, TypeOK
<1>1. u = w
  BY SoleActor, StepsApart DEF Apart
<1>2. Load(w)
  <2>1. ASSUME NEW i \in Job, Upsert(w, i) \/ Run(w, i) PROVE FALSE
    BY <1>1, <1>b, <2>1 DEF Upsert, Run
  <2>2. ~StartBatch(w) /\ ~Link(w) /\ ~Explain(w)
    BY <1>1, <1>b DEF StartBatch, Link, Explain, Return
  <2>3. ~Decide(w)
    BY <1>1, DecisionsPlan
  <2>4. ~Collide(w) /\ ~Close(w) /\ ~Crash(w)
    BY <1>1, <1>b DEF Collide, Close, Crash, EndSession
  <2>5. QED
    BY <2>1, <2>2, <2>3, <2>4 DEF Step
<1>3. /\ Known' = Known
      /\ view'[w] = [i \in Job |-> IF view[w][i] = "UNLOADED" /\ i \in Known
                                     THEN canonical[i] ELSE view[w][i]]
  BY <1>2, <1>b DEF Load, Known
<1>4. QED
  BY <1>1, <1>3, <1>b, DeduplicationAssumption DEF Known

LEMMA MatchedStep ==
  ASSUME DedupInv, Loaded, Matched, NEW w \in Session, Step(w)
  PROVE  Matched'
<1> SUFFICES ASSUME ~overlapped', crashes' = 0 PROVE Matched'
  BY DEF Matched
<1>a. BaseInv /\ Alone /\ TypeOK
  BY DEF DedupInv, BaseInv
<1>b. /\ pc \in [Session -> {"idle", "upsert", "next", "decide", "link", "record"}]
      /\ canonical \in [Job -> Job \cup {None}]
      /\ \A j \in Job : canonical[j] \in Known \cup {None}
      /\ Known \subseteq Job
  BY <1>a DEF BaseInv, TypeOK, ViewInv, Known
<1>1. ~overlapped /\ \A u \in Session \ {w} : pc'[u] = "idle"
  BY <1>a, SoleActor, StepsApart DEF Apart
<1>2. crashes = 0 /\ ~Crash(w)
  BY <1>a DEF Step, Upsert, Run, StartBatch, Load, Decide, Link, Explain, Collide, Close, Crash,
         TypeOK
<1>3. /\ \A j, k \in Job : Links(w, j, k) => k \in Older(j)
      /\ changes = 0 /\ Transitive =>
           /\ \A j, k \in Job : Links(w, j, k) => Older(k) = {}
           /\ \A j, k \in Job : canonical[j] = k => k \in Older(j) /\ Older(k) = {}
  BY <1>1, <1>2 DEF Matched
\* Only the plan of w and the pointers have to be looked at.
<1>4. ASSUME \A j, k \in Job : Links(w, j, k)' => k \in Older(j)',
             changes' = 0 /\ Transitive' =>
               /\ \A j, k \in Job : Links(w, j, k)' => Older(k)' = {}
               /\ \A j, k \in Job : canonical'[j] = k => k \in Older(j)' /\ Older(k)' = {}
      PROVE  Matched'
  <2>1. \A u \in Session \ {w} : \A j, k \in Job : ~Links(u, j, k)'
    BY <1>1 DEF Links
  <2>2. QED
    BY <1>4, <2>1 DEF Matched
<1>5. ASSUME seen' = seen, alike' = alike, changes' = changes, canonical' = canonical,
             pc'[w] # "link"
      PROVE  Matched'
  <2>1. \A t \in Job : Older(t)' = Older(t)
    BY <1>5, OlderStays
  <2>2. Transitive' => Transitive
    BY <1>5 DEF Transitive
  <2>3. \A j, k \in Job : ~Links(w, j, k)'
    BY <1>5 DEF Links
  <2>4. QED
    BY <1>3, <1>4, <1>5, <2>1, <2>2, <2>3
<1>6. ASSUME NEW i \in Job, Upsert(w, i) PROVE Matched'
  <2>1. pc'[w] = "upsert" /\ canonical' = canonical
    BY <1>6, <1>b DEF Upsert
  <2>2. \A j, k \in Job : ~Links(w, j, k)'
    BY <2>1 DEF Links
  <2>3. ASSUME changes' = 0, Transitive', NEW j \in Job, NEW k \in Job, canonical'[j] = k
        PROVE  k \in Older(j)' /\ Older(k)' = {}
    <3>1. alike' = alike /\ changes = 0
      BY <1>6, <1>a, <2>3 DEF Upsert, TypeOK
    <3>2. Transitive
      BY <2>3, <3>1 DEF Transitive
    <3>3. k \in Older(j) /\ Older(k) = {} /\ k \in Known
      BY <1>3, <1>b, <2>1, <2>3, <3>1, <3>2, DeduplicationAssumption
    <3>4. j \in Known
      <4>1. seen[k] < seen[j] /\ seen[k] \in Nat /\ seen[j] \in Nat
        BY <1>a, <3>3, KnownIsFinite DEF Older, TypeOK
      <4>2. QED
        BY <4>1 DEF Known
    <3>5. QED
      BY <1>6, <1>a, <3>1, <3>3, <3>4, OlderAfterUpsert
  <2>4. QED
    BY <1>4, <2>2, <2>3
<1>7. ASSUME NEW i \in Job, Run(w, i) PROVE Matched'
  BY <1>5, <1>7, <1>b DEF Run
<1>8. CASE StartBatch(w) \/ Load(w)
  BY <1>5, <1>8, <1>b DEF StartBatch, Load
<1>9. CASE Decide(w)
  <2>1. UNCHANGED <<seen, alike, canonical, changes>>
    BY <1>9, <1>a, DecisionsPlan
  <2>2. CASE pc'[w] # "link"
    BY <1>5, <2>1, <2>2
  <2>3. CASE pc'[w] = "link"
    <3>1. /\ plan'[w].root \in Older(plan'[w].dup)
          /\ Transitive => Older(plan'[w].root) = {}
      BY <1>1, <1>2, <1>9, <2>3, PlansMatch
    <3>2. \A t \in Job : Older(t)' = Older(t)
      BY <2>1, OlderStays
    <3>3. Transitive' => Transitive
      BY <2>1 DEF Transitive
    <3>4. \A j, k \in Job : Links(w, j, k)' => plan'[w].dup = j /\ plan'[w].root = k
      BY DEF Links
    <3>5. \A j, k \in Job : Links(w, j, k)' =>
            k \in Older(j) /\ (Transitive => Older(k) = {})
      BY <3>1, <3>4
    <3>6. QED
      BY <1>3, <1>4, <2>1, <3>2, <3>3, <3>5
  <2>4. QED
    BY <2>2, <2>3
<1>10. CASE Link(w)
  <2> DEFINE dup == plan[w].dup
             root == plan[w].root
  <2>1. /\ pc[w] = "link" /\ pc'[w] = "record"
        /\ UNCHANGED <<seen, alike, changes>>
        /\ canonical' = canonical \/ canonical' = [canonical EXCEPT ![dup] = root]
    BY <1>10, <1>b DEF Link
  <2>2. dup \in Job /\ root \in Job
    BY <1>a, <2>1 DEF TypeOK
  <2>3. Links(w, dup, root)
    BY <2>1 DEF Links
  <2> HIDE DEF dup, root
  <2>4. CASE canonical' = canonical
    BY <1>5, <2>1, <2>4
  <2>5. CASE canonical' = [canonical EXCEPT ![dup] = root]
    <3>1. \A t \in Job : Older(t)' = Older(t)
      BY <2>1, OlderStays
    <3>2. Transitive' => Transitive
      BY <2>1 DEF Transitive
    <3>3. \A j, k \in Job : ~Links(w, j, k)'
      BY <2>1 DEF Links
    <3>4. ASSUME NEW j \in Job, NEW k \in Job, canonical'[j] = k
          PROVE  (j = dup /\ k = root) \/ canonical[j] = k
      BY <1>b, <2>2, <2>5, <3>4
    <3>5. changes = 0 /\ Transitive =>
            \A j, k \in Job : canonical'[j] = k => k \in Older(j) /\ Older(k) = {}
      BY <1>3, <2>2, <2>3, <3>4
    <3>6. QED
      BY <1>4, <2>1, <3>1, <3>2, <3>3, <3>5
  <2>6. QED
    BY <2>1, <2>4, <2>5
<1>11. CASE Explain(w)
  BY <1>5, <1>11, <1>b DEF Explain, Return
<1>12. CASE Collide(w) \/ Close(w)
  BY <1>5, <1>12, <1>b DEF Collide, Close, EndSession
<1>13. QED
  BY <1>2, <1>6, <1>7, <1>8, <1>9, <1>10, <1>11, <1>12 DEF Step

-----------------------------------------------------------------------------

LEMMA DedupInvStep == DedupInv /\ [Next]_vars => DedupInv'
<1> SUFFICES ASSUME DedupInv, [Next]_vars PROVE DedupInv'
  OBVIOUS
<1> USE DEF DedupInv
<1>1. ASSUME NEW w \in Session, Step(w) PROVE DedupInv'
  <2>1. BaseInv' /\ Alone' /\ NoCycle' /\ Lossless' /\ CanonicalIsOlder'
    BY <1>1, BaseStep, AloneStep, CyclesStep, AgeStep
  <2>2. RecordMatchesPointer'
    <3>1. CASE overlapped'
      BY <3>1 DEF RecordMatchesPointer
    <3>2. CASE ~overlapped'
      BY <1>1, <3>2, RecordsStep
    <3>3. QED
      BY <3>1, <3>2
  <2>3. QED
    BY <2>1, <2>2
<1>2. CASE UNCHANGED vars
  <2> USE <1>2 DEF vars
  <2>1. Known' = Known
    BY DEF Known
  <2>2. BaseInv'
    BY <2>1 DEF BaseInv, TypeOK, SeenInv, ViewInv, Decides
  <2>3. Alone' /\ RecordMatchesPointer' /\ NoCycle' /\ Lossless' /\ CanonicalIsOlder'
    BY DEF Alone, Undisturbed, RecordMatchesPointer, NoCycle, Lossless, CanonicalIsOlder
  <2>4. QED
    BY <2>2, <2>3
<1>3. QED
  BY <1>1, <1>2 DEF Next, Step

\* The inductive invariant holds of every behaviour of deduplication.
THEOREM DedupInvariant == Spec => []DedupInv
  BY DedupInvInit, DedupInvStep, PTL DEF Spec

\* Deduplication is type-correct however sessions overlap: in particular the root
\* that resolve_canonical_root returns is a job, never a row not loaded.
THEOREM DedupTypeCorrect == Spec => []TypeOK
<1>1. DedupInv => TypeOK
  BY DEF DedupInv, BaseInv
<1>2. QED
  BY <1>1, DedupInvariant, PTL

\* Without overlapping sessions the pointers never form a cycle, for any number
\* of jobs, whatever is lost and however content changes.
THEOREM PointersHaveNoCycle == Spec => []NoCycle
<1>1. DedupInv => NoCycle
  BY DEF DedupInv
<1>2. QED
  BY <1>1, DedupInvariant, PTL

\* Without overlapping sessions every row explains the pointer in force.
THEOREM RecordsExplain == Spec => []RecordMatchesPointer
<1>1. DedupInv => RecordMatchesPointer
  BY DEF DedupInv
<1>2. QED
  BY <1>1, DedupInvariant, PTL

\* And a link that has its row is final.
THEOREM LinksAreFinal == Spec => LinkIsFinal
<1>1. DedupInv /\ [Next]_vars =>
        [~overlapped' =>
           \A j \in Job : record[j] # None => canonical'[j] = canonical[j] /\ record'[j] = record[j]]_vars
  <2> SUFFICES ASSUME DedupInv, Next, ~overlapped', NEW j \in Job, record[j] # None
               PROVE  canonical'[j] = canonical[j] /\ record'[j] = record[j]
    OBVIOUS
  <2>1. PICK w \in Session : Step(w)
    BY DEF Next, Step
  <2>2. QED
    BY <2>1, RecordsStep DEF DedupInv
<1>2. QED
  BY <1>1, DedupInvariant, PTL DEF Spec, LinkIsFinal

\* Without overlaps and losses the canonical of a job was discovered before it.
THEOREM CanonicalsAreOlder == Spec => []CanonicalIsOlder
<1>1. DedupInv => CanonicalIsOlder
  BY DEF DedupInv
<1>2. QED
  BY <1>1, DedupInvariant, PTL

\* So do the parts of it about matches.
THEOREM MatchInvariant == Spec => [](DedupInv /\ Loaded /\ Matched)
<1>1. Init => Loaded /\ Matched
  <2>1. Init => \A w \in Session : pc[w] = "idle"
    BY DEF Init
  <2>2. Init => \A j, k \in Job : canonical[j] # k
    BY DeduplicationAssumption DEF Init
  <2>3. QED
    BY <2>1, <2>2 DEF Loaded, Matched, Links
<1>2. DedupInv /\ Loaded /\ Matched /\ [Next]_vars => (Loaded /\ Matched)'
  <2> SUFFICES ASSUME DedupInv, Loaded, Matched, [Next]_vars PROVE Loaded' /\ Matched'
    OBVIOUS
  <2>1. ASSUME NEW w \in Session, Step(w) PROVE Loaded' /\ Matched'
    BY <2>1, LoadedStep, MatchedStep DEF DedupInv
  <2>2. CASE UNCHANGED vars
    <3>1. Known' = Known /\ \A t \in Job : Older(t)' = Older(t)
      BY <2>2, OlderStays, KnownStays DEF vars
    <3>2. Transitive' = Transitive
      BY <2>2 DEF vars, Transitive
    <3>3. \A w \in Session : \A j, k \in Job : Links(w, j, k)' = Links(w, j, k)
      BY <2>2 DEF vars, Links
    <3>4. Loaded'
      BY <2>2, <3>1 DEF vars, Loaded
    <3>5. Matched'
      BY <2>2, <3>1, <3>2, <3>3 DEF vars, Matched
    <3>6. QED
      BY <3>4, <3>5
  <2>3. QED
    BY <2>1, <2>2 DEF Next, Step
<1>3. QED
  BY <1>1, <1>2, DedupInvInit, DedupInvStep, PTL DEF Spec

\* Without overlaps and losses a job is linked only to an older one that is alike to
\* it: the root that resolve_canonical_root finds is the canonical it started from.
THEOREM LinkedJobsMatch == Spec => LinksMatch
<1>1. DedupInv /\ Matched /\ [Next]_vars =>
        [~overlapped' /\ crashes' = 0 =>
           \A j \in Job : canonical'[j] # canonical[j] =>
             {j, canonical'[j]} \in alike /\ seen[canonical'[j]] < seen[j]]_vars
  <2> SUFFICES ASSUME DedupInv, Matched, Next, ~overlapped', crashes' = 0,
                      NEW j \in Job, canonical'[j] # canonical[j]
               PROVE  {j, canonical'[j]} \in alike /\ seen[canonical'[j]] < seen[j]
    OBVIOUS
  <2>1. PICK w \in Session : Step(w)
    BY DEF Next, Step
  <2>2. Link(w) /\ canonical' = [canonical EXCEPT ![plan[w].dup] = plan[w].root]
    BY <2>1, PointersStep DEF Pointers
  <2>3. /\ canonical \in [Job -> Job \cup {None}] /\ plan[w].root \in Job /\ pc[w] = "link"
        /\ ~overlapped /\ crashes = 0
    BY <2>2 DEF Link, DedupInv, BaseInv, TypeOK
  <2>4. j = plan[w].dup /\ canonical'[j] = plan[w].root
    BY <2>2, <2>3
  <2>5. Links(w, j, plan[w].root)
    BY <2>3, <2>4 DEF Links
  <2>6. plan[w].root \in Older(j)
    BY <2>3, <2>5 DEF Matched
  <2>7. QED
    BY <2>4, <2>6 DEF Older
<1>2. QED
  BY <1>1, MatchInvariant, PTL DEF Spec, LinksMatch

\* Where jobs match as copies of one posting would, no pointer leads to a job that
\* has a pointer itself, for any number of jobs, order of their deduplication and
\* limit on the candidates.
THEOREM PointersAreFlat == Spec => []FlatWhereMatchesAgree
<1>1. DedupInv /\ Matched => FlatWhereMatchesAgree
  <2> SUFFICES ASSUME DedupInv, Matched, ~overlapped, crashes = 0, changes = 0, Transitive,
                      NEW j \in Job, canonical[j] # None, canonical[canonical[j]] # None
               PROVE  FALSE
    BY DEF FlatWhereMatchesAgree
  <2>1. canonical \in [Job -> Job \cup {None}]
    BY DEF DedupInv, BaseInv, TypeOK
  <2>2. canonical[j] \in Job /\ canonical[canonical[j]] \in Job
    BY <2>1
  <2>3. Older(canonical[j]) = {} /\ canonical[canonical[j]] \in Older(canonical[j])
    BY <2>2 DEF Matched
  <2>4. QED
    BY <2>3
<1>2. QED
  BY <1>1, MatchInvariant, PTL

=============================================================================

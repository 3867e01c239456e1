---------------------------- MODULE RulesProofs ----------------------------
(***************************************************************************)
(* Proofs about the rules: matching, deduplication scoring and the pages   *)
(* of the listing.  Scores rest on two facts about rounded division: it is *)
(* monotone, and it stays between bounds that the dividend stays between.  *)
(* A maximum is a CHOOSE whose witness is found by a least counterexample. *)
(* Pages rest on counting: what precedes a card is its place, and places   *)
(* that are all different are all taken.                                   *)
(***************************************************************************)
EXTENDS Matching, DedupScoring, JobListing, FiniteSetTheorems, FunctionTheorems, WellFoundedInduction, TLAPS

LEMMA Quotient ==
  ASSUME NEW x \in Int, NEW d \in Nat \ {0}
  PROVE  x \div d \in Int /\ d * (x \div d) <= x /\ x < d * (x \div d) + d
OBVIOUS

LEMMA QuotientIs ==
  ASSUME NEW x \in Int, NEW d \in Nat \ {0}, NEW q \in Int, d * q <= x, x < d * q + d
  PROVE  x \div d = q
BY Quotient

LEMMA Product ==
  ASSUME NEW d \in Nat \ {0}, NEW p \in Int, NEW q \in Int, p < q
  PROVE  d * p + d <= d * q
OBVIOUS

LEMMA Times ==
  ASSUME NEW d \in Nat \ {0}, NEW p \in Int, NEW q \in Int, p <= q
  PROVE  d * p \in Int /\ d * q \in Int /\ d * p <= d * q
<1>1. CASE p < q
  <2>1. d * p \in Int /\ d * q \in Int /\ d * p + d <= d * q
    BY <1>1, Product
  <2>2. QED
    BY <2>1
<1>2. CASE p = q
  BY <1>2
<1>3. QED
  BY <1>1, <1>2

LEMMA RoundedMonotone ==
  ASSUME NEW m \in Int, NEW n \in Int, m <= n, NEW d \in Nat \ {0}
  PROVE  Rounded(m, d) \in Int /\ Rounded(n, d) \in Int /\ Rounded(m, d) <= Rounded(n, d)
<1> DEFINE p == (2 * m + d) \div (2 * d)
           q == (2 * n + d) \div (2 * d)
<1>1. /\ 2 * d \in Nat \ {0} /\ 2 * m + d \in Int /\ 2 * n + d \in Int
      /\ 2 * m + d <= 2 * n + d
  OBVIOUS
<1>2. p \in Int /\ (2 * d) * p <= 2 * m + d
  BY <1>1, Quotient
<1>3. q \in Int /\ 2 * n + d < (2 * d) * q + 2 * d
  BY <1>1, Quotient
<1> HIDE DEF p, q
<1>4. ~(q < p)
  <2> SUFFICES ASSUME q < p PROVE FALSE
    OBVIOUS
  <2>1. (2 * d) * q + 2 * d <= (2 * d) * p
    BY <1>1, <1>2, <1>3, Product
  <2>2. (2 * d) * q \in Int /\ (2 * d) * p \in Int
    BY <1>2, <1>3
  <2>3. QED
    BY <1>1, <1>2, <1>3, <2>1, <2>2
<1>5. QED
  BY <1>2, <1>3, <1>4 DEF Rounded, p, q

LEMMA RoundedBetween ==
  ASSUME NEW n \in Int, NEW d \in Nat \ {0}, NEW low \in Int, NEW high \in Int,
         d * low <= n, n <= d * high
  PROVE  low <= Rounded(n, d) /\ Rounded(n, d) <= high
<1>1. ASSUME NEW k \in Int PROVE Rounded(d * k, d) = k
  <2>1. /\ 2 * d \in Nat \ {0} /\ 2 * (d * k) + d \in Int
        /\ (2 * d) * k = 2 * (d * k)
    OBVIOUS
  <2>2. (2 * (d * k) + d) \div (2 * d) = k
    BY <2>1, QuotientIs
  <2>3. QED
    BY <2>2 DEF Rounded
<1>2. d * low \in Int /\ d * high \in Int
  OBVIOUS
<1>3. Rounded(d * low, d) <= Rounded(n, d) /\ Rounded(n, d) <= Rounded(d * high, d)
  BY <1>2, RoundedMonotone
<1>4. QED
  BY <1>1, <1>3

-----------------------------------------------------------------------------
(* The dimensions                                                          *)

LEMMA LeastNumber ==
  ASSUME NEW T \in SUBSET Nat, T # {}
  PROVE  \E n \in T : \A m \in T : n <= m
<1>1. PICK n \in T : \A m \in T : ~ (<<m, n>> \in OpToRel(<, Nat))
  BY NatLessThanWellFounded, WFMin
<1>2. \A m \in T : ~(m < n)
  BY <1>1 DEF OpToRel
<1>3. QED
  BY <1>2

\* A set of scores has a largest.
LEMMA LargestIs ==
  ASSUME NEW S \in SUBSET (0..1000), S # {}
  PROVE  Largest(S) \in S /\ \A y \in S : y <= Largest(S)
<1> DEFINE T == {n \in Nat : 1000 - n \in S}
<1>1. T \in SUBSET Nat
  OBVIOUS
<1>2. ASSUME NEW y \in S PROVE y \in Int /\ 1000 - y \in T
  <2>1. y \in Int /\ 1000 - y \in Nat /\ 1000 - (1000 - y) = y
    OBVIOUS
  <2>2. QED
    BY <2>1
<1>3. T # {}
  <2>1. PICK y : y \in S
    OBVIOUS
  <2>2. 1000 - y \in T
    BY <1>2, <2>1
  <2>3. QED
    BY <2>2
<1>4. \A n \in T : n \in Nat /\ 1000 - n \in S
  OBVIOUS
<1> HIDE DEF T
<1>5. PICK n \in T : \A m \in T : n <= m
  BY <1>1, <1>3, LeastNumber
<1>6. n \in Nat /\ 1000 - n \in S
  BY <1>4
<1>7. ASSUME NEW y \in S PROVE y <= 1000 - n
  <2>1. y \in Int /\ 1000 - y \in T
    BY <1>2
  <2>2. n <= 1000 - y
    BY <1>5, <2>1
  <2>3. QED
    BY <1>6, <2>1, <2>2
<1>8. \E x \in S : \A y \in S : y <= x
  BY <1>6, <1>7
<1>9. QED
  BY <1>8 DEF Largest

LEMMA LargerIs ==
  ASSUME NEW m \in Nat, NEW n \in Nat
  PROVE  Largest({m, n}) \in {m, n} /\ m <= Largest({m, n}) /\ n <= Largest({m, n})
<1>1. \E x \in {m, n} : \A y \in {m, n} : y <= x
  OBVIOUS
<1>2. QED
  BY <1>1 DEF Largest

\* A part of a whole.
LEMMA Share ==
  ASSUME NEW whole \in Nat, NEW k \in Nat, NEW n \in Nat \ {0}, k <= n
  PROVE  Rounded(whole * k, n) \in 0..whole
<1>1. /\ whole * k \in Int /\ n * 0 <= whole * k /\ whole * k <= n * whole
  OBVIOUS
<1>2. /\ 0 <= Rounded(whole * k, n) /\ Rounded(whole * k, n) <= whole
  BY <1>1, RoundedBetween
<1>3. Rounded(whole * k, n) \in Int
  BY <1>1, RoundedMonotone
<1>4. QED
  BY <1>2, <1>3

\* More skills cover no less.
LEMMA CoveredGrows ==
  ASSUME NEW c, NEW b, IsFiniteSet(b.skills), c.skills \subseteq b.skills,
         NEW asked, IsFiniteSet(asked), asked # {}
  PROVE  LET few == Covered(c, asked)
             more == Covered(b, asked)
         IN /\ few.of \in Nat \ {0} /\ more.of = few.of
            /\ few.had \in Nat /\ more.had \in Nat
            /\ few.had <= more.had /\ more.had <= few.of
<1> DEFINE n == Cardinality(asked)
           k == Cardinality(c.skills \cap asked)
           k2 == Cardinality(b.skills \cap asked)
<1>1. /\ IsFiniteSet(b.skills \cap asked) /\ c.skills \cap asked \subseteq b.skills \cap asked
      /\ b.skills \cap asked \subseteq asked
  BY FS_Subset
<1>2. k2 <= n
  BY <1>1, FS_Subset
<1>3. k <= k2 /\ IsFiniteSet(c.skills \cap asked)
  BY <1>1, FS_Subset
<1>4. n \in Nat \ {0} /\ k \in Nat /\ k2 \in Nat
  BY <1>1, <1>3, FS_CardinalityType, FS_EmptySet
<1>5. Covered(c, asked) = [had |-> k, of |-> n] /\ Covered(b, asked) = [had |-> k2, of |-> n]
  BY DEF Covered
<1> HIDE DEF n, k, k2
<1>6. QED
  BY <1>2, <1>3, <1>4, <1>5

\* A larger share rounds to no less.
LEMMA ShareGrows ==
  ASSUME NEW n \in Nat \ {0}, NEW k \in Nat, NEW k2 \in Nat, k <= k2, k2 <= n
  PROVE  /\ Rounded(Full * k, n) \in 0..Full /\ Rounded(Full * k2, n) \in 0..Full
         /\ Rounded(Full * k, n) <= Rounded(Full * k2, n)
<1>1. /\ Full \in Nat /\ Full * k \in Int /\ Full * k2 \in Int /\ Full * k <= Full * k2
      /\ k <= n
  BY DEF Full
<1>2. Rounded(Full * k, n) <= Rounded(Full * k2, n)
  BY <1>1, RoundedMonotone
<1>3. Rounded(Full * k, n) \in 0..Full /\ Rounded(Full * k2, n) \in 0..Full
  BY <1>1, Share
<1>4. QED
  BY <1>2, <1>3

\* How the skills of two candidates compare, if one has all of the other's.
LEMMA SkillsGrow ==
  ASSUME NEW c, NEW b, NEW p, IsCandidate(c), IsPosting(p), IsFiniteSet(b.skills),
         c.skills \subseteq b.skills
  PROVE  \/ evaluate_skills(c, p) = Unknown /\ evaluate_skills(b, p) = Unknown
         \/ /\ evaluate_skills(c, p) \in 0..Full /\ evaluate_skills(b, p) \in 0..Full
            /\ evaluate_skills(c, p) <= evaluate_skills(b, p)
<1>1. IsFiniteSet(p.required) /\ IsFiniteSet(p.preferred)
  BY DEF IsPosting
<1> DEFINE r == Covered(c, p.required)   r2 == Covered(b, p.required)
           q == Covered(c, p.preferred)  q2 == Covered(b, p.preferred)
<1>2. ASSUME p.required # {}
      PROVE  /\ r.of \in Nat \ {0} /\ r2.of = r.of /\ r.had \in Nat /\ r2.had \in Nat
             /\ r.had <= r2.had /\ r2.had <= r.of
  BY <1>1, <1>2, CoveredGrows
<1>3. ASSUME p.preferred # {}
      PROVE  /\ q.of \in Nat \ {0} /\ q2.of = q.of /\ q.had \in Nat /\ q2.had \in Nat
             /\ q.had <= q2.had /\ q2.had <= q.of
  BY <1>1, <1>3, CoveredGrows
<1>4. /\ evaluate_skills(c, p) =
           IF p.required = {} /\ p.preferred = {} THEN Unknown
           ELSE IF p.preferred = {} THEN Rounded(Full * r.had, r.of)
           ELSE IF p.required = {} THEN Rounded(Full * q.had, q.of)
           ELSE Rounded(Full * (80 * (q.of * r.had) + 20 * (r.of * q.had)), 100 * (q.of * r.of))
      /\ evaluate_skills(b, p) =
           IF p.required = {} /\ p.preferred = {} THEN Unknown
           ELSE IF p.preferred = {} THEN Rounded(Full * r2.had, r2.of)
           ELSE IF p.required = {} THEN Rounded(Full * q2.had, q2.of)
           ELSE Rounded(Full * (80 * (q2.of * r2.had) + 20 * (r2.of * q2.had)), 100 * (q2.of * r2.of))
  BY DEF evaluate_skills
<1> HIDE DEF r, r2, q, q2
<1>5. CASE p.required # {} /\ p.preferred # {}
  <2> DEFINE x == q.of * r.had   x2 == q.of * r2.had
             y == r.of * q.had   y2 == r.of * q2.had
             z == q.of * r.of
  <2>1. /\ x \in Int /\ x2 \in Int /\ y \in Int /\ y2 \in Int /\ z \in Nat \ {0}
        /\ 0 <= x /\ x <= x2 /\ x2 <= z /\ 0 <= y /\ y <= y2 /\ y2 <= z
    <3> DEFINE d == q.of   e == r.of
               m == r.had   m2 == r2.had
               n == q.had   n2 == q2.had
    <3>1. /\ d \in Nat \ {0} /\ e \in Nat \ {0}
          /\ m \in Nat /\ m2 \in Nat /\ m <= m2 /\ m2 <= e
          /\ n \in Nat /\ n2 \in Nat /\ n <= n2 /\ n2 <= d
      BY <1>2, <1>3, <1>5
    <3>2. x = d * m /\ x2 = d * m2 /\ y = e * n /\ y2 = e * n2 /\ z = d * e
      OBVIOUS
    <3> HIDE DEF d, e, m, m2, n, n2, x, x2, y, y2, z
    <3>3. d * 0 <= d * m /\ d * m <= d * m2 /\ d * m2 <= d * e
      <4>1. d * 0 <= d * m
        BY <3>1, Times
      <4>2. d * m <= d * m2
        BY <3>1, Times
      <4>3. d * m2 <= d * e
        BY <3>1, Times
      <4>4. QED
        BY <4>1, <4>2, <4>3
    <3>4. e * 0 <= e * n /\ e * n <= e * n2 /\ e * n2 <= e * d
      <4>1. e * 0 <= e * n
        BY <3>1, Times
      <4>2. e * n <= e * n2
        BY <3>1, Times
      <4>3. e * n2 <= e * d
        BY <3>1, Times
      <4>4. QED
        BY <4>1, <4>2, <4>3
    <3>5. d * 0 = 0 /\ e * 0 = 0 /\ e * d = d * e /\ d * e \in Nat \ {0}
      BY <3>1
    <3>6. d * m \in Int /\ d * m2 \in Int /\ e * n \in Int /\ e * n2 \in Int
      BY <3>1
    <3>7. QED
      BY <3>2, <3>3, <3>4, <3>5, <3>6
  <2>2. /\ evaluate_skills(c, p) = Rounded(Full * (80 * x + 20 * y), 100 * z)
        /\ evaluate_skills(b, p) = Rounded(Full * (80 * x2 + 20 * y2), 100 * z)
    BY <1>2, <1>3, <1>4, <1>5
  <2> HIDE DEF x, x2, y, y2, z
  <2> DEFINE few == 1000 * (80 * x + 20 * y)
             more == 1000 * (80 * x2 + 20 * y2)
             whole == 100 * z
  <2>3. /\ few \in Int /\ more \in Int /\ whole \in Nat \ {0} /\ few <= more
        /\ whole * 0 <= few /\ few <= whole * 1000
        /\ whole * 0 <= more /\ more <= whole * 1000
    BY <2>1
  <2>4. evaluate_skills(c, p) = Rounded(few, whole) /\ evaluate_skills(b, p) = Rounded(more, whole)
    BY <2>2 DEF Full
  <2> HIDE DEF few, more, whole
  <2>5. /\ Rounded(few, whole) \in Int /\ Rounded(more, whole) \in Int
        /\ Rounded(few, whole) <= Rounded(more, whole)
    BY <2>3, RoundedMonotone
  <2>6. /\ 0 <= Rounded(few, whole) /\ Rounded(few, whole) <= 1000
        /\ 0 <= Rounded(more, whole) /\ Rounded(more, whole) <= 1000
    BY <2>3, RoundedBetween
  <2>7. QED
    BY <2>4, <2>5, <2>6 DEF Full
<1>6. CASE p.required # {} /\ p.preferred = {}
  BY <1>2, <1>4, <1>6, ShareGrows
<1>7. CASE p.required = {} /\ p.preferred # {}
  BY <1>3, <1>4, <1>7, ShareGrows
<1>8. CASE p.required = {} /\ p.preferred = {}
  BY <1>4, <1>8
<1>9. QED
  BY <1>5, <1>6, <1>7, <1>8

\* A title fits a role to at most the full score.
LEMMA FitIsScore ==
  ASSUME NEW role, NEW title, role \in Seq(Words(role)), title \in Seq(Words(title))
  PROVE  Fit(role, title) \in 0..Full
<1>1. ASSUME NEW t, t \in Seq(Words(t))
      PROVE  IsFiniteSet(Words(t)) /\ (t # << >> => Words(t) # {})
             /\ \E i \in 0..(Len(t) - Len(<< >>)) : SubSeq(t, i + 1, i + Len(<< >>)) = << >>
  <2>1. Len(t) \in Nat /\ DOMAIN t = 1..Len(t)
    BY <1>1
  <2>2. IsFiniteSet(1..Len(t))
    BY <2>1, FS_Interval
  <2>3. IsFiniteSet(Words(t))
    <3>1. t \in [1..Len(t) -> Words(t)] /\ \A x \in Words(t) : \E i \in 1..Len(t) : t[i] = x
      BY <1>1, <2>1 DEF Words
    <3>2. t \in Surjection(1..Len(t), Words(t))
      BY <3>1 DEF Surjection
    <3>3. QED
      BY <2>2, <3>2, FS_Surjection
  <2>4. t # << >> => 1 \in DOMAIN t
    BY <1>1, <2>1
  <2>5. SubSeq(t, 1, 0) = << >>
    BY <1>1
  <2>6. 0 \in 0..(Len(t) - Len(<< >>)) /\ SubSeq(t, 0 + 1, 0 + Len(<< >>)) = << >>
    BY <2>1, <2>5
  <2>7. QED
    BY <2>3, <2>4, <2>6 DEF Words
<1>2. CASE role = title \/ Contains(title, role) \/ Contains(role, title)
  BY <1>2 DEF Fit, Full
<1>3. CASE ~(role = title \/ Contains(title, role) \/ Contains(role, title))
  <2> DEFINE R == Words(role)
             T == Words(title)
             n == Largest({Cardinality(R), Cardinality(T)})
  <2>1. IsFiniteSet(R) /\ IsFiniteSet(T)
    BY <1>1
  <2>2. role # << >> /\ title # << >>
    BY <1>1, <1>3 DEF Contains
  <2>3. IsFiniteSet(R) /\ IsFiniteSet(T) /\ R # {} /\ T # {}
    BY <1>1, <2>1, <2>2
  <2> HIDE DEF R, T
  <2>4. Cardinality(R) \in Nat \ {0} /\ Cardinality(T) \in Nat \ {0}
    BY <2>3, FS_CardinalityType, FS_EmptySet
  <2>5. n \in {Cardinality(R), Cardinality(T)} /\ Cardinality(R) <= n
    BY <2>4, LargerIs
  <2>6. Cardinality(R \cap T) <= Cardinality(R)
    BY <2>3, FS_Subset
  <2>7. Cardinality(R \cap T) \in Nat
    BY <2>3, FS_Subset, FS_CardinalityType
  <2>8. n \in Nat \ {0} /\ Cardinality(R \cap T) <= n
    BY <2>4, <2>5, <2>6, <2>7
  <2> HIDE DEF n
  <2> DEFINE k == Cardinality(R \cap T)
  <2>9. k \in Nat /\ k <= n
    BY <2>7, <2>8
  <2> HIDE DEF k
  <2>10. Rounded(800 * k, n) \in 0..800
    <3> DEFINE whole == 800
    <3>1. whole \in Nat
      OBVIOUS
    <3> HIDE DEF whole
    <3>2. Rounded(whole * k, n) \in 0..whole
      BY <2>8, <2>9, <3>1, Share
    <3>3. QED
      BY <3>2 DEF whole
  <2>11. Fit(role, title) = Rounded(800 * k, n)
    BY <1>3 DEF Fit, R, T, n, k
  <2>12. QED
    BY <2>10, <2>11 DEF Fit, Full
<1>4. QED
  BY <1>2, <1>3

LEMMA TitleScore ==
  ASSUME NEW c, NEW p, IsPosting(p), p.title # Unknown,
         c.roles # {}, \A role \in c.roles : role \in Seq(Words(role))
  PROVE  evaluate_title(c, p) \in 0..Full
         /\ (p.title \in c.roles => evaluate_title(c, p) = Full)
<1> DEFINE S == {Fit(role, p.title) : role \in c.roles}
<1>1. p.title \in Seq(Words(p.title)) /\ \A role \in c.roles : role \in Seq(Words(role))
  BY DEF IsPosting
<1>2. \A role \in c.roles : Fit(role, p.title) \in 0..Full
  BY <1>1, FitIsScore, Zenon
<1>3. S \subseteq 0..Full /\ S # {}
  BY <1>2
<1>4. Fit(p.title, p.title) = Full
  BY DEF Fit
<1>5. p.title \in c.roles => Full \in S
  BY <1>4
<1>6. evaluate_title(c, p) = Largest(S)
  BY DEF evaluate_title
<1> HIDE DEF S
<1>7. Largest(S) \in S /\ \A y \in S : y <= Largest(S)
  BY <1>3, LargestIs DEF Full
<1> DEFINE score == Largest(S)
<1>8. score \in 0..Full
  BY <1>3, <1>7, Zenon
<1>9. Full \in S => Full <= score
  BY <1>7, Zenon
<1> HIDE DEF score
<1>10. Full \in S => score = Full
  BY <1>8, <1>9 DEF Full
<1>11. QED
  BY <1>5, <1>6, <1>8, <1>10, Zenon DEF score

\* The highest degree held.
LEMMA HeldIs ==
  ASSUME NEW D, D \subseteq DOMAIN EDUCATION_HIERARCHY, D # {}
  PROVE  LET held == Largest({get_rank(d) : d \in D})
         IN held \in 0..5 /\ \A d \in D : get_rank(d) <= held
<1> DEFINE S == {get_rank(d) : d \in D}
<1>1. \A d \in D : get_rank(d) \in 0..5
  BY DEF get_rank, EDUCATION_HIERARCHY
<1>2. S \subseteq 0..5 /\ S # {} /\ \A d \in D : get_rank(d) \in S
  BY <1>1
<1> HIDE DEF S
<1>3. Largest(S) \in S /\ \A y \in S : y <= Largest(S)
  BY <1>2, LargestIs
<1>4. QED
  BY <1>2, <1>3 DEF S

\* Every dimension is unknown or scored between nothing and the full score.
LEMMA ScoresTyped ==
  ASSUME NEW c, NEW p, IsCandidate(c), IsPosting(p)
  PROVE  \A d \in Dimension : Results(c, p)[d] \in 0..Full \cup {Unknown}
<1> USE DEF Full
<1>1. evaluate_skills(c, p) \in 0..Full \cup {Unknown}
  <2>1. IsFiniteSet(c.skills) /\ c.skills \subseteq c.skills
    BY DEF IsCandidate
  <2> HIDE DEF Full
  <2>2. QED
    BY <2>1, SkillsGrow
<1>2. evaluate_experience(c, p) \in {150, 400, 700, 800, 1000, Unknown}
  BY DEF evaluate_experience, AgainstMinimum, Smaller
<1>3. evaluate_title(c, p) \in 0..Full \cup {Unknown}
  <2>1. CASE p.title = Unknown \/ c.roles = {}
    BY <2>1 DEF evaluate_title
  <2>2. CASE p.title # Unknown /\ c.roles # {}
    <3>1. \A role \in c.roles : role \in Seq(Words(role))
      BY DEF IsCandidate
    <3>2. evaluate_title(c, p) \in 0..Full
      <4> HIDE DEF Full
      <4>1. QED
        BY <2>2, <3>1, TitleScore, Zenon
    <3>3. QED
      BY <3>2
  <2>3. QED
    BY <2>1, <2>2
<1>4. /\ evaluate_location(c, p) \in {0, 750, 1000, Unknown}
      /\ evaluate_workplace(c, p) \in {0, 1000, Unknown}
      /\ evaluate_employment_type(c, p) \in {0, 1000, Unknown}
      /\ evaluate_salary(c, p) \in {0, 500, 1000, Unknown}
      /\ evaluate_education(c, p) \in {0, 500, 1000, Unknown}
  BY DEF evaluate_location, evaluate_workplace, evaluate_employment_type, Listed,
         evaluate_salary, evaluate_education
<1>5. /\ Results(c, p)["skills"] = evaluate_skills(c, p)
      /\ Results(c, p)["experience"] = evaluate_experience(c, p)
      /\ Results(c, p)["title"] = evaluate_title(c, p)
      /\ Results(c, p)["location"] = evaluate_location(c, p)
      /\ Results(c, p)["workplace"] = evaluate_workplace(c, p)
      /\ Results(c, p)["employment_type"] = evaluate_employment_type(c, p)
      /\ Results(c, p)["salary"] = evaluate_salary(c, p)
      /\ Results(c, p)["education"] = evaluate_education(c, p)
  BY DEF Results
<1> HIDE DEF Full
<1>6. {0, 150, 400, 500, 700, 750, 800, 1000} \subseteq 0..Full
  BY DEF Full
<1>7. QED
  BY <1>1, <1>2, <1>3, <1>4, <1>5, <1>6 DEF Dimension

-----------------------------------------------------------------------------
(* What an improvement does to the dimensions                              *)

\* How a candidate who has one more of what is asked for differs.
MoreOf(c, b, p) ==
  /\ c.skills \subseteq b.skills /\ IsFiniteSet(b.skills)
  /\ \/ b.years = c.years
     \/ /\ evaluate_experience(c, p) # Unknown
        /\ p.minYears # Unknown /\ c.years < p.minYears /\ b.years = p.minYears
  /\ \/ b.roles = c.roles
     \/ evaluate_title(c, p) # Unknown /\ b.roles = c.roles \cup {p.title}
  /\ \/ b.places = c.places /\ b.relocates = c.relocates
     \/ /\ evaluate_location(c, p) # Unknown
        /\ \/ b.places = c.places \cup {p.place} /\ b.relocates = c.relocates
           \/ b.places = c.places /\ b.relocates = TRUE
  /\ \/ b.workplaces = c.workplaces
     \/ evaluate_workplace(c, p) # Unknown /\ b.workplaces = c.workplaces \cup {p.workplace}
  /\ \/ b.employments = c.employments
     \/ /\ evaluate_employment_type(c, p) # Unknown
        /\ b.employments = c.employments \cup {p.employment}
  /\ \/ b.degrees = c.degrees
     \/ evaluate_education(c, p) # Unknown /\ b.degrees = c.degrees \cup {p.degree}
  /\ <<b.minSalary, b.maxSalary, b.currency>> = <<c.minSalary, c.maxSalary, c.currency>>

LEMMA ImprovedHasMore ==
  ASSUME NEW c, NEW p, IsCandidate(c), IsPosting(p), NEW b \in Improved(c, p)
  PROVE  MoreOf(c, b, p)
<1>1. /\ Results(c, p)["experience"] = evaluate_experience(c, p)
      /\ Results(c, p)["title"] = evaluate_title(c, p)
      /\ Results(c, p)["location"] = evaluate_location(c, p)
      /\ Results(c, p)["workplace"] = evaluate_workplace(c, p)
      /\ Results(c, p)["employment_type"] = evaluate_employment_type(c, p)
      /\ Results(c, p)["education"] = evaluate_education(c, p)
  BY DEF Results
<1>2. c = [skills |-> c.skills, years |-> c.years, roles |-> c.roles, places |-> c.places,
           relocates |-> c.relocates, workplaces |-> c.workplaces,
           employments |-> c.employments, minSalary |-> c.minSalary,
           maxSalary |-> c.maxSalary, currency |-> c.currency, degrees |-> c.degrees]
      /\ IsFiniteSet(c.skills)
  BY DEF IsCandidate
<1>3. CASE \E s : b = [c EXCEPT !.skills = @ \cup {s}]
  <2>1. PICK s : b = [c EXCEPT !.skills = @ \cup {s}]
    BY <1>3
  <2>2. b.skills = c.skills \cup {s} /\ IsFiniteSet(c.skills \cup {s})
    BY <1>2, <2>1, FS_AddElement
  <2>3. QED
    BY <1>2, <2>1, <2>2 DEF MoreOf
<1>4. CASE /\ evaluate_title(c, p) # Unknown
           /\ b = [c EXCEPT !.roles = @ \cup {p.title}]
  BY <1>2, <1>4 DEF MoreOf
<1>5. CASE /\ evaluate_location(c, p) # Unknown
           /\ \/ b = [c EXCEPT !.places = @ \cup {p.place}]
              \/ b = [c EXCEPT !.relocates = TRUE]
  BY <1>2, <1>5 DEF MoreOf
<1>6. CASE /\ evaluate_workplace(c, p) # Unknown
           /\ b = [c EXCEPT !.workplaces = @ \cup {p.workplace}]
  BY <1>2, <1>6 DEF MoreOf
<1>7. CASE /\ evaluate_employment_type(c, p) # Unknown
           /\ b = [c EXCEPT !.employments = @ \cup {p.employment}]
  BY <1>2, <1>7 DEF MoreOf
<1>8. CASE /\ evaluate_education(c, p) # Unknown
           /\ b = [c EXCEPT !.degrees = @ \cup {p.degree}]
  BY <1>2, <1>8 DEF MoreOf
<1>9. CASE /\ evaluate_experience(c, p) # Unknown
           /\ p.minYears # Unknown /\ c.years < p.minYears
           /\ b = [c EXCEPT !.years = p.minYears]
  BY <1>2, <1>9 DEF MoreOf
<1>10. QED
  BY <1>1, <1>3, <1>4, <1>5, <1>6, <1>7, <1>8, <1>9 DEF Improved

\* Unknown alike, or scored and no lower.
NoLower(m, n) ==
  \/ m = Unknown /\ n = Unknown
  \/ m \in 0..Full /\ n \in 0..Full /\ m <= n

LEMMA TitleGrows ==
  ASSUME NEW c, NEW b, NEW p, IsCandidate(c), IsPosting(p), MoreOf(c, b, p)
  PROVE  NoLower(evaluate_title(c, p), evaluate_title(b, p))
<1>1. CASE p.title = Unknown \/ c.roles = {}
  BY <1>1 DEF MoreOf, NoLower, evaluate_title
<1>2. CASE p.title # Unknown /\ c.roles # {}
  <2>1. evaluate_title(c, p) \in 0..Full
    BY <1>2, TitleScore DEF IsCandidate
  <2>2. CASE b.roles = c.roles
    <3>1. evaluate_title(b, p) = evaluate_title(c, p)
      BY <2>2 DEF evaluate_title
    <3>2. QED
      BY <2>1, <3>1 DEF NoLower, Full
  <2>3. CASE b.roles = c.roles \cup {p.title}
    <3>1. /\ p.title \in b.roles /\ p.title \in Seq(Words(p.title))
          /\ \A role \in c.roles : role \in Seq(Words(role))
      BY <1>2, <2>3 DEF IsCandidate, IsPosting
    <3>2. \A role \in b.roles : role \in Seq(Words(role))
      BY <2>3, <3>1
    <3>3. evaluate_title(b, p) = Full
      BY <1>2, <3>1, <3>2, TitleScore
    <3>4. QED
      BY <2>1, <3>3 DEF NoLower, Full
  <2>4. QED
    BY <2>2, <2>3 DEF MoreOf
<1>3. QED
  BY <1>1, <1>2

LEMMA ExperienceGrows ==
  ASSUME NEW c, NEW b, NEW p, IsCandidate(c), IsPosting(p), MoreOf(c, b, p)
  PROVE  /\ NoLower(evaluate_experience(c, p), evaluate_experience(b, p))
         /\ evaluate_experience(b, p) = 150 => evaluate_experience(c, p) = 150
<1>0. /\ c.years \in Nat \cup {Unknown} /\ p.minYears \in Nat \cup {Unknown}
      /\ p.maxYears \in Nat \cup {Unknown} /\ Unknown \notin Int
  BY MatchingAssumption DEF IsCandidate, IsPosting
<1>1. evaluate_experience(c, p) \in {150, 400, 700, 800, 1000, Unknown}
  BY DEF evaluate_experience, AgainstMinimum, Smaller, Full
<1>2. CASE b.years = c.years
  <2>1. evaluate_experience(b, p) = evaluate_experience(c, p)
    BY <1>2 DEF evaluate_experience
  <2>2. QED
    BY <1>1, <2>1 DEF NoLower, Full
<1>3. CASE /\ evaluate_experience(c, p) # Unknown
           /\ p.minYears # Unknown /\ c.years < p.minYears /\ b.years = p.minYears
  <2>1. c.years \in Nat /\ p.minYears \in Nat /\ b.years \in Nat
    BY <1>0, <1>3 DEF evaluate_experience
  <2>2. AgainstMinimum(c.years, p.minYears) \in {150, 400, 700}
    BY <1>0, <1>3, <2>1 DEF AgainstMinimum
  <2>3. evaluate_experience(c, p) \in {150, 400, 700}
    BY <1>0, <1>3, <2>1, <2>2 DEF evaluate_experience, Smaller
  <2>4. evaluate_experience(b, p) \in {800, 1000}
    BY <1>0, <1>3, <2>1 DEF evaluate_experience, AgainstMinimum, Smaller, Full
  <2>5. QED
    BY <2>3, <2>4 DEF NoLower, Full
<1>4. QED
  BY <1>2, <1>3 DEF MoreOf

LEMMA EducationGrows ==
  ASSUME NEW c, NEW b, NEW p, IsCandidate(c), IsPosting(p), MoreOf(c, b, p)
  PROVE  NoLower(evaluate_education(c, p), evaluate_education(b, p))
<1>1. evaluate_education(c, p) \in {0, 500, 1000, Unknown}
  BY DEF evaluate_education, Full
<1>2. CASE b.degrees = c.degrees
  <2>1. evaluate_education(b, p) = evaluate_education(c, p)
    BY <1>2 DEF evaluate_education
  <2>2. QED
    BY <1>1, <2>1 DEF NoLower, Full
<1>3. CASE evaluate_education(c, p) # Unknown /\ b.degrees = c.degrees \cup {p.degree}
  <2>1. p.degree # Unknown /\ get_rank(p.degree) # 0
    BY <1>3 DEF evaluate_education
  <2>2. p.degree \in DOMAIN EDUCATION_HIERARCHY /\ c.degrees \subseteq DOMAIN EDUCATION_HIERARCHY
    BY <2>1 DEF IsCandidate, IsPosting
  <2>3. get_rank(p.degree) <= Largest({get_rank(d) : d \in b.degrees})
    <3>1. b.degrees \subseteq DOMAIN EDUCATION_HIERARCHY /\ b.degrees # {} /\ p.degree \in b.degrees
      BY <1>3, <2>2
    <3>2. QED
      BY <3>1, HeldIs
  <2>4. evaluate_education(b, p) = Full
    BY <1>3, <2>1, <2>3 DEF evaluate_education
  <2>5. QED
    BY <1>1, <1>3, <2>4 DEF NoLower, Full
<1>4. QED
  BY <1>2, <1>3 DEF MoreOf

LEMMA ResultsImprove ==
  ASSUME NEW c, NEW p, IsCandidate(c), IsPosting(p), NEW b \in Improved(c, p)
  PROVE  /\ \A d \in Dimension : NoLower(Results(c, p)[d], Results(b, p)[d])
         /\ Results(b, p).experience = 150 => Results(c, p).experience = 150
<1>1. MoreOf(c, b, p)
  BY ImprovedHasMore
<1>2. NoLower(evaluate_skills(c, p), evaluate_skills(b, p))
  BY <1>1, SkillsGrow DEF MoreOf, NoLower
<1>3. NoLower(evaluate_location(c, p), evaluate_location(b, p))
  BY <1>1 DEF MoreOf, NoLower, evaluate_location, Full
<1>4. NoLower(evaluate_workplace(c, p), evaluate_workplace(b, p))
  BY <1>1 DEF MoreOf, NoLower, evaluate_workplace, Listed, Full
<1>5. NoLower(evaluate_employment_type(c, p), evaluate_employment_type(b, p))
  BY <1>1 DEF MoreOf, NoLower, evaluate_employment_type, Listed, Full
<1>6. NoLower(evaluate_salary(c, p), evaluate_salary(b, p))
  <2>1. evaluate_salary(c, p) \in {0, 500, 1000, Unknown}
    BY DEF evaluate_salary, Full
  <2>2. evaluate_salary(b, p) = evaluate_salary(c, p)
    BY <1>1 DEF MoreOf, evaluate_salary
  <2>3. QED
    BY <2>1, <2>2 DEF NoLower, Full
<1>7. ASSUME NEW x
      PROVE  /\ Results(x, p)["skills"] = evaluate_skills(x, p)
             /\ Results(x, p)["experience"] = evaluate_experience(x, p)
             /\ Results(x, p)["title"] = evaluate_title(x, p)
             /\ Results(x, p)["location"] = evaluate_location(x, p)
             /\ Results(x, p)["workplace"] = evaluate_workplace(x, p)
             /\ Results(x, p)["employment_type"] = evaluate_employment_type(x, p)
             /\ Results(x, p)["salary"] = evaluate_salary(x, p)
             /\ Results(x, p)["education"] = evaluate_education(x, p)
  BY DEF Results
<1>8. QED
  BY <1>1, <1>2, <1>3, <1>4, <1>5, <1>6, <1>7, TitleGrows, ExperienceGrows, EducationGrows
     DEF Dimension

-----------------------------------------------------------------------------
(* The aggregate                                                           *)

\* What a dimension weighs, and what it brings, in an aggregate.
Weighs(r, d) == IF r[d] = Unknown THEN 0 ELSE DEFAULT_MATCH_WEIGHTS[d]
Brings(r, d) == IF r[d] = Unknown THEN 0 ELSE DEFAULT_MATCH_WEIGHTS[d] * r[d]

Weights(r) == [d \in Dimension |-> Weighs(r, d)]
Gains(r) == [d \in Dimension |-> Brings(r, d)]

AddUp(f) == f["skills"] + f["experience"] + f["title"] + f["location"] + f["workplace"]
              + f["employment_type"] + f["salary"] + f["education"]

LEMMA AddUpGrows ==
  ASSUME NEW f \in [Dimension -> Int], NEW g \in [Dimension -> Int],
         \A d \in Dimension : f[d] <= g[d]
  PROVE  AddUp(f) \in Int /\ AddUp(g) \in Int /\ AddUp(f) <= AddUp(g)
BY DEF AddUp, Dimension

LEMMA AddUpPositive ==
  ASSUME NEW f \in [Dimension -> Nat], NEW e \in Dimension, f[e] > 0
  PROVE  AddUp(f) \in Nat \ {0}
BY DEF AddUp, Dimension

LEMMA AddUpTimes ==
  ASSUME NEW f \in [Dimension -> Int], NEW k \in Int
  PROVE  /\ [d \in Dimension |-> f[d] * k] \in [Dimension -> Int]
         /\ AddUp([d \in Dimension |-> f[d] * k]) = AddUp(f) * k
<1>1. ASSUME NEW f1 \in Int, NEW f2 \in Int, NEW f3 \in Int, NEW f4 \in Int,
             NEW f5 \in Int, NEW f6 \in Int, NEW f7 \in Int, NEW f8 \in Int
      PROVE  f1 * k + f2 * k + f3 * k + f4 * k + f5 * k + f6 * k + f7 * k + f8 * k
               = (f1 + f2 + f3 + f4 + f5 + f6 + f7 + f8) * k
  OBVIOUS
<1>2. QED
  BY <1>1 DEF AddUp, Dimension

LEMMA AggregateIs ==
  ASSUME NEW r
  PROVE  Available(r) = AddUp(Weights(r)) /\ Sum(Weighted(r), Known(r)) = AddUp(Gains(r))
<1>1. ASSUME NEW d \in Dimension
      PROVE  /\ (IF d \in Known(r) THEN DEFAULT_MATCH_WEIGHTS[d] ELSE 0) = Weights(r)[d]
             /\ (IF d \in Known(r) THEN Weighted(r)[d] ELSE 0) = Gains(r)[d]
  BY DEF Known, Weighted, Weights, Gains, Weighs, Brings
<1>2. /\ "skills" \in Dimension /\ "experience" \in Dimension /\ "title" \in Dimension
      /\ "location" \in Dimension /\ "workplace" \in Dimension
      /\ "employment_type" \in Dimension /\ "salary" \in Dimension
      /\ "education" \in Dimension
  BY DEF Dimension
<1>3. QED
  BY <1>1, <1>2 DEF Available, Sum, AddUp

LEMMA WeightsTyped ==
  ASSUME NEW r, NEW d \in Dimension
  PROVE  DEFAULT_MATCH_WEIGHTS[d] \in 2..35 /\ Weighs(r, d) \in 0..35
         /\ (r[d] # Unknown => Weighs(r, d) > 0)
BY DEF Dimension, DEFAULT_MATCH_WEIGHTS, Weighs

LEMMA BringsMore ==
  ASSUME NEW r, NEW r2, NEW d \in Dimension, NoLower(r[d], r2[d])
  PROVE  /\ Weighs(r, d) = Weighs(r2, d)
         /\ Brings(r, d) \in Int /\ Brings(r2, d) \in Int /\ Brings(r, d) <= Brings(r2, d)
<1>0. Unknown \notin Int
  BY MatchingAssumption
<1>1. DEFAULT_MATCH_WEIGHTS[d] \in 2..35
  BY WeightsTyped
<1>3. CASE r[d] = Unknown /\ r2[d] = Unknown
  BY <1>3 DEF Weighs, Brings
<1>4. CASE r[d] \in 0..Full /\ r2[d] \in 0..Full /\ r[d] <= r2[d]
  <2>1. r[d] # Unknown /\ r2[d] # Unknown
    BY <1>0, <1>4
  <2>2. /\ DEFAULT_MATCH_WEIGHTS[d] * r[d] \in Int
        /\ DEFAULT_MATCH_WEIGHTS[d] * r2[d] \in Int
        /\ DEFAULT_MATCH_WEIGHTS[d] * r[d] <= DEFAULT_MATCH_WEIGHTS[d] * r2[d]
    <3> DEFINE w == DEFAULT_MATCH_WEIGHTS[d]
    <3>1. w \in Nat \ {0} /\ r[d] \in Int /\ r2[d] \in Int
      BY <1>1, <1>4 DEF Full
    <3> HIDE DEF w
    <3>2. w * r[d] \in Int /\ w * r2[d] \in Int /\ w * r[d] <= w * r2[d]
      BY <1>4, <3>1, Times
    <3>3. QED
      BY <3>2 DEF w
  <2>3. QED
    BY <2>1, <2>2 DEF Weighs, Brings
<1>5. QED
  BY <1>3, <1>4 DEF NoLower

\* The weighted score grows with the results.
LEMMA ScoreGrows ==
  ASSUME NEW r, NEW r2, \A d \in Dimension : NoLower(r[d], r2[d])
  PROVE  /\ calculate_weighted_score(r) \in Int /\ calculate_weighted_score(r2) \in Int
         /\ calculate_weighted_score(r) <= calculate_weighted_score(r2)
<1> DEFINE a == Available(r)
           x == Sum(Weighted(r), Known(r))
           y == Sum(Weighted(r2), Known(r2))
<1>1. \A d \in Dimension :
        /\ Weighs(r, d) = Weighs(r2, d) /\ Weighs(r, d) \in 0..35
        /\ Brings(r, d) \in Int /\ Brings(r2, d) \in Int /\ Brings(r, d) <= Brings(r2, d)
  BY BringsMore, WeightsTyped
<1>2. /\ Weights(r) = Weights(r2) /\ Weights(r) \in [Dimension -> Nat]
      /\ Gains(r) \in [Dimension -> Int] /\ Gains(r2) \in [Dimension -> Int]
      /\ \A d \in Dimension : Gains(r)[d] <= Gains(r2)[d]
  BY <1>1 DEF Weights, Gains
<1>3. a = Available(r2) /\ a \in Nat
  <2>1. AddUp(Weights(r)) \in Nat
    BY <1>2 DEF AddUp, Dimension
  <2>2. QED
    BY <1>2, <2>1, AggregateIs
<1>4. x \in Int /\ y \in Int /\ x <= y
  BY <1>2, AddUpGrows, AggregateIs
<1> HIDE DEF a, x, y
<1>5. CASE a = 0
  BY <1>3, <1>5 DEF calculate_weighted_score, a
<1>6. CASE a # 0
  <2>1. Rounded(x, a) \in Int /\ Rounded(y, a) \in Int /\ Rounded(x, a) <= Rounded(y, a)
    BY <1>3, <1>4, <1>6, RoundedMonotone
  <2>2. calculate_weighted_score(r) = Rounded(x, a) /\ calculate_weighted_score(r2) = Rounded(y, a)
    BY <1>3, <1>6 DEF calculate_weighted_score, a, x, y
  <2>3. QED
    BY <2>1, <2>2
<1>7. QED
  BY <1>5, <1>6

\* The weighted score lies between any bounds on the results it averages.
LEMMA ScoreBetween ==
  ASSUME NEW r, \A d \in Dimension : r[d] \in 0..Full \cup {Unknown}, Known(r) # {},
         NEW low \in Nat, NEW high \in Nat,
         \A d \in Known(r) : low <= r[d] /\ r[d] <= high
  PROVE  low <= calculate_weighted_score(r) /\ calculate_weighted_score(r) <= high
<1> DEFINE a == Available(r)
           x == Sum(Weighted(r), Known(r))
<1>1. Unknown \notin Int
  BY MatchingAssumption
<1>2. ASSUME NEW d \in Dimension
      PROVE  /\ Weighs(r, d) \in Nat /\ Brings(r, d) \in Int
             /\ Weighs(r, d) * low <= Brings(r, d) /\ Brings(r, d) <= Weighs(r, d) * high
  <2>1. CASE r[d] = Unknown
    BY <2>1 DEF Weighs, Brings
  <2>2. CASE r[d] # Unknown
    <3> DEFINE w == DEFAULT_MATCH_WEIGHTS[d]
               y == r[d]
    <3>1. w \in Nat \ {0} /\ y \in Int /\ low <= y /\ y <= high
      BY <2>2, WeightsTyped DEF Known, Full
    <3>2. Weighs(r, d) = w /\ Brings(r, d) = w * y
      BY <2>2 DEF Weighs, Brings
    <3> HIDE DEF w, y
    <3>3. w * low <= w * y /\ w * y <= w * high /\ w * y \in Int
      BY <3>1, Times
    <3>4. QED
      BY <3>1, <3>2, <3>3
  <2>3. QED
    BY <2>1, <2>2
<1>3. Weights(r) \in [Dimension -> Int] /\ Gains(r) \in [Dimension -> Int]
  BY <1>2 DEF Weights, Gains
<1>4. ASSUME NEW k \in Nat
      PROVE  /\ [d \in Dimension |-> Weights(r)[d] * k] \in [Dimension -> Int]
             /\ AddUp([d \in Dimension |-> Weights(r)[d] * k]) = a * k
  BY <1>3, AddUpTimes, AggregateIs
<1>5. \A d \in Dimension : /\ Weights(r)[d] * low <= Gains(r)[d]
                           /\ Gains(r)[d] <= Weights(r)[d] * high
  BY <1>2 DEF Weights, Gains
<1>6. AddUp(Gains(r)) = x
  BY AggregateIs
<1>7. a \in Nat \ {0}
  <2>1. PICK e \in Dimension : r[e] # Unknown
    BY DEF Known
  <2>2. Weighs(r, e) > 0 /\ \A d \in Dimension : Weighs(r, d) \in Nat
    BY <1>2, <2>1, WeightsTyped
  <2>3. Weights(r) \in [Dimension -> Nat] /\ Weights(r)[e] > 0
    BY <2>2 DEF Weights
  <2>4. AddUp(Weights(r)) \in Nat \ {0}
    BY <2>3, AddUpPositive
  <2>5. QED
    BY <2>4, AggregateIs
<1> HIDE DEF a, x
<1>8. a * low <= x /\ x \in Int
  <2> DEFINE f == [d \in Dimension |-> Weights(r)[d] * low]
  <2>1. f \in [Dimension -> Int] /\ AddUp(f) = a * low
    BY <1>4
  <2>2. \A d \in Dimension : f[d] <= Gains(r)[d]
    BY <1>5
  <2> HIDE DEF f
  <2>3. QED
    BY <1>3, <1>6, <2>1, <2>2, AddUpGrows
<1>9. x <= a * high
  <2> DEFINE f == [d \in Dimension |-> Weights(r)[d] * high]
  <2>1. f \in [Dimension -> Int] /\ AddUp(f) = a * high
    BY <1>4
  <2>2. \A d \in Dimension : Gains(r)[d] <= f[d]
    BY <1>5
  <2> HIDE DEF f
  <2>3. QED
    BY <1>3, <1>6, <2>1, <2>2, AddUpGrows
<1>10. low <= Rounded(x, a) /\ Rounded(x, a) <= high
  BY <1>7, <1>8, <1>9, RoundedBetween
<1>11. QED
  BY <1>7, <1>10 DEF calculate_weighted_score, a, x

\* The caps on a blend loosen, and the blend grows, with what they are made from.
LEMMA GuardLoosens ==
  ASSUME NEW r, NEW r2, NEW m \in Int, NEW n \in Int, m <= n,
         NEW x \in Int, NEW y \in Int, x <= y,
         r2.workplace = 0 => r.workplace = 0, r2.skills = 0 => r.skills = 0,
         r2.experience = 150 => r.experience = 150
  PROVE  /\ Guarded(r, m, x) \in Int /\ Guarded(r2, n, y) \in Int
         /\ Guarded(r, m, x) <= Guarded(r2, n, y)
<1> DEFINE tight(k, b) == Smaller(b, Smaller(k + 100, 599))
           loose(k, b) == Smaller(b, Smaller(k + 150, 699))
<1>1. ASSUME NEW k \in Int, NEW b \in Int
      PROVE  /\ tight(k, b) \in Int /\ loose(k, b) \in Int
             /\ tight(k, b) <= loose(k, b) /\ loose(k, b) <= b
  BY DEF Smaller
<1>2. tight(m, x) <= tight(n, y) /\ loose(m, x) <= loose(n, y)
  BY DEF Smaller
<1> DEFINE severe(q) == q.workplace = 0 \/ (q.skills = 0 /\ q.experience = 150)
           some(q) == q.skills = 0 \/ q.experience = 150
<1>3. ASSUME NEW q, NEW k, NEW b
      PROVE  Guarded(q, k, b) = IF severe(q) THEN tight(k, b)
                                ELSE IF some(q) THEN loose(k, b) ELSE b
  BY DEF Guarded
<1>4. (severe(r2) => severe(r)) /\ (some(r2) => some(r))
  OBVIOUS
<1>5. /\ Guarded(r, m, x) = IF severe(r) THEN tight(m, x) ELSE IF some(r) THEN loose(m, x) ELSE x
      /\ Guarded(r2, n, y) = IF severe(r2) THEN tight(n, y) ELSE IF some(r2) THEN loose(n, y) ELSE y
  BY <1>3
<1>6. /\ tight(m, x) \in Int /\ loose(m, x) \in Int
      /\ tight(m, x) <= loose(m, x) /\ loose(m, x) <= x
      /\ tight(n, y) \in Int /\ loose(n, y) \in Int
      /\ tight(n, y) <= loose(n, y) /\ loose(n, y) <= y
  BY <1>1
<1> HIDE DEF tight, loose, severe, some
<1>7. QED
  BY <1>2, <1>4, <1>5, <1>6

-----------------------------------------------------------------------------
(* Matching                                                                *)

\* Of two candidates for one posting the one with more scores no lower, whatever
\* the similarity.
LEMMA ImprovedScores ==
  ASSUME NEW c, NEW p, IsCandidate(c), IsPosting(p), NEW b \in Improved(c, p)
  PROVE  /\ Score(b, p) >= Score(c, p)
         /\ \A semantic \in Int : Hybrid(b, p, semantic) >= Hybrid(c, p, semantic)
<1> DEFINE r == Results(c, p)
           r2 == Results(b, p)
           m == calculate_weighted_score(r)
           n == calculate_weighted_score(r2)
<1>1. /\ \A d \in Dimension : NoLower(r[d], r2[d])
      /\ r2.experience = 150 => r.experience = 150
  BY ResultsImprove
<1> HIDE DEF r, r2
<1>2. m \in Int /\ n \in Int /\ m <= n
  BY <1>1, ScoreGrows
<1>3. (r2.workplace = 0 => r.workplace = 0) /\ (r2.skills = 0 => r.skills = 0)
  BY MatchingAssumption, <1>1 DEF NoLower, Dimension
<1>4. Score(c, p) = m /\ Score(b, p) = n
  BY DEF Score, r, r2
<1> HIDE DEF m, n
<1>5. ASSUME NEW semantic \in Int PROVE Hybrid(b, p, semantic) >= Hybrid(c, p, semantic)
  <2>1. /\ 70 * m + 30 * semantic \in Int /\ 70 * n + 30 * semantic \in Int
        /\ 70 * m + 30 * semantic <= 70 * n + 30 * semantic /\ 100 \in Nat \ {0}
    BY <1>2
  <2> DEFINE x == Blend(m, semantic)
             y == Blend(n, semantic)
  <2>2. x \in Int /\ y \in Int /\ x <= y
    BY <2>1, RoundedMonotone DEF Blend
  <2> HIDE DEF x, y
  <2>3. /\ Guarded(r, m, x) \in Int /\ Guarded(r2, n, y) \in Int
        /\ Guarded(r, m, x) <= Guarded(r2, n, y)
    BY <1>1, <1>2, <1>3, <2>2, GuardLoosens
  <2>4. Hybrid(c, p, semantic) = Guarded(r, m, x) /\ Hybrid(b, p, semantic) = Guarded(r2, n, y)
    BY DEF Hybrid, r, r2, m, n, x, y
  <2>5. QED
    BY <2>3, <2>4
<1>6. QED
  BY <1>2, <1>4, <1>5

\* For every table of candidates and postings: calculate_weighted_score, rounding
\* included, stays between the worst and the best of the known dimensions.
THEOREM UnknownNeverCounts == MatchingInit => UnknownIsNeutral
<1> SUFFICES ASSUME MatchingInit, pairing # Unknown PROVE UnknownIsNeutral
  BY DEF UnknownIsNeutral
<1> DEFINE c == pairing.candidate
           p == pairing.posting
           r == Results(c, p)
           known == {r[d] : d \in Known(r)}
           score == calculate_weighted_score(r)
<1>1. Unknown \notin Int /\ IsCandidate(c) /\ IsPosting(p)
  BY MatchingAssumption DEF MatchingInit
<1> HIDE DEF c, p
<1>2. \A d \in Dimension : r[d] \in 0..Full \cup {Unknown}
  BY <1>1, ScoresTyped
<1> HIDE DEF r
<1>3. ASSUME known # {}
      PROVE  \E low, high \in known : low <= score /\ score <= high
  <2>1. \A d \in Known(r) : r[d] \in 0..1000 /\ r[d] \in known
    BY <1>2 DEF Known, Full
  <2>2. known \subseteq 0..1000 /\ Known(r) # {}
    BY <1>3, <2>1
  <2> HIDE DEF known
  <2>3. known \in SUBSET (0..1000) /\ known \in SUBSET Nat
    BY <2>2
  <2>4. PICK low \in known : \A y \in known : low <= y
    BY <1>3, <2>3, LeastNumber
  <2> DEFINE high == Largest(known)
  <2>5. high \in known /\ \A y \in known : y <= high
    BY <1>3, <2>3, LargestIs
  <2> HIDE DEF high
  <2>6. low \in Nat /\ high \in Nat
    BY <2>3, <2>4, <2>5
  <2>7. \A d \in Known(r) : low <= r[d] /\ r[d] <= high
    BY <2>1, <2>4, <2>5
  <2>8. low <= score /\ score <= high
    BY <1>2, <2>2, <2>6, <2>7, ScoreBetween
  <2>9. QED
    BY <2>4, <2>5, <2>8
<1>4. QED
  BY <1>3 DEF UnknownIsNeutral, c, p, r

\* For every table of candidates and postings: acquiring what is asked for lowers
\* neither the score nor the hybrid, through all roundings and caps.
THEOREM ImprovementsNeverHurt == MatchingInit => ImprovementNeverHurts
<1> SUFFICES ASSUME MatchingInit, pairing # Unknown PROVE ImprovementNeverHurts
  BY DEF ImprovementNeverHurts
<1> DEFINE c == pairing.candidate
           p == pairing.posting
<1>1. Unknown \notin Int /\ IsCandidate(c) /\ IsPosting(p)
  BY MatchingAssumption DEF MatchingInit
<1> HIDE DEF c, p
<1>2. ASSUME NEW b \in Improved(c, p)
      PROVE  /\ Score(b, p) >= Score(c, p)
             /\ \A semantic \in {0, 400, 800, Full} :
                  Hybrid(b, p, semantic) >= Hybrid(c, p, semantic)
  <2>1. \A semantic \in {0, 400, 800, Full} : semantic \in Int
    BY DEF Full
  <2>2. QED
    BY <1>1, <2>1, ImprovedScores
<1>3. QED
  BY <1>2 DEF ImprovementNeverHurts, c, p

-----------------------------------------------------------------------------
(* Deduplication scoring                                                   *)

LEMMA SimilarityTyped ==
  ASSUME NEW A, NEW B, IsFiniteSet(A), IsFiniteSet(B)
  PROVE  LET words == jaccard_similarity(A, B) IN
         /\ words.shared \in Nat /\ words.of \in Nat \ {0} /\ words.shared <= words.of
<1>1. CASE A \cup B = {}
  BY <1>1 DEF jaccard_similarity
<1>2. CASE A \cup B # {}
  <2> DEFINE k == Cardinality(A \cap B)
             n == Cardinality(A \cup B)
  <2>1. IsFiniteSet(A \cup B) /\ A \cap B \subseteq A \cup B
    BY FS_Union
  <2>2. k <= n /\ IsFiniteSet(A \cap B)
    BY <2>1, FS_Subset
  <2>3. n \in Nat \ {0} /\ k \in Nat
    BY <1>2, <2>1, <2>2, FS_CardinalityType, FS_EmptySet
  <2>4. jaccard_similarity(A, B) = [shared |-> k, of |-> n]
    BY <1>2 DEF jaccard_similarity
  <2> HIDE DEF k, n
  <2>5. QED
    BY <2>2, <2>3, <2>4
<1>3. QED
  BY <1>1, <1>2

\* Titles of different seniority agree to at most 600 thousandths.
LEMMA TitlesTyped ==
  ASSUME NEW a \in DOMAIN TitleWords, NEW b \in DOMAIN TitleWords
  PROVE  /\ calculate_title_similarity(a, b) \in 0..1000
         /\ Distinct(a, b) => calculate_title_similarity(a, b) <= 600
<1> DEFINE words == jaccard_similarity(TitleWords[a], TitleWords[b])
           m == words.shared
           of == words.of
           n == Ratio[<<a, b>>]
           both == Combined(a, b)
<1>1. m \in Nat /\ of \in Nat \ {0} /\ m <= of /\ n \in 0..1000
  BY ScoringAssumption, SimilarityTyped
<1>2. both = Rounded(1000 * m + of * n, 2 * of)
  BY DEF Combined, Rounding, Rounded
<1> HIDE DEF m, n, of, words, both
<1>3. both \in 0..1000
  <2> DEFINE x == of * n
  <2>1. of * 0 \in Int /\ x \in Int /\ of * 0 <= x /\ x <= of * 1000
    <3>1. of \in Nat \ {0} /\ n \in Int /\ 0 <= n /\ n <= 1000
      BY <1>1
    <3>2. QED
      BY <3>1, Times
  <2> HIDE DEF x
  <2>2. /\ 2 * of \in Nat \ {0} /\ 1000 * m + x \in Int
        /\ (2 * of) * 0 <= 1000 * m + x /\ 1000 * m + x <= (2 * of) * 1000
    BY <1>1, <2>1
  <2>3. 0 <= Rounded(1000 * m + x, 2 * of) /\ Rounded(1000 * m + x, 2 * of) <= 1000
    BY <2>2, RoundedBetween
  <2>4. Rounded(1000 * m + x, 2 * of) \in Int
    BY <2>2, RoundedMonotone
  <2>5. QED
    BY <1>2, <2>3, <2>4 DEF x
<1>4. calculate_title_similarity(a, b) =
        IF a = b THEN 1000 ELSE IF Contradict(a, b) THEN 100
        ELSE IF Distinct(a, b) THEN Penalised(both) ELSE both
  BY DEF calculate_title_similarity, both
<1>5. Penalised(both) \in 0..600
  BY <1>3 DEF Penalised
<1>6. Distinct(a, b) => a # b
  BY DEF Distinct
<1>7. QED
  BY <1>3, <1>4, <1>5, <1>6

\* What the weights and the threshold leave to each component.
LEMMA HighScoreNeeds ==
  ASSUME NEW fields, fields.title \in 0..1000, fields.location \in {0, 850, 900, 1000},
         fields.workplace \in {0, 500, 1000}, fields.employment \in {0, 500, 1000},
         fields.description \in 0..1000, Composite(fields) >= 900
  PROVE  /\ fields.title >= 776 /\ fields.location # 0 /\ fields.workplace # 0
         /\ fields.employment = 0 => fields.title >= 998
<1> DEFINE t == fields.title
           l == fields.location
           w == fields.workplace
           e == fields.employment
           d == fields.description
           total == 45 * t + 20 * l + 15 * w + 10 * e + 10 * d
<1>1. /\ t \in 0..1000 /\ l \in {0, 850, 900, 1000} /\ w \in {0, 500, 1000}
      /\ e \in {0, 500, 1000} /\ d \in 0..1000
  OBVIOUS
<1>2. Composite(fields) = Rounded(total, 100)
  BY DEF Composite, DEFAULT_WEIGHTS, Rounding, Rounded
<1> HIDE DEF t, l, w, e, d
<1>3. total \in Int
  BY <1>1
<1>4. total > 89949
  <2> SUFFICES ASSUME total <= 89949 PROVE FALSE
    BY <1>3
  <2> DEFINE most == 89949
             cent == 100
  <2>1. total \in Int /\ most \in Int /\ total <= most /\ cent \in Nat \ {0}
    BY <1>3
  <2> HIDE DEF total, most, cent
  <2>2. Rounded(total, cent) <= Rounded(most, cent) /\ Rounded(total, cent) \in Int
    BY <2>1, RoundedMonotone
  <2>3. Rounded(most, cent) = 899
    BY DEF Rounded, most, cent
  <2> USE DEF cent
  <2>4. QED
    BY <1>2, <2>2, <2>3
<1>5. /\ 45 * t <= 45000 /\ 20 * l <= 20000 /\ 15 * w <= 15000 /\ 10 * e <= 10000
      /\ 10 * d <= 10000
  BY <1>1
<1>6. t >= 776
  BY <1>1, <1>4, <1>5
<1>7. l # 0 /\ w # 0
  BY <1>1, <1>4, <1>5
<1>8. e = 0 => t >= 998
  BY <1>1, <1>4, <1>5
<1>9. QED
  BY <1>6, <1>7, <1>8 DEF t, l, w, e

\* For every table of postings, titles and ratios: what evaluate_job_pair links on
\* its content is of one company, agrees in title and seniority, and contradicts
\* itself neither in place nor in workplace.
THEOREM LinksAreContent == DedupInit => LinksRestOnContent
<1> SUFFICES ASSUME DedupInit, comparison # Missing,
                    evaluate_job_pair(comparison.a, comparison.b) = "HIGH_CONFIDENCE"
             PROVE  LET a == comparison.a
                        b == comparison.b
                        fields == Fields(a, b)
                    IN /\ a.company = b.company
                       /\ fields.title >= 776 /\ ~Distinct(a.title, b.title)
                       /\ fields.location # 0 /\ fields.workplace # 0
                       /\ fields.employment = 0 => fields.title >= 998
  BY DEF LinksRestOnContent
<1> DEFINE a == comparison.a
           b == comparison.b
           fields == Fields(a, b)
<1>1. /\ a.title \in DOMAIN TitleWords /\ b.title \in DOMAIN TitleWords
      /\ IsFiniteSet(a.text) /\ IsFiniteSet(b.text)
  BY ScoringAssumption DEF DedupInit
<1>2. a.company = b.company /\ Composite(fields) >= 900
  BY DEF evaluate_job_pair, Compare, HighThreshold
<1> HIDE DEF a, b
<1>3. /\ fields.title = calculate_title_similarity(a.title, b.title)
      /\ fields.location = calculate_location_similarity(a.place, b.place)
      /\ fields.workplace = calculate_workplace_similarity(a.workplace, b.workplace)
      /\ fields.employment = calculate_employment_similarity(a.employment, b.employment)
      /\ fields.description = calculate_description_similarity(a.text, b.text, fields.title)
  BY DEF Fields
<1>4. /\ fields.title \in 0..1000
      /\ Distinct(a.title, b.title) => fields.title <= 600
  BY <1>1, <1>3, TitlesTyped
<1>5. fields.location \in {0, 850, 900, 1000}
  BY <1>3 DEF calculate_location_similarity
<1>6. fields.workplace \in {0, 500, 1000} /\ fields.employment \in {0, 500, 1000}
  BY <1>3 DEF calculate_workplace_similarity, calculate_employment_similarity, Compatible
<1>7. fields.description \in 0..1000
  <2> DEFINE words == jaccard_similarity(a.text, b.text)
             m == words.shared
             of == words.of
  <2>1. m \in Nat /\ of \in Nat \ {0} /\ m <= of
    BY <1>1, SimilarityTyped
  <2>2. Rounding(1000 * m, of) = Rounded(1000 * m, of)
    BY DEF Rounding, Rounded
  <2>3. fields.description \in {800, 400, Rounding(1000 * m, of)}
    BY <1>3 DEF calculate_description_similarity
  <2> HIDE DEF words, m, of
  <2>4. Rounded(1000 * m, of) \in 0..1000
    BY <2>1, Share
  <2>5. QED
    BY <2>2, <2>3, <2>4
<1> HIDE DEF fields
<1>8. /\ fields.title >= 776 /\ fields.location # 0 /\ fields.workplace # 0
      /\ fields.employment = 0 => fields.title >= 998
  BY <1>2, <1>4, <1>5, <1>6, <1>7, HighScoreNeeds
<1>9. ~Distinct(a.title, b.title)
  BY <1>4, <1>8
<1>10. QED
  BY <1>2, <1>8, <1>9 DEF a, b, fields

-----------------------------------------------------------------------------
(* The listing                                                             *)

\* An injection into as many places as there are elements leaves no place empty.
LEMMA FilledPlaces ==
  ASSUME NEW S, IsFiniteSet(S), NEW place \in [S -> 0..(Cardinality(S) - 1)],
         \A x, y \in S : place[x] = place[y] => x = y,
         NEW a \in Nat, NEW b \in Int, a <= b + 1, b < Cardinality(S)
  PROVE  Cardinality({x \in S : place[x] \in a..b}) = b - a + 1
<1> DEFINE n == Cardinality(S)
           T == {x \in S : place[x] \in a..b}
           f == [x \in T |-> place[x]]
<1>1. n \in Nat
  BY FS_CardinalityType
<1>2. IsFiniteSet(0..(n - 1)) /\ Cardinality(0..(n - 1)) = n
  <2>1. n - 1 \in Int /\ (0 > n - 1 <=> n = 0) /\ (n - 1) - 0 + 1 = n
    BY <1>1
  <2> HIDE DEF n
  <2>2. QED
    BY <2>1, FS_Interval
<1>3. place \in Injection(S, 0..(n - 1))
  BY Fun_IsInj
<1>4. place \in Surjection(S, 0..(n - 1))
  BY <1>2, <1>3, FS_Injection
<1>5. \A i \in 0..(n - 1) : \E x \in S : place[x] = i
  BY <1>4, Fun_SurjectionProperties
<1>6. f \in [T -> a..b] /\ \A x, y \in T : f[x] = f[y] => x = y
  OBVIOUS
<1>7. \A i \in a..b : \E x \in T : f[x] = i
  <2> SUFFICES ASSUME NEW i \in a..b PROVE \E x \in T : f[x] = i
    OBVIOUS
  <2>1. i \in 0..(n - 1)
    BY <1>1
  <2>2. PICK x \in S : place[x] = i
    BY <1>5, <2>1
  <2>3. QED
    BY <2>2
<1> HIDE DEF f
<1>8. f \in Bijection(T, a..b)
  BY <1>6, <1>7, Fun_IsBij
<1>9. ExistsBijection(T, a..b) /\ IsFiniteSet(T)
  BY <1>8, FS_Subset DEF ExistsBijection
<1>10. Cardinality(a..b) = Cardinality(T)
  BY <1>9, FS_Bijection
<1>11. Cardinality(a..b) = b - a + 1
  BY FS_Interval
<1>12. QED
  BY <1>10, <1>11

LEMMA AboveIsOrder ==
  ASSUME NEW q, IsListing(q), NEW x \in q.jobs, NEW y \in q.jobs, NEW z \in q.jobs
  PROVE  /\ ~(Above(q, x, y) /\ Above(q, y, x))
         /\ Above(q, x, y) /\ Above(q, y, z) => Above(q, x, z)
         /\ ~Above(q, x, y) /\ ~Above(q, y, z) => ~Above(q, x, z)
<1>1. /\ q.score[x] \in Int \cup {NoScore}
      /\ q.score[y] \in Int \cup {NoScore}
      /\ q.score[z] \in Int \cup {NoScore}
  BY DEF IsListing
<1>2. NoScore \notin Int
  BY ListingAssumption
<1> DEFINE u == q.score[x]
           v == q.score[y]
           w == q.score[z]
<1>3. /\ Above(q, x, y) <=> (u # NoScore /\ (v = NoScore \/ u > v))
      /\ Above(q, y, x) <=> (v # NoScore /\ (u = NoScore \/ v > u))
      /\ Above(q, y, z) <=> (v # NoScore /\ (w = NoScore \/ v > w))
      /\ Above(q, x, z) <=> (u # NoScore /\ (w = NoScore \/ u > w))
  BY DEF Above
<1>4. /\ u \in Int \cup {NoScore} /\ v \in Int \cup {NoScore} /\ w \in Int \cup {NoScore}
  BY <1>1
<1> HIDE DEF u, v, w
<1>5. QED
  BY <1>2, <1>3, <1>4

LEMMA OrdersAre ==
  ASSUME NEW q, IsListing(q), NEW order \in Orders(q)
  PROVE  /\ Cardinality(q.jobs) \in Nat
         /\ order \in [q.jobs -> 0..(Cardinality(q.jobs) - 1)]
         /\ \A x, y \in q.jobs : /\ order[x] = order[y] => x = y
                                 /\ q.key[x] < q.key[y] => order[x] < order[y]
BY FS_CardinalityType DEF Orders, IsListing

\* The sort of best_match is a strict total order.
LEMMA PrecedesIsOrder ==
  ASSUME NEW q, IsListing(q), NEW order \in Orders(q),
         NEW x \in q.jobs, NEW y \in q.jobs, NEW z \in q.jobs
  PROVE  /\ ~Precedes(q, order, x, x)
         /\ x # y => Precedes(q, order, x, y) \/ Precedes(q, order, y, x)
         /\ Precedes(q, order, x, y) /\ Precedes(q, order, y, z) => Precedes(q, order, x, z)
<1>1. /\ order[x] \in Int /\ order[y] \in Int /\ order[z] \in Int
      /\ order[x] = order[y] => x = y
  BY OrdersAre
<1>2. /\ ~Above(q, x, x)
      /\ ~(Above(q, x, y) /\ Above(q, y, x))
      /\ Above(q, x, y) /\ Above(q, y, z) => Above(q, x, z)
      /\ ~Above(q, z, y) /\ ~Above(q, y, x) => ~Above(q, z, x)
      /\ ~Above(q, x, z) /\ ~Above(q, z, y) => ~Above(q, x, y)
      /\ ~Above(q, y, x) /\ ~Above(q, x, z) => ~Above(q, y, z)
  BY AboveIsOrder
<1>3. QED
  BY <1>1, <1>2 DEF Precedes

\* Counting what precedes gives every card a place of its own.
LEMMA RanksArePlaces ==
  ASSUME NEW q, IsListing(q), NEW order \in Orders(q), NEW cards \in SUBSET q.jobs
  PROVE  /\ IsFiniteSet(cards) /\ Cardinality(cards) \in Nat
         /\ \A x \in cards : Rank(q, order, cards, x) \in 0..(Cardinality(cards) - 1)
         /\ \A x, y \in cards :
              Rank(q, order, cards, x) = Rank(q, order, cards, y) => x = y
<1> DEFINE r == [x \in cards |-> Rank(q, order, cards, x)]
           Below == [x \in cards |-> {other \in cards : Precedes(q, order, other, x)}]
<1>1. IsFiniteSet(cards)
  BY FS_Subset DEF IsListing
<1>2. Cardinality(cards) \in Nat
  BY <1>1, FS_CardinalityType
<1>3. \A x \in cards : /\ r[x] = Cardinality(Below[x])
                      /\ Below[x] \in SUBSET cards
                      /\ \A y \in cards : y \in Below[x] <=> Precedes(q, order, y, x)
  BY DEF Rank
<1>4. \A x \in cards : r[x] = Rank(q, order, cards, x)
  OBVIOUS
<1> HIDE DEF r, Below
<1>5. \A x \in cards : IsFiniteSet(Below[x]) /\ r[x] \in Nat
  BY <1>1, <1>3, FS_Subset, FS_CardinalityType
<1>6. ASSUME NEW x \in cards PROVE r[x] < Cardinality(cards)
  <2>1. x \notin Below[x]
    BY <1>3, PrecedesIsOrder
  <2>2. Below[x] # cards
    BY <2>1
  <2>3. Cardinality(Below[x]) <= Cardinality(cards) /\ Cardinality(Below[x]) # Cardinality(cards)
    BY <1>1, <1>3, <2>2, FS_Subset
  <2>4. QED
    BY <1>2, <1>3, <1>5, <2>3
<1>7. ASSUME NEW x \in cards, NEW y \in cards, Precedes(q, order, x, y)
      PROVE  r[x] < r[y]
  <2>1. Below[x] \in SUBSET Below[y]
    <3> SUFFICES ASSUME NEW z \in Below[x] PROVE z \in Below[y]
      OBVIOUS
    <3>1. z \in cards /\ Precedes(q, order, z, x)
      BY <1>3
    <3>2. Precedes(q, order, z, y)
      BY <1>7, <3>1, PrecedesIsOrder
    <3>3. QED
      BY <1>3, <3>1, <3>2
  <2>2. x \in Below[y] /\ x \notin Below[x]
    BY <1>3, <1>7, PrecedesIsOrder
  <2>3. Cardinality(Below[x]) <= Cardinality(Below[y]) /\ Cardinality(Below[x]) # Cardinality(Below[y])
    BY <1>5, <2>1, <2>2, FS_Subset
  <2>4. QED
    BY <1>3, <1>5, <2>3
<1>8. ASSUME NEW x \in cards, NEW y \in cards, r[x] = r[y] PROVE x = y
  <2>1. x # y => r[x] < r[y] \/ r[y] < r[x]
    BY <1>7, PrecedesIsOrder
  <2>2. r[x] \in Nat /\ r[y] \in Nat
    BY <1>5
  <2>3. QED
    BY <1>8, <2>1, <2>2
<1>9. \A x \in cards : r[x] \in 0..(Cardinality(cards) - 1)
  BY <1>2, <1>5, <1>6
<1>10. QED
  BY <1>1, <1>2, <1>4, <1>8, <1>9

\* The place of a job in the whole listing, as one statement orders it.
Place(q, order, job) ==
  IF q.sort = "best_match" THEN Rank(q, order, Wanted(q), job) ELSE order[job]

LEMMA WantedAre ==
  ASSUME NEW q, IsListing(q)
  PROVE  /\ Wanted(q) \subseteq q.jobs /\ IsFiniteSet(Wanted(q)) /\ Cardinality(Wanted(q)) \in Nat
         /\ q.minimum = NoScore => Wanted(q) = q.jobs
BY FS_Subset, FS_CardinalityType DEF IsListing, Wanted, Good

\* A page holds what stands at its places of the whole listing.
LEMMA ItemsStandInPlaces ==
  ASSUME NEW q, IsListing(q), Whole(q), NEW order \in Orders(q), NEW page \in Nat \ {0}
  PROVE  /\ Items(q, order, page) = {job \in Wanted(q) : Place(q, order, job) \in Places(q, page)}
         /\ Total(q, order, page) = Cardinality(Wanted(q))
<1>1. CASE q.sort = "best_match"
  <2>1. \A job \in q.jobs : order[job] \in 0..(Window - 1)
    BY <1>1, OrdersAre, ListingAssumption DEF Whole
  <2>2. Kept(q, order, page) = Wanted(q)
    BY <1>1, <2>1 DEF Kept, Rows, Wanted
  <2>3. QED
    BY <1>1, <2>2 DEF Items, Total, Place
<1>2. CASE q.sort # "best_match"
  <2>1. q.minimum = NoScore /\ Wanted(q) = q.jobs
    BY <1>2, WantedAre DEF Whole
  <2>2. Kept(q, order, page) = {job \in q.jobs : order[job] \in Places(q, page)}
    BY <1>2, <2>1 DEF Kept, Rows, Good
  <2>3. QED
    BY <1>2, <2>1, <2>2 DEF Items, Total, Place
<1>3. QED
  BY <1>1, <1>2

LEMMA PlacesAreTaken ==
  ASSUME NEW q, IsListing(q), Whole(q), NEW order \in Orders(q)
  PROVE  /\ \A job \in Wanted(q) : Place(q, order, job) \in 0..(Cardinality(Wanted(q)) - 1)
         /\ \A x, y \in Wanted(q) : Place(q, order, x) = Place(q, order, y) => x = y
<1>1. CASE q.sort = "best_match"
  <2>1. Wanted(q) \in SUBSET q.jobs
    BY WantedAre
  <2>2. \A job : Place(q, order, job) = Rank(q, order, Wanted(q), job)
    BY <1>1 DEF Place
  <2>3. QED
    BY <2>1, <2>2, RanksArePlaces
<1>2. CASE q.sort # "best_match"
  <2>1. Wanted(q) = q.jobs
    BY <1>2, WantedAre DEF Whole
  <2>2. \A job : Place(q, order, job) = order[job]
    BY <1>2 DEF Place
  <2>3. QED
    BY <2>1, <2>2, OrdersAre
<1>3. QED
  BY <1>1, <1>2

\* No statement moves a job that ties with no other.
LEMMA UntiedStay ==
  ASSUME NEW q, IsListing(q), Whole(q), NEW first \in Orders(q), NEW order \in Orders(q),
         NEW job \in Wanted(q), \A other \in Wanted(q) \ {job} : ~Tied(q, job, other)
  PROVE  Place(q, first, job) = Place(q, order, job)
<1> DEFINE Fixed == {other \in Wanted(q) \ {job} :
                       \/ q.sort = "best_match" /\ Above(q, other, job)
                       \/ /\ q.sort = "best_match" => ~Above(q, job, other)
                          /\ q.key[other] < q.key[job]}
<1>1. Wanted(q) \subseteq q.jobs
  BY WantedAre
<1>2. \A x \in Wanted(q) : q.key[x] \in Int
  BY <1>1 DEF IsListing
<1>3. ASSUME NEW o \in Orders(q) PROVE Place(q, o, job) = Cardinality(Fixed)
  <2>1. \A x, y \in Wanted(q) :
          /\ o[x] \in Int
          /\ q.key[x] < q.key[y] => o[x] < o[y]
    BY <1>1, OrdersAre
  <2>2. CASE q.sort = "best_match"
    <3>1. \A other \in Wanted(q) : Precedes(q, o, other, job) <=> other \in Fixed
      <4> SUFFICES ASSUME NEW other \in Wanted(q)
                   PROVE  Precedes(q, o, other, job) <=> other \in Fixed
        OBVIOUS
      <4>1. CASE other = job
        <5>1. ~Precedes(q, o, job, job)
          BY <1>1, PrecedesIsOrder
        <5>2. QED
          BY <4>1, <5>1
      <4>2. CASE other # job
        <5>1. q.key[other] # q.key[job] \/ Above(q, job, other) \/ Above(q, other, job)
          BY <2>2, <4>2 DEF Tied
        <5>2. /\ q.key[other] \in Int /\ q.key[job] \in Int
              /\ o[other] \in Int /\ o[job] \in Int
              /\ q.key[other] < q.key[job] => o[other] < o[job]
              /\ q.key[job] < q.key[other] => o[job] < o[other]
          BY <1>2, <2>1
        <5>3. ~(Above(q, other, job) /\ Above(q, job, other))
          BY <1>1, AboveIsOrder
        <5>4. other \in Fixed <=>
                Above(q, other, job) \/ (~Above(q, job, other) /\ q.key[other] < q.key[job])
          BY <2>2, <4>2
        <5> HIDE DEF Fixed
        <5>5. QED
          BY <5>1, <5>2, <5>3, <5>4 DEF Precedes
      <4>3. QED
        BY <4>1, <4>2
    <3>2. {other \in Wanted(q) : Precedes(q, o, other, job)} = Fixed
      BY <3>1
    <3>3. QED
      BY <2>2, <3>2 DEF Place, Rank
  <2>3. CASE q.sort # "best_match"
    <3>1. Wanted(q) = q.jobs
      BY <2>3, WantedAre DEF Whole
    <3>2. /\ IsFiniteSet(q.jobs) /\ Cardinality(q.jobs) \in Nat
          /\ o \in [q.jobs -> 0..(Cardinality(q.jobs) - 1)]
          /\ o[job] \in 0..(Cardinality(q.jobs) - 1)
          /\ \A x, y \in q.jobs : o[x] = o[y] => x = y
      BY <3>1, OrdersAre DEF IsListing
    <3>3. Cardinality({x \in q.jobs : o[x] \in 0..(o[job] - 1)}) = (o[job] - 1) - 0 + 1
      BY <3>2, FilledPlaces
    <3>4. \A other \in q.jobs : o[other] \in 0..(o[job] - 1) <=> other \in Fixed
      <4> SUFFICES ASSUME NEW other \in q.jobs
                   PROVE  o[other] \in 0..(o[job] - 1) <=> other \in Fixed
        OBVIOUS
      <4>1. o[other] \in Nat /\ o[job] \in Nat
        BY <3>2
      <4>2. other # job => q.key[other] # q.key[job]
        BY <2>3, <3>1 DEF Tied
      <4>3. q.key[other] \in Int /\ q.key[job] \in Int
            /\ (q.key[other] < q.key[job] => o[other] < o[job])
            /\ (q.key[job] < q.key[other] => o[job] < o[other])
        BY <1>2, <2>1, <3>1
      <4>4. other \in Fixed <=> other # job /\ q.key[other] < q.key[job]
        BY <2>3, <3>1
      <4> HIDE DEF Fixed
      <4>5. QED
        BY <4>1, <4>2, <4>3, <4>4
    <3>5. {x \in q.jobs : o[x] \in 0..(o[job] - 1)} = Fixed
      BY <3>1, <3>4
    <3> HIDE DEF Fixed
    <3>6. QED
      BY <2>3, <3>2, <3>3, <3>5 DEF Place
  <2>4. QED
    BY <2>2, <2>3
<1>4. QED
  BY <1>3

\* Pages cut the places at multiples of their size.
LEMMA PageOfPlace ==
  ASSUME NEW size \in Nat \ {0}, NEW place \in Nat, NEW page \in Int
  PROVE  place \in ((page - 1) * size)..(page * size - 1) <=> page = place \div size + 1
<1> DEFINE p == place \div size
           lower == (page - 1) * size
<1>1. p \in Int /\ size * p <= place /\ place < size * p + size
  BY Quotient
<1>2. lower \in Int /\ page * size = lower + size /\ lower = size * (page - 1)
  OBVIOUS
<1>3. size * p \in Int /\ size * (page - 1) \in Int
  BY <1>1
<1>4. ASSUME lower <= place, place < lower + size PROVE page - 1 = p
  BY <1>2, <1>4, QuotientIs
<1>5. ASSUME page - 1 = p PROVE lower <= place /\ place < lower + size
  BY <1>1, <1>2, <1>5
<1> HIDE DEF p, lower
<1>6. place \in lower..(page * size - 1) <=> (lower <= place /\ place < lower + size)
  BY <1>2
<1>7. QED
  BY <1>1, <1>4, <1>5, <1>6 DEF p, lower

LEMMA PagesReach ==
  ASSUME NEW n \in Nat, NEW size \in Nat \ {0}, NEW page \in Nat \ {0}
  PROVE  page <= Ceiling(n, size) <=> (page - 1) * size < n
<1> DEFINE c == Ceiling(n, size)
<1>1. c \in Int /\ size * c <= n + size - 1 /\ n + size - 1 < size * c + size
  BY Quotient DEF Ceiling
<1>2. (page - 1) * size = size * (page - 1) /\ size * (page - 1) \in Int /\ size * c \in Int
  BY <1>1
<1>3. ASSUME page <= c PROVE (page - 1) * size < n
  <2>1. size * (page - 1) + size <= size * c
    BY <1>1, <1>3, Product
  <2>2. QED
    BY <1>1, <1>2, <2>1
<1>4. ASSUME ~(page <= c) PROVE ~((page - 1) * size < n)
  <2>1. size * c <= size * (page - 1)
    BY <1>1, <1>4, Times
  <2>2. QED
    BY <1>1, <1>2, <2>1
<1>5. QED
  BY <1>3, <1>4

\* For every listing, column, table of scores and size of the pages: what the answers to
\* list_jobs hold together, although every statement may order ties anew.
THEOREM PagesAddUp == ListingInit => PagesPartition
<1> DEFINE q == query
           n == Cardinality(Wanted(q))
<1> SUFFICES ASSUME ListingInit, q # NoQuery, Whole(q), NEW first \in Orders(q)
             PROVE  LET pages == 1..TotalPages(q, first, 1)
                    IN /\ Total(q, first, 1) = n
                       /\ \A order \in Orders(q), page \in pages :
                            /\ Items(q, order, page) \subseteq Wanted(q)
                            /\ Cardinality(Items(q, order, page)) =
                                 IF page * q.size <= n THEN q.size ELSE n - (page - 1) * q.size
                       /\ \A job \in Wanted(q) :
                            (\A other \in Wanted(q) \ {job} : ~Tied(q, job, other)) =>
                              \E page \in pages : \A order \in Orders(q), other \in pages :
                                job \in Items(q, order, other) <=> other = page
  BY Zenon DEF PagesPartition
<1>1. IsListing(q)
  BY ListingAssumption DEF ListingInit
<1> HIDE DEF q
<1>2. q.size \in Nat \ {0} /\ n \in Nat /\ IsFiniteSet(Wanted(q))
  BY <1>1, WantedAre DEF IsListing
<1>3. Total(q, first, 1) = n
  BY <1>1, ItemsStandInPlaces
<1>4. TotalPages(q, first, 1) = Ceiling(n, q.size)
  BY <1>3 DEF TotalPages
<1> DEFINE pages == 1..Ceiling(n, q.size)
<1>5. Ceiling(n, q.size) \in Int
  BY <1>2, Quotient DEF Ceiling
<1>6. \A page \in pages : page \in Nat \ {0} /\ (page - 1) * q.size < n
  BY <1>2, <1>5, PagesReach
<1>7. ASSUME NEW order \in Orders(q), NEW page \in pages
      PROVE  Items(q, order, page) = {job \in Wanted(q) : Place(q, order, job) \in Places(q, page)}
  BY <1>1, <1>6, ItemsStandInPlaces
<1>8. ASSUME NEW order \in Orders(q), NEW page \in pages
      PROVE  /\ Items(q, order, page) \subseteq Wanted(q)
             /\ Cardinality(Items(q, order, page)) =
                  IF page * q.size <= n THEN q.size ELSE n - (page - 1) * q.size
  <2> DEFINE place == [job \in Wanted(q) |-> Place(q, order, job)]
             a == (page - 1) * q.size
             b == IF page * q.size <= n THEN page * q.size - 1 ELSE n - 1
  <2>1. /\ place \in [Wanted(q) -> 0..(n - 1)]
        /\ \A x, y \in Wanted(q) : place[x] = place[y] => x = y
    BY <1>1, PlacesAreTaken
  <2>2. page \in Nat \ {0} /\ a < n
    BY <1>6
  <2>3. a \in Nat /\ page * q.size = a + q.size
    BY <1>2, <2>2
  <2>4. b \in Int /\ a <= b + 1 /\ b < n
    BY <1>2, <2>2, <2>3
  <2>5. b - a + 1 = IF page * q.size <= n THEN q.size ELSE n - (page - 1) * q.size
    BY <1>2, <2>2, <2>3
  <2>6. \A job \in Wanted(q) : place[job] \in a..b <=> Place(q, order, job) \in Places(q, page)
    <3> SUFFICES ASSUME NEW job \in Wanted(q)
                 PROVE  place[job] \in a..b <=> Place(q, order, job) \in Places(q, page)
      OBVIOUS
    <3>1. place[job] = Place(q, order, job) /\ place[job] \in 0..(n - 1)
      BY <2>1
    <3> DEFINE m == page * q.size
    <3>2. Places(q, page) = a..(m - 1)
      BY DEF Places
    <3>3. m = a + q.size /\ b = IF m <= n THEN m - 1 ELSE n - 1
      BY <2>3
    <3> HIDE DEF place, a, b, m
    <3>4. QED
      BY <1>2, <2>2, <2>3, <3>1, <3>2, <3>3
  <2>7. Items(q, order, page) = {job \in Wanted(q) : place[job] \in a..b}
    BY <1>7, <2>6
  <2> HIDE DEF place, a, b
  <2>8. Cardinality({job \in Wanted(q) : place[job] \in a..b}) = b - a + 1
    BY <1>2, <2>1, <2>3, <2>4, FilledPlaces
  <2>9. QED
    BY <2>5, <2>7, <2>8
<1>9. ASSUME NEW job \in Wanted(q), \A other \in Wanted(q) \ {job} : ~Tied(q, job, other)
      PROVE  \E page \in pages : \A order \in Orders(q), other \in pages :
               job \in Items(q, order, other) <=> other = page
  <2> DEFINE place == Place(q, first, job)
             page == place \div q.size + 1
  <2>1. place \in 0..(n - 1)
    BY <1>1, PlacesAreTaken
  <2>2. page \in Nat \ {0} /\ place \in ((page - 1) * q.size)..(page * q.size - 1)
    <3>1. place \in Nat /\ q.size \in Nat \ {0}
      BY <1>2, <2>1
    <3> HIDE DEF place
    <3>2. page \in Nat \ {0}
      BY <3>1
    <3>3. QED
      BY <3>1, <3>2, PageOfPlace
  <2>3. page \in pages
    <3>1. (page - 1) * q.size < n
      <4> HIDE DEF page, place
      <4>1. (page - 1) * q.size \in Int
        BY <1>2, <2>2
      <4>2. QED
        BY <1>2, <2>1, <2>2, <4>1
    <3>2. page <= Ceiling(n, q.size)
      BY <1>2, <2>2, <3>1, PagesReach
    <3>3. QED
      BY <1>5, <2>2, <3>2
  <2>4. ASSUME NEW order \in Orders(q), NEW other \in pages
        PROVE  job \in Items(q, order, other) <=> other = page
    <3>1. Place(q, order, job) = place
      BY <1>1, <1>9, UntiedStay
    <3>2. job \in Items(q, order, other) <=> place \in Places(q, other)
      BY <1>7, <3>1
    <3>3. place \in Places(q, other) <=> other = page
      <4>1. other \in Int /\ place \in Nat
        BY <1>2, <1>6, <2>1
      <4> HIDE DEF place
      <4>2. QED
        BY <1>2, <4>1, PageOfPlace DEF Places
    <3>4. QED
      BY <3>2, <3>3
  <2>5. QED
    BY <2>3, <2>4
<1>10. QED
  BY <1>3, <1>4, <1>8, <1>9

=============================================================================

------------------------------ MODULE Matching ------------------------------
(***************************************************************************)
(* The deterministic matching engine and the hybrid score made from it, as *)
(* a function of a candidate's and a posting's features.                   *)
(*                                                                         *)
(* Scores are integers in tenths of a point, the precision the code rounds *)
(* to; ties of a rounding go up.  Titles are sequences of words after      *)
(* normalize_title, and contain each other word by word; places are equal  *)
(* or not.  A dimension's status follows from its score where the hybrid   *)
(* matcher asks for it, so only the score is kept.                         *)
(***************************************************************************)
EXTENDS Integers, Sequences, FiniteSets

CONSTANTS
  Unknown,   \* an absent feature, and the score of a dimension without one
  Pairings   \* the candidates and postings compared: [candidate, posting]

VARIABLE pairing  \* the candidate and the posting being matched

Words(t) == {t[i] : i \in DOMAIN t}

EDUCATION_HIERARCHY ==
  [none |-> 0, school |-> 1, associate |-> 2, bachelor |-> 3, mba |-> 3, master |-> 4, phd |-> 5]

\* What the tables promise of a candidate.
IsCandidate(c) ==
  /\ c = [skills |-> c.skills, years |-> c.years, roles |-> c.roles, places |-> c.places,
          relocates |-> c.relocates, workplaces |-> c.workplaces, employments |-> c.employments,
          minSalary |-> c.minSalary, maxSalary |-> c.maxSalary, currency |-> c.currency,
          degrees |-> c.degrees]
  /\ IsFiniteSet(c.skills)
  /\ c.years \in Nat \cup {Unknown}
  /\ \A role \in c.roles : role \in Seq(Words(role))
  /\ c.degrees \subseteq DOMAIN EDUCATION_HIERARCHY

\* And of a posting.
IsPosting(p) ==
  /\ IsFiniteSet(p.required) /\ IsFiniteSet(p.preferred)
  /\ p.minYears \in Nat \cup {Unknown} /\ p.maxYears \in Nat \cup {Unknown}
  /\ p.title # Unknown => p.title \in Seq(Words(p.title))
  /\ p.degree # Unknown => p.degree \in DOMAIN EDUCATION_HIERARCHY

ASSUME MatchingAssumption ==
  /\ Unknown \notin Int
  /\ \A x \in Pairings \ {Unknown} : IsCandidate(x.candidate) /\ IsPosting(x.posting)

Dimension == {"skills", "experience", "title", "location", "workplace",
              "employment_type", "salary", "education"}

DEFAULT_MATCH_WEIGHTS ==
  [skills |-> 35, experience |-> 20, title |-> 15, location |-> 10, workplace |-> 10,
   employment_type |-> 5, salary |-> 3, education |-> 2]

Full == 1000

\* round(n / d) to the nearest integer.
Rounded(n, d) == (2 * n + d) \div (2 * d)

Smaller(m, n) == IF m < n THEN m ELSE n
Largest(S) == CHOOSE x \in S : \A y \in S : y <= x

-----------------------------------------------------------------------------
(* The eight dimensions                                                    *)

\* Mutant of Covered: the share of the candidate's skills that are asked for.
CoveredByCandidate(c, asked) ==
  [had |-> Cardinality(c.skills \cap asked), of |-> Cardinality(c.skills \cup asked)]

\* How many of the skills asked for the candidate has, of how many.
Covered(c, asked) == [had |-> Cardinality(c.skills \cap asked), of |-> Cardinality(asked)]

evaluate_skills(c, p) ==
  LET r == Covered(c, p.required)
      q == Covered(c, p.preferred) IN
  IF p.required = {} /\ p.preferred = {} THEN Unknown
  ELSE IF p.preferred = {} THEN Rounded(Full * r.had, r.of)
  ELSE IF p.required = {} THEN Rounded(Full * q.had, q.of)
  ELSE Rounded(Full * (80 * (q.of * r.had) + 20 * (r.of * q.had)), 100 * (q.of * r.of))

\* What the minimum makes of the years.
AgainstMinimum(years, minimum) ==
  IF minimum = Unknown THEN Full
  ELSE IF years >= minimum THEN Full
  ELSE IF 10 * years >= 7 * minimum THEN 700
  ELSE IF 10 * years >= 4 * minimum THEN 400
  ELSE 150

evaluate_experience(c, p) ==
  IF (p.minYears = Unknown /\ p.maxYears = Unknown) \/ c.years = Unknown THEN Unknown
  ELSE IF p.maxYears # Unknown /\ c.years > p.maxYears + 5
  THEN Smaller(AgainstMinimum(c.years, p.minYears), 800)
  ELSE AgainstMinimum(c.years, p.minYears)

Contains(long, short) ==
  \E i \in 0..(Len(long) - Len(short)) : SubSeq(long, i + 1, i + Len(short)) = short

\* How far a role fits a title.  A role that normalises to nothing is contained
\* in every title.
Fit(role, title) ==
  IF role = title THEN Full
  ELSE IF Contains(title, role) \/ Contains(role, title) THEN 900
  ELSE Rounded(800 * Cardinality(Words(role) \cap Words(title)),
               Largest({Cardinality(Words(role)), Cardinality(Words(title))}))

evaluate_title(c, p) ==
  IF p.title = Unknown \/ c.roles = {} THEN Unknown
  ELSE Largest({Fit(role, p.title) : role \in c.roles})

evaluate_location(c, p) ==
  IF p.workplace = "REMOTE" THEN Full
  ELSE IF p.place = Unknown \/ (c.places = {} /\ ~c.relocates) THEN Unknown
  ELSE IF p.place \in c.places THEN Full
  ELSE IF c.relocates THEN 750 ELSE 0

\* Workplace and employment type are compared alike.
Listed(wanted, offered) ==
  IF offered = Unknown \/ wanted = {} THEN Unknown
  ELSE IF offered \in wanted THEN Full ELSE 0

evaluate_workplace(c, p) == Listed(c.workplaces, p.workplace)

evaluate_employment_type(c, p) == Listed(c.employments, p.employment)

\* The upper end of what is offered; a single figure is both ends.
Offered(p) == IF p.maxSalary # Unknown THEN p.maxSalary ELSE p.minSalary

evaluate_salary(c, p) ==
  IF \/ p.minSalary = Unknown /\ p.maxSalary = Unknown
     \/ c.minSalary = Unknown /\ c.maxSalary = Unknown
     \/ p.currency \notin {Unknown, c.currency}
  THEN Unknown
  ELSE IF c.minSalary = Unknown THEN Full
  ELSE IF Offered(p) >= c.minSalary THEN Full
  ELSE IF 10 * (c.minSalary - Offered(p)) <= c.minSalary THEN 500 ELSE 0

\* get_rank takes the first key of EDUCATION_HIERARCHY that the text contains:
\* "mba" contains "ba" and ranks as a bachelor's degree.
get_rank(degree) == EDUCATION_HIERARCHY[degree]

evaluate_education(c, p) ==
  IF p.degree = Unknown \/ c.degrees = {} THEN Unknown
  ELSE LET required == get_rank(p.degree)
           held == Largest({get_rank(d) : d \in c.degrees})
       IN IF required = 0 THEN Unknown
          ELSE IF held >= required THEN Full
          ELSE IF held = required - 1 THEN 500 ELSE 0

-----------------------------------------------------------------------------
(* The aggregate                                                           *)

Results(c, p) ==
  [skills |-> evaluate_skills(c, p), experience |-> evaluate_experience(c, p),
   title |-> evaluate_title(c, p), location |-> evaluate_location(c, p),
   workplace |-> evaluate_workplace(c, p), employment_type |-> evaluate_employment_type(c, p),
   salary |-> evaluate_salary(c, p), education |-> evaluate_education(c, p)]

Known(results) == {d \in Dimension : results[d] # Unknown}

\* The sum of f over the dimensions of S.
Sum(f, S) ==
  LET part(d) == IF d \in S THEN f[d] ELSE 0
  IN part("skills") + part("experience") + part("title") + part("location")
       + part("workplace") + part("employment_type") + part("salary") + part("education")

Weighted(results) ==
  [d \in Known(results) |-> DEFAULT_MATCH_WEIGHTS[d] * results[d]]

\* Mutant of Available: the weights of all dimensions.
AllWeights(results) == Sum(DEFAULT_MATCH_WEIGHTS, Dimension)

\* available_weight_sum
Available(results) == Sum(DEFAULT_MATCH_WEIGHTS, Known(results))

\* Dimensions without a score leave numerator and denominator.
calculate_weighted_score(results) ==
  IF Available(results) = 0 THEN 0
  ELSE Rounded(Sum(Weighted(results), Known(results)), Available(results))

Score(c, p) == calculate_weighted_score(Results(c, p))

-----------------------------------------------------------------------------
(* HybridMatcher.combine                                                   *)

\* With a semantic score; without one the hybrid is the deterministic score.
Blend(deterministic, semantic) == Rounded(70 * deterministic + 30 * semantic, 100)

\* The caps on a blend whose critical dimensions are mismatches.
Guarded(results, deterministic, blend) ==
  LET conflict == results.workplace = 0
      unskilled == results.skills = 0
      inexperienced == results.experience = 150
  IN IF conflict \/ (unskilled /\ inexperienced)
     THEN Smaller(blend, Smaller(deterministic + 100, 599))
     ELSE IF unskilled \/ inexperienced
     THEN Smaller(blend, Smaller(deterministic + 150, 699))
     ELSE blend

Hybrid(c, p, semantic) ==
  LET results == Results(c, p)
      deterministic == calculate_weighted_score(results)
  IN Guarded(results, deterministic, Blend(deterministic, semantic))

-----------------------------------------------------------------------------

MatchingInit == pairing \in Pairings

\* The candidates that have one more of what this posting asks for, in a
\* dimension that is already compared.
Improved(c, p) ==
  LET results == Results(c, p)
      better(d) == IF results[d] = Unknown THEN {} ELSE {d}
  IN {[c EXCEPT !.skills = @ \cup {s}] : s \in p.required \cup p.preferred}
       \cup {[c EXCEPT !.roles = @ \cup {p.title}] : d \in better("title")}
       \cup {[c EXCEPT !.places = @ \cup {p.place}] : d \in better("location")}
       \cup {[c EXCEPT !.relocates = TRUE] : d \in better("location")}
       \cup {[c EXCEPT !.workplaces = @ \cup {p.workplace}] : d \in better("workplace")}
       \cup {[c EXCEPT !.employments = @ \cup {p.employment}] : d \in better("employment_type")}
       \cup {[c EXCEPT !.degrees = @ \cup {p.degree}] : d \in better("education")}
       \cup {[c EXCEPT !.years = p.minYears] : d \in
               {e \in better("experience") : p.minYears # Unknown /\ c.years < p.minYears}}

\* A candidate who acquires what the posting asks for never scores lower for it,
\* neither deterministically nor in the hybrid, at whatever similarity and
\* whichever caps come into force or lapse.  (Disclosing a first value may lower
\* the score: it brings a dimension into the average.)
ImprovementNeverHurts ==
  pairing # Unknown =>
    LET c == pairing.candidate
        p == pairing.posting
    IN \A better \in Improved(c, p) :
         /\ Score(better, p) >= Score(c, p)
         /\ \A semantic \in {0, 400, 800, Full} :
              Hybrid(better, p, semantic) >= Hybrid(c, p, semantic)

\* What is not known neither rewards nor penalises: the score lies between the
\* worst and the best of the dimensions that could be compared.
UnknownIsNeutral ==
  pairing # Unknown =>
    LET results == Results(pairing.candidate, pairing.posting)
        known == {results[d] : d \in Known(results)}
        score == calculate_weighted_score(results)
    IN known # {} => (\E low, high \in known : low <= score /\ score <= high)

=============================================================================

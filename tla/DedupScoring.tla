---------------------------- MODULE DedupScoring ----------------------------
(***************************************************************************)
(* evaluate_job_pair: the confidence that two postings are one job, which  *)
(* module Deduplication takes as given.                                    *)
(*                                                                         *)
(* Scores are integers in thousandths.  Titles, places and descriptions    *)
(* are what normalize_title, normalize_location and tokenize make of them: *)
(* words, comma-separated parts and tokens.  difflib's ratio is external   *)
(* and not symmetric: a function of the ordered pair.                      *)
(***************************************************************************)
EXTENDS Integers, FiniteSets

CONSTANTS
  Missing,     \* an absent field
  TitleWords,  \* the words of each normalized title
  Ratio,       \* SequenceMatcher(None, a, b).ratio() of two titles
  Seniority,   \* extract_seniority of a title, or Missing
  Comparisons  \* the pairs compared: [a, b]

VARIABLE comparison  \* the pair of postings being compared

\* Titles and descriptions have finitely many words, and a ratio is a share.
ASSUME ScoringAssumption ==
  /\ Ratio \in [(DOMAIN TitleWords) \X (DOMAIN TitleWords) -> 0..1000]
  /\ \A title \in DOMAIN TitleWords : IsFiniteSet(TitleWords[title])
  /\ \A x \in Comparisons \ {Missing} : \A j \in {x.a, x.b} :
       j.title \in DOMAIN TitleWords /\ IsFiniteSet(j.text)

DEFAULT_WEIGHTS ==
  [title |-> 45, location |-> 20, workplace |-> 15, employment |-> 10, description |-> 10]

HighThreshold == 900
MediumThreshold == 750

Rounding(n, d) == (2 * n + d) \div (2 * d)

\* The code's three cases in one: a share of both sets together, 1 of none.
jaccard_similarity(A, B) ==
  IF A \cup B = {} THEN [shared |-> 1, of |-> 1]
  ELSE [shared |-> Cardinality(A \cap B), of |-> Cardinality(A \cup B)]

-----------------------------------------------------------------------------
(* Components                                                              *)

SeniorTiers == {"senior", "staff", "lead", "principal", "manager", "director"}

Contradict(a, b) ==
  \/ Seniority[a] = "intern" /\ Seniority[b] \in SeniorTiers
  \/ Seniority[b] = "intern" /\ Seniority[a] \in SeniorTiers

Distinct(a, b) ==
  Missing \notin {Seniority[a], Seniority[b]} /\ Seniority[a] # Seniority[b]

\* Mutant of Penalised: the cap of a neighbouring tier is too weak.
PenalisedLightly(score) == IF score < 820 THEN score ELSE 820

Penalised(score) == IF score < 600 THEN score ELSE 600

\* Half words, half letters.
Combined(a, b) ==
  LET words == jaccard_similarity(TitleWords[a], TitleWords[b]) IN
  Rounding(1000 * words.shared + words.of * Ratio[<<a, b>>], 2 * words.of)

calculate_title_similarity(a, b) ==
  IF a = b THEN 1000
  ELSE IF Contradict(a, b) THEN 100
  ELSE IF Distinct(a, b) THEN Penalised(Combined(a, b))
  ELSE Combined(a, b)

Parts(place) == {place.city} \cup place.region

\* A place is its city and the parts after it.  normalize_location joins them
\* with ", " and the similarity splits at ",": a city is compared with the other
\* city, a later part with later parts.  A country in common is enough.
calculate_location_similarity(a, b) ==
  IF Missing \in {a, b} \/ a = b THEN 1000
  ELSE IF "remote" \in Parts(a) \cup Parts(b) THEN 850
  ELSE IF a.city = b.city \/ a.region \cap b.region # {} THEN 900
  ELSE 0

\* Two kinds that contradict each other, others that merely differ.
Compatible(a, b, contradiction) ==
  IF Missing \in {a, b} \/ a = b THEN 1000
  ELSE IF {a, b} = contradiction THEN 0 ELSE 500

\* The contradiction looks for "on-site"; the connectors store "onsite".
calculate_workplace_similarity(a, b) == Compatible(a, b, {"remote", "on-site"})

calculate_employment_similarity(a, b) == Compatible(a, b, {"internship", "full_time"})

\* Reuse of a template does not make up for different titles.
calculate_description_similarity(a, b, title) ==
  IF a = {} \/ b = {} THEN 800
  ELSE LET words == jaccard_similarity(a, b) IN
       IF title < 700 /\ 4 * words.shared > 3 * words.of THEN 400
       ELSE Rounding(1000 * words.shared, words.of)

SameUrl(a, b) == a # Missing /\ a = b

-----------------------------------------------------------------------------
(* evaluate_job_pair                                                       *)

Onsite(j) == j.workplace # "remote"

Fields(a, b) ==
  LET title == calculate_title_similarity(a.title, b.title) IN
  [title |-> title,
   location |-> calculate_location_similarity(a.place, b.place),
   workplace |-> calculate_workplace_similarity(a.workplace, b.workplace),
   employment |-> calculate_employment_similarity(a.employment, b.employment),
   description |-> calculate_description_similarity(a.text, b.text, title)]

Composite(fields) ==
  Rounding(DEFAULT_WEIGHTS.title * fields.title
             + DEFAULT_WEIGHTS.location * fields.location
             + DEFAULT_WEIGHTS.workplace * fields.workplace
             + DEFAULT_WEIGHTS.employment * fields.employment
             + DEFAULT_WEIGHTS.description * fields.description, 100)

\* The postings themselves; identities and URLs come before.
Compare(a, b) ==
  LET fields == Fields(a, b)
      score == Composite(fields)
  IN IF \/ a.title # b.title /\ Contradict(a.title, b.title)
        \/ fields.location = 0 /\ Onsite(a) /\ Onsite(b)
     THEN "CONTRADICTION"
     ELSE IF score >= HighThreshold THEN "HIGH_CONFIDENCE"
     ELSE IF score >= MediumThreshold THEN "MEDIUM_CONFIDENCE"
     ELSE "LOW_CONFIDENCE"

evaluate_job_pair(a, b) ==
  IF a.company # b.company THEN "DIFFERENT_COMPANY"
  ELSE IF a.source = b.source /\ a.external # Missing /\ a.external = b.external
  THEN "EXACT_EXTERNAL_ID"
  ELSE IF SameUrl(a.url, b.url) THEN "EXACT_APPLICATION_URL"
  ELSE IF SameUrl(a.page, b.page) THEN "EXACT_SOURCE_URL"
  ELSE Compare(a, b)

-----------------------------------------------------------------------------

DedupInit == comparison \in Comparisons

\* Two postings are linked on their content alone only if little in it tells them
\* apart: the titles agree to 776 thousandths and state the same seniority, the
\* places and the workplaces are compatible, and contradictory employments (an
\* internship against a full-time job) pass only where the titles agree to 998.  No
\* single line says so: it rests on weights, cap and threshold together.
LinksRestOnContent ==
  comparison # Missing =>
    LET a == comparison.a
        b == comparison.b
        fields == Fields(a, b)
    IN evaluate_job_pair(a, b) = "HIGH_CONFIDENCE" =>
         /\ a.company = b.company
         /\ fields.title >= 776 /\ ~Distinct(a.title, b.title)
         /\ fields.location # 0 /\ fields.workplace # 0
         /\ fields.employment = 0 => fields.title >= 998

=============================================================================

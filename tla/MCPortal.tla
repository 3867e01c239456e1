------------------------------ MODULE MCPortal ------------------------------
(***************************************************************************)
(* Portal for TLC, with the rules that score and list jobs: the subject of *)
(* a rule is a state of its own, apart from the behaviours of the portal.  *)
(***************************************************************************)
EXTENDS Portal, Matching, DedupScoring, JobListing, TLC

subjects == <<pairing, comparison, query>>

NoSubject == pairing = Unknown /\ comparison = Missing /\ query = NoQuery

\* An empty portal, next to a subject.
Empty ==
  /\ provider = "lever" /\ totals = FALSE /\ trims = FALSE /\ feed = <<>>
  /\ text = [j \in Job |-> CHOOSE t \in Text : TRUE]

\* Only Workday reports totals, and one request fetches all of Greenhouse.
Relevant == (totals => provider = "workday") /\ (trims => provider # "greenhouse")

\* One subject, or none and any portal.
MCInit ==
  /\ \/ NoSubject
     \/ MatchingInit /\ comparison = Missing /\ query = NoQuery /\ Empty
     \/ DedupInit /\ pairing = Unknown /\ query = NoQuery /\ Empty
     \/ ListingInit /\ pairing = Unknown /\ comparison = Missing /\ Empty
  /\ PortalInit
  /\ Relevant

-----------------------------------------------------------------------------
(* Bounds of the portal: one component moves at a time                      *)

IngestionAtRest == changes = 0 /\ \A c \in Call : phase[c] = "idle"

ProfileAtRest ==
  /\ requests = 2
  /\ \A s \in Session : pc[s] = Idle
  /\ spoiled = {}
  /\ \A u \in User :
       /\ filled[u] = {} /\ attached[u] = {} /\ prefs[u] = "none" /\ saved[u] = {}
       /\ \A k \in Kind : entries[u][k] = {}

\* Applications and matches begin with a user that has a new profile.  Of two
\* ingestions the fetches do not overlap: a fetch touches nothing another reads.
MCNext ==
  /\ NoSubject /\ UNCHANGED subjects
  /\ \/ asked = 0 /\ calls = 0 /\ IngestionAtRest /\ provider = "lever" /\ ~totals /\ ~trims
        /\ feed = <<>> /\ ProfileActs
     \/ calls = 0 /\ ProfileAtRest /\ AppActs
     \/ asked = 0 /\ ProfileAtRest /\ AIActs /\ calls' <= 3
     \/ requests = 0 /\ IngestionActs

Apart ==
  \A c, d \in Call : phase[c] = "fetch" /\ d # c =>
    phase[d] \in {"idle", "store"} /\ next[d] = 1

MCSpec == MCInit /\ [][MCNext]_<<portal, subjects>>

Symmetry == Permutations(Session) \cup Permutations(Text)

-----------------------------------------------------------------------------
(* Instances of the data                                                   *)

\* What a model may extract: requirements without years, and with.
Extractions == {[skills |-> "a", years |-> None], [skills |-> "b", years |-> "y"]}

Candidates ==
  [skills : SUBSET {"sql", "go", "k8s"}, years : {Unknown, 2, 4, 20},
   roles : {{}, {<<"data", "dev">>, <<"ops">>}},
   places : {{}, {"berlin"}}, relocates : BOOLEAN,
   workplaces : {{}, {"ONSITE"}, {"REMOTE"}}, employments : {{"FULL_TIME"}},
   minSalary : {60}, maxSalary : {Unknown}, currency : {"USD"},
   degrees : {{}, {"mba"}}]

Postings ==
  LET plain == [required |-> {"sql", "go"}, preferred |-> {"k8s"}, minYears |-> 5,
                maxYears |-> 8, title |-> <<"senior", "dev">>, place |-> "paris",
                workplace |-> "ONSITE", employment |-> "FULL_TIME", minSalary |-> Unknown,
                maxSalary |-> 55, currency |-> "USD", degree |-> "master"]
  IN {plain,
      [plain EXCEPT !.preferred = {}, !.minYears = Unknown, !.degree = "none"],
      [plain EXCEPT !.required = {}, !.maxYears = Unknown, !.workplace = "REMOTE"],
      [plain EXCEPT !.required = {}, !.preferred = {}, !.title = Unknown, !.place = Unknown,
                    !.workplace = Unknown, !.maxSalary = Unknown, !.degree = "bachelor"]}

MCPairings == [candidate : Candidates, posting : Postings] \cup {Unknown}

Core == {"platform", "reliability", "backend", "developer"}
MCTitleWords ==
  [plain |-> Core, senior |-> Core \cup {"senior"}, staff |-> Core \cup {"staff"},
   intern |-> Core \cup {"intern"}, sales |-> {"sales", "developer"}]
MCSeniority ==
  [plain |-> Missing, senior |-> "senior", staff |-> "staff", intern |-> "intern",
   sales |-> Missing]
MCRatio ==
  [pair \in (DOMAIN MCSeniority) \X (DOMAIN MCSeniority) |->
     IF "sales" \in {pair[1], pair[2]} THEN 500 ELSE 960]

Place(city, country) == [city |-> city, region |-> {country}]

Jobs ==
  [company : {"acme"}, source : {"board"}, external : {"x"}, url : {Missing},
   page : {Missing}, title : DOMAIN MCSeniority,
   place : {Missing, Place("bengaluru", "india"), Place("mumbai", "india"),
            Place("tokyo", "japan"), Place("remote", "us")},
   workplace : {Missing, "remote", "on-site", "onsite"},
   employment : {"full_time", "internship"}, text : {{}, {"python", "team"}}]

MCComparisons ==
  {[a |-> a, b |-> [b EXCEPT !.external = "y"]] :
     a \in {j \in Jobs : j.title \in {"plain", "senior"} /\ j.text # {} /\ j.employment = "full_time"
              /\ j.workplace \in {"remote", "on-site"}
              /\ j.place \in {Place("bengaluru", "india"), Place("remote", "us")}},
     b \in Jobs}
  \cup {Missing}

Lineup == {"x", "y", "z"}

\* Listings of up to three jobs, with ties of the column and of the scores.
MCQueries ==
  UNION {[jobs : {listed}, key : [listed -> 1..3], score : [listed -> {NoScore, 1, 2}],
          sort : {"newest", "best_match"}, minimum : {NoScore, 1, 2}, size : 1..3] :
           listed \in {{}, {"x"}, {"x", "y"}, Lineup}}
  \cup {NoQuery}

=============================================================================

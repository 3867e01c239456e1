---------------------------- MODULE Intelligence ----------------------------
(***************************************************************************)
(* Matching and AI services: deterministic and enhanced matches, the       *)
(* extraction of requirements, and the tables that cache what they cost.   *)
(*                                                                         *)
(* Every table is written by the same steps: the row is looked up, then    *)
(* updated or inserted in a commit; a unique key refuses the second of two *)
(* inserts, and a column a value that does not fit it.  The services catch *)
(* these errors, but nobody rolls the session back: its next statement, or *)
(* the next attribute read of an object the failed flush has expired,      *)
(* raises again, and there always is one (extract: save_extraction in the  *)
(* except branch; embeddings: profile.id before the explanation;           *)
(* explanation: job.id in the response).  So a refused write ends its      *)
(* request with a server error.                                            *)
(*                                                                         *)
(* The AI feature flags are on, their default.                             *)
(***************************************************************************)
EXTENDS Profile

CONSTANTS
  Text,      \* versions of a posting's title and description
  Extracted, \* what the model may extract: [skills, years], years may be None
  Failed     \* an extraction that failed

\* What a JobRequirements row can say: extractions, merged field by field.
RequirementRow ==
  [skills : {r.skills : r \in Extracted}, years : {r.years : r \in Extracted}]

\* What a request was asked, has loaded and has generated.
Asked ==
  [kind : {"match", "enhanced", "extract", "set"}, user : User, job : Job, force : BOOLEAN,
   given : Extracted \cup {None, Failed}, text : Text, skills : SUBSET Skill,
   needs : RequirementRow \cup {None}, semantic : BOOLEAN, found : BOOLEAN,
   seen : RequirementRow \cup {None}, misfit : BOOLEAN]

ASSUME IntelligenceAssumption ==
  /\ Extracted \subseteq RequirementRow
  /\ Failed \notin Extracted
  /\ None \notin RequirementRow \cup Asked

VARIABLES
  text,         \* what each job's posting says
  extraction,   \* its AIJobExtraction rows by text: None, Failed or extracted
  requirement,  \* its JobRequirements row or None
  stored,       \* keys of the matches, embeddings and explanations stored
  stage,        \* the table each request is at
  step,         \* what it does there
  ask,          \* what it was asked, loaded and generated
  rival,        \* ghost: another request on the job or of the user overlapped it
  unsynced,     \* ghost: extractions whose request was lost before the requirements
  calls         \* requests begun

aiVars == <<text, extraction, requirement, stored, stage, step, ask, rival, unsynced, calls>>

Stage == {Idle, "match", "candidate", "job", "explanation", "extraction", "requirements"}
Step == {"consult", "call", "look", "write", "done", "error"}

AIInit ==
  /\ text \in [Job -> Text]
  /\ extraction = [j \in Job |-> [t \in Text |-> None]]
  /\ requirement = [j \in Job |-> None]
  /\ stored = {}
  /\ stage = [s \in Session |-> Idle]
  /\ step = [s \in Session |-> "done"]
  /\ ask = [s \in Session |-> None]
  /\ rival = [s \in Session |-> FALSE]
  /\ unsynced = {}
  /\ calls = 0

-----------------------------------------------------------------------------

Active(s) == stage[s] # Idle

\* Requests that write the same keys: of one user or about one job.
Rivals(u, j, t) == Active(t) /\ (ask[t].user = u \/ ask[t].job = j)

At(s, where, what) ==
  /\ stage' = [stage EXCEPT ![s] = where]
  /\ step' = [step EXCEPT ![s] = what]

\* The profile, the job and its requirements as the request's session has them.
Begin(s, u, j, kind, force, given, where, what) ==
  /\ ~Active(s)
  /\ calls < MaxRequests
  /\ u \in profile
  /\ calls' = calls + 1
  /\ At(s, where, what)
  /\ ask' = [ask EXCEPT ![s] =
       [kind |-> kind, user |-> u, job |-> j, force |-> force, given |-> given,
        text |-> text[j], skills |-> attached[u], needs |-> requirement[j],
        semantic |-> TRUE, found |-> FALSE, seen |-> None, misfit |-> FALSE]]
  /\ LET others == {t \in Session : Rivals(u, j, t)} IN
       rival' = [t \in Session |-> IF t = s THEN others # {} ELSE rival[t] \/ t \in others]
  /\ UNCHANGED <<text, extraction, requirement, stored, unsynced>>

\* POST matching/jobs/{id}, persisted.
AskMatch(s, u, j) == Begin(s, u, j, "match", FALSE, None, "match", "look")

\* Its AI-enhanced form, which begins with it.
AskEnhanced(s, u, j) ==
  \E force \in BOOLEAN : Begin(s, u, j, "enhanced", force, None, "match", "look")

\* POST ai/jobs/{id}/extract
AskExtract(s, u, j) ==
  \E force \in BOOLEAN : Begin(s, u, j, "extract", force, None, "extraction", "consult")

\* PUT matching/jobs/{id}/requirements
SetRequirements(s, u, j) ==
  \E given \in Extracted : Begin(s, u, j, "set", FALSE, given, "requirements", "look")

Ask(s, u, j) ==
  AskMatch(s, u, j) \/ AskEnhanced(s, u, j) \/ AskExtract(s, u, j) \/ SetRequirements(s, u, j)

\* What the row of the request's stage is stored under.  The explanation's hash
\* covers the scores and criteria, which follow from what the request loaded.
KeyAt(s) ==
  CASE stage[s] = "match" -> <<"match", ask[s].user, ask[s].job>>
    [] stage[s] = "candidate" -> <<"candidate", ask[s].user, ask[s].skills>>
    [] stage[s] = "job" -> <<"job", ask[s].job, ask[s].text, ask[s].needs>>
    [] stage[s] = "explanation" ->
         <<"explanation", ask[s].user, ask[s].job, ask[s].skills, ask[s].needs, ask[s].semantic>>

\* The latest successful extraction of any text of the job.
Succeeded(byText) == \E t \in Text : byText[t] \in Extracted
SomeExtraction(j) == Succeeded(extraction[j])

\* The extract endpoint reads the record it will show after the extraction and
\* answers with a server error when no successful one exists.
Reply(s) ==
  At(s, stage[s],
     IF ask[s].kind = "extract" /\ ~Succeeded(extraction'[ask[s].job]) THEN "error" ELSE "done")

\* Mutant of Syncs: requirements are written for a forced refresh only.
SyncsOnRefresh(s) == ask[s].force /\ ask[s].given # Failed

\* A successful extraction is copied to the requirements.
Syncs(s) == ask[s].given # Failed

\* On to the next table of the request, or to its response.
Onward(s) ==
  CASE stage[s] = "match" /\ ask[s].kind = "enhanced" -> At(s, "candidate", "consult")
    [] stage[s] = "candidate" -> At(s, "job", "consult")
    [] stage[s] = "job" -> At(s, "explanation", "consult")
    [] stage[s] = "extraction" /\ Syncs(s) -> At(s, "requirements", "look")
    [] OTHER -> Reply(s)

-----------------------------------------------------------------------------

\* get_cached of the stage's table; the explanation's ignores force_refresh.
Hit(s) ==
  CASE stage[s] = "extraction" ->
         ~ask[s].force /\ extraction[ask[s].job][ask[s].text] \in Extracted
    [] stage[s] = "explanation" -> KeyAt(s) \in stored
    [] OTHER -> ~ask[s].force /\ KeyAt(s) \in stored

Consult(s) ==
  /\ Active(s) /\ step[s] = "consult"
  /\ UNCHANGED <<text, extraction, requirement, stored, ask, rival, unsynced, calls>>
  /\ IF ~Hit(s) THEN At(s, stage[s], "call")
     ELSE IF stage[s] = "extraction" THEN Reply(s)
     ELSE Onward(s)

\* The provider answers.
Generate(s) ==
  /\ Active(s) /\ step[s] = "call"
  /\ IF stage[s] = "extraction"
     THEN \E r \in Extracted : ask' = [ask EXCEPT ![s].given = r]
     ELSE UNCHANGED ask
  /\ At(s, stage[s], "look")
  /\ UNCHANGED <<text, extraction, requirement, stored, rival, unsynced, calls>>

\* Mutant of OnProviderFailure: an embedding's failure leaves the service.
RaiseProviderFailure(s) ==
  /\ At(s, stage[s], "error")
  /\ UNCHANGED ask

\* A failed extraction is recorded; a missing vector makes the match purely
\* deterministic; the explanation falls back to its template.
OnProviderFailure(s) ==
  CASE stage[s] = "extraction" ->
         /\ ask' = [ask EXCEPT ![s].given = Failed]
         /\ At(s, stage[s], "look")
    [] stage[s] \in {"candidate", "job"} ->
         /\ ask' = [ask EXCEPT ![s].semantic = FALSE]
         /\ Onward(s)
    [] OTHER -> Reply(s) /\ UNCHANGED ask

\* Timeout, refusal, rate limit, malformed answer: after the provider's retries.
ProviderFails(s) ==
  /\ Active(s) /\ step[s] = "call"
  /\ UNCHANGED <<text, extraction, requirement, stored, rival, unsynced, calls>>
  /\ OnProviderFailure(s)

\* The row of the stage exists; for requirements with what it says.
Exists(s) ==
  CASE stage[s] = "extraction" -> extraction[ask[s].job][ask[s].text] # None
    [] stage[s] = "requirements" -> requirement[ask[s].job] # None
    [] OTHER -> KeyAt(s) \in stored

LookUp(s) ==
  /\ Active(s) /\ step[s] = "look"
  /\ ask' = [ask EXCEPT ![s].found = Exists(s),
                        ![s].seen = IF stage[s] = "requirements"
                                    THEN requirement[ask[s].job] ELSE None]
  /\ At(s, stage[s], "write")
  /\ UNCHANGED <<text, extraction, requirement, stored, rival, unsynced, calls>>

\* An absent field keeps the row's; only fields that differ from the row as
\* loaded are written.
Merged(s) ==
  LET row == requirement[ask[s].job]
      given == ask[s].given IN
  [f \in DOMAIN given |->
     IF given[f] # None /\ given[f] # ask[s].seen[f] THEN given[f] ELSE row[f]]

WriteRow(s) ==
  CASE stage[s] = "extraction" ->
         /\ extraction' = [extraction EXCEPT ![ask[s].job][ask[s].text] = ask[s].given]
         /\ UNCHANGED <<requirement, stored>>
    [] stage[s] = "requirements" ->
         /\ requirement' = [requirement EXCEPT ![ask[s].job] =
                              IF ask[s].found THEN Merged(s) ELSE ask[s].given]
         /\ UNCHANGED <<extraction, stored>>
    [] OTHER ->
         /\ stored' = stored \cup {KeyAt(s)}
         /\ UNCHANGED <<extraction, requirement>>

\* UPDATE of the row found, or INSERT of a key that is still free.
Write(s) ==
  /\ Active(s) /\ step[s] = "write"
  /\ ask[s].found \/ ~Exists(s)
  /\ WriteRow(s)
  /\ Onward(s)
  /\ ask' = [ask EXCEPT ![s].found = FALSE, ![s].seen = None]
  /\ unsynced' = IF stage[s] = "requirements" THEN unsynced \ {ask[s].job} ELSE unsynced
  /\ UNCHANGED <<text, rival, calls>>

\* The extraction is committed, the requirements are not.
Between(s) == stage[s] = "requirements" /\ ask[s].kind = "extract"

LosesSync(s) == IF Between(s) THEN unsynced \cup {ask[s].job} ELSE unsynced

\* INSERT of a key another request has inserted since.
Refused(s) ==
  /\ Active(s) /\ step[s] = "write"
  /\ ~ask[s].found /\ Exists(s)
  /\ At(s, stage[s], "error")
  /\ unsynced' = LosesSync(s)
  /\ UNCHANGED <<text, extraction, requirement, stored, ask, rival, calls>>

\* Tables with columns for what a provider or a client says in its own words:
\* vectors, the explanation's texts, a currency of three characters.  Matches are
\* computed, and an extraction is stored as JSON.
Narrow(s) == stage[s] \in {"candidate", "job", "explanation", "requirements"}

\* The database cannot store the value: a vector of another length, a longer
\* currency.
Unstorable(s) ==
  /\ Active(s) /\ step[s] = "write"
  /\ Narrow(s)
  /\ At(s, stage[s], "error")
  /\ ask' = [ask EXCEPT ![s].misfit = TRUE]
  /\ unsynced' = LosesSync(s)
  /\ UNCHANGED <<text, extraction, requirement, stored, rival, calls>>

Forget(s) ==
  /\ At(s, Idle, "done")
  /\ ask' = [ask EXCEPT ![s] = None]
  /\ rival' = [rival EXCEPT ![s] = FALSE]
  /\ UNCHANGED <<text, extraction, requirement, stored, calls>>

Respond(s) ==
  /\ Active(s) /\ step[s] \in {"done", "error"}
  /\ Forget(s)
  /\ UNCHANGED unsynced

\* The process dies.
LoseCall(s) ==
  /\ Active(s) /\ step[s] \notin {"done", "error"}
  /\ unsynced' = LosesSync(s)
  /\ Forget(s)

\* JobRepository.upsert: ingestion finds the posting changed.
Republish(j) ==
  /\ \E t \in Text \ {text[j]} : text' = [text EXCEPT ![j] = t]
  /\ UNCHANGED <<extraction, requirement, stored, stage, step, ask, rival, unsynced, calls>>

AIStep(s) ==
  \/ \E u \in User, j \in Job : Ask(s, u, j)
  \/ Consult(s)
  \/ Generate(s)
  \/ ProviderFails(s)
  \/ LookUp(s)
  \/ Write(s)
  \/ Refused(s)
  \/ Unstorable(s)
  \/ Respond(s)
  \/ LoseCall(s)

AINext == (\E s \in Session : AIStep(s)) \/ (\E j \in Job : Republish(j))

-----------------------------------------------------------------------------

AITypeOK ==
  /\ text \in [Job -> Text]
  /\ extraction \in [Job -> [Text -> Extracted \cup {None, Failed}]]
  /\ requirement \in [Job -> RequirementRow \cup {None}]
  /\ ask \in [Session -> Asked \cup {None}]
  /\ stage \in [Session -> Stage]
  /\ step \in [Session -> Step]
  /\ \A s \in Session : Active(s) <=> ask[s] # None
  /\ rival \in [Session -> BOOLEAN]
  /\ unsynced \in SUBSET Job
  /\ calls \in Nat

\* However timeouts, refusals and rate limits of providers fall, a request ends
\* with a server error only if another request overlapped it, if the database
\* could not store what it was told, or if it was to show an extraction and the
\* job has no successful one: never had, or a forced refresh overwrote it with a
\* failure.
ErrorsExplained ==
  \A s \in Session : Active(s) /\ step[s] = "error" =>
    \/ rival[s]
    \/ ask[s].misfit
    \/ ask[s].kind = "extract" /\ ~SomeExtraction(ask[s].job)

\* "If the LLM provider times out, fails, rate limits, or is disabled, JobWatch AI
\* seamlessly produces deterministic match evaluations without HTTP 500 errors or
\* application disruptions" (docs/ai.md): a request that asks providers, is alone
\* and whose rows the database can store does not end with a server error.
FailuresAbsorbed ==
  \A s \in Session : Active(s) /\ step[s] = "error" /\ ask[s].kind # "set" =>
    rival[s] \/ ask[s].misfit

\* Once a job has a successful extraction, its requirements exist for the
\* deterministic engine, or the request that extracted is about to write them,
\* or it was lost or refused in between, which later requests do not repair:
\* they find the extraction in the cache.
ExtractionsReachRequirements ==
  \A j \in Job : SomeExtraction(j) =>
    \/ requirement[j] # None
    \/ \E s \in Session : Active(s) /\ ask[s].job = j /\ Between(s) /\ step[s] # "error"
    \/ j \in unsynced

=============================================================================

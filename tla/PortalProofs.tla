---------------------------- MODULE PortalProofs ----------------------------
(***************************************************************************)
(* What holds of the whole portal: the components' invariants are kept by  *)
(* their own steps, and the steps of the other components leave their      *)
(* variables alone.                                                        *)
(*                                                                         *)
(* The proofs about Intelligence are here as well: the services load the   *)
(* profiles, so their invariant needs ProfileTypeOK, which only the        *)
(* composition provides.  AIInv rests on rivals: as long as no other       *)
(* request of the user or about the job overlaps a request, nobody else    *)
(* writes the rows it looks up, so its inserts are not refused and what it *)
(* was answered with stays true.                                           *)
(***************************************************************************)
EXTENDS Portal, ApplicationsProofs, IngestionProofs

-----------------------------------------------------------------------------
(* The invariant of Intelligence                                           *)

Keyed == {"match", "candidate", "job", "explanation"}

\* Where a request can be, given what it was asked, and what it has by then.
StageOK(s) ==
  Active(s) =>
    /\ stage[s] = "match" => ask[s].kind \in {"match", "enhanced"}
    /\ stage[s] \in {"candidate", "job", "explanation"} => ask[s].kind = "enhanced"
    /\ stage[s] = "extraction" =>
         /\ ask[s].kind = "extract"
         /\ step[s] \in {"look", "write"} => ask[s].given \in Extracted \cup {Failed}
    /\ stage[s] = "requirements" =>
         /\ ask[s].kind \in {"extract", "set"} /\ ask[s].given \in Extracted
         /\ step[s] \notin {"consult", "call"}
         /\ step[s] = "write" /\ ask[s].found => requirement[ask[s].job] # None
         /\ step[s] = "done" => requirement[ask[s].job] # None

\* Two requests that may write the same row.
Meet(s, t) == ask[s].user = ask[t].user \/ ask[s].job = ask[t].job

RivalsKnown ==
  \A s, t \in Session : s # t /\ Active(s) /\ Active(t) /\ Meet(s, t) => rival[s]

\* What a request without rivals has not found is still missing.
StillFree(s) ==
  Active(s) /\ step[s] = "write" /\ ~ask[s].found => rival[s] \/ ~Exists(s)

ErrorExplained(s) ==
  Active(s) /\ step[s] = "error" =>
    rival[s] \/ ask[s].misfit \/ (ask[s].kind = "extract" /\ ~SomeExtraction(ask[s].job))

RequestsInv == \A s \in Session : StageOK(s) /\ StillFree(s) /\ ErrorExplained(s)

AIInv == AITypeOK /\ RivalsKnown /\ RequestsInv /\ ExtractionsReachRequirements

-----------------------------------------------------------------------------

LEMMA AIInvInit == AIInit => AIInv
<1> SUFFICES ASSUME AIInit PROVE AIInv
  OBVIOUS
<1> USE DEF AIInit
<1>1. AITypeOK
  BY DEF AITypeOK, Stage, Step, Active
<1>2. RivalsKnown /\ RequestsInv
  BY DEF RivalsKnown, RequestsInv, StageOK, StillFree, ErrorExplained, Active
<1>3. ExtractionsReachRequirements
  <2>1. ASSUME NEW j \in Job PROVE ~SomeExtraction(j)
    <3>1. None \notin Extracted
      BY IntelligenceAssumption
    <3>2. QED
      BY <3>1 DEF SomeExtraction, Succeeded
  <2>2. QED
    BY <2>1 DEF ExtractionsReachRequirements
<1>4. QED
  BY <1>1, <1>2, <1>3 DEF AIInv

\* A step of another component.
LEMMA AIInvStutter == AIInv /\ UNCHANGED aiVars => AIInv'
<1> SUFFICES ASSUME AIInv, UNCHANGED aiVars PROVE AIInv'
  OBVIOUS
<1> USE DEF AIInv, aiVars, Active
<1>1. AITypeOK'
  BY DEF AITypeOK
<1>2. RivalsKnown'
  BY DEF RivalsKnown, Meet
<1>3. RequestsInv'
  BY DEF RequestsInv, StageOK, StillFree, ErrorExplained, Exists, KeyAt, SomeExtraction, Succeeded
<1>4. ExtractionsReachRequirements'
  BY DEF ExtractionsReachRequirements, SomeExtraction, Succeeded, Between
<1>5. QED
  BY <1>1, <1>2, <1>3, <1>4

-----------------------------------------------------------------------------
(* Where a request goes                                                    *)

\* From s's stage to its response, or to the next table.
Onwards(s) ==
  \/ /\ ask[s].kind = "enhanced" /\ stage[s] \in Keyed
     /\ At(s, "candidate", "consult") \/ At(s, "job", "consult") \/ At(s, "explanation", "consult")
  \/ stage[s] = "extraction" /\ Syncs(s) /\ At(s, "requirements", "look")
  \/ (stage[s] = "extraction" => ~Syncs(s)) /\ Reply(s)

LEMMA OnwardGoes ==
  ASSUME NEW s \in Session, Active(s), StageOK(s), Onward(s)
  PROVE  Onwards(s)
<1>1. CASE stage[s] = "match" /\ ask[s].kind = "enhanced"
  BY <1>1 DEF Onward, Onwards, Keyed
<1>2. CASE stage[s] = "candidate"
  BY <1>2 DEF Onward, Onwards, Keyed, StageOK
<1>3. CASE stage[s] = "job"
  BY <1>3 DEF Onward, Onwards, Keyed, StageOK
<1>4. CASE stage[s] = "extraction" /\ Syncs(s)
  BY <1>4 DEF Onward, Onwards
<1>5. CASE ~(stage[s] = "match" /\ ask[s].kind = "enhanced") /\ stage[s] # "candidate"
           /\ stage[s] # "job" /\ ~(stage[s] = "extraction" /\ Syncs(s))
  <2>1. Reply(s)
    BY <1>5 DEF Onward
  <2>2. QED
    BY <1>5, <2>1 DEF Onwards
<1>6. QED
  BY <1>1, <1>2, <1>3, <1>4, <1>5

\* Only the request itself moves.
LEMMA AtMoves ==
  ASSUME AITypeOK, NEW s \in Session, NEW where \in Stage, NEW what \in Step, At(s, where, what)
  PROVE  /\ stage' \in [Session -> Stage] /\ step' \in [Session -> Step]
         /\ stage'[s] = where /\ step'[s] = what
         /\ \A t \in Session \ {s} : stage'[t] = stage[t] /\ step'[t] = step[t]
BY DEF AITypeOK, At

LEMMA ReplyMoves ==
  ASSUME AITypeOK, NEW s \in Session, Reply(s)
  PROVE  /\ stage' \in [Session -> Stage] /\ step' \in [Session -> Step]
         /\ stage'[s] = stage[s] /\ step'[s] \in {"done", "error"}
         /\ step'[s] = "error" => ask[s].kind = "extract" /\ ~Succeeded(extraction'[ask[s].job])
         /\ \A t \in Session \ {s} : stage'[t] = stage[t] /\ step'[t] = step[t]
<1>1. CASE ask[s].kind = "extract" /\ ~Succeeded(extraction'[ask[s].job])
  <2>1. At(s, stage[s], "error")
    BY <1>1 DEF Reply
  <2>2. QED
    BY <1>1, <2>1 DEF AITypeOK, At, Step
<1>2. CASE ~(ask[s].kind = "extract" /\ ~Succeeded(extraction'[ask[s].job]))
  <2>1. At(s, stage[s], "done")
    BY <1>2 DEF Reply
  <2>2. QED
    BY <2>1 DEF AITypeOK, At, Step
<1>3. QED
  BY <1>1, <1>2

\* What going on does to the stages and steps.
Moved(s) ==
  /\ stage' \in [Session -> Stage] /\ step' \in [Session -> Step]
  /\ stage'[s] # Idle
  /\ \A t \in Session \ {s} : stage'[t] = stage[t] /\ step'[t] = step[t]
  /\ \/ /\ ask[s].kind = "enhanced" /\ step'[s] = "consult"
        /\ stage'[s] \in {"candidate", "job", "explanation"}
     \/ /\ stage[s] = "extraction" /\ Syncs(s)
        /\ stage'[s] = "requirements" /\ step'[s] = "look"
     \/ /\ stage[s] = "extraction" => ~Syncs(s)
        /\ stage'[s] = stage[s] /\ step'[s] \in {"done", "error"}
        /\ step'[s] = "error" => ask[s].kind = "extract" /\ ~Succeeded(extraction'[ask[s].job])

LEMMA OnwardMoves ==
  ASSUME AITypeOK, NEW s \in Session, Active(s), StageOK(s), Onward(s)
  PROVE  Moved(s)
<1>1. Onwards(s)
  BY OnwardGoes
<1>2. CASE Reply(s) /\ (stage[s] = "extraction" => ~Syncs(s))
  BY <1>2, ReplyMoves DEF Moved, Active
<1>3. CASE stage[s] = "extraction" /\ Syncs(s) /\ At(s, "requirements", "look")
  BY <1>3 DEF AITypeOK, At, Moved, Stage, Step, Idle
<1>4. CASE /\ ask[s].kind = "enhanced" /\ stage[s] \in Keyed
           /\ At(s, "candidate", "consult") \/ At(s, "job", "consult") \/ At(s, "explanation", "consult")
  <2>1. PICK where \in {"candidate", "job", "explanation"} : At(s, where, "consult")
    BY <1>4
  <2>2. QED
    BY <1>4, <2>1 DEF AITypeOK, At, Moved, Stage, Step, Idle
<1>5. QED
  BY <1>1, <1>2, <1>3, <1>4 DEF Onwards

-----------------------------------------------------------------------------
(* Types                                                                   *)

\* The row that a write leaves: an extraction, or one merged into the row.
LEMMA RowsMerge ==
  ASSUME AITypeOK, NEW s \in Session, ask[s] \in Asked, ask[s].given \in Extracted,
         requirement[ask[s].job] \in RequirementRow
  PROVE  Merged(s) \in RequirementRow
<1> DEFINE given == ask[s].given
           row == requirement[ask[s].job]
           m == [f \in {"skills", "years"} |->
                   IF given[f] # None /\ given[f] # ask[s].seen[f] THEN given[f] ELSE row[f]]
<1>1. given \in RequirementRow /\ row \in RequirementRow
  BY IntelligenceAssumption
<1>2. DOMAIN given = {"skills", "years"}
  BY <1>1 DEF RequirementRow
<1>3. Merged(s) = m
  BY <1>2 DEF Merged
<1>4. m["skills"] \in {given.skills, row.skills} /\ m["years"] \in {given.years, row.years}
  OBVIOUS
<1> HIDE DEF m
<1>5. m["skills"] \in {r.skills : r \in Extracted} /\ m["years"] \in {r.years : r \in Extracted}
  BY <1>1, <1>4 DEF RequirementRow
<1>6. m = [skills |-> m["skills"], years |-> m["years"]]
  BY DEF m
<1>7. QED
  BY <1>3, <1>5, <1>6 DEF RequirementRow

LEMMA ForgetTypes ==
  ASSUME AITypeOK, NEW s \in Session, Forget(s), unsynced' \in SUBSET Job
  PROVE  AITypeOK'
<1>1. stage' \in [Session -> Stage] /\ step' \in [Session -> Step]
  BY DEF Forget, At, AITypeOK, Stage, Step
<1>2. ask' \in [Session -> Asked \cup {None}] /\ rival' \in [Session -> BOOLEAN]
  BY DEF Forget, AITypeOK
<1>3. \A t \in Session : stage'[t] # Idle <=> ask'[t] # None
  BY DEF Forget, At, AITypeOK, Active
<1>4. QED
  BY <1>1, <1>2, <1>3 DEF Forget, AITypeOK, Active

\* A step of an active request that changes at most what it has generated or found.
LEMMA StepTypes ==
  ASSUME AITypeOK, NEW s \in Session, Active(s), stage' \in [Session -> Stage],
         step' \in [Session -> Step], stage'[s] # Idle,
         \A t \in Session \ {s} : stage'[t] = stage[t],
         NEW r \in Asked, ask' = [ask EXCEPT ![s] = r],
         extraction' \in [Job -> [Text -> Extracted \cup {None, Failed}]],
         requirement' \in [Job -> RequirementRow \cup {None}],
         unsynced' \in SUBSET Job, UNCHANGED <<text, rival, calls>>
  PROVE  AITypeOK'
<1>1. ask' \in [Session -> Asked \cup {None}] /\ r # None
  BY IntelligenceAssumption DEF AITypeOK
<1>2. \A t \in Session : stage'[t] # Idle <=> ask'[t] # None
  BY <1>1 DEF AITypeOK, Active
<1>3. QED
  BY <1>1, <1>2 DEF AITypeOK, Active

LEMMA AITypeStep == AITypeOK /\ RequestsInv /\ ProfileTypeOK /\ AINext => AITypeOK'
<1> SUFFICES ASSUME AITypeOK, RequestsInv, ProfileTypeOK, AINext PROVE AITypeOK'
  OBVIOUS
<1>1. ASSUME NEW j \in Job, Republish(j) PROVE AITypeOK'
  BY <1>1 DEF Republish, AITypeOK, Active
<1>2. ASSUME NEW s \in Session, AIStep(s) PROVE AITypeOK'
  <2>a. ASSUME Active(s) PROVE ask[s] \in Asked /\ StageOK(s) /\ stage[s] \in Stage
    BY <2>a DEF AITypeOK, RequestsInv
  <2>b. ask' = ask /\ Active(s) => ask' = [ask EXCEPT ![s] = ask[s]]
    BY DEF AITypeOK
  <2>1. ASSUME NEW u \in User, NEW j \in Job, Ask(s, u, j) PROVE AITypeOK'
    <3>1. PICK kind \in {"match", "enhanced", "extract", "set"}, force \in BOOLEAN,
               given \in Extracted \cup {None}, where \in Stage \ {Idle}, what \in Step :
            Begin(s, u, j, kind, force, given, where, what)
      BY <2>1 DEF Ask, AskMatch, AskEnhanced, AskExtract, SetRequirements, Stage, Step, Idle
    <3> DEFINE r == [kind |-> kind, user |-> u, job |-> j, force |-> force, given |-> given,
                     text |-> text[j], skills |-> attached[u], needs |-> requirement[j],
                     semantic |-> TRUE, found |-> FALSE, seen |-> None, misfit |-> FALSE]
    <3>2. r \in Asked /\ r # None
      <4>1. attached[u] \in SUBSET Skill /\ text[j] \in Text /\ requirement[j] \in RequirementRow \cup {None}
        BY DEF ProfileTypeOK, AITypeOK
      <4>2. r \in Asked
        BY <4>1 DEF Asked
      <4>3. QED
        BY <4>2, IntelligenceAssumption
    <3>3. /\ At(s, where, what) /\ ask' = [ask EXCEPT ![s] = r] /\ calls' = calls + 1
          /\ UNCHANGED <<text, extraction, requirement, stored, unsynced>>
      BY <3>1 DEF Begin
    <3> HIDE DEF r
    <3>4. /\ stage' \in [Session -> Stage] /\ step' \in [Session -> Step] /\ stage'[s] = where
          /\ \A t \in Session \ {s} : stage'[t] = stage[t]
      BY <3>3, AtMoves
    <3>5. ask' \in [Session -> Asked \cup {None}]
      BY <3>2, <3>3 DEF AITypeOK
    <3>6. \A t \in Session : stage'[t] # Idle <=> ask'[t] # None
      BY <3>2, <3>3, <3>4 DEF AITypeOK, Active
    <3>7. rival' \in [Session -> BOOLEAN]
      <4> DEFINE others == {t \in Session : Rivals(u, j, t)}
      <4>1. rival' = [t \in Session |-> IF t = s THEN others # {} ELSE rival[t] \/ t \in others]
        BY <3>1 DEF Begin
      <4> HIDE DEF others
      <4>2. QED
        BY <4>1
    <3>8. QED
      BY <3>3, <3>4, <3>5, <3>6, <3>7 DEF AITypeOK, Active
  <2>2. CASE Consult(s)
    <3>1. /\ Active(s) /\ UNCHANGED <<text, extraction, requirement, stored, ask, rival, unsynced, calls>>
      BY <2>2 DEF Consult
    <3>2. /\ stage' \in [Session -> Stage] /\ step' \in [Session -> Step] /\ stage'[s] # Idle
          /\ \A t \in Session \ {s} : stage'[t] = stage[t]
      <4>1. CASE ~Hit(s)
        <5>1. At(s, stage[s], "call")
          BY <2>2, <4>1 DEF Consult
        <5>2. QED
          BY <2>a, <3>1, <5>1 DEF AITypeOK, At, Step, Active
      <4>2. CASE Hit(s) /\ stage[s] = "extraction"
        BY <2>2, <2>a, <3>1, <4>2, ReplyMoves DEF Consult, Active
      <4>3. CASE Hit(s) /\ stage[s] # "extraction"
        BY <2>2, <2>a, <3>1, <4>3, OnwardMoves DEF Consult, Moved
      <4>4. QED
        BY <4>1, <4>2, <4>3
    <3>3. QED
      BY <2>a, <2>b, <3>1, <3>2, StepTypes DEF AITypeOK
  <2>3. CASE Generate(s)
    <3>1. /\ Active(s) /\ At(s, stage[s], "look")
          /\ UNCHANGED <<text, extraction, requirement, stored, rival, unsynced, calls>>
      BY <2>3 DEF Generate
    <3>2. /\ stage' \in [Session -> Stage] /\ step' \in [Session -> Step] /\ stage'[s] # Idle
          /\ \A t \in Session \ {s} : stage'[t] = stage[t]
      BY <3>1, <2>a DEF AITypeOK, At, Step, Active
    <3>3. PICK r \in Asked : ask' = [ask EXCEPT ![s] = r]
      <4>1. CASE ask' = ask
        BY <2>a, <2>b, <3>1, <4>1
      <4>2. ASSUME NEW g \in Extracted, ask' = [ask EXCEPT ![s].given = g]
            PROVE  \E r \in Asked : ask' = [ask EXCEPT ![s] = r]
        <5>1. [ask[s] EXCEPT !.given = g] \in Asked
          BY <2>a, <3>1, <4>2 DEF Asked
        <5>2. ask' = [ask EXCEPT ![s] = [ask[s] EXCEPT !.given = g]]
          BY <4>2
        <5>3. QED
          BY <5>1, <5>2
      <4>3. QED
        BY <2>3, <4>1, <4>2 DEF Generate
    <3>4. QED
      BY <3>1, <3>2, <3>3, StepTypes DEF AITypeOK
  <2>4. CASE ProviderFails(s)
    <3>1. /\ Active(s) /\ OnProviderFailure(s)
          /\ UNCHANGED <<text, extraction, requirement, stored, rival, unsynced, calls>>
      BY <2>4 DEF ProviderFails
    <3>2. ask[s] \in Asked /\ StageOK(s)
      BY <2>a, <3>1
    <3>3. /\ [ask[s] EXCEPT !.given = Failed] \in Asked
          /\ [ask[s] EXCEPT !.semantic = FALSE] \in Asked
      BY <3>2 DEF Asked
    <3>4. CASE stage[s] = "extraction"
      <4>1. ask' = [ask EXCEPT ![s] = [ask[s] EXCEPT !.given = Failed]] /\ At(s, stage[s], "look")
        BY <3>1, <3>4 DEF OnProviderFailure
      <4>2. /\ stage' \in [Session -> Stage] /\ step' \in [Session -> Step] /\ stage'[s] # Idle
            /\ \A t \in Session \ {s} : stage'[t] = stage[t]
        BY <3>1, <2>a, <4>1 DEF AITypeOK, At, Step, Active
      <4>3. QED
        BY <3>1, <3>3, <4>1, <4>2, StepTypes DEF AITypeOK
    <3>5. CASE stage[s] \in {"candidate", "job"}
      <4>1. ask' = [ask EXCEPT ![s] = [ask[s] EXCEPT !.semantic = FALSE]] /\ Onward(s)
        BY <3>1, <3>5 DEF OnProviderFailure
      <4>2. Moved(s)
        BY <3>1, <3>2, <4>1, OnwardMoves
      <4>3. QED
        BY <3>1, <3>3, <4>1, <4>2, StepTypes DEF AITypeOK, Moved
    <3>6. CASE stage[s] \notin {"extraction", "candidate", "job"}
      <4>1. Reply(s) /\ ask' = ask
        BY <3>1, <3>6 DEF OnProviderFailure
      <4>2. QED
        BY <2>b, <3>1, <3>2, <4>1, ReplyMoves, StepTypes DEF AITypeOK, Active
    <3>7. QED
      BY <3>4, <3>5, <3>6
  <2>5. CASE LookUp(s)
    <3>1. /\ Active(s) /\ At(s, stage[s], "write")
          /\ UNCHANGED <<text, extraction, requirement, stored, rival, unsynced, calls>>
      BY <2>5 DEF LookUp
    <3> DEFINE known == Exists(s)
               loaded == IF stage[s] = "requirements" THEN requirement[ask[s].job] ELSE None
    <3>2. known \in BOOLEAN /\ loaded \in RequirementRow \cup {None}
      <4>1. known \in BOOLEAN
        <5>1. CASE stage[s] = "extraction"
          BY <5>1 DEF Exists
        <5>2. CASE stage[s] = "requirements"
          BY <5>2 DEF Exists
        <5>3. CASE stage[s] \notin {"extraction", "requirements"}
          <6>1. known = (KeyAt(s) \in stored)
            BY <5>3 DEF Exists
          <6>2. QED
            BY <6>1
        <5>4. QED
          BY <5>1, <5>2, <5>3
      <4>2. QED
        BY <2>a, <3>1, <4>1 DEF AITypeOK, Asked
    <3>3. ask' = [ask EXCEPT ![s].found = known, ![s].seen = loaded]
      BY <2>5 DEF LookUp
    <3> HIDE DEF known, loaded
    <3> DEFINE r == [[ask[s] EXCEPT !.found = known] EXCEPT !.seen = loaded]
    <3>4. r \in Asked
      BY <2>a, <3>1, <3>2 DEF Asked
    <3>5. ask' = [ask EXCEPT ![s] = r]
      BY <3>3 DEF AITypeOK
    <3> HIDE DEF r
    <3>6. /\ stage' \in [Session -> Stage] /\ step' \in [Session -> Step] /\ stage'[s] # Idle
          /\ \A t \in Session \ {s} : stage'[t] = stage[t]
      BY <3>1, <2>a DEF AITypeOK, At, Step, Active
    <3>7. QED
      BY <3>1, <3>4, <3>5, <3>6, StepTypes DEF AITypeOK
  <2>6. CASE Write(s)
    <3>1. /\ Active(s) /\ step[s] = "write" /\ WriteRow(s) /\ Onward(s)
          /\ ask' = [ask EXCEPT ![s].found = FALSE, ![s].seen = None]
          /\ unsynced' \in SUBSET Job /\ UNCHANGED <<text, rival, calls>>
      BY <2>6 DEF Write, AITypeOK
    <3>2. ask[s] \in Asked /\ StageOK(s) /\ ask[s].job \in Job /\ ask[s].text \in Text
      BY <2>a, <3>1 DEF Asked
    <3>3. Moved(s)
      BY <3>1, <3>2, OnwardMoves
    <3> DEFINE r == [[ask[s] EXCEPT !.found = FALSE] EXCEPT !.seen = None]
    <3>4. r \in Asked /\ ask' = [ask EXCEPT ![s] = r]
      BY <3>1, <3>2 DEF Asked, AITypeOK
    <3> HIDE DEF r
    <3>5. /\ extraction' \in [Job -> [Text -> Extracted \cup {None, Failed}]]
          /\ requirement' \in [Job -> RequirementRow \cup {None}]
      <4>1. CASE stage[s] = "extraction"
        <5> DEFINE g == ask[s].given
                   j == ask[s].job
                   t == ask[s].text
        <5>1. g \in Extracted \cup {None, Failed} /\ j \in Job /\ t \in Text
          BY <3>2 DEF Asked
        <5>2. extraction' = [extraction EXCEPT ![j][t] = g] /\ requirement' = requirement
          BY <3>1, <4>1 DEF WriteRow
        <5> HIDE DEF g, j, t
        <5>3. QED
          BY <5>1, <5>2 DEF AITypeOK
      <4>2. CASE stage[s] = "requirements"
        <5> DEFINE new == IF ask[s].found THEN Merged(s) ELSE ask[s].given
        <5>1. ask[s].given \in Extracted
          BY <3>1, <3>2, <4>2 DEF StageOK
        <5>2. new \in RequirementRow
          <6>1. CASE ask[s].found
            <7>1. requirement[ask[s].job] \in RequirementRow
              BY <3>1, <3>2, <4>2, <6>1 DEF StageOK, AITypeOK
            <7>2. QED
              BY <3>2, <5>1, <6>1, <7>1, RowsMerge
          <6>2. CASE ~ask[s].found
            BY <5>1, <6>2, IntelligenceAssumption
          <6>3. QED
            BY <6>1, <6>2
        <5>3. /\ requirement' = [requirement EXCEPT ![ask[s].job] = new]
              /\ extraction' = extraction
          BY <3>1, <4>2 DEF WriteRow
        <5> HIDE DEF new
        <5>4. QED
          BY <5>2, <5>3 DEF AITypeOK
      <4>3. CASE stage[s] \notin {"extraction", "requirements"}
        BY <3>1, <4>3 DEF WriteRow, AITypeOK
      <4>4. QED
        BY <4>1, <4>2, <4>3
    <3>6. QED
      BY <3>1, <3>3, <3>4, <3>5, StepTypes DEF Moved
  <2>7. CASE Refused(s)
    <3>1. /\ Active(s) /\ At(s, stage[s], "error") /\ unsynced' = LosesSync(s)
          /\ UNCHANGED <<text, extraction, requirement, stored, ask, rival, calls>>
      BY <2>7 DEF Refused
    <3>2. unsynced' \in SUBSET Job
      BY <2>a, <3>1 DEF LosesSync, AITypeOK, Asked
    <3>3. /\ stage' \in [Session -> Stage] /\ step' \in [Session -> Step] /\ stage'[s] # Idle
          /\ \A t \in Session \ {s} : stage'[t] = stage[t]
      BY <3>1, <2>a DEF AITypeOK, At, Step, Active
    <3>4. QED
      BY <2>a, <2>b, <3>1, <3>2, <3>3, StepTypes DEF AITypeOK
  <2>8. CASE Unstorable(s)
    <3>1. /\ Active(s) /\ At(s, stage[s], "error") /\ unsynced' = LosesSync(s)
          /\ ask' = [ask EXCEPT ![s].misfit = TRUE]
          /\ UNCHANGED <<text, extraction, requirement, stored, rival, calls>>
      BY <2>8 DEF Unstorable
    <3>2. unsynced' \in SUBSET Job
      BY <2>a, <3>1 DEF LosesSync, AITypeOK, Asked
    <3> DEFINE r == [ask[s] EXCEPT !.misfit = TRUE]
    <3>3. r \in Asked /\ ask' = [ask EXCEPT ![s] = r]
      BY <2>a, <3>1 DEF Asked
    <3> HIDE DEF r
    <3>4. /\ stage' \in [Session -> Stage] /\ step' \in [Session -> Step] /\ stage'[s] # Idle
          /\ \A t \in Session \ {s} : stage'[t] = stage[t]
      BY <2>a, <3>1 DEF AITypeOK, At, Step, Active
    <3>5. QED
      BY <3>1, <3>2, <3>3, <3>4, StepTypes DEF AITypeOK
  <2>9. CASE Respond(s)
    BY <2>9, ForgetTypes DEF Respond, AITypeOK
  <2>10. CASE LoseCall(s)
    <3>1. Active(s) /\ unsynced' = LosesSync(s) /\ Forget(s)
      BY <2>10 DEF LoseCall
    <3>2. unsynced' \in SUBSET Job
      BY <2>a, <3>1 DEF LosesSync, AITypeOK, Asked
    <3>3. QED
      BY <3>1, <3>2, ForgetTypes
  <2>11. QED
    BY <1>2, <2>1, <2>2, <2>3, <2>4, <2>5, <2>6, <2>7, <2>8, <2>9, <2>10 DEF AIStep
<1>3. QED
  BY <1>1, <1>2 DEF AINext

-----------------------------------------------------------------------------
(* Rivals                                                                  *)

\* What a step of s leaves of the other requests, and of the rows.
Apart(s) ==
  /\ \A t \in Session \ {s} :
       /\ stage'[t] = stage[t] /\ step'[t] = step[t] /\ ask'[t] = ask[t]
       /\ rival[t] => rival'[t]
  /\ \A j \in Job : requirement[j] # None => requirement'[j] # None

\* A key names the user or the job it is about.
LEMMA KeysDiffer ==
  ASSUME NEW s \in Session, NEW t \in Session, stage[s] \in Keyed, stage[t] \in Keyed,
         ask[s].job # ask[t].job, ask[s].user # ask[t].user
  PROVE  KeyAt(s) # KeyAt(t)
<1>1. \/ KeyAt(s) = <<"match", ask[s].user, ask[s].job>> /\ stage[s] = "match"
      \/ KeyAt(s) = <<"candidate", ask[s].user, ask[s].skills>> /\ stage[s] = "candidate"
      \/ KeyAt(s) = <<"job", ask[s].job, ask[s].text, ask[s].needs>> /\ stage[s] = "job"
      \/ /\ KeyAt(s) = <<"explanation", ask[s].user, ask[s].job, ask[s].skills, ask[s].needs,
                          ask[s].semantic>>
         /\ stage[s] = "explanation"
  BY DEF KeyAt, Keyed
<1>2. \/ KeyAt(t) = <<"match", ask[t].user, ask[t].job>> /\ stage[t] = "match"
      \/ KeyAt(t) = <<"candidate", ask[t].user, ask[t].skills>> /\ stage[t] = "candidate"
      \/ KeyAt(t) = <<"job", ask[t].job, ask[t].text, ask[t].needs>> /\ stage[t] = "job"
      \/ /\ KeyAt(t) = <<"explanation", ask[t].user, ask[t].job, ask[t].skills, ask[t].needs,
                          ask[t].semantic>>
         /\ stage[t] = "explanation"
  BY DEF KeyAt, Keyed
<1>3. KeyAt(s)[1] = stage[s] /\ KeyAt(t)[1] = stage[t]
  BY <1>1, <1>2
<1>4. KeyAt(s)[2] = (IF stage[s] = "job" THEN ask[s].job ELSE ask[s].user)
  BY <1>1
<1>5. KeyAt(t)[2] = (IF stage[t] = "job" THEN ask[t].job ELSE ask[t].user)
  BY <1>2
<1>6. QED
  BY <1>3, <1>4, <1>5

\* What s writes is the row of another request only if they meet.
LEMMA WritersMeet ==
  ASSUME AITypeOK, NEW s \in Session, NEW t \in Session \ {s}, Active(s), Active(t),
         StageOK(s), step[s] = "write", WriteRow(s),
         stage'[t] = stage[t], ask'[t] = ask[t], ~Meet(s, t)
  PROVE  /\ Exists(t)' => Exists(t)
         /\ SomeExtraction(ask[t].job)' => SomeExtraction(ask[t].job)
<1>0. /\ ask[s] \in Asked /\ ask[t] \in Asked
      /\ ask[s].job # ask[t].job /\ ask[s].user # ask[t].user
  BY DEF AITypeOK, Meet
<1>1. extraction'[ask[t].job] = extraction[ask[t].job] /\ requirement'[ask[t].job] = requirement[ask[t].job]
  <2>0. ask[s].job \in Job /\ ask[t].job \in Job
    BY <1>0 DEF Asked
  <2>1. CASE stage[s] = "extraction"
    BY <1>0, <2>0, <2>1 DEF WriteRow, AITypeOK
  <2>2. CASE stage[s] = "requirements"
    <3> DEFINE new == IF ask[s].found THEN Merged(s) ELSE ask[s].given
    <3>1. requirement' = [requirement EXCEPT ![ask[s].job] = new] /\ extraction' = extraction
      BY <2>2 DEF WriteRow
    <3> HIDE DEF new
    <3>2. QED
      BY <1>0, <2>0, <3>1 DEF AITypeOK
  <2>3. CASE stage[s] \notin {"extraction", "requirements"}
    BY <2>3 DEF WriteRow
  <2>4. QED
    BY <2>1, <2>2, <2>3
<1>2. SomeExtraction(ask[t].job)' => SomeExtraction(ask[t].job)
  BY <1>1 DEF SomeExtraction, Succeeded
<1>3. CASE stage[t] \in {"extraction", "requirements"}
  BY <1>1, <1>2, <1>3 DEF Exists
<1>4. CASE stage[t] \notin {"extraction", "requirements"}
  <2>1. stage[t] \in Keyed
    BY <1>4 DEF AITypeOK, Active, Stage, Keyed
  <2>2. KeyAt(t)' = KeyAt(t)
    BY <2>1 DEF KeyAt, Keyed
  <2>3. Exists(t) = (KeyAt(t) \in stored) /\ Exists(t)' = (KeyAt(t)' \in stored')
    BY <1>4 DEF Exists
  <2>4. CASE stage[s] \in {"extraction", "requirements"}
    <3>1. stored' = stored
      BY <2>4 DEF WriteRow
    <3>2. QED
      BY <1>2, <2>2, <2>3, <3>1
  <2>5. CASE stage[s] \notin {"extraction", "requirements"}
    <3>1. stored' = stored \cup {KeyAt(s)}
      BY <2>5 DEF WriteRow
    <3>2. stage[s] \in Keyed
      BY <2>5 DEF AITypeOK, Active, Stage, Keyed
    <3>3. KeyAt(s) # KeyAt(t)
      BY <1>0, <2>1, <3>2, KeysDiffer DEF Active
    <3>4. QED
      BY <1>2, <2>2, <2>3, <3>1, <3>3
  <2>6. QED
    BY <2>4, <2>5
<1>5. QED
  BY <1>3, <1>4

\* A row of requirements is never deleted.
LEMMA RowsKept ==
  ASSUME AITypeOK, NEW s \in Session, Active(s), StageOK(s), step[s] = "write",
         stage[s] = "requirements", WriteRow(s)
  PROVE  /\ requirement'[ask[s].job] # None
         /\ \A j \in Job : requirement[j] # None => requirement'[j] # None
<1> DEFINE new == IF ask[s].found THEN Merged(s) ELSE ask[s].given
<1>1. ask[s] \in Asked /\ ask[s].job \in Job /\ ask[s].given \in Extracted
  BY DEF AITypeOK, Asked, StageOK
<1>2. new \in RequirementRow
  <2>1. CASE ask[s].found
    <3>1. requirement[ask[s].job] \in RequirementRow
      BY <1>1, <2>1 DEF StageOK, AITypeOK
    <3>2. QED
      BY <1>1, <2>1, <3>1, RowsMerge
  <2>2. CASE ~ask[s].found
    BY <1>1, <2>2, IntelligenceAssumption
  <2>3. QED
    BY <2>1, <2>2
<1>3. requirement' = [requirement EXCEPT ![ask[s].job] = new]
  BY DEF WriteRow
<1> HIDE DEF new
<1>4. new # None
  BY <1>2, IntelligenceAssumption
<1>5. QED
  BY <1>1, <1>3, <1>4 DEF AITypeOK

\* A request stays about what it was asked.
LEMMA SameRequest ==
  ASSUME AITypeOK, NEW s \in Session, Active(s),
         \/ Consult(s) \/ Generate(s) \/ ProviderFails(s) \/ LookUp(s) \/ Write(s)
         \/ Refused(s) \/ Unstorable(s)
  PROVE  /\ ask'[s].user = ask[s].user /\ ask'[s].job = ask[s].job /\ ask'[s].kind = ask[s].kind
         /\ ~Generate(s) /\ ~ProviderFails(s) => ask'[s].given = ask[s].given
<1>0. ask[s] \in Asked
  BY DEF AITypeOK
<1>1. CASE ask' = ask
  BY <1>1
<1>2. ASSUME NEW g, ask' = [ask EXCEPT ![s].given = g]
      PROVE  ask'[s].user = ask[s].user /\ ask'[s].job = ask[s].job /\ ask'[s].kind = ask[s].kind
  BY <1>0, <1>2 DEF AITypeOK, Asked
<1>3. ASSUME ask' = [ask EXCEPT ![s].semantic = FALSE]
      PROVE  ask'[s].user = ask[s].user /\ ask'[s].job = ask[s].job /\ ask'[s].kind = ask[s].kind
  BY <1>0, <1>3 DEF AITypeOK, Asked
<1>4. ASSUME NEW known, NEW loaded, ask' = [ask EXCEPT ![s].found = known, ![s].seen = loaded]
      PROVE  /\ ask'[s].user = ask[s].user /\ ask'[s].job = ask[s].job
             /\ ask'[s].kind = ask[s].kind /\ ask'[s].given = ask[s].given
  BY <1>0, <1>4 DEF AITypeOK, Asked
<1>5. CASE Consult(s) \/ Refused(s)
  BY <1>1, <1>5 DEF Consult, Refused
<1>6. CASE Generate(s)
  BY <1>1, <1>2, <1>6 DEF Generate
<1>7. CASE ProviderFails(s)
  <2>1. OnProviderFailure(s)
    BY <1>7 DEF ProviderFails
  <2>2. \/ ask' = [ask EXCEPT ![s].given = Failed]
        \/ ask' = [ask EXCEPT ![s].semantic = FALSE]
        \/ ask' = ask
    BY <2>1 DEF OnProviderFailure
  <2>3. QED
    BY <1>1, <1>2, <1>3, <1>7, <2>2
<1>8. CASE LookUp(s)
  BY <1>4, <1>8 DEF LookUp
<1>9. CASE Write(s)
  BY <1>4, <1>9 DEF Write
<1>10. CASE Unstorable(s)
  <2>1. ask' = [ask EXCEPT ![s].misfit = TRUE]
    BY <1>10 DEF Unstorable
  <2>2. QED
    BY <1>0, <2>1 DEF AITypeOK, Asked
<1>11. QED
  BY <1>5, <1>6, <1>7, <1>8, <1>9, <1>10

\* What every step of a request shows of the others and of the rows.
LEMMA StepsApart ==
  ASSUME AITypeOK, RequestsInv, NEW s \in Session, AIStep(s)
  PROVE  Apart(s)
<1>a. ASSUME Active(s) PROVE ask[s] \in Asked /\ StageOK(s) /\ stage[s] \in Stage
  BY <1>a DEF AITypeOK, RequestsInv
<1>1. ASSUME NEW u \in User, NEW j \in Job, Ask(s, u, j) PROVE Apart(s)
  <2>1. PICK kind, force, given, where, what : Begin(s, u, j, kind, force, given, where, what)
    BY <1>1 DEF Ask, AskMatch, AskEnhanced, AskExtract, SetRequirements
  <2> DEFINE others == {t \in Session : Rivals(u, j, t)}
  <2>2. rival' = [t \in Session |-> IF t = s THEN others # {} ELSE rival[t] \/ t \in others]
    BY <2>1 DEF Begin
  <2> HIDE DEF others
  <2>3. \A t \in Session \ {s} : rival[t] => rival'[t]
    BY <2>2
  <2>4. \A t \in Session \ {s} : stage'[t] = stage[t] /\ step'[t] = step[t] /\ ask'[t] = ask[t]
    BY <2>1 DEF Begin, At, AITypeOK
  <2>5. QED
    BY <2>1, <2>3, <2>4 DEF Begin, Apart
<1>2. CASE Consult(s)
  <2>1. CASE ~Hit(s)
    BY <1>2, <2>1 DEF Consult, At, Apart, AITypeOK
  <2>2. CASE Hit(s) /\ stage[s] = "extraction"
    BY <1>2, <2>2, ReplyMoves DEF Consult, Apart
  <2>3. CASE Hit(s) /\ stage[s] # "extraction"
    BY <1>2, <1>a, <2>3, OnwardMoves DEF Consult, Apart, Moved
  <2>4. QED
    BY <2>1, <2>2, <2>3
<1>3. CASE Generate(s)
  <2>1. \A t \in Session \ {s} : ask'[t] = ask[t]
    BY <1>3 DEF Generate, AITypeOK
  <2>2. QED
    BY <1>3, <2>1 DEF Generate, At, Apart, AITypeOK
<1>4. CASE ProviderFails(s)
  <2>1. /\ Active(s) /\ OnProviderFailure(s)
        /\ UNCHANGED <<text, extraction, requirement, stored, rival, unsynced, calls>>
    BY <1>4 DEF ProviderFails
  <2>2. CASE stage[s] = "extraction"
    BY <2>1, <2>2 DEF OnProviderFailure, At, Apart, AITypeOK
  <2>3. CASE stage[s] \in {"candidate", "job"}
    <3>1. ask' = [ask EXCEPT ![s].semantic = FALSE] /\ Onward(s)
      BY <2>1, <2>3 DEF OnProviderFailure
    <3>2. Moved(s)
      BY <1>a, <2>1, <3>1, OnwardMoves
    <3>3. QED
      BY <2>1, <3>1, <3>2 DEF Moved, Apart, AITypeOK
  <2>4. CASE stage[s] \notin {"extraction", "candidate", "job"}
    BY <2>1, <2>4, ReplyMoves DEF OnProviderFailure, Apart
  <2>5. QED
    BY <2>2, <2>3, <2>4
<1>5. CASE LookUp(s)
  <2> DEFINE known == Exists(s)
             loaded == IF stage[s] = "requirements" THEN requirement[ask[s].job] ELSE None
  <2>1. ask' = [ask EXCEPT ![s].found = known, ![s].seen = loaded]
    BY <1>5 DEF LookUp
  <2> HIDE DEF known, loaded
  <2>2. \A t \in Session \ {s} : ask'[t] = ask[t]
    BY <2>1 DEF AITypeOK
  <2>3. QED
    BY <1>5, <2>2 DEF LookUp, At, Apart, AITypeOK
<1>6. CASE Write(s)
  <2>1. /\ Active(s) /\ step[s] = "write" /\ WriteRow(s) /\ Onward(s)
        /\ ask' = [ask EXCEPT ![s].found = FALSE, ![s].seen = None]
        /\ UNCHANGED <<text, rival, calls>>
    BY <1>6 DEF Write
  <2>2. Moved(s)
    BY <1>a, <2>1, OnwardMoves
  <2>3. \A j \in Job : requirement[j] # None => requirement'[j] # None
    <3>1. CASE stage[s] # "requirements"
      BY <2>1, <3>1 DEF WriteRow
    <3>2. CASE stage[s] = "requirements"
      BY <1>a, <2>1, <3>2, RowsKept
    <3>3. QED
      BY <3>1, <3>2
  <2>4. QED
    BY <2>1, <2>2, <2>3 DEF Moved, Apart, AITypeOK
<1>7. CASE Refused(s)
  BY <1>7 DEF Refused, At, Apart, AITypeOK
<1>8. CASE Unstorable(s)
  <2>1. \A t \in Session \ {s} : ask'[t] = ask[t]
    BY <1>8 DEF Unstorable, AITypeOK
  <2>2. QED
    BY <1>8, <2>1 DEF Unstorable, At, Apart, AITypeOK
<1>9. CASE Respond(s) \/ LoseCall(s)
  <2>1. Forget(s)
    BY <1>9 DEF Respond, LoseCall
  <2>2. QED
    BY <2>1 DEF Forget, At, Apart, AITypeOK
<1>10. QED
  BY <1>1, <1>2, <1>3, <1>4, <1>5, <1>6, <1>7, <1>8, <1>9 DEF AIStep

LEMMA RivalsStep ==
  ASSUME AITypeOK, RequestsInv, RivalsKnown, NEW s \in Session, AIStep(s), AITypeOK'
  PROVE  RivalsKnown'
<1>1. Apart(s)
  BY StepsApart
<1>2. ASSUME NEW u \in User, NEW j \in Job, Ask(s, u, j) PROVE RivalsKnown'
  <2>1. PICK kind, force, given, where, what : Begin(s, u, j, kind, force, given, where, what)
    BY <1>2 DEF Ask, AskMatch, AskEnhanced, AskExtract, SetRequirements
  <2>2. ask'[s].user = u /\ ask'[s].job = j
    BY <2>1 DEF Begin, AITypeOK
  <2> DEFINE others == {t \in Session : Rivals(u, j, t)}
  <2>3. rival' = [t \in Session |-> IF t = s THEN others # {} ELSE rival[t] \/ t \in others]
    BY <2>1 DEF Begin
  <2>4. ASSUME NEW t \in Session \ {s}, Active(t)', Meet(s, t)' PROVE rival'[s] /\ rival'[t]
    <3>1. t \in others
      BY <1>1, <2>2, <2>4 DEF Apart, Active, Meet, Rivals
    <3> HIDE DEF others
    <3>2. QED
      BY <2>3, <3>1
  <2> HIDE DEF others
  <2>5. ASSUME NEW t \in Session, NEW w \in Session, t # w, Active(t)', Active(w)', Meet(t, w)'
        PROVE  rival'[t]
    <3>1. CASE t = s
      BY <2>4, <2>5, <3>1
    <3>2. CASE w = s
      <4>1. Meet(s, t)'
        BY <2>5, <3>2 DEF Meet
      <4>2. QED
        BY <2>4, <2>5, <3>2, <4>1
    <3>3. CASE t # s /\ w # s
      <4>1. Active(t) /\ Active(w) /\ Meet(t, w)
        BY <1>1, <2>5, <3>3 DEF Apart, Active, Meet
      <4>2. QED
        BY <1>1, <2>5, <3>3, <4>1 DEF Apart, RivalsKnown
    <3>4. QED
      BY <3>1, <3>2, <3>3
  <2>6. QED
    BY <2>5 DEF RivalsKnown
<1>3. CASE Respond(s) \/ LoseCall(s)
  <2>1. stage'[s] = Idle
    BY <1>3 DEF Respond, LoseCall, Forget, At, AITypeOK
  <2>2. QED
    BY <1>1, <2>1 DEF Apart, RivalsKnown, Active, Meet
<1>4. CASE \/ Consult(s) \/ Generate(s) \/ ProviderFails(s) \/ LookUp(s) \/ Write(s)
           \/ Refused(s) \/ Unstorable(s)
  <2>1. Active(s) /\ rival' = rival
    BY <1>4 DEF Consult, Generate, ProviderFails, LookUp, Write, Refused, Unstorable
  <2>2. ask'[s].user = ask[s].user /\ ask'[s].job = ask[s].job
    BY <1>4, SameRequest, <2>1
  <2>3. QED
    BY <1>1, <2>1, <2>2 DEF Apart, RivalsKnown, Active, Meet
<1>5. QED
  BY <1>2, <1>3, <1>4 DEF AIStep

-----------------------------------------------------------------------------
(* Requests                                                                *)

RequestOK(s) == StageOK(s) /\ StillFree(s) /\ ErrorExplained(s)

\* A request that goes on, or is answered.
LEMMA MovedRequest ==
  ASSUME NEW s \in Session, Active(s), StageOK(s), Moved(s),
         ask'[s].kind = ask[s].kind, ask'[s].job = ask[s].job,
         stage[s] \in {"extraction", "requirements"} => ask'[s].given = ask[s].given,
         stage[s] = "extraction" /\ Syncs(s) => step[s] \in {"look", "write"},
         stage[s] = "requirements" => requirement'[ask[s].job] # None
  PROVE  RequestOK(s)'
<1> USE DEF Moved, Active
<1>1. step'[s] # "write" /\ StillFree(s)'
  BY DEF StillFree
<1>2. ErrorExplained(s)'
  <2>1. ASSUME step'[s] = "error" PROVE ask[s].kind = "extract" /\ ~Succeeded(extraction'[ask[s].job])
    BY <2>1
  <2>2. QED
    BY <2>1 DEF ErrorExplained, SomeExtraction, Succeeded
<1>3. StageOK(s)'
  <2>1. CASE /\ ask[s].kind = "enhanced" /\ step'[s] = "consult"
             /\ stage'[s] \in {"candidate", "job", "explanation"}
    BY <2>1 DEF StageOK
  <2>2. CASE /\ stage[s] = "extraction" /\ Syncs(s)
             /\ stage'[s] = "requirements" /\ step'[s] = "look"
    BY <2>2 DEF StageOK, Syncs
  <2>3. CASE stage'[s] = stage[s] /\ step'[s] \in {"done", "error"}
    BY <2>3 DEF StageOK
  <2>4. QED
    BY <2>1, <2>2, <2>3
<1>4. QED
  BY <1>1, <1>2, <1>3 DEF RequestOK

\* The step of a request leaves it in order.
LEMMA RequestStep ==
  ASSUME AITypeOK, RequestsInv, NEW s \in Session, AIStep(s)
  PROVE  RequestOK(s)'
<1>a. ASSUME Active(s)
      PROVE  /\ ask[s] \in Asked /\ stage[s] \in Stage /\ stage[s] # Idle
             /\ StageOK(s) /\ StillFree(s) /\ ErrorExplained(s)
  BY <1>a DEF AITypeOK, RequestsInv, Active
<1>1. ASSUME NEW u \in User, NEW j \in Job, Ask(s, u, j) PROVE RequestOK(s)'
  <2>1. PICK kind, force, given, where, what :
          /\ Begin(s, u, j, kind, force, given, where, what)
          /\ where \in Stage /\ what \in {"look", "consult"}
          /\ \/ where = "match" /\ kind \in {"match", "enhanced"}
             \/ where = "extraction" /\ kind = "extract" /\ what = "consult"
             \/ where = "requirements" /\ kind = "set" /\ what = "look" /\ given \in Extracted
    BY <1>1 DEF Ask, AskMatch, AskEnhanced, AskExtract, SetRequirements, Stage
  <2>2. /\ stage'[s] = where /\ step'[s] = what
        /\ ask'[s].kind = kind /\ ask'[s].given = given
    BY <2>1 DEF Begin, At, AITypeOK
  <2>3. QED
    BY <2>1, <2>2 DEF RequestOK, StageOK, StillFree, ErrorExplained, Active
<1>2. CASE Consult(s)
  <2>1. /\ Active(s) /\ step[s] = "consult" /\ ask' = ask
        /\ UNCHANGED <<extraction, requirement>>
    BY <1>2 DEF Consult
  <2>2. stage[s] # "requirements"
    BY <1>a, <2>1 DEF StageOK
  <2>3. CASE ~Hit(s)
    <3>1. stage'[s] = stage[s] /\ step'[s] = "call"
      BY <1>2, <2>3 DEF Consult, At, AITypeOK
    <3>2. QED
      BY <1>a, <2>1, <2>2, <3>1 DEF RequestOK, StageOK, StillFree, ErrorExplained, Active
  <2>4. CASE Hit(s) /\ stage[s] = "extraction"
    <3>1. Reply(s)
      BY <1>2, <2>4 DEF Consult
    <3>2. /\ stage'[s] = stage[s] /\ step'[s] \in {"done", "error"}
          /\ step'[s] = "error" => ask[s].kind = "extract" /\ ~Succeeded(extraction'[ask[s].job])
      BY <3>1, ReplyMoves
    <3>3. QED
      BY <1>a, <2>1, <2>2, <3>2
         DEF RequestOK, StageOK, StillFree, ErrorExplained, Active, SomeExtraction, Succeeded
  <2>5. CASE Hit(s) /\ stage[s] # "extraction"
    <3>1. Moved(s)
      BY <1>2, <1>a, <2>1, <2>5, OnwardMoves DEF Consult
    <3>2. QED
      BY <1>a, <2>1, <2>2, <2>5, <3>1, MovedRequest
  <2>6. QED
    BY <2>3, <2>4, <2>5
<1>3. CASE Generate(s)
  <2>1. /\ Active(s) /\ step[s] = "call" /\ stage'[s] = stage[s] /\ step'[s] = "look"
    BY <1>3 DEF Generate, At, AITypeOK
  <2>2. stage[s] # "requirements"
    BY <1>a, <2>1 DEF StageOK
  <2>3. ask'[s].kind = ask[s].kind
    BY <1>3, <2>1, SameRequest
  <2>4. stage[s] = "extraction" => ask'[s].given \in Extracted
    <3>1. ASSUME stage[s] = "extraction" PROVE \E r \in Extracted : ask' = [ask EXCEPT ![s].given = r]
      BY <1>3, <3>1 DEF Generate
    <3>2. QED
      BY <1>a, <2>1, <3>1 DEF AITypeOK, Asked
  <2>5. QED
    BY <1>a, <2>1, <2>2, <2>3, <2>4 DEF RequestOK, StageOK, StillFree, ErrorExplained, Active
<1>4. CASE ProviderFails(s)
  <2>1. /\ Active(s) /\ step[s] = "call" /\ OnProviderFailure(s)
        /\ UNCHANGED <<extraction, requirement>>
    BY <1>4 DEF ProviderFails
  <2>2. stage[s] # "requirements"
    BY <1>a, <2>1 DEF StageOK
  <2>3. ask'[s].kind = ask[s].kind /\ ask'[s].job = ask[s].job
    BY <1>4, <2>1, SameRequest
  <2>4. CASE stage[s] = "extraction"
    <3>1. At(s, stage[s], "look") /\ ask' = [ask EXCEPT ![s].given = Failed]
      BY <2>1, <2>4 DEF OnProviderFailure
    <3>2. stage'[s] = stage[s] /\ step'[s] = "look" /\ ask'[s].given = Failed
      BY <1>a, <2>1, <3>1 DEF At, AITypeOK, Asked
    <3>3. QED
      BY <1>a, <2>1, <2>2, <2>3, <2>4, <3>2 DEF RequestOK, StageOK, StillFree, ErrorExplained, Active
  <2>5. CASE stage[s] \in {"candidate", "job"}
    <3>1. Onward(s)
      BY <2>1, <2>5 DEF OnProviderFailure
    <3>2. Moved(s)
      BY <1>a, <2>1, <3>1, OnwardMoves
    <3>3. QED
      BY <1>a, <2>1, <2>2, <2>3, <2>5, <3>2, MovedRequest
  <2>6. CASE stage[s] \notin {"extraction", "candidate", "job"}
    <3>1. Reply(s)
      BY <2>1, <2>6 DEF OnProviderFailure
    <3>2. /\ stage'[s] = stage[s] /\ step'[s] \in {"done", "error"}
          /\ step'[s] = "error" => ask[s].kind = "extract" /\ ~Succeeded(extraction'[ask[s].job])
      BY <3>1, ReplyMoves
    <3>3. QED
      BY <1>a, <2>1, <2>2, <2>3, <2>6, <3>2
         DEF RequestOK, StageOK, StillFree, ErrorExplained, Active, SomeExtraction, Succeeded
  <2>7. QED
    BY <2>4, <2>5, <2>6
<1>5. CASE LookUp(s)
  <2>1. /\ Active(s) /\ step[s] = "look" /\ stage'[s] = stage[s] /\ step'[s] = "write"
        /\ UNCHANGED <<extraction, requirement, stored>>
    BY <1>5 DEF LookUp, At, AITypeOK
  <2> DEFINE known == Exists(s)
             loaded == IF stage[s] = "requirements" THEN requirement[ask[s].job] ELSE None
  <2>2. ask' = [ask EXCEPT ![s].found = known, ![s].seen = loaded]
    BY <1>5 DEF LookUp
  <2> HIDE DEF known, loaded
  <2>3. /\ ask'[s] = [[ask[s] EXCEPT !.found = known] EXCEPT !.seen = loaded]
        /\ ask'[s].found = known
    BY <1>a, <2>1, <2>2 DEF AITypeOK, Asked
  <2>4. /\ ask'[s].kind = ask[s].kind /\ ask'[s].given = ask[s].given /\ ask'[s].job = ask[s].job
        /\ ask'[s].text = ask[s].text /\ ask'[s].user = ask[s].user
        /\ ask'[s].skills = ask[s].skills /\ ask'[s].needs = ask[s].needs
        /\ ask'[s].semantic = ask[s].semantic
    BY <1>a, <2>1, <2>3 DEF Asked
  <2>5. StageOK(s)'
    <3>1. stage[s] = "requirements" => (known <=> requirement[ask[s].job] # None)
      BY DEF known, Exists
    <3>2. QED
      BY <1>a, <2>1, <2>3, <2>4, <3>1 DEF StageOK, Active
  <2>6. StillFree(s)'
    <3>1. CASE stage[s] = "extraction"
      BY <2>1, <2>3, <2>4, <3>1 DEF known, Exists, StillFree
    <3>2. CASE stage[s] = "requirements"
      BY <2>1, <2>3, <2>4, <3>2 DEF known, Exists, StillFree
    <3>3. CASE stage[s] \notin {"extraction", "requirements"}
      <4>1. KeyAt(s)' = KeyAt(s)
        <5>1. stage[s] \in Keyed
          BY <1>a, <2>1, <3>3 DEF Stage, Keyed
        <5>2. QED
          BY <2>1, <2>4, <5>1 DEF KeyAt, Keyed
      <4>2. known = (KeyAt(s) \in stored) /\ Exists(s)' = (KeyAt(s)' \in stored')
        BY <2>1, <3>3 DEF known, Exists
      <4>3. QED
        BY <2>1, <2>3, <4>1, <4>2 DEF StillFree
    <3>4. QED
      BY <3>1, <3>2, <3>3
  <2>7. QED
    BY <2>1, <2>5, <2>6 DEF RequestOK, ErrorExplained
<1>6. CASE Write(s)
  <2>1. /\ Active(s) /\ step[s] = "write" /\ WriteRow(s) /\ Onward(s)
    BY <1>6 DEF Write
  <2>2. Moved(s)
    BY <1>a, <2>1, OnwardMoves
  <2>3. stage[s] = "requirements" => requirement'[ask[s].job] # None
    BY <1>a, <2>1, RowsKept
  <2>4. /\ ask'[s].kind = ask[s].kind /\ ask'[s].job = ask[s].job /\ ask'[s].given = ask[s].given
    <3>1. ~Generate(s) /\ ~ProviderFails(s)
      BY <2>1 DEF Generate, ProviderFails
    <3>2. QED
      BY <1>6, <2>1, <3>1, SameRequest
  <2>5. QED
    BY <1>a, <2>1, <2>2, <2>3, <2>4, MovedRequest
<1>7. CASE Refused(s)
  <2>1. /\ Active(s) /\ step[s] = "write" /\ ~ask[s].found /\ Exists(s) /\ ask' = ask /\ rival' = rival
        /\ stage'[s] = stage[s] /\ step'[s] = "error" /\ requirement' = requirement
    BY <1>7 DEF Refused, At, AITypeOK
  <2>2. rival[s]
    BY <1>a, <2>1 DEF StillFree
  <2>3. QED
    BY <1>a, <2>1, <2>2 DEF RequestOK, StageOK, StillFree, ErrorExplained, Active
<1>8. CASE Unstorable(s)
  <2>1. /\ Active(s) /\ step[s] = "write" /\ ask' = [ask EXCEPT ![s].misfit = TRUE]
        /\ stage'[s] = stage[s] /\ step'[s] = "error" /\ requirement' = requirement
    BY <1>8 DEF Unstorable, At, AITypeOK
  <2>2. /\ ask'[s].misfit = TRUE /\ ask'[s].kind = ask[s].kind /\ ask'[s].given = ask[s].given
    BY <1>a, <2>1 DEF AITypeOK, Asked
  <2>3. QED
    BY <1>a, <2>1, <2>2 DEF RequestOK, StageOK, StillFree, ErrorExplained, Active
<1>9. CASE Respond(s) \/ LoseCall(s)
  <2>1. stage'[s] = Idle
    BY <1>9 DEF Respond, LoseCall, Forget, At, AITypeOK
  <2>2. QED
    BY <2>1 DEF RequestOK, StageOK, StillFree, ErrorExplained, Active
<1>10. QED
  BY <1>1, <1>2, <1>3, <1>4, <1>5, <1>6, <1>7, <1>8, <1>9 DEF AIStep

\* The step of a request leaves the others in order: what it writes of theirs
\* it writes as their rival.
LEMMA OtherRequestsStep ==
  ASSUME AITypeOK, RequestsInv, RivalsKnown, NEW s \in Session, AIStep(s),
         NEW t \in Session \ {s}
  PROVE  RequestOK(t)'
<1>1. Apart(s)
  BY StepsApart
<1>2. SUFFICES ASSUME Active(t) PROVE RequestOK(t)'
  BY <1>1 DEF Apart, RequestOK, StageOK, StillFree, ErrorExplained, Active
<1>3. /\ ask[t] \in Asked /\ stage[t] \in Stage /\ ask[t].job \in Job
      /\ StageOK(t) /\ StillFree(t) /\ ErrorExplained(t)
  BY <1>2 DEF AITypeOK, RequestsInv, Asked
<1>4. /\ stage'[t] = stage[t] /\ step'[t] = step[t] /\ ask'[t] = ask[t]
      /\ rival[t] => rival'[t]
      /\ requirement[ask[t].job] # None => requirement'[ask[t].job] # None
  BY <1>1, <1>3 DEF Apart
<1>5. StageOK(t)'
  BY <1>3, <1>4 DEF StageOK, Active
<1>6. \/ rival[t]
      \/ /\ Exists(t)' => Exists(t)
         /\ SomeExtraction(ask[t].job)' => SomeExtraction(ask[t].job)
  <2>1. CASE Write(s)
    <3>1. Active(s) /\ step[s] = "write" /\ WriteRow(s)
      BY <2>1 DEF Write
    <3>2. StageOK(s)
      BY DEF RequestsInv
    <3>3. CASE Meet(s, t)
      BY <1>2, <3>1, <3>3 DEF RivalsKnown, Meet
    <3>4. CASE ~Meet(s, t)
      BY <1>2, <1>4, <3>1, <3>2, <3>4, WritersMeet
    <3>5. QED
      BY <3>3, <3>4
  <2>2. CASE ~Write(s)
    <3>1. UNCHANGED <<extraction, requirement, stored>>
      BY <2>2 DEF AIStep, Ask, AskMatch, AskEnhanced, AskExtract, SetRequirements, Begin, Consult,
                  Generate, ProviderFails, LookUp, Refused, Unstorable, Respond, LoseCall, Forget
    <3>2. Exists(t)' <=> Exists(t)
      BY <1>4, <3>1 DEF Exists, KeyAt
    <3>3. SomeExtraction(ask[t].job)' <=> SomeExtraction(ask[t].job)
      BY <1>4, <3>1 DEF SomeExtraction, Succeeded
    <3>4. QED
      BY <3>2, <3>3
  <2>3. QED
    BY <2>1, <2>2
<1>7. StillFree(t)' /\ ErrorExplained(t)'
  BY <1>3, <1>4, <1>6 DEF StillFree, ErrorExplained, Active
<1>8. QED
  BY <1>5, <1>7 DEF RequestOK

-----------------------------------------------------------------------------
(* Extractions                                                             *)

\* What the request that extracted holds for its job.
Writes(s, j) == Active(s) /\ ask[s].job = j /\ Between(s) /\ step[s] # "error"

LEMMA ExtractionsStep ==
  ASSUME AITypeOK, RequestsInv, ExtractionsReachRequirements, NEW s \in Session, AIStep(s)
  PROVE  ExtractionsReachRequirements'
<1>0. SUFFICES ASSUME NEW j \in Job, SomeExtraction(j)'
               PROVE  \/ requirement'[j] # None
                      \/ \E t \in Session : Writes(t, j)'
                      \/ j \in unsynced'
  BY DEF ExtractionsReachRequirements, Writes
<1>1. Apart(s)
  BY StepsApart
<1>2. \A t \in Session \ {s} : Writes(t, j) => Writes(t, j)'
  BY <1>1 DEF Apart, Writes, Between, Active
<1>3. requirement[j] # None => requirement'[j] # None
  BY <1>1 DEF Apart
<1>a. ASSUME Active(s) PROVE ask[s] \in Asked /\ StageOK(s)
  BY <1>a DEF AITypeOK, RequestsInv
\* What was true of the job remains, unless s was to write its requirements.
<1>4. ASSUME SomeExtraction(j), j \in unsynced => j \in unsynced' \/ requirement'[j] # None,
             Writes(s, j) => \/ requirement'[j] # None
                             \/ Writes(s, j)'
                             \/ j \in unsynced'
      PROVE  \/ requirement'[j] # None
             \/ \E t \in Session : Writes(t, j)'
             \/ j \in unsynced'
  <2>1. CASE requirement[j] # None
    BY <1>3, <2>1
  <2>2. CASE j \in unsynced
    BY <1>4, <2>2
  <2>3. CASE \E t \in Session : Writes(t, j)
    BY <1>2, <1>4, <2>3
  <2>4. QED
    BY <1>4, <2>1, <2>2, <2>3 DEF ExtractionsReachRequirements, Writes
<1>5. CASE ~Write(s)
  <2>1. SomeExtraction(j)
    <3>1. extraction' = extraction
      BY <1>5 DEF AIStep, Ask, AskMatch, AskEnhanced, AskExtract, SetRequirements, Begin, Consult,
                  Generate, ProviderFails, LookUp, Refused, Unstorable, Respond, LoseCall, Forget
    <3>2. QED
      BY <1>0, <3>1 DEF SomeExtraction, Succeeded
  <2>2. unsynced \subseteq unsynced'
    BY <1>5 DEF AIStep, Ask, AskMatch, AskEnhanced, AskExtract, SetRequirements, Begin, Consult,
                Generate, ProviderFails, LookUp, Refused, Unstorable, Respond, LoseCall,
                LosesSync
  <2>3. ASSUME Writes(s, j)
        PROVE  requirement'[j] # None \/ Writes(s, j)' \/ j \in unsynced'
    <3>1. /\ Active(s) /\ ask[s].job = j /\ stage[s] = "requirements" /\ ask[s].kind = "extract"
          /\ step[s] # "error" /\ StageOK(s) /\ Between(s) /\ ask[s] \in Asked
      BY <1>a, <2>3 DEF Writes, Between
    <3>2. CASE Refused(s) \/ Unstorable(s) \/ LoseCall(s)
      BY <3>1, <3>2 DEF Refused, Unstorable, LoseCall, LosesSync
    <3>3. CASE Respond(s)
      BY <1>3, <3>1, <3>3 DEF Respond, StageOK
    <3>4. CASE LookUp(s)
      <4>1. stage'[s] = stage[s] /\ step'[s] = "write"
        BY <3>4 DEF LookUp, At, AITypeOK
      <4>2. ask'[s].job = ask[s].job /\ ask'[s].kind = ask[s].kind
        BY <3>1, <3>4, SameRequest
      <4>3. QED
        BY <3>1, <4>1, <4>2 DEF Writes, Between, Active
    <3>5. ~Consult(s) /\ ~Generate(s) /\ ~ProviderFails(s)
      BY <3>1 DEF Consult, Generate, ProviderFails, StageOK
    <3>6. ASSUME NEW u \in User, NEW i \in Job PROVE ~Ask(s, u, i)
      BY <3>1 DEF Ask, AskMatch, AskEnhanced, AskExtract, SetRequirements, Begin
    <3>7. QED
      BY <1>5, <3>2, <3>3, <3>4, <3>5, <3>6 DEF AIStep
  <2>4. QED
    BY <1>4, <2>1, <2>2, <2>3
<1>6. CASE Write(s)
  <2>1. /\ Active(s) /\ step[s] = "write" /\ WriteRow(s) /\ Onward(s)
        /\ ask' = [ask EXCEPT ![s].found = FALSE, ![s].seen = None]
        /\ unsynced' = IF stage[s] = "requirements" THEN unsynced \ {ask[s].job} ELSE unsynced
    BY <1>6 DEF Write
  <2>2. ask[s] \in Asked /\ StageOK(s) /\ ask[s].job \in Job /\ ask[s].text \in Text
    BY <1>a, <2>1 DEF Asked
  <2>3. CASE stage[s] = "requirements"
    <3>1. requirement'[ask[s].job] # None /\ extraction' = extraction
      BY <2>1, <2>2, <2>3, RowsKept DEF WriteRow
    <3>2. SomeExtraction(j)
      BY <1>0, <3>1 DEF SomeExtraction, Succeeded
    <3>3. QED
      BY <1>4, <2>1, <3>1, <3>2 DEF Writes
  <2>4. CASE stage[s] = "extraction"
    <3>1. extraction' = [extraction EXCEPT ![ask[s].job][ask[s].text] = ask[s].given]
      BY <2>1, <2>4 DEF WriteRow
    <3>2. ask[s].given \in Extracted \cup {Failed}
      BY <2>1, <2>2, <2>4 DEF StageOK
    <3>3. ~Writes(s, j)
      BY <2>4 DEF Writes, Between
    <3>4. CASE ask[s].job = j /\ Syncs(s)
      <4>1. ask[s].kind = "extract"
        BY <2>1, <2>2, <2>4 DEF StageOK
      <4>2. ask'[s].kind = ask[s].kind /\ ask'[s].job = ask[s].job
        BY <1>6, <2>1, SameRequest
      <4>3. stage'[s] = "requirements" /\ step'[s] = "look"
        BY <2>1, <2>2, <2>4, <3>4, <4>1, OnwardMoves DEF Moved
      <4>4. Writes(s, j)'
        BY <3>4, <4>1, <4>2, <4>3 DEF Writes, Between, Active, Idle
      <4>5. QED
        BY <4>4
    <3>5. CASE ~(ask[s].job = j /\ Syncs(s))
      <4>1. SomeExtraction(j)
        <5>1. PICK w \in Text : extraction'[j][w] \in Extracted
          BY <1>0 DEF SomeExtraction, Succeeded
        <5>2. ask[s].job = j => ask[s].given \notin Extracted
          BY <3>5, IntelligenceAssumption DEF Syncs
        <5>3. extraction'[j][w] = extraction[j][w]
          BY <2>2, <3>1, <5>1, <5>2 DEF AITypeOK
        <5>4. QED
          BY <5>1, <5>3 DEF SomeExtraction, Succeeded
      <4>2. QED
        BY <1>4, <2>1, <2>4, <3>3, <4>1
    <3>6. QED
      BY <3>4, <3>5
  <2>5. CASE stage[s] \notin {"extraction", "requirements"}
    <3>1. extraction' = extraction
      BY <2>1, <2>5 DEF WriteRow
    <3>2. SomeExtraction(j)
      BY <1>0, <3>1 DEF SomeExtraction, Succeeded
    <3>3. QED
      BY <1>4, <2>1, <2>5, <3>2 DEF Writes, Between
  <2>6. QED
    BY <2>3, <2>4, <2>5
<1>7. QED
  BY <1>5, <1>6

-----------------------------------------------------------------------------

\* Every step of the services keeps AIInv, whoever fails and whatever overlaps.
LEMMA AIInvStep == AIInv /\ ProfileTypeOK /\ AINext => AIInv'
<1> SUFFICES ASSUME AIInv, ProfileTypeOK, AINext PROVE AIInv'
  OBVIOUS
<1>1. AITypeOK /\ RivalsKnown /\ RequestsInv /\ ExtractionsReachRequirements
  BY DEF AIInv
<1>2. AITypeOK'
  BY <1>1, AITypeStep
<1>3. ASSUME NEW s \in Session, AIStep(s)
      PROVE  RivalsKnown' /\ RequestsInv' /\ ExtractionsReachRequirements'
  <2>1. RivalsKnown' /\ ExtractionsReachRequirements'
    BY <1>1, <1>2, <1>3, RivalsStep, ExtractionsStep
  <2>2. ASSUME NEW t \in Session PROVE RequestOK(t)'
    BY <1>1, <1>3, RequestStep, OtherRequestsStep
  <2>3. QED
    BY <2>1, <2>2 DEF RequestsInv, RequestOK
<1>4. ASSUME NEW j \in Job, Republish(j)
      PROVE  RivalsKnown' /\ RequestsInv' /\ ExtractionsReachRequirements'
  <2>1. UNCHANGED <<extraction, requirement, stored, stage, step, ask, rival, unsynced>>
    BY <1>4 DEF Republish
  <2>2. RivalsKnown' /\ ExtractionsReachRequirements'
    BY <1>1, <2>1 DEF RivalsKnown, Meet, Active, ExtractionsReachRequirements, SomeExtraction,
                      Succeeded, Between
  <2>3. RequestsInv'
    BY <1>1, <2>1 DEF RequestsInv, StageOK, StillFree, ErrorExplained, Exists, KeyAt, Active,
                      SomeExtraction, Succeeded
  <2>4. QED
    BY <2>2, <2>3
<1>5. QED
  BY <1>2, <1>3, <1>4 DEF AINext, AIInv

-----------------------------------------------------------------------------
(* The portal                                                              *)

\* The applications' invariant holds in every state of the portal.
THEOREM PortalKeepsAppInv == PortalSpec => []AppInv
<1>1. PortalInit => AppInv
  BY AppInvInit DEF PortalInit
<1>2. AppInv /\ [PortalNext]_portal => AppInv'
  BY AppInvStep, AppInvStutter DEF PortalNext, ProfileActs, AppActs, AIActs, IngestionActs, portal
<1>3. QED
  BY <1>1, <1>2, PTL DEF PortalSpec

\* Status and history of an application never part, and every entry is a
\* transition the table allows, for any number of candidates, applications and
\* overlapping requests.
THEOREM TrailsAreSound == PortalSpec => []AuditTrail
  BY PortalKeepsAppInv, PTL DEF AppInv

\* Without overlapping status requests no entry skips a status.
THEOREM TrailsAreUnbroken == PortalSpec => []UnbrokenTrail
  BY PortalKeepsAppInv, PTL DEF AppInv

\* However requests race, no candidate has two applications for one job.
THEOREM ApplicationsAreUnique == PortalSpec => []OneApplicationPerJob
  BY PortalKeepsAppInv, PTL DEF AppInv

\* A deleted application leaves nothing behind, however late a request is.
THEOREM DeletionIsComplete == PortalSpec => []NoOrphans
  BY PortalKeepsAppInv, PTL DEF AppInv

-----------------------------------------------------------------------------

\* The profiles' invariant holds in every state of the portal.
THEOREM PortalKeepsProfileInv == PortalSpec => []ProfileInv
<1>1. PortalInit => ProfileInv
  BY ProfileInvInit DEF PortalInit
<1>2. ProfileInv /\ [PortalNext]_portal => ProfileInv'
  BY ProfileInvStep, ProfileInvStutter
  DEF PortalNext, ProfileActs, AppActs, AIActs, IngestionActs, portal
<1>3. QED
  BY <1>1, <1>2, PTL DEF PortalSpec

\* The stored percentage is the completeness of the profile, but for requests
\* that overlapped and requests that died before storing it.
THEOREM PercentagesAccountedFor == PortalSpec => []PercentAccountedFor
<1>1. ProfileInv => PercentAccountedFor
  BY DEF ProfileInv
<1>2. QED
  BY <1>1, PortalKeepsProfileInv, PTL

-----------------------------------------------------------------------------

\* The ingestions' invariant holds in every state of the portal.
THEOREM PortalKeepsIngestionInv == PortalSpec => []IngestionInv
<1>1. PortalInit => IngestionInv
  BY IngestionInvInit DEF PortalInit
<1>2. IngestionInv /\ [PortalNext]_portal => IngestionInv'
  BY IngestionInvStep, IngestionInvStutter
  DEF PortalNext, ProfileActs, AppActs, AIActs, IngestionActs, portal
<1>3. QED
  BY <1>1, <1>2, PTL DEF PortalSpec

\* However often the portal fails, cuts its pages short, changes its list or pages
\* on without end, a fetch stays within the requests its limits and retries allow:
\* Lever's pages, or one request per posting below Workday's largest offset.
THEOREM FetchesAreBounded == PortalSpec => []RequestsBounded
  BY PortalKeepsIngestionInv, RequestsFollow, PTL

\* Of any number of ingestions, none counts a row as persisted that another
\* counted, and each leaves at most one row that it inserted uncounted, having
\* failed or been lost at it.
THEOREM RowsAreCountedOnce == PortalSpec => []RowsCountedOnce
<1>1. PortalInit => RowsCountedOnce
  BY RowsInit DEF PortalInit
<1>2. IngestionInv /\ RowsCountedOnce /\ [PortalNext]_portal => RowsCountedOnce'
  <2>1. [PortalNext]_portal => [IngestionNext]_ingestionVars
    BY DEF PortalNext, ProfileActs, AppActs, AIActs, IngestionActs, portal
  <2>2. QED
    BY <2>1, CountedStep
<1>3. QED
  BY <1>1, <1>2, PortalKeepsIngestionInv, PTL DEF PortalSpec

\* A posting is left out for a reason that is its own or the session's.
THEOREM SkipsAreExplained == PortalSpec => []SkipsExplained
  BY PortalKeepsIngestionInv, PTL DEF IngestionInv

\* For every page size and page limit, an undisturbed fetch of a list within
\* them brings the whole list, in order.
THEOREM UndisturbedFetchIsWhole == PortalSpec => QuietListFetchedWhole
<1>1. IngestionInv /\ [PortalNext]_portal =>
        [\A c \in Call :
           phase[c] = "fetch" /\ phase'[c] = "store" /\ ~moved[c] /\ Fits(feed)
             => fetched'[c] = feed]_ingestionVars
  BY FetchWhole DEF PortalNext, ProfileActs, AppActs, AIActs, IngestionActs, portal
<1>2. QED
  BY <1>1, PortalKeepsIngestionInv, PTL DEF PortalSpec, QuietListFetchedWhole

-----------------------------------------------------------------------------

\* The services' invariant holds in every state of the portal: what they load
\* of the profiles is typed whatever the profile requests do meanwhile.
THEOREM PortalKeepsAIInv == PortalSpec => []AIInv
<1>1. PortalInit => AIInv
  BY AIInvInit DEF PortalInit
<1>2. ProfileInv /\ AIInv /\ [PortalNext]_portal => AIInv'
  BY AIInvStep, AIInvStutter
  DEF PortalNext, ProfileActs, AppActs, AIActs, IngestionActs, portal, ProfileInv
<1>3. QED
  BY <1>1, <1>2, PortalKeepsProfileInv, PTL DEF PortalSpec

\* Whatever providers do, a matching or AI request ends with a server error only
\* because another overlapped it, because the database cannot store what it was
\* told, or because the extraction it is to show does not exist, or not any more.
THEOREM ErrorsAreExplained == PortalSpec => []ErrorsExplained
<1>1. AIInv => ErrorsExplained
  BY DEF AIInv, RequestsInv, ErrorExplained, ErrorsExplained
<1>2. QED
  BY <1>1, PortalKeepsAIInv, PTL

\* A successful extraction reaches the requirements, is about to, or belongs to
\* a request that was lost or refused before it wrote them.
THEOREM ExtractionsAreSynced == PortalSpec => []ExtractionsReachRequirements
<1>1. AIInv => ExtractionsReachRequirements
  BY DEF AIInv
<1>2. QED
  BY <1>1, PortalKeepsAIInv, PTL

\* The portal's variables keep their types.
THEOREM PortalTypeCorrect == PortalSpec => []PortalTypeOK
<1>1. ProfileInv /\ AppInv /\ AIInv /\ IngestionInv => PortalTypeOK
  BY DEF PortalTypeOK, ProfileInv, AppInv, AIInv, IngestionInv
<1>2. QED
  BY <1>1, PortalKeepsProfileInv, PortalKeepsAppInv, PortalKeepsAIInv, PortalKeepsIngestionInv, PTL

=============================================================================

------------------------- MODULE ApplicationsProofs -------------------------
(***************************************************************************)
(* Proofs about Profile and about Applications on top of it.               *)
(*                                                                         *)
(* The invariant ProfileInv holds initially, and every step of ProfileNext *)
(* and every step that leaves profileVars alone keeps it.  It adds to the  *)
(* properties what a request has in hand at each of its steps, and that a  *)
(* percentage still counted as fresh is about to be stored and is the      *)
(* completeness of the moment.                                             *)
(*                                                                         *)
(* The invariant AppInv is kept by AppNext and whatever leaves appVars     *)
(* alone.  It adds to the properties that a status request still under way *)
(* has seen the present status of its application, unless another status   *)
(* request overlapped it, and that ids in use are never given out again.   *)
(***************************************************************************)
EXTENDS Applications, TLAPS


\* The labels at which the profile of the request exists.
Inside == {"refresh", "store", "ready", "newskill", "attach", "newprefs", "saving"}

\* What a request at label has in hand.
Knows(existing, label, u, x) ==
  /\ label # Idle => u \in User
  /\ label \in Inside => u \in existing
  /\ label \in {"newskill", "attach"} => x \in Skill
  /\ label = "newprefs" => x \in {None, "empty", "set"}
  /\ label = "saving" => x \in Job

InHand ==
  /\ pc \in [Session -> ProfilePC]
  /\ item \in [Session -> Skill \cup Job \cup {None, "empty", "set"}]
  /\ \A s \in Session : Knows(profile, pc[s], user[s], item[s])

FreshIsExact ==
  \A s \in Session : fresh[s] =>
    pc[s] = "store" /\ \A u \in User : user[s] = u => calc[s] = Completeness(u)

ProfileInv == ProfileTypeOK /\ InHand /\ FreshIsExact /\ PercentAccountedFor

\* The sections' weights add up to a hundred.
LEMMA CompletenessIsPercentage == \A u \in User : Completeness(u) \in 0..100
<1> SUFFICES ASSUME NEW u \in User PROVE Completeness(u) \in 0..100
  OBVIOUS
<1>1. /\ Worth(u, "basic_identity") \in {0, 15}
      /\ Worth(u, "headline") \in {0, 10}
      /\ Worth(u, "bio") \in {0, 10}
      /\ Worth(u, "skills") \in {0, 20}
      /\ Worth(u, "experience") \in {0, 20}
      /\ Worth(u, "education") \in {0, 10}
      /\ Worth(u, "preferences") \in {0, 15}
  BY DEF Worth, Weight
<1>2. QED
  BY <1>1 DEF Completeness

\* Only these rows of a user count.
Counted(u) == <<filled[u], entries[u], attached[u], HasPreferences(u)>>

LEMMA CompletenessRestsOnRows ==
  ASSUME NEW u, Counted(u)' = Counted(u)
  PROVE  Completeness(u)' = Completeness(u)
BY DEF Counted, Completeness, Worth, Complete

LEMMA ProfileInvInit == ProfileInit => ProfileInv
<1> SUFFICES ASSUME ProfileInit PROVE ProfileInv
  OBVIOUS
<1> USE DEF ProfileInit
<1>1. ProfileTypeOK
  BY ProfileAssumption DEF ProfileTypeOK, Idle
<1>2. InHand
  <2>1. pc \in [Session -> ProfilePC]
    BY DEF ProfilePC
  <2>2. item \in [Session -> Skill \cup Job \cup {None, "empty", "set"}]
    OBVIOUS
  <2>3. ASSUME NEW s \in Session PROVE Knows(profile, pc[s], user[s], item[s])
    <3>1. pc[s] = "idle"
      BY DEF Idle
    <3>2. QED
      BY <3>1 DEF Knows, Inside, Idle
  <2>4. QED
    BY <2>1, <2>2, <2>3 DEF InHand
<1>3. FreshIsExact
  <2>1. \A s \in Session : ~fresh[s]
    BY Zenon
  <2>2. QED
    BY <2>1 DEF FreshIsExact
<1>p. PercentAccountedFor
  BY Zenon DEF PercentAccountedFor
<1>4. QED
  BY <1>1, <1>2, <1>3, <1>p DEF ProfileInv

\* A step of another component.
LEMMA ProfileInvStutter == ProfileInv /\ UNCHANGED profileVars => ProfileInv'
<1> SUFFICES ASSUME ProfileInv, UNCHANGED profileVars PROVE ProfileInv'
  OBVIOUS
<1> USE DEF ProfileInv, profileVars, rows, control
<1>1. ProfileTypeOK' /\ InHand'
  BY DEF ProfileTypeOK, InHand, Knows
<1>2. \A u : Completeness(u)' = Completeness(u)
  BY CompletenessRestsOnRows DEF Counted, HasPreferences
<1>3. FreshIsExact'
  BY <1>2 DEF FreshIsExact
<1>4. PercentAccountedFor'
  BY <1>2 DEF PercentAccountedFor, Refreshing
<1>5. QED
  BY <1>1, <1>3, <1>4

-----------------------------------------------------------------------------
(* What requests have in hand                                              *)

ControlOK ==
  /\ user \in [Session -> User \cup {None}]
  /\ calc \in [Session -> 0..100]
  /\ then \in [Session -> {Idle, "ready"}]
  /\ fresh \in [Session -> BOOLEAN]
  /\ InHand

\* A step of session s replaces what s has in hand; profiles only come.
LEMMA MoveKeepsControl ==
  ASSUME ControlOK, NEW s \in Session, profile \subseteq profile',
         NEW label \in ProfilePC, NEW u \in User \cup {None},
         NEW x \in Skill \cup Job \cup {None, "empty", "set"},
         Knows(profile', label, u, x),
         pc' = [pc EXCEPT ![s] = label],
         user' = [user EXCEPT ![s] = u],
         item' = [item EXCEPT ![s] = x],
         calc' \in [Session -> 0..100],
         then' \in [Session -> {Idle, "ready"}],
         fresh' \in [Session -> BOOLEAN]
  PROVE  ControlOK'
<1> USE DEF ControlOK, InHand
<1>1. /\ pc' \in [Session -> ProfilePC]
      /\ item' \in [Session -> Skill \cup Job \cup {None, "empty", "set"}]
      /\ user' \in [Session -> User \cup {None}]
  OBVIOUS
<1>2. ASSUME NEW t \in Session PROVE Knows(profile', pc'[t], user'[t], item'[t])
  <2>1. CASE t = s
    <3>1. pc'[t] = label /\ user'[t] = u /\ item'[t] = x
      BY <2>1
    <3>2. QED
      BY <3>1 DEF Knows
  <2>2. CASE t # s
    <3>1. pc'[t] = pc[t] /\ user'[t] = user[t] /\ item'[t] = item[t]
      BY <2>2
    <3>2. QED
      BY <3>1 DEF Knows
  <2>3. QED
    BY <2>1, <2>2
<1>3. QED
  BY <1>1, <1>2

LEMMA ReturnKeepsControl ==
  ASSUME ControlOK, NEW s \in Session, profile \subseteq profile', Return(s)
  PROVE  ControlOK'
<1>1. Knows(profile', Idle, None, None) /\ Idle \in ProfilePC
  BY DEF Knows, Inside, Idle, ProfilePC
<1>2. /\ calc' \in [Session -> 0..100]
      /\ then' \in [Session -> {Idle, "ready"}]
      /\ fresh' \in [Session -> BOOLEAN]
  BY DEF Return, ControlOK
<1>3. QED
  BY <1>1, <1>2, MoveKeepsControl DEF Return, Goto

LEMMA ProceedKeepsControl ==
  ASSUME ControlOK, NEW s \in Session, UNCHANGED profile,
         NEW label \in ProfilePC, NEW x \in Skill \cup Job \cup {None, "empty", "set"},
         Knows(profile, label, user[s], x), Proceed(s, label, x)
  PROVE  ControlOK'
<1>1. Knows(profile', label, user[s], x)
  BY DEF Knows, Proceed
<1>2. user[s] \in User \cup {None} /\ user' = [user EXCEPT ![s] = user[s]]
  BY DEF ControlOK, Proceed
<1>3. QED
  BY <1>1, <1>2, MoveKeepsControl DEF Proceed, Goto, ControlOK

LEMMA RefreshKeepsControl ==
  ASSUME ControlOK, NEW s \in Session, UNCHANGED profile, pc[s] \in Inside, Refresh(s),
         fresh' \in [Session -> BOOLEAN]
  PROVE  ControlOK'
<1>1. Knows(profile', "refresh", user[s], None) /\ "refresh" \in ProfilePC
  BY DEF Knows, ProfilePC, Refresh, ControlOK, InHand, Inside, Idle
<1>2. user[s] \in User \cup {None} /\ user' = [user EXCEPT ![s] = user[s]]
  BY DEF ControlOK, Refresh
<1>3. QED
  BY <1>1, <1>2, MoveKeepsControl DEF Refresh, Goto, ControlOK

LEMMA OvertakeKeepsTypes ==
  ASSUME ControlOK, NEW s \in Session, NEW u, Overtake(s, u)
  PROVE  fresh' \in [Session -> BOOLEAN]
BY DEF ControlOK, Overtake

-----------------------------------------------------------------------------
(* Percentages                                                             *)

\* Nothing changes in the hands of the other sessions.
Elsewhere(s) ==
  \A t \in Session \ {s} :
    pc'[t] = pc[t] /\ user'[t] = user[t] /\ calc'[t] = calc[t] /\ fresh'[t] = fresh[t]

LEMMA ReturnIsLocal ==
  ASSUME ControlOK, NEW s \in Session, Return(s)
  PROVE  Elsewhere(s) /\ ~fresh'[s]
<1>1. Elsewhere(s)
  BY DEF Elsewhere, Return, Goto, ControlOK, InHand
<1>2. fresh'[s] = FALSE
  BY DEF Return, ControlOK
<1>3. QED
  BY <1>1, <1>2

LEMMA ProceedIsLocal ==
  ASSUME ControlOK, FreshIsExact, NEW s \in Session, NEW label, NEW x, Proceed(s, label, x),
         pc[s] # "store"
  PROVE  Elsewhere(s) /\ ~fresh'[s]
<1>1. Elsewhere(s)
  BY DEF Elsewhere, Proceed, Goto, ControlOK, InHand
<1>2. QED
  BY <1>1 DEF Proceed, FreshIsExact

\* The step of a request that has no percentage to refresh, and after which
\* every profile is as complete as before.
LEMMA QuietStep ==
  ASSUME FreshIsExact, PercentAccountedFor, ControlOK, NEW s \in Session,
         pc[s] \notin {"refresh", "store"},
         UNCHANGED <<profile, percent, spoiled>>,
         \A u \in User : Completeness(u)' = Completeness(u),
         profile \subseteq User,
         Elsewhere(s), ~fresh'[s]
  PROVE  FreshIsExact' /\ PercentAccountedFor'
<1>1. ASSUME NEW t \in Session, fresh'[t]
      PROVE  /\ pc'[t] = "store"
             /\ \A u \in User : user'[t] = u => calc'[t] = Completeness(u)'
  <2>1. fresh[t] /\ pc'[t] = pc[t] /\ user'[t] = user[t] /\ calc'[t] = calc[t]
    BY <1>1 DEF Elsewhere
  <2>2. QED
    BY <2>1 DEF FreshIsExact
<1>2. ASSUME NEW u \in profile'
      PROVE  \/ percent'[u] = Completeness(u)'
             \/ \E t \in Session : Refreshing(t, u)'
             \/ u \in spoiled'
  <2>1. \A t \in Session : Refreshing(t, u) => Refreshing(t, u)'
    BY DEF Refreshing, Elsewhere
  <2>2. QED
    BY <2>1 DEF PercentAccountedFor
<1>3. QED
  BY <1>1, <1>2 DEF FreshIsExact, PercentAccountedFor

\* The commit of a change, after which only the profile of the request is as
\* complete as it may be; its refresh comes next.
LEMMA ChangedStep ==
  ASSUME FreshIsExact, PercentAccountedFor, ControlOK, NEW s \in Session,
         pc[s] \notin {Idle, "refresh", "store"},
         UNCHANGED <<profile, percent, spoiled>>,
         \A u \in User \ {user[s]} : Completeness(u)' = Completeness(u),
         profile \subseteq User,
         Changed(s)
  PROVE  FreshIsExact' /\ PercentAccountedFor'
<1>1. /\ pc'[s] = "refresh" /\ user'[s] = user[s]
      /\ \A t \in Session \ {s} : pc'[t] = pc[t] /\ user'[t] = user[t] /\ calc'[t] = calc[t]
  BY DEF Changed, Refresh, Goto, ControlOK, InHand
<1>2. \A t \in Session : fresh'[t] => t # s /\ user[t] # user[s] /\ fresh[t]
  <2>1. ~fresh[s]
    BY DEF FreshIsExact
  <2>2. fresh' = [t \in Session |-> IF t # s /\ user[t] = user[s] THEN FALSE ELSE fresh[t]]
    BY DEF Changed, Overtake
  <2>3. ASSUME NEW t \in Session, fresh'[t] PROVE t # s /\ user[t] # user[s] /\ fresh[t]
    BY <2>1, <2>2, <2>3
  <2>4. QED
    BY <2>3
<1>3. ASSUME NEW t \in Session, fresh'[t]
      PROVE  /\ pc'[t] = "store"
             /\ \A u \in User : user'[t] = u => calc'[t] = Completeness(u)'
  BY <1>1, <1>2, <1>3 DEF FreshIsExact
<1>4. ASSUME NEW u \in profile'
      PROVE  \/ percent'[u] = Completeness(u)'
             \/ \E t \in Session : Refreshing(t, u)'
             \/ u \in spoiled'
  <2>1. CASE u = user[s]
    BY <1>1, <2>1 DEF Refreshing
  <2>2. CASE u # user[s]
    <3>1. \A t \in Session : Refreshing(t, u) => Refreshing(t, u)'
      BY <1>1, <2>2 DEF Refreshing
    <3>2. QED
      BY <2>2, <3>1 DEF PercentAccountedFor
  <2>3. QED
    BY <2>1, <2>2
<1>5. QED
  BY <1>3, <1>4 DEF FreshIsExact, PercentAccountedFor

-----------------------------------------------------------------------------
(* The steps                                                               *)

RowsOK ==
  /\ account \in SUBSET User /\ profile \in SUBSET User
  /\ filled \in [User -> SUBSET ScalarSection]
  /\ entries \in [User -> [Collection -> SUBSET Entry]]
  /\ attached \in [User -> SUBSET Skill]
  /\ prefs \in [User -> {"none", "empty", "set"}]
  /\ percent \in [User -> 0..100]
  /\ catalogue \in SUBSET Skill
  /\ saved \in [User -> SUBSET Job]
  /\ spoiled \in SUBSET User
  /\ requests \in 0..MaxRequests

LEMMA Parts == ProfileTypeOK /\ InHand <=> RowsOK /\ ControlOK
BY DEF ProfileTypeOK, RowsOK, ControlOK

\* Tables keep their types.
LEMMA RowsStep == ASSUME RowsOK, ControlOK, NEW s \in Session, ProfileStep(s) PROVE RowsOK'
<1>0. /\ Field \subseteq ScalarSection /\ Kind \subseteq Collection
      /\ pc[s] # Idle => user[s] \in User
      /\ pc[s] \in {"newskill", "attach"} => item[s] \in Skill
      /\ pc[s] = "newprefs" => item[s] \in {None, "empty", "set"}
      /\ pc[s] = "saving" => item[s] \in Job
  BY ProfileAssumption DEF ControlOK, InHand, Knows
<1> USE DEF RowsOK, rows
<1>1. ASSUME NEW u \in User, RegisterCheck(s, u) PROVE RowsOK'
  BY ProfileAssumption, <1>1 DEF RegisterCheck
<1>2. ASSUME NEW u \in User, Enter(s, u) PROVE RowsOK'
  BY ProfileAssumption, <1>2 DEF Enter
<1>3. ASSUME RegisterInsert(s) PROVE RowsOK'
  BY <1>0, <1>3 DEF RegisterInsert, Idle
<1>4. ASSUME NEW given \in SUBSET Field, CreateProfile(s, given) PROVE RowsOK'
  BY <1>0, <1>4 DEF CreateProfile, Idle
<1>5. ASSUME CreateRefused(s) PROVE RowsOK'
  BY <1>5 DEF CreateRefused
<1>6. ASSUME ReadOnly(s) PROVE RowsOK'
  BY <1>6 DEF ReadOnly
<1>7. ASSUME Calculate(s) PROVE RowsOK'
  BY <1>7 DEF Calculate
<1>8. ASSUME StorePercent(s) PROVE RowsOK'
  BY <1>0, <1>8 DEF StorePercent, Idle, ControlOK
<1>9. ASSUME NEW section \in Field, UpdateProfile(s, section) PROVE RowsOK'
  BY <1>0, <1>9 DEF UpdateProfile, Idle
<1>10. ASSUME NEW k \in Kind, NEW e \in Entry, AddEntry(s, k, e) PROVE RowsOK'
  BY <1>0, <1>10 DEF AddEntry, Idle
<1>11. ASSUME NEW k \in Kind, NEW e \in Entry, UpdateEntry(s, k, e) PROVE RowsOK'
  BY <1>11 DEF UpdateEntry
<1>12. ASSUME NEW k \in Kind, NEW e \in Entry, RemoveEntry(s, k, e) PROVE RowsOK'
  BY <1>0, <1>12 DEF RemoveEntry, Idle
<1>13. ASSUME NEW k \in Skill, ResolveSkill(s, k) PROVE RowsOK'
  BY <1>13 DEF ResolveSkill
<1>14. ASSUME NEW k \in Skill, UpdateSkill(s, k) PROVE RowsOK'
  BY <1>14 DEF UpdateSkill
<1>15. ASSUME NEW k \in Skill, RemoveSkill(s, k) PROVE RowsOK'
  BY <1>0, <1>15 DEF RemoveSkill, Idle
<1>16. ASSUME CreateSkill(s) PROVE RowsOK'
  BY <1>0, <1>16 DEF CreateSkill, Idle
<1>17. ASSUME AttachSkill(s) PROVE RowsOK'
  BY <1>0, <1>17 DEF AttachSkill, Idle
<1>18. ASSUME NEW p \in {"empty", "set"}, UpdatePreferences(s, p) PROVE RowsOK'
  BY <1>0, <1>18 DEF UpdatePreferences, Idle
<1>19. ASSUME GetPreferences(s) PROVE RowsOK'
  BY <1>19 DEF GetPreferences
<1>20. ASSUME InsertPreferences(s) PROVE RowsOK'
  BY <1>0, <1>20 DEF InsertPreferences, Idle
<1>21. ASSUME NEW j \in Job, SaveJob(s, j) PROVE RowsOK'
  BY <1>21 DEF SaveJob
<1>22. ASSUME NEW j \in Job, UnsaveJob(s, j) PROVE RowsOK'
  BY <1>0, <1>22 DEF UnsaveJob, Idle
<1>23. ASSUME InsertSaved(s) PROVE RowsOK'
  BY <1>0, <1>23 DEF InsertSaved, Idle
<1>24. ASSUME Lose(s) PROVE RowsOK'
  BY <1>0, <1>24 DEF Lose, Idle
<1>q. QED
  BY <1>1, <1>2, <1>3, <1>4, <1>5, <1>6, <1>7, <1>8, <1>9, <1>10, <1>11, <1>12,
     <1>13, <1>14, <1>15, <1>16, <1>17, <1>18, <1>19, <1>20, <1>21, <1>22, <1>23, <1>24 DEF ProfileStep

\* Requests have in hand what their labels say.
LEMMA ControlStep == ASSUME RowsOK, ControlOK, NEW s \in Session, ProfileStep(s) PROVE ControlOK'
<1>0. /\ Knows(profile, pc[s], user[s], item[s])
      /\ item[s] \in Skill \cup Job \cup {None, "empty", "set"}
      /\ user[s] \in User \cup {None}
  BY DEF ControlOK, InHand
<1> USE DEF rows
<1>1. ASSUME NEW u \in User, RegisterCheck(s, u) PROVE ControlOK'
  <2>1. Knows(profile', "register", u, item[s]) /\ profile \subseteq profile'
    BY <1>1 DEF RegisterCheck, Knows, Inside, Idle
  <2>2. /\ item' = [item EXCEPT ![s] = item[s]] /\ user' = [user EXCEPT ![s] = u]
        /\ calc' \in [Session -> 0..100]
        /\ then' \in [Session -> {Idle, "ready"}]
        /\ fresh' \in [Session -> BOOLEAN]
    BY <1>1 DEF RegisterCheck, ControlOK, InHand
  <2>3. pc' = [pc EXCEPT ![s] = "register"] /\ "register" \in ProfilePC
    BY <1>1 DEF RegisterCheck, Goto, ProfilePC
  <2>4. u \in User \cup {None}
    OBVIOUS
  <2>5. QED
    BY <1>0, <2>1, <2>2, <2>3, <2>4, MoveKeepsControl
<1>2. ASSUME NEW u \in User, Enter(s, u) PROVE ControlOK'
  <2>1. Knows(profile', (IF u \in profile THEN "ready" ELSE "creating"), u, item[s]) /\ profile \subseteq profile'
    BY <1>2 DEF Enter, Knows, Inside, Idle
  <2>2. /\ item' = [item EXCEPT ![s] = item[s]] /\ user' = [user EXCEPT ![s] = u]
        /\ calc' \in [Session -> 0..100]
        /\ then' \in [Session -> {Idle, "ready"}]
        /\ fresh' \in [Session -> BOOLEAN]
    BY <1>2 DEF Enter, ControlOK, InHand
  <2>3. pc' = [pc EXCEPT ![s] = (IF u \in profile THEN "ready" ELSE "creating")] /\ (IF u \in profile THEN "ready" ELSE "creating") \in ProfilePC
    BY <1>2 DEF Enter, Goto, ProfilePC
  <2>4. u \in User \cup {None}
    OBVIOUS
  <2>5. QED
    BY <1>0, <2>1, <2>2, <2>3, <2>4, MoveKeepsControl
<1>3. ASSUME RegisterInsert(s) PROVE ControlOK'
  BY <1>3, ReturnKeepsControl DEF RegisterInsert
<1>4. ASSUME NEW given \in SUBSET Field, CreateProfile(s, given) PROVE ControlOK'
  <2>1. Knows(profile', "refresh", user[s], item[s]) /\ profile \subseteq profile'
    BY <1>0, <1>4 DEF CreateProfile, Knows, Inside, Idle
  <2>2. /\ item' = [item EXCEPT ![s] = item[s]] /\ user' = [user EXCEPT ![s] = user[s]]
        /\ then' \in [Session -> {Idle, "ready"}]
        /\ fresh' \in [Session -> BOOLEAN]
    BY <1>0, <1>4 DEF CreateProfile, ControlOK, InHand
  <2>3. calc' \in [Session -> 0..100]
    BY <1>0, <1>4 DEF CreateProfile, ControlOK
  <2>4. pc' = [pc EXCEPT ![s] = "refresh"] /\ "refresh" \in ProfilePC
    BY <1>4 DEF CreateProfile, Goto, ProfilePC
  <2>5. QED
    BY <1>0, <2>1, <2>2, <2>3, <2>4, MoveKeepsControl
<1>5. ASSUME CreateRefused(s) PROVE ControlOK'
  BY <1>5, ReturnKeepsControl DEF CreateRefused
<1>6. ASSUME ReadOnly(s) PROVE ControlOK'
  BY <1>6, ReturnKeepsControl DEF ReadOnly
<1>7. ASSUME Calculate(s) PROVE ControlOK'
  <2>0. Completeness(user[s]) \in 0..100
    BY <1>0, <1>7, CompletenessIsPercentage DEF Calculate, Knows, Idle
  <2>1. Knows(profile', "store", user[s], item[s]) /\ profile \subseteq profile'
    BY <1>0, <1>7 DEF Calculate, Knows, Inside, Idle
  <2>2. /\ item' = [item EXCEPT ![s] = item[s]] /\ user' = [user EXCEPT ![s] = user[s]]
        /\ then' \in [Session -> {Idle, "ready"}]
        /\ fresh' \in [Session -> BOOLEAN]
    BY <1>0, <1>7 DEF Calculate, ControlOK, InHand
  <2>3. calc' \in [Session -> 0..100]
    BY <1>0, <1>7, <2>0 DEF Calculate, ControlOK
  <2>4. pc' = [pc EXCEPT ![s] = "store"] /\ "store" \in ProfilePC
    BY <1>7 DEF Calculate, Goto, ProfilePC
  <2>5. QED
    BY <1>0, <2>1, <2>2, <2>3, <2>4, MoveKeepsControl
<1>8. ASSUME StorePercent(s) PROVE ControlOK'
  <2>1. CASE then[s] = Idle
    BY <1>8, <2>1, ReturnKeepsControl DEF StorePercent
  <2>2. CASE then[s] # Idle
    <3>1. then[s] = "ready"
      BY <2>2 DEF ControlOK
    <3>2. Knows(profile', "ready", user[s], item[s])
      BY <1>0, <1>8, <2>2 DEF StorePercent, Knows, Inside, Idle
    <3>3. item' = [item EXCEPT ![s] = item[s]] /\ user' = [user EXCEPT ![s] = user[s]]
      BY <1>8, <2>2 DEF StorePercent, ControlOK, InHand
    <3>4. /\ calc' \in [Session -> 0..100]
          /\ then' \in [Session -> {Idle, "ready"}]
          /\ fresh' \in [Session -> BOOLEAN]
      <4>1. /\ calc' = [calc EXCEPT ![s] = 0]
            /\ then' = [then EXCEPT ![s] = Idle]
            /\ fresh' = [fresh EXCEPT ![s] = FALSE]
        BY <1>8, <2>2 DEF StorePercent
      <4>2. QED
        BY <4>1 DEF ControlOK
    <3>5. pc' = [pc EXCEPT ![s] = "ready"] /\ profile \subseteq profile' /\ "ready" \in ProfilePC
      BY <1>8, <2>2, <3>1 DEF StorePercent, Goto, ProfilePC
    <3>6. QED
      BY <1>0, <3>2, <3>3, <3>4, <3>5, MoveKeepsControl
  <2>3. QED
    BY <2>1, <2>2
<1>9. ASSUME NEW section \in Field, UpdateProfile(s, section) PROVE ControlOK'
  <2>1. fresh' \in [Session -> BOOLEAN]
    BY <1>9, OvertakeKeepsTypes DEF UpdateProfile, Changed, AfterRemoval
  <2>2. QED
    BY <1>9, <2>1, RefreshKeepsControl DEF UpdateProfile, Changed, AfterRemoval, Inside
<1>10. ASSUME NEW k \in Kind, NEW e \in Entry, AddEntry(s, k, e) PROVE ControlOK'
  <2>1. fresh' \in [Session -> BOOLEAN]
    BY <1>10, OvertakeKeepsTypes DEF AddEntry, Changed, AfterRemoval
  <2>2. QED
    BY <1>10, <2>1, RefreshKeepsControl DEF AddEntry, Changed, AfterRemoval, Inside
<1>11. ASSUME NEW k \in Kind, NEW e \in Entry, UpdateEntry(s, k, e) PROVE ControlOK'
  <2>1. fresh' \in [Session -> BOOLEAN]
    BY <1>11 DEF UpdateEntry, ControlOK
  <2>2. QED
    BY <1>11, <2>1, RefreshKeepsControl DEF UpdateEntry, Inside
<1>12. ASSUME NEW k \in Kind, NEW e \in Entry, RemoveEntry(s, k, e) PROVE ControlOK'
  <2>1. fresh' \in [Session -> BOOLEAN]
    BY <1>12, OvertakeKeepsTypes DEF RemoveEntry, Changed, AfterRemoval
  <2>2. QED
    BY <1>12, <2>1, RefreshKeepsControl DEF RemoveEntry, Changed, AfterRemoval, Inside
<1>13. ASSUME NEW k \in Skill, ResolveSkill(s, k) PROVE ControlOK'
  <2>1. CASE k \notin catalogue
    <3>1. Knows(profile, "newskill", user[s], k)
      BY <1>0, <1>13, <2>1 DEF ResolveSkill, Knows, Inside, Idle
    <3>2. QED
      BY <1>0, <1>13, <2>1, <3>1, ProceedKeepsControl DEF ResolveSkill, ProfilePC
  <2>2. CASE k \in catalogue /\ k \in attached[user[s]]
    BY <1>13, <2>2, ReturnKeepsControl DEF ResolveSkill
  <2>3. CASE k \in catalogue /\ k \notin attached[user[s]]
    <3>1. Knows(profile, "attach", user[s], k)
      BY <1>0, <1>13, <2>3 DEF ResolveSkill, Knows, Inside, Idle
    <3>2. QED
      BY <1>0, <1>13, <2>3, <3>1, ProceedKeepsControl DEF ResolveSkill, ProfilePC
  <2>q. QED
    BY <2>1, <2>2, <2>3
<1>14. ASSUME NEW k \in Skill, UpdateSkill(s, k) PROVE ControlOK'
  <2>1. fresh' \in [Session -> BOOLEAN]
    BY <1>14 DEF UpdateSkill, ControlOK
  <2>2. QED
    BY <1>14, <2>1, RefreshKeepsControl DEF UpdateSkill, Inside
<1>15. ASSUME NEW k \in Skill, RemoveSkill(s, k) PROVE ControlOK'
  <2>1. fresh' \in [Session -> BOOLEAN]
    BY <1>15, OvertakeKeepsTypes DEF RemoveSkill, Changed, AfterRemoval
  <2>2. QED
    BY <1>15, <2>1, RefreshKeepsControl DEF RemoveSkill, Changed, AfterRemoval, Inside
<1>16. ASSUME CreateSkill(s) PROVE ControlOK'
  <2>1. CASE item[s] \in catalogue
    BY <1>16, <2>1, ReturnKeepsControl DEF CreateSkill
  <2>2. CASE item[s] \notin catalogue
    <3>1. Knows(profile, "attach", user[s], item[s])
      BY <1>0, <1>16, <2>2 DEF CreateSkill, Knows, Inside, Idle
    <3>2. QED
      BY <1>0, <1>16, <2>2, <3>1, ProceedKeepsControl DEF CreateSkill, ProfilePC
  <2>q. QED
    BY <2>1, <2>2
<1>17. ASSUME AttachSkill(s) PROVE ControlOK'
  <2>1. CASE item[s] \in attached[user[s]]
    BY <1>17, <2>1, ReturnKeepsControl DEF AttachSkill
  <2>2. CASE item[s] \notin attached[user[s]]
    <3>1. fresh' \in [Session -> BOOLEAN]
      BY <1>17, <2>2, OvertakeKeepsTypes DEF AttachSkill, Changed
    <3>2. QED
      BY <1>17, <2>2, <3>1, RefreshKeepsControl DEF AttachSkill, Changed, Inside
  <2>q. QED
    BY <2>1, <2>2
<1>18. ASSUME NEW p \in {"empty", "set"}, UpdatePreferences(s, p) PROVE ControlOK'
  <2>1. CASE prefs[user[s]] = "none"
    <3>1. Knows(profile, "newprefs", user[s], p)
      BY <1>0, <1>18, <2>1 DEF UpdatePreferences, Knows, Inside, Idle
    <3>2. QED
      BY <1>0, <1>18, <2>1, <3>1, ProceedKeepsControl DEF UpdatePreferences, ProfilePC
  <2>2. CASE prefs[user[s]] # "none"
    <3>1. fresh' \in [Session -> BOOLEAN]
      BY <1>18, <2>2, OvertakeKeepsTypes DEF UpdatePreferences, Changed
    <3>2. QED
      BY <1>18, <2>2, <3>1, RefreshKeepsControl DEF UpdatePreferences, Changed, Inside
  <2>q. QED
    BY <2>1, <2>2
<1>19. ASSUME GetPreferences(s) PROVE ControlOK'
  <2>1. CASE prefs[user[s]] = "none"
    <3>1. Knows(profile, "newprefs", user[s], None)
      BY <1>0, <1>19, <2>1 DEF GetPreferences, Knows, Inside, Idle
    <3>2. QED
      BY <1>0, <1>19, <2>1, <3>1, ProceedKeepsControl DEF GetPreferences, ProfilePC
  <2>2. CASE prefs[user[s]] # "none"
    BY <1>19, <2>2, ReturnKeepsControl DEF GetPreferences
  <2>q. QED
    BY <2>1, <2>2
<1>20. ASSUME InsertPreferences(s) PROVE ControlOK'
  <2>1. CASE prefs[user[s]] = "none" /\ item[s] # None
    <3>1. fresh' \in [Session -> BOOLEAN]
      BY <1>20, <2>1, OvertakeKeepsTypes DEF InsertPreferences, Changed
    <3>2. QED
      BY <1>20, <2>1, <3>1, RefreshKeepsControl DEF InsertPreferences, Changed, Inside
  <2>2. CASE ~(prefs[user[s]] = "none" /\ item[s] # None)
    BY <1>20, <2>2, ReturnKeepsControl DEF InsertPreferences
  <2>q. QED
    BY <2>1, <2>2
<1>21. ASSUME NEW j \in Job, SaveJob(s, j) PROVE ControlOK'
  <2>1. CASE j \in saved[user[s]]
    BY <1>21, <2>1, ReturnKeepsControl DEF SaveJob
  <2>2. CASE j \notin saved[user[s]]
    <3>1. Knows(profile, "saving", user[s], j)
      BY <1>0, <1>21, <2>2 DEF SaveJob, Knows, Inside, Idle
    <3>2. QED
      BY <1>0, <1>21, <2>2, <3>1, ProceedKeepsControl DEF SaveJob, ProfilePC
  <2>q. QED
    BY <2>1, <2>2
<1>22. ASSUME NEW j \in Job, UnsaveJob(s, j) PROVE ControlOK'
  BY <1>22, ReturnKeepsControl DEF UnsaveJob
<1>23. ASSUME InsertSaved(s) PROVE ControlOK'
  BY <1>23, ReturnKeepsControl DEF InsertSaved
<1>24. ASSUME Lose(s) PROVE ControlOK'
  BY <1>24, ReturnKeepsControl DEF Lose
<1>q. QED
  BY <1>1, <1>2, <1>3, <1>4, <1>5, <1>6, <1>7, <1>8, <1>9, <1>10, <1>11, <1>12,
     <1>13, <1>14, <1>15, <1>16, <1>17, <1>18, <1>19, <1>20, <1>21, <1>22, <1>23, <1>24 DEF ProfileStep

LEMMA SameRowsSameCompleteness ==
  ASSUME UNCHANGED <<filled, entries, attached, prefs>>
  PROVE  \A u \in User : Completeness(u)' = Completeness(u)
BY CompletenessRestsOnRows DEF Counted, HasPreferences

\* A percentage is stored that is exact, or is marked as spoiled.
LEMMA StoreStep ==
  ASSUME FreshIsExact, PercentAccountedFor, RowsOK, ControlOK, NEW s \in Session, StorePercent(s)
  PROVE  FreshIsExact' /\ PercentAccountedFor'
<1>1. \A u \in User : Completeness(u)' = Completeness(u)
  BY SameRowsSameCompleteness DEF StorePercent
<1>2. user[s] \in User
  BY DEF StorePercent, ControlOK, InHand, Knows, Idle
<1>3. Elsewhere(s) /\ ~fresh'[s]
  <2>1. CASE then[s] = Idle
    BY <2>1, ReturnIsLocal DEF StorePercent
  <2>2. CASE then[s] # Idle
    <3>1. fresh' = [fresh EXCEPT ![s] = FALSE]
      BY <2>2 DEF StorePercent
    <3>2. Elsewhere(s)
      BY <2>2, <3>1 DEF StorePercent, Elsewhere, Goto, ControlOK, InHand
    <3>3. fresh'[s] = FALSE
      BY <3>1 DEF ControlOK
    <3>4. QED
      BY <3>2, <3>3
  <2>3. QED
    BY <2>1, <2>2
<1>4. ASSUME NEW t \in Session, fresh'[t]
      PROVE  /\ pc'[t] = "store"
             /\ \A u \in User : user'[t] = u => calc'[t] = Completeness(u)'
  <2>1. fresh[t] /\ pc'[t] = pc[t] /\ user'[t] = user[t] /\ calc'[t] = calc[t]
    BY <1>3, <1>4 DEF Elsewhere
  <2>2. QED
    BY <1>1, <2>1 DEF FreshIsExact
<1>5. ASSUME NEW u \in profile'
      PROVE  \/ percent'[u] = Completeness(u)'
             \/ \E t \in Session : Refreshing(t, u)'
             \/ u \in spoiled'
  <2>0. u \in profile /\ u \in User
    BY <1>5 DEF StorePercent, RowsOK
  <2>1. CASE u = user[s] /\ fresh[s]
    <3>1. calc[s] = Completeness(u)
      BY <2>0, <2>1 DEF FreshIsExact
    <3>2. percent'[u] = calc[s]
      BY <2>0, <2>1 DEF StorePercent, RowsOK
    <3>3. QED
      BY <1>1, <2>0, <3>1, <3>2
  <2>2. CASE u = user[s] /\ ~fresh[s]
    <3>1. spoiled' = spoiled \cup {user[s]}
      BY <2>2 DEF StorePercent
    <3>2. QED
      BY <2>2, <3>1
  <2>3. CASE u # user[s]
    <3>1. percent'[u] = percent[u]
      BY <2>3 DEF StorePercent, RowsOK
    <3>2. \A t \in Session : Refreshing(t, u) => Refreshing(t, u)'
      BY <1>3, <2>3 DEF Refreshing, Elsewhere
    <3>3. spoiled' \in {spoiled \ {user[s]}, spoiled \cup {user[s]}}
      BY DEF StorePercent
    <3>4. u \in spoiled => u \in spoiled'
      BY <2>3, <3>3
    <3>5. QED
      BY <1>1, <2>0, <3>1, <3>2, <3>4 DEF PercentAccountedFor
  <2>4. QED
    BY <2>1, <2>2, <2>3
<1>6. QED
  BY <1>4, <1>5 DEF FreshIsExact, PercentAccountedFor

\* The profile of the request is new: no other request is inside it.
LEMMA CreateStep ==
  ASSUME FreshIsExact, PercentAccountedFor, RowsOK, ControlOK, NEW s \in Session,
         NEW given \in SUBSET Field, CreateProfile(s, given)
  PROVE  FreshIsExact' /\ PercentAccountedFor'
<1>1. ASSUME NEW u \in User \ {user[s]} PROVE Completeness(u)' = Completeness(u)
  <2>1. Counted(u)' = Counted(u)
    BY <1>1 DEF CreateProfile, RowsOK, Counted, HasPreferences
  <2>2. QED
    BY <2>1, CompletenessRestsOnRows
<1>2. /\ pc' = [pc EXCEPT ![s] = "refresh"]
      /\ UNCHANGED <<user, calc, fresh, percent, spoiled>>
      /\ profile' = profile \cup {user[s]} /\ user[s] \notin profile
  BY DEF CreateProfile, Goto
<1>3. ASSUME NEW t \in Session, fresh'[t]
      PROVE  /\ pc'[t] = "store"
             /\ \A u \in User : user'[t] = u => calc'[t] = Completeness(u)'
  <2>1. fresh[t] /\ pc[t] = "store"
    BY <1>2, <1>3 DEF FreshIsExact
  <2>2. user[t] \in profile
    BY <2>1 DEF ControlOK, InHand, Knows, Inside
  <2>3. pc'[t] = "store"
    BY <1>2, <2>1, <2>2 DEF CreateProfile, ControlOK, InHand
  <2>4. QED
    BY <1>1, <1>2, <2>1, <2>2, <2>3 DEF FreshIsExact
<1>4. ASSUME NEW u \in profile'
      PROVE  \/ percent'[u] = Completeness(u)'
             \/ \E t \in Session : Refreshing(t, u)'
             \/ u \in spoiled'
  <2>1. CASE u = user[s]
    BY <1>2, <2>1 DEF Refreshing, ControlOK, InHand
  <2>2. CASE u # user[s]
    <3>1. u \in profile /\ u \in User
      BY <1>2, <1>4, <2>2 DEF RowsOK
    <3>2. \A t \in Session : Refreshing(t, u) => Refreshing(t, u)'
      BY <1>2, <2>2 DEF Refreshing, ControlOK, InHand
    <3>3. QED
      BY <1>1, <1>2, <2>2, <3>1, <3>2 DEF PercentAccountedFor
  <2>3. QED
    BY <2>1, <2>2
<1>5. QED
  BY <1>3, <1>4 DEF FreshIsExact, PercentAccountedFor

\* The percentage of the moment is calculated.
LEMMA CalculateStep ==
  ASSUME FreshIsExact, PercentAccountedFor, RowsOK, ControlOK, NEW s \in Session, Calculate(s)
  PROVE  FreshIsExact' /\ PercentAccountedFor'
<1>1. \A u \in User : Completeness(u)' = Completeness(u)
  BY SameRowsSameCompleteness DEF Calculate, rows
<1>2. /\ pc' = [pc EXCEPT ![s] = "store"] /\ calc' = [calc EXCEPT ![s] = Completeness(user[s])]
      /\ fresh' = [fresh EXCEPT ![s] = TRUE]
      /\ UNCHANGED <<user, profile, percent, spoiled>>
      /\ pc[s] = "refresh"
  BY DEF Calculate, Goto, rows
<1>3. ASSUME NEW t \in Session, fresh'[t]
      PROVE  /\ pc'[t] = "store"
             /\ \A u \in User : user'[t] = u => calc'[t] = Completeness(u)'
  <2>1. CASE t = s
    BY <1>1, <1>2, <2>1 DEF ControlOK, InHand
  <2>2. CASE t # s
    <3>1. fresh[t]
      BY <1>2, <1>3, <2>2 DEF ControlOK
    <3>2. pc'[t] = pc[t] /\ calc'[t] = calc[t]
      BY <1>2, <2>2 DEF ControlOK, InHand
    <3>3. QED
      BY <1>1, <1>2, <3>1, <3>2 DEF FreshIsExact
  <2>3. QED
    BY <2>1, <2>2
<1>4. ASSUME NEW u \in profile'
      PROVE  \/ percent'[u] = Completeness(u)'
             \/ \E t \in Session : Refreshing(t, u)'
             \/ u \in spoiled'
  <2>1. \A t \in Session : Refreshing(t, u) => Refreshing(t, u)'
    BY <1>2 DEF Refreshing, ControlOK, InHand
  <2>2. u \in profile /\ u \in User
    BY <1>2 DEF RowsOK
  <2>3. QED
    BY <1>1, <1>2, <2>1, <2>2 DEF PercentAccountedFor
<1>5. QED
  BY <1>3, <1>4 DEF FreshIsExact, PercentAccountedFor

\* A lost request leaves its profile's percentage as spoiled, if it had one to
\* refresh.
LEMMA LoseStep ==
  ASSUME FreshIsExact, PercentAccountedFor, RowsOK, ControlOK, NEW s \in Session, Lose(s)
  PROVE  FreshIsExact' /\ PercentAccountedFor'
<1>1. \A u \in User : Completeness(u)' = Completeness(u)
  BY SameRowsSameCompleteness DEF Lose, rows
<1>2. Elsewhere(s) /\ ~fresh'[s]
  BY ReturnIsLocal DEF Lose
<1>3. UNCHANGED <<profile, percent>>
  BY DEF Lose, rows
<1>4. ASSUME NEW t \in Session, fresh'[t]
      PROVE  /\ pc'[t] = "store"
             /\ \A u \in User : user'[t] = u => calc'[t] = Completeness(u)'
  <2>1. fresh[t] /\ pc'[t] = pc[t] /\ user'[t] = user[t] /\ calc'[t] = calc[t]
    BY <1>2, <1>4 DEF Elsewhere
  <2>2. QED
    BY <1>1, <2>1 DEF FreshIsExact
<1>5. ASSUME NEW u \in profile'
      PROVE  \/ percent'[u] = Completeness(u)'
             \/ \E t \in Session : Refreshing(t, u)'
             \/ u \in spoiled'
  <2>1. Refreshing(s, u) => u \in spoiled'
    BY DEF Refreshing, Lose
  <2>2. \A t \in Session \ {s} : Refreshing(t, u) => Refreshing(t, u)'
    BY <1>2 DEF Refreshing, Elsewhere
  <2>3. u \in spoiled => u \in spoiled'
    BY DEF Lose
  <2>4. u \in profile /\ u \in User
    BY <1>3 DEF RowsOK
  <2>5. QED
    BY <1>1, <1>3, <2>1, <2>2, <2>3, <2>4 DEF PercentAccountedFor
<1>6. QED
  BY <1>4, <1>5 DEF FreshIsExact, PercentAccountedFor

\* Every step accounts for the percentages.
LEMMA PercentStep ==
  ASSUME FreshIsExact, PercentAccountedFor, RowsOK, ControlOK, NEW s \in Session, ProfileStep(s)
  PROVE  FreshIsExact' /\ PercentAccountedFor'
<1>0. profile \subseteq User
  BY DEF RowsOK
<1>f. pc[s] # "store" => ~fresh[s]
  BY DEF FreshIsExact
<1> USE DEF rows
<1>1. ASSUME NEW u \in User, RegisterCheck(s, u) PROVE FreshIsExact' /\ PercentAccountedFor'
  <2>1. UNCHANGED <<profile, percent, spoiled, filled, entries, attached, prefs>>
    BY <1>1 DEF RegisterCheck
  <2>2. Elsewhere(s) /\ ~fresh'[s]
    BY <1>f, <1>1 DEF RegisterCheck, Elsewhere, Goto, Refresh, ControlOK, InHand, Idle
  <2>3. QED
    BY <1>0, <1>1, <2>1, <2>2, SameRowsSameCompleteness, QuietStep DEF RegisterCheck, Idle
<1>2. ASSUME NEW u \in User, Enter(s, u) PROVE FreshIsExact' /\ PercentAccountedFor'
  <2>1. UNCHANGED <<profile, percent, spoiled, filled, entries, attached, prefs>>
    BY <1>2 DEF Enter
  <2>2. Elsewhere(s) /\ ~fresh'[s]
    BY <1>f, <1>2 DEF Enter, Elsewhere, Goto, Refresh, ControlOK, InHand, Idle
  <2>3. QED
    BY <1>0, <1>2, <2>1, <2>2, SameRowsSameCompleteness, QuietStep DEF Enter, Idle
<1>3. ASSUME RegisterInsert(s) PROVE FreshIsExact' /\ PercentAccountedFor'
  <2>1. UNCHANGED <<profile, percent, spoiled, filled, entries, attached, prefs>>
    BY <1>3 DEF RegisterInsert
  <2>2. QED
    BY <1>0, <1>3, <2>1, SameRowsSameCompleteness, ReturnIsLocal, QuietStep DEF RegisterInsert
<1>4. ASSUME NEW given \in SUBSET Field, CreateProfile(s, given) PROVE FreshIsExact' /\ PercentAccountedFor'
  BY <1>4, CreateStep
<1>5. ASSUME CreateRefused(s) PROVE FreshIsExact' /\ PercentAccountedFor'
  <2>1. UNCHANGED <<profile, percent, spoiled, filled, entries, attached, prefs>>
    BY <1>5 DEF CreateRefused
  <2>2. QED
    BY <1>0, <1>5, <2>1, SameRowsSameCompleteness, ReturnIsLocal, QuietStep DEF CreateRefused
<1>6. ASSUME ReadOnly(s) PROVE FreshIsExact' /\ PercentAccountedFor'
  <2>1. UNCHANGED <<profile, percent, spoiled, filled, entries, attached, prefs>>
    BY <1>6 DEF ReadOnly
  <2>2. QED
    BY <1>0, <1>6, <2>1, SameRowsSameCompleteness, ReturnIsLocal, QuietStep DEF ReadOnly
<1>7. ASSUME Calculate(s) PROVE FreshIsExact' /\ PercentAccountedFor'
  BY <1>7, CalculateStep
<1>8. ASSUME StorePercent(s) PROVE FreshIsExact' /\ PercentAccountedFor'
  BY <1>8, StoreStep
<1>9. ASSUME NEW section \in Field, UpdateProfile(s, section) PROVE FreshIsExact' /\ PercentAccountedFor'
  <2>1. ASSUME NEW u \in User \ {user[s]} PROVE Completeness(u)' = Completeness(u)
    <3>1. Counted(u)' = Counted(u)
      BY <1>9, <2>1 DEF UpdateProfile, RowsOK, Counted, HasPreferences
    <3>2. QED
      BY <3>1, CompletenessRestsOnRows
  <2>2. QED
    BY <1>0, <1>9, <2>1, ChangedStep DEF UpdateProfile, AfterRemoval, Idle
<1>10. ASSUME NEW k \in Kind, NEW e \in Entry, AddEntry(s, k, e) PROVE FreshIsExact' /\ PercentAccountedFor'
  <2>1. ASSUME NEW u \in User \ {user[s]} PROVE Completeness(u)' = Completeness(u)
    <3>1. Counted(u)' = Counted(u)
      BY <1>10, <2>1 DEF AddEntry, RowsOK, Counted, HasPreferences
    <3>2. QED
      BY <3>1, CompletenessRestsOnRows
  <2>2. QED
    BY <1>0, <1>10, <2>1, ChangedStep DEF AddEntry, AfterRemoval, Idle
<1>11. ASSUME NEW k \in Kind, NEW e \in Entry, UpdateEntry(s, k, e) PROVE FreshIsExact' /\ PercentAccountedFor'
  <2>1. UNCHANGED <<profile, percent, spoiled, filled, entries, attached, prefs>>
    BY <1>11 DEF UpdateEntry
  <2>2. Elsewhere(s) /\ ~fresh'[s]
    BY <1>f, <1>11 DEF UpdateEntry, Elsewhere, Goto, Refresh, ControlOK, InHand, Idle
  <2>3. QED
    BY <1>0, <1>11, <2>1, <2>2, SameRowsSameCompleteness, QuietStep DEF UpdateEntry, Idle
<1>12. ASSUME NEW k \in Kind, NEW e \in Entry, RemoveEntry(s, k, e) PROVE FreshIsExact' /\ PercentAccountedFor'
  <2>1. ASSUME NEW u \in User \ {user[s]} PROVE Completeness(u)' = Completeness(u)
    <3>1. Counted(u)' = Counted(u)
      BY <1>12, <2>1 DEF RemoveEntry, RowsOK, Counted, HasPreferences
    <3>2. QED
      BY <3>1, CompletenessRestsOnRows
  <2>2. QED
    BY <1>0, <1>12, <2>1, ChangedStep DEF RemoveEntry, AfterRemoval, Idle
<1>13. ASSUME NEW k \in Skill, ResolveSkill(s, k) PROVE FreshIsExact' /\ PercentAccountedFor'
  <2>1. UNCHANGED <<profile, percent, spoiled, filled, entries, attached, prefs>>
    BY <1>13 DEF ResolveSkill
  <2>2. Elsewhere(s) /\ ~fresh'[s]
    BY <1>13, ReturnIsLocal, ProceedIsLocal DEF ResolveSkill
  <2>3. QED
    BY <1>0, <1>13, <2>1, <2>2, SameRowsSameCompleteness, QuietStep DEF ResolveSkill
<1>14. ASSUME NEW k \in Skill, UpdateSkill(s, k) PROVE FreshIsExact' /\ PercentAccountedFor'
  <2>1. UNCHANGED <<profile, percent, spoiled, filled, entries, attached, prefs>>
    BY <1>14 DEF UpdateSkill
  <2>2. Elsewhere(s) /\ ~fresh'[s]
    BY <1>f, <1>14 DEF UpdateSkill, Elsewhere, Goto, Refresh, ControlOK, InHand, Idle
  <2>3. QED
    BY <1>0, <1>14, <2>1, <2>2, SameRowsSameCompleteness, QuietStep DEF UpdateSkill, Idle
<1>15. ASSUME NEW k \in Skill, RemoveSkill(s, k) PROVE FreshIsExact' /\ PercentAccountedFor'
  <2>1. ASSUME NEW u \in User \ {user[s]} PROVE Completeness(u)' = Completeness(u)
    <3>1. Counted(u)' = Counted(u)
      BY <1>15, <2>1 DEF RemoveSkill, RowsOK, Counted, HasPreferences
    <3>2. QED
      BY <3>1, CompletenessRestsOnRows
  <2>2. QED
    BY <1>0, <1>15, <2>1, ChangedStep DEF RemoveSkill, AfterRemoval, Idle
<1>16. ASSUME CreateSkill(s) PROVE FreshIsExact' /\ PercentAccountedFor'
  <2>1. UNCHANGED <<profile, percent, spoiled, filled, entries, attached, prefs>>
    BY <1>16 DEF CreateSkill
  <2>2. Elsewhere(s) /\ ~fresh'[s]
    BY <1>16, ReturnIsLocal, ProceedIsLocal DEF CreateSkill
  <2>3. QED
    BY <1>0, <1>16, <2>1, <2>2, SameRowsSameCompleteness, QuietStep DEF CreateSkill
<1>17. ASSUME AttachSkill(s) PROVE FreshIsExact' /\ PercentAccountedFor'
  <2>1. ASSUME NEW u \in User \ {user[s]} PROVE Completeness(u)' = Completeness(u)
    <3>1. Counted(u)' = Counted(u)
      BY <1>17, <2>1 DEF AttachSkill, RowsOK, Counted, HasPreferences
    <3>2. QED
      BY <3>1, CompletenessRestsOnRows
  <2>2. CASE item[s] \notin attached[user[s]]
    BY <1>0, <1>17, <2>1, <2>2, ChangedStep DEF AttachSkill, Idle
  <2>3. CASE item[s] \in attached[user[s]]
    <3>1. ASSUME NEW u \in User PROVE Completeness(u)' = Completeness(u)
      <4>1. Counted(u)' = Counted(u)
        BY <1>17, <2>3 DEF AttachSkill, RowsOK, Counted, HasPreferences
      <4>2. QED
        BY <4>1, CompletenessRestsOnRows
    <3>2. Elsewhere(s) /\ ~fresh'[s]
      BY <1>17, <2>3, ReturnIsLocal, ProceedIsLocal DEF AttachSkill
    <3>3. QED
      BY <1>0, <1>17, <3>1, <3>2, QuietStep DEF AttachSkill
  <2>4. QED
    BY <2>2, <2>3
<1>18. ASSUME NEW p \in {"empty", "set"}, UpdatePreferences(s, p) PROVE FreshIsExact' /\ PercentAccountedFor'
  <2>1. ASSUME NEW u \in User \ {user[s]} PROVE Completeness(u)' = Completeness(u)
    <3>1. Counted(u)' = Counted(u)
      BY <1>18, <2>1 DEF UpdatePreferences, RowsOK, Counted, HasPreferences
    <3>2. QED
      BY <3>1, CompletenessRestsOnRows
  <2>2. CASE prefs[user[s]] # "none"
    BY <1>0, <1>18, <2>1, <2>2, ChangedStep DEF UpdatePreferences, Idle
  <2>3. CASE prefs[user[s]] = "none"
    <3>1. ASSUME NEW u \in User PROVE Completeness(u)' = Completeness(u)
      <4>1. Counted(u)' = Counted(u)
        BY <1>18, <2>3 DEF UpdatePreferences, RowsOK, Counted, HasPreferences
      <4>2. QED
        BY <4>1, CompletenessRestsOnRows
    <3>2. Elsewhere(s) /\ ~fresh'[s]
      BY <1>18, <2>3, ReturnIsLocal, ProceedIsLocal DEF UpdatePreferences
    <3>3. QED
      BY <1>0, <1>18, <3>1, <3>2, QuietStep DEF UpdatePreferences
  <2>4. QED
    BY <2>2, <2>3
<1>19. ASSUME GetPreferences(s) PROVE FreshIsExact' /\ PercentAccountedFor'
  <2>1. UNCHANGED <<profile, percent, spoiled, filled, entries, attached, prefs>>
    BY <1>19 DEF GetPreferences
  <2>2. Elsewhere(s) /\ ~fresh'[s]
    BY <1>19, ReturnIsLocal, ProceedIsLocal DEF GetPreferences
  <2>3. QED
    BY <1>0, <1>19, <2>1, <2>2, SameRowsSameCompleteness, QuietStep DEF GetPreferences
<1>20. ASSUME InsertPreferences(s) PROVE FreshIsExact' /\ PercentAccountedFor'
  <2>1. ASSUME NEW u \in User \ {user[s]} PROVE Completeness(u)' = Completeness(u)
    <3>1. Counted(u)' = Counted(u)
      BY <1>20, <2>1 DEF InsertPreferences, RowsOK, Counted, HasPreferences
    <3>2. QED
      BY <3>1, CompletenessRestsOnRows
  <2>2. CASE prefs[user[s]] = "none" /\ item[s] # None
    BY <1>0, <1>20, <2>1, <2>2, ChangedStep DEF InsertPreferences, Idle
  <2>3. CASE ~(prefs[user[s]] = "none" /\ item[s] # None)
    <3>1. ASSUME NEW u \in User PROVE Completeness(u)' = Completeness(u)
      <4>1. Counted(u)' = Counted(u)
        BY <1>20, <2>3 DEF InsertPreferences, RowsOK, Counted, HasPreferences
      <4>2. QED
        BY <4>1, CompletenessRestsOnRows
    <3>2. Elsewhere(s) /\ ~fresh'[s]
      BY <1>20, <2>3, ReturnIsLocal, ProceedIsLocal DEF InsertPreferences
    <3>3. QED
      BY <1>0, <1>20, <3>1, <3>2, QuietStep DEF InsertPreferences
  <2>4. QED
    BY <2>2, <2>3
<1>21. ASSUME NEW j \in Job, SaveJob(s, j) PROVE FreshIsExact' /\ PercentAccountedFor'
  <2>1. UNCHANGED <<profile, percent, spoiled, filled, entries, attached, prefs>>
    BY <1>21 DEF SaveJob
  <2>2. Elsewhere(s) /\ ~fresh'[s]
    BY <1>21, ReturnIsLocal, ProceedIsLocal DEF SaveJob
  <2>3. QED
    BY <1>0, <1>21, <2>1, <2>2, SameRowsSameCompleteness, QuietStep DEF SaveJob
<1>22. ASSUME NEW j \in Job, UnsaveJob(s, j) PROVE FreshIsExact' /\ PercentAccountedFor'
  <2>1. UNCHANGED <<profile, percent, spoiled, filled, entries, attached, prefs>>
    BY <1>22 DEF UnsaveJob
  <2>2. QED
    BY <1>0, <1>22, <2>1, SameRowsSameCompleteness, ReturnIsLocal, QuietStep DEF UnsaveJob
<1>23. ASSUME InsertSaved(s) PROVE FreshIsExact' /\ PercentAccountedFor'
  <2>1. UNCHANGED <<profile, percent, spoiled, filled, entries, attached, prefs>>
    BY <1>23 DEF InsertSaved
  <2>2. QED
    BY <1>0, <1>23, <2>1, SameRowsSameCompleteness, ReturnIsLocal, QuietStep DEF InsertSaved
<1>24. ASSUME Lose(s) PROVE FreshIsExact' /\ PercentAccountedFor'
  BY <1>24, LoseStep
<1>q. QED
  BY <1>1, <1>2, <1>3, <1>4, <1>5, <1>6, <1>7, <1>8, <1>9, <1>10, <1>11, <1>12,
     <1>13, <1>14, <1>15, <1>16, <1>17, <1>18, <1>19, <1>20, <1>21, <1>22, <1>23, <1>24 DEF ProfileStep

LEMMA ProfileInvStep == ProfileInv /\ ProfileNext => ProfileInv'
<1> SUFFICES ASSUME ProfileInv, NEW s \in Session, ProfileStep(s) PROVE ProfileInv'
  BY DEF ProfileNext
<1>1. RowsOK /\ ControlOK /\ FreshIsExact /\ PercentAccountedFor
  BY Parts DEF ProfileInv
<1>2. RowsOK' /\ ControlOK'
  BY <1>1, RowsStep, ControlStep
<1>3. ProfileTypeOK' /\ InHand'
  BY <1>2 DEF RowsOK, ControlOK, ProfileTypeOK
<1>4. QED
  BY <1>1, <1>3, PercentStep DEF ProfileInv

\* Accounts, profiles and the requests in progress are of their types, and every
\* stored percentage is accounted for, for any number of candidates, sections,
\* skills and overlapping requests.
THEOREM ProfileInvariant == ProfileSpec => []ProfileInv
<1>1. ProfileInv /\ [ProfileNext]_profileVars => ProfileInv'
  BY ProfileInvStep, ProfileInvStutter
<1>2. QED
  BY <1>1, ProfileInvInit, PTL DEF ProfileSpec

-----------------------------------------------------------------------------
(* Applications                                                            *)


\* What a status request rests on.
Transiting(s) == at[s] = "transition"

SeesStatus ==
  /\ \A a \in Application : app[a] # None => a \in used
  /\ \A s \in Session : at[s] \notin {Idle, "insert"} => held[s].of \in used
  /\ \A s \in Session : Transiting(s) /\ held[s].of \notin overlapped =>
       /\ app[held[s].of] # None => held[s].seen = app[held[s].of].status
       /\ \A t \in Session \ {s} : Transiting(t) => held[t].of # held[s].of

AppInv ==
  /\ AppTypeOK
  /\ AuditTrail
  /\ UnbrokenTrail
  /\ OneApplicationPerJob
  /\ NoOrphans
  /\ SeesStatus

\* The transition table leads from statuses to statuses, and begins at APPLIED.
LEMMA TransitionTable ==
  /\ Applied \in AppStatus
  /\ \A status \in AppStatus : VALID_TRANSITIONS[status] \subseteq AppStatus
  BY DEF Applied, AppStatus, VALID_TRANSITIONS

\* The database is empty.
LEMMA AppInvInit == AppInit => AppInv
<1> SUFFICES ASSUME AppInit PROVE AppInv
  OBVIOUS
<1> USE DEF AppInit
<1>1. AppTypeOK
  BY DEF AppTypeOK, AppPC, Idle, FitsLabel
<1>2. AuditTrail /\ UnbrokenTrail /\ OneApplicationPerJob /\ NoOrphans
  BY DEF AuditTrail, UnbrokenTrail, OneApplicationPerJob, NoOrphans
<1>3. SeesStatus
  BY DEF SeesStatus, Transiting, Idle
<1>4. QED
  BY <1>1, <1>2, <1>3 DEF AppInv

\* A step of another component.
LEMMA AppInvStutter == AppInv /\ UNCHANGED appVars => AppInv'
  BY DEF AppInv, appVars, AppTypeOK, AuditTrail, UnbrokenTrail, OneApplicationPerJob, NoOrphans,
         SeesStatus, Transiting, Owned, Last

\* A step of one session replaces its label and what it holds.
LEMMA MoveKeepsTypes ==
  ASSUME AppTypeOK, NEW s \in Session, NEW label \in AppPC, NEW what, FitsLabel(label, what),
         what \in Draft \cup Change \cup {None},
         at' = [at EXCEPT ![s] = label], held' = [held EXCEPT ![s] = what],
         app' \in [Application -> AppRow \cup {None}],
         history' \in [Application -> Seq(Entries)],
         children' \in [Application -> SUBSET Child],
         used' \in SUBSET Application,
         overlapped' \in SUBSET Application,
         asked' \in Nat
  PROVE  AppTypeOK'
<1>1. at' \in [Session -> AppPC] /\ held' \in [Session -> Draft \cup Change \cup {None}]
  BY DEF AppTypeOK
<1>2. ASSUME NEW t \in Session PROVE FitsLabel(at'[t], held'[t])
  <2>1. CASE t = s
    <3>1. at'[t] = label /\ held'[t] = what
      BY <2>1 DEF AppTypeOK
    <3>2. QED
      BY <3>1
  <2>2. CASE t # s
    <3>1. at'[t] = at[t] /\ held'[t] = held[t]
      BY <2>2 DEF AppTypeOK
    <3>2. QED
      BY <3>1 DEF AppTypeOK
  <2>3. QED
    BY <2>1, <2>2
<1>3. QED
  BY <1>1, <1>2 DEF AppTypeOK

\* A request that only loads.
LEMMA HoldKeepsTypes ==
  ASSUME AppTypeOK, NEW s \in Session, NEW label \in AppPC \ {Idle}, NEW what,
         FitsLabel(label, what), Hold(s, label, what),
         UNCHANGED <<app, history, children, used>>, overlapped' \in SUBSET Application
  PROVE  AppTypeOK'
<1>1. what \in Draft \cup Change \cup {None}
  BY DEF FitsLabel
<1>2. asked' \in Nat
  BY DEF Hold, AppTypeOK
<1>3. QED
  BY <1>1, <1>2, MoveKeepsTypes DEF Hold, AppTypeOK

\* A request that is answered holds nothing.
LEMMA AnswerKeepsTypes ==
  ASSUME AppTypeOK, NEW s \in Session, Answer(s),
         app' \in [Application -> AppRow \cup {None}],
         history' \in [Application -> Seq(Entries)],
         children' \in [Application -> SUBSET Child],
         used' \in SUBSET Application
  PROVE  AppTypeOK'
<1>1. Idle \in AppPC /\ FitsLabel(Idle, None)
  BY DEF AppPC, FitsLabel, Idle
<1>2. QED
  BY <1>1, MoveKeepsTypes DEF Answer, AppTypeOK

LEMMA TypeStep == AppInv /\ AppNext => AppTypeOK'
<1> SUFFICES ASSUME AppInv, NEW s \in Session, AppStep(s) PROVE AppTypeOK'
  BY DEF AppNext
<1>0. /\ AppTypeOK /\ NoOrphans
      /\ app \in [Application -> AppRow \cup {None}]
      /\ history \in [Application -> Seq(Entries)]
      /\ children \in [Application -> SUBSET Child]
      /\ used \in SUBSET Application
      /\ overlapped \in SUBSET Application
      /\ FitsLabel(at[s], held[s])
  BY DEF AppInv, AppTypeOK
<1>1. ASSUME NEW u \in User, NEW j \in Job \cup {None}, BeginCreate(s, u, j) PROVE AppTypeOK'
  <2>1. [owner |-> u, job |-> j, status |-> Applied] \in AppRow
    BY TransitionTable DEF AppRow
  <2>2. FitsLabel("insert", [row |-> [owner |-> u, job |-> j, status |-> Applied]])
    BY <2>1 DEF FitsLabel, Draft, Idle
  <2>3. QED
    BY <1>0, <1>1, <2>2, HoldKeepsTypes DEF BeginCreate, AppPC, Idle
<1>2. ASSUME NEW a \in Application, CommitCreate(s, a) PROVE AppTypeOK'
  <2>1. held[s].row \in AppRow
    BY <1>0, <1>2 DEF CommitCreate, FitsLabel, Draft
  <2>2. <<[old |-> None, new |-> Applied]>> \in Seq(Entries)
    BY TransitionTable DEF Entries
  <2>3. app' \in [Application -> AppRow \cup {None}]
    BY <1>0, <1>2, <2>1 DEF CommitCreate
  <2>4. history' \in [Application -> Seq(Entries)]
    BY <1>0, <1>2, <2>2 DEF CommitCreate
  <2>5. QED
    BY <1>0, <1>2, <2>3, <2>4, AnswerKeepsTypes DEF CommitCreate
<1>3. CASE CreateConflict(s)
  BY <1>0, <1>3, AnswerKeepsTypes DEF CreateConflict
<1>l. ASSUME NEW u \in User, NEW a \in Application, NEW label \in AppPC \ {Idle, "insert"},
             NEW to \in AppStatus \cup {None}, NEW c \in Child \cup {None},
             Load(s, u, a, label, to, c), overlapped' \in SUBSET Application,
             label = "addchild" => c \in Child,
             label = "transition" => to \in Allowed(app[a].status)
      PROVE  AppTypeOK'
  <2>1. app[a] \in AppRow
    BY <1>0, <1>l DEF Load, Owned
  <2>2. [of |-> a, seen |-> app[a].status, to |-> to, child |-> c] \in Change
    BY <1>l, <2>1 DEF Change, AppRow
  <2>3. FitsLabel(label, [of |-> a, seen |-> app[a].status, to |-> to, child |-> c])
    BY <1>l, <2>2 DEF FitsLabel, Allowed
  <2>4. QED
    BY <1>0, <1>l, <2>3, HoldKeepsTypes DEF Load
<1>4. ASSUME NEW u \in User, NEW a \in Application, NEW to \in AppStatus,
             BeginTransition(s, u, a, to)
      PROVE  AppTypeOK'
  <2>1. overlapped' \in SUBSET Application
    BY <1>0, <1>4 DEF BeginTransition
  <2>2. QED
    BY <1>4, <1>l, <2>1 DEF BeginTransition, AppPC, Idle
<1>5. ASSUME NEW u \in User, NEW a \in Application, BeginOther(s, u, a) PROVE AppTypeOK'
  <2>1. overlapped' \in SUBSET Application
    BY <1>0, <1>5 DEF BeginOther
  <2>2. QED
    BY <1>5, <1>l, <2>1 DEF BeginOther, AppPC, Idle
<1>c. at[s] \notin {Idle, "insert"} =>
        held[s] \in Change /\ held[s].of \in Application
  BY <1>0 DEF FitsLabel, Change
<1>6. CASE CommitTransition(s)
  <2>1. /\ held[s] \in Change /\ held[s].to \in VALID_TRANSITIONS[held[s].seen]
        /\ held[s].of \in Application
    BY <1>c, <1>0, <1>6 DEF CommitTransition, Idle, FitsLabel
  <2>2. held[s].seen \in AppStatus /\ held[s].to \in AppStatus
    BY <2>1, TransitionTable DEF Change
  <2>3. Recorded(s) \in Entries
    BY <2>2 DEF Recorded, Entries
  <2>4. app[held[s].of] \in AppRow
    BY <1>0, <1>6, <2>1 DEF CommitTransition, Gone
  <2>5. [app[held[s].of] EXCEPT !.status = held[s].to] \in AppRow
    BY <2>2, <2>4 DEF AppRow
  <2>6. app' = [app EXCEPT ![held[s].of] = [app[held[s].of] EXCEPT !.status = held[s].to]]
    BY <1>6 DEF CommitTransition
  <2>7. app' \in [Application -> AppRow \cup {None}]
    BY <1>0, <2>5, <2>6
  <2>8. history' \in [Application -> Seq(Entries)]
    BY <1>0, <1>6, <2>1, <2>3 DEF CommitTransition
  <2>9. QED
    BY <1>0, <1>6, <2>7, <2>8, AnswerKeepsTypes DEF CommitTransition
<1>7. CASE CommitDetails(s)
  BY <1>0, <1>7, AnswerKeepsTypes DEF CommitDetails
<1>8. CASE CommitRemove(s)
  <2>1. held[s].of \in Application
    BY <1>c, <1>8 DEF CommitRemove, Idle
  <2>2. app' \in [Application -> AppRow \cup {None}]
    BY <1>0, <1>8 DEF CommitRemove
  <2>3. history' \in [Application -> Seq(Entries)]
    <3>1. <<>> \in Seq(Entries)
      OBVIOUS
    <3>2. QED
      BY <1>0, <1>8, <3>1 DEF CommitRemove
  <2>4. children' \in [Application -> SUBSET Child]
    BY <1>0, <1>8 DEF CommitRemove
  <2>5. QED
    BY <1>0, <1>8, <2>2, <2>3, <2>4, AnswerKeepsTypes DEF CommitRemove
<1>9. CASE CommitAddChild(s)
  <2>1. held[s].child \in Child
    BY <1>0, <1>9 DEF CommitAddChild, FitsLabel
  <2>2. children' \in [Application -> SUBSET Child]
    BY <1>0, <1>9, <2>1 DEF CommitAddChild
  <2>3. QED
    BY <1>0, <1>9, <2>2, AnswerKeepsTypes DEF CommitAddChild
<1>10. CASE CommitDropChild(s)
  <2>1. children' \in [Application -> SUBSET Child]
    BY <1>0, <1>10 DEF CommitDropChild
  <2>2. QED
    BY <1>0, <1>10, <2>1, AnswerKeepsTypes DEF CommitDropChild
<1>11. CASE LoseRequest(s)
  BY <1>0, <1>11, AnswerKeepsTypes DEF LoseRequest
<1>12. QED
  BY <1>1, <1>2, <1>3, <1>4, <1>5, <1>6, <1>7, <1>8, <1>9, <1>10, <1>11 DEF AppStep

-----------------------------------------------------------------------------

\* Only five steps write to the tables.
LEMMA Writers ==
  ASSUME NEW s \in Session, AppStep(s)
  PROVE  \/ UNCHANGED <<app, history, children, used>>
         \/ \E a \in Application : CommitCreate(s, a)
         \/ CommitTransition(s)
         \/ CommitRemove(s)
         \/ CommitAddChild(s)
         \/ CommitDropChild(s)
<1>1. ASSUME NEW u \in User, NEW j \in Job \cup {None}, BeginCreate(s, u, j)
      PROVE  UNCHANGED <<app, history, children, used>>
  BY <1>1 DEF BeginCreate
<1>2. ASSUME NEW u \in User, NEW a \in Application, NEW to \in AppStatus,
             BeginTransition(s, u, a, to)
      PROVE  UNCHANGED <<app, history, children, used>>
  BY <1>2 DEF BeginTransition, Load
<1>3. ASSUME NEW u \in User, NEW a \in Application, BeginOther(s, u, a)
      PROVE  UNCHANGED <<app, history, children, used>>
  BY <1>3 DEF BeginOther, Load
<1>4. CreateConflict(s) \/ CommitDetails(s) \/ LoseRequest(s)
        => UNCHANGED <<app, history, children, used>>
  BY DEF CreateConflict, CommitDetails, LoseRequest
<1>5. QED
  BY <1>1, <1>2, <1>3, <1>4 DEF AppStep

\* What the trail of one application promises.
Trailed(row, h) ==
  /\ h # <<>>
  /\ h[1] = [old |-> None, new |-> Applied]
  /\ \A i \in 2..Len(h) : h[i].new \in VALID_TRANSITIONS[h[i].old]
  /\ Last(h).new = row.status

Unbroken(h) == \A i \in 2..Len(h) : h[i].old = h[i - 1].new

LEMMA FirstEntry ==
  ASSUME NEW row \in AppRow, row.status = Applied
  PROVE  LET h == <<[old |-> None, new |-> Applied]>> IN Trailed(row, h) /\ Unbroken(h)
BY DEF Trailed, Unbroken, Last

\* A transition the table allows continues the trail, without a break when it
\* begins at the present status.
LEMMA NextEntry ==
  ASSUME NEW h \in Seq(Entries), NEW row, Trailed(row, h), NEW e \in Entries,
         e.new \in VALID_TRANSITIONS[e.old], NEW next, next.status = e.new
  PROVE  /\ Trailed(next, Append(h, e))
         /\ Unbroken(h) /\ e.old = row.status => Unbroken(Append(h, e))
<1> DEFINE g == Append(h, e)
<1>1. /\ Len(h) \in Nat /\ Len(h) > 0 /\ Len(g) = Len(h) + 1
      /\ \A i \in 1..Len(h) : g[i] = h[i]
      /\ g[Len(g)] = e
  BY DEF Trailed
<1> HIDE DEF g
<1>2. Trailed(next, g)
  <2>1. g # <<>>
    BY <1>1
  <2>2. g[1] = [old |-> None, new |-> Applied]
    BY <1>1 DEF Trailed
  <2>3. ASSUME NEW i \in 2..Len(g) PROVE g[i].new \in VALID_TRANSITIONS[g[i].old]
    <3>1. CASE i = Len(g)
      BY <1>1, <3>1
    <3>2. CASE i # Len(g)
      <4>1. i \in 2..Len(h) /\ g[i] = h[i]
        BY <1>1, <3>2
      <4>2. QED
        BY <4>1 DEF Trailed
    <3>3. QED
      BY <3>1, <3>2
  <2>4. Last(g).new = next.status
    BY <1>1 DEF Last
  <2>5. QED
    BY <2>1, <2>2, <2>3, <2>4 DEF Trailed
<1>3. ASSUME Unbroken(h), e.old = row.status, NEW i \in 2..Len(g)
      PROVE  g[i].old = g[i - 1].new
  <2>1. CASE i = Len(g)
    <3>1. g[i] = e /\ g[i - 1] = h[Len(h)]
      BY <1>1, <2>1
    <3>2. h[Len(h)].new = row.status
      BY DEF Trailed, Last
    <3>3. QED
      BY <1>3, <3>1, <3>2
  <2>2. CASE i # Len(g)
    <3>1. i \in 2..Len(h) /\ g[i] = h[i] /\ g[i - 1] = h[i - 1]
      BY <1>1, <2>2
    <3>2. QED
      BY <1>3, <3>1 DEF Unbroken
  <2>3. QED
    BY <2>1, <2>2
<1>4. QED
  BY <1>2, <1>3 DEF g, Unbroken

\* AuditTrail and UnbrokenTrail, application by application.
LEMMA TrailByApplication ==
  /\ AuditTrail <=> \A a \in Application : app[a] # None => Trailed(app[a], history[a])
  /\ UnbrokenTrail <=> \A a \in Application \ overlapped : Unbroken(history[a])
  BY DEF AuditTrail, UnbrokenTrail, Trailed, Unbroken

\* Status requests that have overlapped stay so.
LEMMA OverlapsStay ==
  ASSUME NEW s \in Session, AppStep(s)
  PROVE  overlapped \subseteq overlapped'
<1>1. ASSUME NEW u \in User, NEW a \in Application, NEW to \in AppStatus,
             BeginTransition(s, u, a, to)
      PROVE  overlapped \subseteq overlapped'
  BY <1>1 DEF BeginTransition
<1>2. QED
  BY <1>1 DEF AppStep, BeginCreate, BeginOther, CommitCreate, CreateConflict, CommitTransition,
              CommitDetails, CommitRemove, CommitAddChild, CommitDropChild, LoseRequest, Answer

\* Nothing happens to the trail of an application that is not written.
LEMMA TrailStep == AppInv /\ AppNext => AuditTrail' /\ UnbrokenTrail'
<1> SUFFICES ASSUME AppInv, NEW s \in Session, AppStep(s), NEW a \in Application
             PROVE  /\ app'[a] # None => Trailed(app'[a], history'[a])
                    /\ a \notin overlapped' => Unbroken(history'[a])
  <2>1. QED
    BY DEF AppNext, AuditTrail, UnbrokenTrail, Trailed, Unbroken, Last
<1>0. /\ app \in [Application -> AppRow \cup {None}]
      /\ history \in [Application -> Seq(Entries)]
      /\ FitsLabel(at[s], held[s])
      /\ app[a] # None => Trailed(app[a], history[a])
      /\ a \notin overlapped => Unbroken(history[a])
      /\ a \notin overlapped' => a \notin overlapped
  BY OverlapsStay, TrailByApplication DEF AppInv, AppTypeOK
<1>1. CASE UNCHANGED <<app, history>>
  BY <1>0, <1>1
<1>2. ASSUME NEW b \in Application, CommitCreate(s, b)
      PROVE  /\ app'[a] # None => Trailed(app'[a], history'[a])
             /\ a \notin overlapped' => Unbroken(history'[a])
  <2>1. held[s].row \in AppRow /\ held[s].row.status = Applied
    BY <1>0, <1>2 DEF CommitCreate, FitsLabel, Draft
  <2>2. CASE a = b
    <3>1. app'[a] = held[s].row /\ history'[a] = <<[old |-> None, new |-> Applied]>>
      BY <1>0, <1>2, <2>2 DEF CommitCreate
    <3>2. QED
      BY <2>1, <3>1, FirstEntry
  <2>3. CASE a # b
    <3>1. app'[a] = app[a] /\ history'[a] = history[a]
      BY <1>0, <1>2, <2>3 DEF CommitCreate
    <3>2. QED
      BY <1>0, <3>1
  <2>4. QED
    BY <2>2, <2>3
<1>3. CASE CommitTransition(s)
  <2>1. /\ held[s] \in Change /\ held[s].to \in VALID_TRANSITIONS[held[s].seen]
        /\ held[s].of \in Application /\ app[held[s].of] # None
    BY <1>0, <1>3 DEF CommitTransition, Idle, FitsLabel, Change, Gone
  <2>2. CASE a = held[s].of
    <3>1. app'[a].status = held[s].to /\ history'[a] = Append(history[a], Recorded(s))
      <4>1. app[a] \in AppRow
        BY <1>0, <2>1, <2>2
      <4>2. app'[a] = [app[a] EXCEPT !.status = held[s].to]
        BY <1>0, <1>3, <2>2 DEF CommitTransition
      <4>3. history'[a] = Append(history[a], Recorded(s))
        BY <1>0, <1>3, <2>2 DEF CommitTransition
      <4>4. QED
        BY <4>1, <4>2, <4>3 DEF AppRow
    <3>2. /\ Recorded(s) \in Entries
          /\ Recorded(s).old = held[s].seen /\ Recorded(s).new = held[s].to
      BY <2>1, TransitionTable DEF Recorded, Entries, Change
    <3>3. a \notin overlapped => held[s].seen = app[a].status
      BY <1>3, <2>1, <2>2 DEF AppInv, SeesStatus, Transiting, CommitTransition
    <3>4. Trailed(app[a], history[a]) /\ history[a] \in Seq(Entries)
      BY <1>0, <2>1, <2>2
    <3>5. QED
      BY <1>0, <2>1, <3>1, <3>2, <3>3, <3>4, NextEntry
  <2>3. CASE a # held[s].of
    <3>1. app'[a] = app[a] /\ history'[a] = history[a]
      BY <1>0, <1>3, <2>3 DEF CommitTransition
    <3>2. QED
      BY <1>0, <3>1
  <2>4. QED
    BY <2>2, <2>3
<1>4. CASE CommitRemove(s)
  <2>1. CASE a = held[s].of
    <3>1. app'[a] = None /\ history'[a] = <<>>
      BY <1>0, <1>4, <2>1 DEF CommitRemove
    <3>2. QED
      BY <3>1 DEF Unbroken
  <2>2. CASE a # held[s].of
    <3>1. app'[a] = app[a] /\ history'[a] = history[a]
      BY <1>0, <1>4, <2>2 DEF CommitRemove
    <3>2. QED
      BY <1>0, <3>1
  <2>3. QED
    BY <2>1, <2>2
<1>5. CommitAddChild(s) \/ CommitDropChild(s) => UNCHANGED <<app, history>>
  BY DEF CommitAddChild, CommitDropChild
<1>6. QED
  BY <1>1, <1>2, <1>3, <1>4, <1>5, Writers

-----------------------------------------------------------------------------

\* Who owns an application, and for which job, never changes while it exists.
LEMMA OneApplicationPerJobStep == AppInv /\ AppNext => OneApplicationPerJob'
<1> SUFFICES ASSUME AppInv, NEW s \in Session, AppStep(s) PROVE OneApplicationPerJob'
  BY DEF AppNext
<1>0. /\ app \in [Application -> AppRow \cup {None}]
      /\ FitsLabel(at[s], held[s])
      /\ OneApplicationPerJob
  BY DEF AppInv, AppTypeOK
<1>1. ASSUME app' = app PROVE OneApplicationPerJob'
  BY <1>0, <1>1 DEF OneApplicationPerJob
<1>2. ASSUME NEW c \in Application, CommitCreate(s, c) PROVE OneApplicationPerJob'
  <2>1. app' = [app EXCEPT ![c] = held[s].row]
    BY <1>2 DEF CommitCreate
  <2>2. held[s].row.job # None => \A b \in Application : app[b] # None
          => <<app[b].owner, app[b].job>> # <<held[s].row.owner, held[s].row.job>>
    BY <1>2 DEF CommitCreate, JobTaken, HasApplied, Owned
  <2>3. QED
    BY <1>0, <2>1, <2>2 DEF OneApplicationPerJob
<1>3. CASE CommitTransition(s)
  <2>1. held[s].of \in Application /\ app[held[s].of] \in AppRow
    BY <1>0, <1>3 DEF CommitTransition, Idle, FitsLabel, Change, Gone
  <2>2. app' = [app EXCEPT ![held[s].of] = [app[held[s].of] EXCEPT !.status = held[s].to]]
    BY <1>3 DEF CommitTransition
  <2>3. ASSUME NEW b \in Application, app'[b] # None
        PROVE  app[b] # None /\ app'[b].owner = app[b].owner /\ app'[b].job = app[b].job
    <3>1. CASE b = held[s].of
      <4>1. app'[b] = [app[b] EXCEPT !.status = held[s].to]
        BY <1>0, <2>2, <3>1
      <4>2. app[b] # None
        BY <1>3, <3>1 DEF CommitTransition, Gone
      <4>3. QED
        BY <2>1, <3>1, <4>1, <4>2 DEF AppRow
    <3>2. CASE b # held[s].of
      BY <1>0, <2>2, <2>3, <3>2
    <3>3. QED
      BY <3>1, <3>2
  <2>4. QED
    BY <1>0, <2>3 DEF OneApplicationPerJob
<1>4. CASE CommitRemove(s)
  <2>1. ASSUME NEW b \in Application, app'[b] # None PROVE app'[b] = app[b]
    BY <1>0, <1>4, <2>1 DEF CommitRemove
  <2>2. QED
    BY <1>0, <2>1 DEF OneApplicationPerJob
<1>5. CommitAddChild(s) \/ CommitDropChild(s) => app' = app
  BY DEF CommitAddChild, CommitDropChild
<1>6. QED
  BY <1>1, <1>2, <1>3, <1>4, <1>5, Writers

\* What is written below an application is written while it exists.
LEMMA NoOrphansStep == AppInv /\ AppNext => NoOrphans'
<1> SUFFICES ASSUME AppInv, NEW s \in Session, AppStep(s),
                    NEW a \in Application, app'[a] = None
             PROVE  history'[a] = <<>> /\ children'[a] = {}
  BY DEF AppNext, NoOrphans
<1>0. /\ app \in [Application -> AppRow \cup {None}]
      /\ history \in [Application -> Seq(Entries)]
      /\ children \in [Application -> SUBSET Child]
      /\ FitsLabel(at[s], held[s])
      /\ app[a] = None => history[a] = <<>> /\ children[a] = {}
  BY DEF AppInv, AppTypeOK, NoOrphans
<1>n. None \notin AppRow
  BY ApplicationsAssumption
<1>1. CASE UNCHANGED <<app, history, children>>
  BY <1>0, <1>1
<1>2. ASSUME NEW c \in Application, CommitCreate(s, c)
      PROVE  history'[a] = <<>> /\ children'[a] = {}
  <2>1. held[s].row \in AppRow
    BY <1>0, <1>2 DEF CommitCreate, FitsLabel, Draft
  <2>2. a # c
    BY <1>0, <1>n, <1>2, <2>1 DEF CommitCreate
  <2>3. QED
    BY <1>0, <1>2, <2>2 DEF CommitCreate
<1>3. CASE CommitTransition(s)
  <2>1. /\ held[s] \in Change /\ held[s].to \in VALID_TRANSITIONS[held[s].seen]
        /\ held[s].of \in Application /\ app[held[s].of] \in AppRow
    BY <1>0, <1>3 DEF CommitTransition, Idle, FitsLabel, Change, Gone
  <2>2. [app[held[s].of] EXCEPT !.status = held[s].to] \in AppRow
    BY <2>1, TransitionTable DEF AppRow, Change
  <2>3. app' = [app EXCEPT ![held[s].of] = [app[held[s].of] EXCEPT !.status = held[s].to]]
    BY <1>3 DEF CommitTransition
  <2>4. a # held[s].of
    BY <1>0, <1>n, <2>2, <2>3
  <2>5. QED
    BY <1>0, <1>3, <2>3, <2>4 DEF CommitTransition
<1>4. CASE CommitRemove(s)
  BY <1>0, <1>4 DEF CommitRemove
<1>5. CASE CommitAddChild(s)
  BY <1>0, <1>5 DEF CommitAddChild, ParentGone, Gone
<1>6. CASE CommitDropChild(s)
  BY <1>0, <1>6 DEF CommitDropChild
<1>7. QED
  BY <1>1, <1>2, <1>3, <1>4, <1>5, <1>6, Writers

-----------------------------------------------------------------------------

\* A session's step changes no other session's request.
LEMMA OthersWait ==
  ASSUME AppTypeOK, NEW s \in Session, AppStep(s), NEW t \in Session \ {s}
  PROVE  at'[t] = at[t] /\ held'[t] = held[t]
<1>0. at \in [Session -> AppPC] /\ held \in [Session -> Draft \cup Change \cup {None}]
  BY DEF AppTypeOK
<1>1. ASSUME NEW label, NEW what, Hold(s, label, what)
      PROVE  at'[t] = at[t] /\ held'[t] = held[t]
  BY <1>0, <1>1 DEF Hold
<1>2. Answer(s) => at'[t] = at[t] /\ held'[t] = held[t]
  BY <1>0 DEF Answer
<1>3. QED
  BY <1>1, <1>2 DEF AppStep, BeginCreate, BeginTransition, BeginOther, Load, CommitCreate,
     CreateConflict, CommitTransition, CommitDetails, CommitRemove, CommitAddChild,
     CommitDropChild, LoseRequest

\* What a session's own request holds after its step.
LEMMA OwnStep ==
  ASSUME AppTypeOK, NEW s \in Session, AppStep(s), at'[s] \notin {Idle, "insert"}
  PROVE  /\ UNCHANGED <<app, history, children, used>>
         /\ \E a \in Application :
              /\ app[a] # None /\ held'[s].of = a /\ held'[s].seen = app[a].status
              /\ at'[s] = "transition" /\ a \notin overlapped' =>
                   \A t \in Session : at[t] = "transition" => held[t].of # a
<1>0. at \in [Session -> AppPC] /\ held \in [Session -> Draft \cup Change \cup {None}]
  BY DEF AppTypeOK
<1>1. ~Answer(s)
  BY <1>0 DEF Answer
<1>2. ASSUME NEW u \in User, NEW j \in Job \cup {None}, BeginCreate(s, u, j) PROVE FALSE
  BY <1>0, <1>2 DEF BeginCreate, Hold
<1>3. ASSUME NEW u \in User, NEW a \in Application, NEW label, NEW to, NEW c,
             Load(s, u, a, label, to, c)
      PROVE  /\ UNCHANGED <<app, history, children, used>>
             /\ app[a] # None /\ held'[s].of = a /\ held'[s].seen = app[a].status
             /\ at'[s] = label
  BY <1>0, <1>3 DEF Load, Hold, Owned
<1>4. ASSUME NEW u \in User, NEW a \in Application, NEW to \in AppStatus,
             BeginTransition(s, u, a, to)
      PROVE  /\ UNCHANGED <<app, history, children, used>>
             /\ app[a] # None /\ held'[s].of = a /\ held'[s].seen = app[a].status
             /\ a \notin overlapped' => \A t \in Session : at[t] = "transition" => held[t].of # a
  BY <1>3, <1>4 DEF BeginTransition
<1>5. ASSUME NEW u \in User, NEW a \in Application, BeginOther(s, u, a)
      PROVE  /\ UNCHANGED <<app, history, children, used>>
             /\ app[a] # None /\ held'[s].of = a /\ held'[s].seen = app[a].status
             /\ at'[s] # "transition"
  BY <1>3, <1>5 DEF BeginOther
<1>6. QED
  BY <1>1, <1>2, <1>4, <1>5 DEF AppStep, CommitCreate, CreateConflict, CommitTransition,
     CommitDetails, CommitRemove, CommitAddChild, CommitDropChild, LoseRequest

\* The status of an application changes with a status request of its own.
LEMMA StatusStep ==
  ASSUME AppInv, NEW s \in Session, AppStep(s), NEW a \in used, app'[a] # None
  PROVE  \/ app[a] # None /\ app'[a].status = app[a].status
         \/ Transiting(s) /\ held[s].of = a
<1>0. app \in [Application -> AppRow \cup {None}] /\ used \in SUBSET Application
  BY DEF AppInv, AppTypeOK
<1>1. ASSUME NEW c \in Application, CommitCreate(s, c) PROVE app'[a] = app[a]
  BY <1>0, <1>1 DEF CommitCreate
<1>2. CommitTransition(s) /\ held[s].of # a => app'[a] = app[a]
  BY <1>0 DEF CommitTransition
<1>3. CommitRemove(s) => app'[a] = app[a]
  BY <1>0 DEF CommitRemove
<1>4. CommitAddChild(s) \/ CommitDropChild(s) => app' = app
  BY DEF CommitAddChild, CommitDropChild
<1>5. QED
  BY <1>1, <1>2, <1>3, <1>4, Writers DEF CommitTransition, Transiting

LEMMA SeesStatusStep == AppInv /\ AppNext => SeesStatus'
<1> SUFFICES ASSUME AppInv, NEW s \in Session, AppStep(s) PROVE SeesStatus'
  BY DEF AppNext
<1>0. /\ AppTypeOK /\ SeesStatus
      /\ app \in [Application -> AppRow \cup {None}]
      /\ FitsLabel(at[s], held[s])
  BY DEF AppInv, AppTypeOK
<1>1. used \subseteq used'
  BY Writers DEF CommitCreate, CommitTransition, CommitRemove, CommitAddChild, CommitDropChild
<1>2. \A a \in Application : app'[a] # None => a \in used'
  <2> SUFFICES ASSUME NEW a \in Application, app'[a] # None PROVE a \in used'
    OBVIOUS
  <2>1. ASSUME NEW c \in Application, CommitCreate(s, c) PROVE a \in used'
    BY <1>0, <1>1, <2>1 DEF CommitCreate, SeesStatus
  <2>2. CommitTransition(s) => app[a] # None
    BY <1>0 DEF CommitTransition, Gone
  <2>3. CommitRemove(s) => app[a] # None
    BY <1>0 DEF CommitRemove
  <2>4. CommitAddChild(s) \/ CommitDropChild(s) => app' = app
    BY DEF CommitAddChild, CommitDropChild
  <2>5. QED
    BY <1>0, <1>1, <2>1, <2>2, <2>3, <2>4, Writers DEF SeesStatus
<1>3. ASSUME NEW t \in Session, at'[t] \notin {Idle, "insert"} PROVE held'[t].of \in used'
  <2>1. CASE t = s
    BY <1>0, <1>3, <2>1, OwnStep DEF SeesStatus
  <2>2. CASE t # s
    BY <1>0, <1>1, <1>3, <2>2, OthersWait DEF SeesStatus
  <2>3. QED
    BY <2>1, <2>2
<1>4. ASSUME NEW t \in Session, at'[t] = "transition", held'[t].of \notin overlapped'
      PROVE  /\ app'[held'[t].of] # None => held'[t].seen = app'[held'[t].of].status
             /\ \A r \in Session \ {t} : at'[r] = "transition" => held'[r].of # held'[t].of
  <2>i. "transition" \notin {Idle, "insert"}
    BY DEF Idle
  <2>1. CASE t = s
    <3>1. PICK a \in Application :
            /\ app' = app /\ held'[s].of = a /\ held'[s].seen = app[a].status
            /\ \A r \in Session : at[r] = "transition" => held[r].of # a
      BY <1>0, <1>4, <2>1, <2>i, OwnStep
    <3>2. QED
      BY <1>0, <2>1, <3>1, OthersWait
  <2>2. CASE t # s
    <3>1. at[t] = "transition" /\ held'[t] = held[t]
      BY <1>0, <1>4, <2>2, OthersWait
    <3>2. held[t].of \notin overlapped
      BY <1>4, <3>1, OverlapsStay
    <3>3. /\ app[held[t].of] # None => held[t].seen = app[held[t].of].status
          /\ \A r \in Session \ {t} : at[r] = "transition" => held[r].of # held[t].of
      BY <1>0, <3>1, <3>2 DEF SeesStatus, Transiting
    <3>4. held[t].of \in used
      BY <1>0, <2>i, <3>1 DEF SeesStatus
    <3>5. app'[held[t].of] # None => held[t].seen = app'[held[t].of].status
      BY <2>2, <3>3, <3>4, StatusStep DEF Transiting
    <3>6. ASSUME NEW r \in Session \ {t}, at'[r] = "transition" PROVE held'[r].of # held[t].of
      <4>1. CASE r = s
        <5>1. PICK a \in Application :
                /\ held'[s].of = a
                /\ a \notin overlapped' =>
                     \A q \in Session : at[q] = "transition" => held[q].of # a
          BY <1>0, <3>6, <4>1, <2>i, OwnStep
        <5>2. QED
          BY <1>4, <3>1, <4>1, <5>1
      <4>2. CASE r # s
        BY <1>0, <3>3, <3>6, <4>2, OthersWait
      <4>3. QED
        BY <4>1, <4>2
    <3>7. QED
      BY <3>1, <3>5, <3>6
  <2>3. QED
    BY <2>1, <2>2
<1>5. QED
  BY <1>2, <1>3, <1>4 DEF SeesStatus, Transiting

-----------------------------------------------------------------------------

\* AppInv is inductive.
LEMMA AppInvStep == AppInv /\ AppNext => AppInv'
  BY TypeStep, TrailStep, OneApplicationPerJobStep, NoOrphansStep, SeesStatusStep DEF AppInv

\* The inductive invariant holds of the component together with Profile.
THEOREM AppInvariant == AppSpec => []AppInv
<1>1. AppInit => AppInv
  BY AppInvInit
<1>2. AppInv /\ [ \/ ProfileNext /\ UNCHANGED appVars
                  \/ AppNext /\ UNCHANGED profileVars ]_<<profileVars, appVars>> => AppInv'
  BY AppInvStep, AppInvStutter
<1>3. QED
  BY <1>1, <1>2, PTL DEF AppSpec

=============================================================================

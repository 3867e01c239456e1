------------------------------- MODULE Profile -------------------------------
(***************************************************************************)
(* Accounts and candidate profiles: AuthService, ProfileService and the    *)
(* saved jobs, under concurrent requests.                                  *)
(*                                                                         *)
(* A request runs in a session of its own.  Every repository call commits, *)
(* so a request is a sequence of transactions: get_or_create_profile, a    *)
(* change, and _refresh_completeness, which reads the profile again and    *)
(* stores the percentage in a commit of its own.  A check (does the row    *)
(* exist?) and the insert that follows it are separate as well; the unique *)
(* constraint decides, and its IntegrityError ends the request.            *)
(*                                                                         *)
(* What a request is about is chosen when its handler acts: the steps      *)
(* before do not depend on it.  Requests that are answered with an error   *)
(* before any commit leave the session as Return does and are not told     *)
(* apart.                                                                  *)
(***************************************************************************)
EXTENDS Integers, Sequences, FiniteSets

CONSTANTS
  None,
  Session,     \* request threads, each with its own database session
  User,        \* e-mail addresses
  Field,       \* the scalar sections requests edit
  Kind,        \* the collections requests edit: experience, education
  Entry,       \* row ids of entries
  Skill,       \* normalized skill names
  Job,         \* the jobs requests refer to
  MaxRequests  \* bound: requests served

ScalarSection == {"basic_identity", "headline", "bio"}
Collection == {"experience", "education"}

ASSUME ProfileAssumption ==
  /\ Field \subseteq ScalarSection
  /\ Kind \subseteq Collection
  /\ None \notin User \cup Skill \cup Entry \cup Job \cup {"none", "empty", "set"}
  /\ MaxRequests \in Nat

VARIABLES
  account,    \* registered users
  profile,    \* users that have a profile row
  filled,     \* its scalar sections that count as complete
  entries,    \* its rows per collection
  attached,   \* its skills
  prefs,      \* its preferences row: none, without criteria, with criteria
  percent,    \* its stored profile_completion_percent
  catalogue,  \* the skills table
  saved,      \* its saved jobs
  pc,         \* where each request is
  user,       \* whose request it is
  item,       \* what it is about to write
  calc,       \* the percentage it has calculated
  then,       \* where it goes on after the refresh
  fresh,      \* ghost: nothing counted has changed since it calculated
  spoiled,    \* ghost: profiles whose percentage a race or a lost request left wrong
  requests    \* requests begun

rows == <<profile, filled, entries, attached, prefs, percent, catalogue, saved>>
control == <<pc, user, item, calc, then, fresh>>
profileVars == <<account, rows, control, spoiled, requests>>

Idle == "idle"
ProfilePC == {Idle, "register", "creating", "refresh", "store", "ready",
              "newskill", "attach", "newprefs", "saving"}

-----------------------------------------------------------------------------
(* The completeness of a profile                                           *)

Weight == [basic_identity |-> 15, headline |-> 10, bio |-> 10, skills |-> 20,
           experience |-> 20, education |-> 10, preferences |-> 15]

\* Criteria, not just the row.
HasPreferences(u) == prefs[u] = "set"

\* The sections ProfileCompletenessService counts as complete.
Complete(u) ==
  filled[u]
    \cup {k \in Collection : entries[u][k] # {}}
    \cup (IF attached[u] # {} THEN {"skills"} ELSE {})
    \cup (IF HasPreferences(u) THEN {"preferences"} ELSE {})

Worth(u, section) == IF section \in Complete(u) THEN Weight[section] ELSE 0

Completeness(u) ==
  Worth(u, "basic_identity") + Worth(u, "headline") + Worth(u, "bio")
    + Worth(u, "skills") + Worth(u, "experience") + Worth(u, "education")
    + Worth(u, "preferences")

-----------------------------------------------------------------------------

ProfileInit ==
  /\ account = {}
  /\ profile = {}
  /\ filled = [u \in User |-> {}]
  /\ entries = [u \in User |-> [k \in Collection |-> {}]]
  /\ attached = [u \in User |-> {}]
  /\ prefs = [u \in User |-> "none"]
  /\ percent = [u \in User |-> 0]
  /\ catalogue = {}
  /\ saved = [u \in User |-> {}]
  /\ pc = [s \in Session |-> Idle]
  /\ user = [s \in Session |-> None]
  /\ item = [s \in Session |-> None]
  /\ calc = [s \in Session |-> 0]
  /\ then = [s \in Session |-> Idle]
  /\ fresh = [s \in Session |-> FALSE]
  /\ spoiled = {}
  /\ requests = 0

-----------------------------------------------------------------------------
(* Control of a request                                                    *)

Goto(s, label) == pc' = [pc EXCEPT ![s] = label]

\* The response is sent, or the exception leaves the handler.
Return(s) ==
  /\ Goto(s, Idle)
  /\ user' = [user EXCEPT ![s] = None]
  /\ item' = [item EXCEPT ![s] = None]
  /\ calc' = [calc EXCEPT ![s] = 0]
  /\ then' = [then EXCEPT ![s] = Idle]
  /\ fresh' = [fresh EXCEPT ![s] = FALSE]

\* The handler goes on and remembers what it will write.
Proceed(s, label, x) ==
  /\ Goto(s, label)
  /\ item' = [item EXCEPT ![s] = x]
  /\ UNCHANGED <<user, calc, then, fresh>>

\* A change of u's rows is committed: percentages calculated before are stale.
Overtake(s, u) ==
  fresh' = [t \in Session |-> IF t # s /\ user[t] = u THEN FALSE ELSE fresh[t]]

\* The percentage is refreshed next.
Refresh(s) ==
  /\ Goto(s, "refresh")
  /\ item' = [item EXCEPT ![s] = None]
  /\ UNCHANGED <<user, calc, then>>

\* Committed a change of what counts.
Changed(s) == Refresh(s) /\ Overtake(s, user[s])

-----------------------------------------------------------------------------
(* Accounts                                                                *)

\* register: no account has the e-mail address; the user is inserted next.
RegisterCheck(s, u) ==
  /\ pc[s] = Idle
  /\ requests < MaxRequests
  /\ u \notin account
  /\ requests' = requests + 1
  /\ Goto(s, "register")
  /\ user' = [user EXCEPT ![s] = u]
  /\ UNCHANGED <<account, rows, item, calc, then, fresh, spoiled>>

\* The unique e-mail decides between two registrations.
RegisterInsert(s) ==
  /\ pc[s] = "register"
  /\ account' = account \cup {user[s]}
  /\ Return(s)
  /\ UNCHANGED <<rows, spoiled, requests>>

-----------------------------------------------------------------------------
(* get_or_create_profile, with which the endpoints of a candidate begin    *)

\* The token names an active account.
Authorised(u) == u \in account

\* Is there a profile?
Enter(s, u) ==
  /\ pc[s] = Idle
  /\ requests < MaxRequests
  /\ Authorised(u)
  /\ requests' = requests + 1
  /\ Goto(s, IF u \in profile THEN "ready" ELSE "creating")
  /\ user' = [user EXCEPT ![s] = u]
  /\ UNCHANGED <<account, rows, item, calc, then, fresh, spoiled>>

\* The row is inserted; POST fills it from its payload.  Its percentage is 0
\* until the refresh that follows.
CreateProfile(s, given) ==
  /\ pc[s] = "creating"
  /\ user[s] \notin profile
  /\ profile' = profile \cup {user[s]}
  /\ filled' = [filled EXCEPT ![user[s]] = given]
  /\ Goto(s, "refresh")
  /\ then' = [then EXCEPT ![s] = "ready"]
  /\ UNCHANGED <<account, entries, attached, prefs, percent, catalogue, saved>>
  /\ UNCHANGED <<user, item, calc, fresh, spoiled, requests>>

\* The unique user_id: another request created the profile since.
CreateRefused(s) ==
  /\ pc[s] = "creating"
  /\ user[s] \in profile
  /\ Return(s)
  /\ UNCHANGED <<account, rows, spoiled, requests>>

\* A handler that only reads.
ReadOnly(s) ==
  /\ pc[s] = "ready"
  /\ Return(s)
  /\ UNCHANGED <<account, rows, spoiled, requests>>

-----------------------------------------------------------------------------
(* _refresh_completeness                                                   *)

\* expire_all, reload, calculate.
Calculate(s) ==
  /\ pc[s] = "refresh"
  /\ calc' = [calc EXCEPT ![s] = Completeness(user[s])]
  /\ fresh' = [fresh EXCEPT ![s] = TRUE]
  /\ Goto(s, "store")
  /\ UNCHANGED <<account, rows, user, item, then, spoiled, requests>>

\* UPDATE ... SET profile_completion_percent, whatever was committed since.
StorePercent(s) ==
  /\ pc[s] = "store"
  /\ percent' = [percent EXCEPT ![user[s]] = calc[s]]
  /\ spoiled' = IF fresh[s] THEN spoiled \ {user[s]} ELSE spoiled \cup {user[s]}
  /\ IF then[s] = Idle THEN Return(s)
     ELSE /\ Goto(s, then[s])
          /\ then' = [then EXCEPT ![s] = Idle]
          /\ fresh' = [fresh EXCEPT ![s] = FALSE]
          /\ calc' = [calc EXCEPT ![s] = 0]
          /\ UNCHANGED <<user, item>>
  /\ UNCHANGED <<account, profile, filled, entries, attached, prefs, catalogue, saved, requests>>

-----------------------------------------------------------------------------
(* Sections                                                                *)

\* PUT profile: each field of the payload may complete its section or empty it.
UpdateProfile(s, section) ==
  /\ pc[s] = "ready"
  /\ filled' \in {[filled EXCEPT ![user[s]] = @ \cup {section}],
                  [filled EXCEPT ![user[s]] = @ \ {section}]}
  /\ Changed(s)
  /\ UNCHANGED <<account, profile, entries, attached, prefs, percent, catalogue, saved>>
  /\ UNCHANGED <<spoiled, requests>>

AddEntry(s, k, e) ==
  /\ pc[s] = "ready"
  /\ \A u \in User : e \notin entries[u][k]
  /\ entries' = [entries EXCEPT ![user[s]][k] = @ \cup {e}]
  /\ Changed(s)
  /\ UNCHANGED <<account, profile, filled, attached, prefs, percent, catalogue, saved>>
  /\ UNCHANGED <<spoiled, requests>>

\* PUT on an entry of this profile; its fields cannot become empty.
UpdateEntry(s, k, e) ==
  /\ pc[s] = "ready"
  /\ e \in entries[user[s]][k]
  /\ Refresh(s)
  /\ UNCHANGED <<account, rows, fresh, spoiled, requests>>

\* Mutant of AfterRemoval: a handler that removes does not refresh.
ReturnAfterRemoval(s) == Return(s)

\* What follows a committed removal.
AfterRemoval(s) == Changed(s)

RemoveEntry(s, k, e) ==
  /\ pc[s] = "ready"
  /\ e \in entries[user[s]][k]
  /\ entries' = [entries EXCEPT ![user[s]][k] = @ \ {e}]
  /\ AfterRemoval(s)
  /\ UNCHANGED <<account, profile, filled, attached, prefs, percent, catalogue, saved>>
  /\ UNCHANGED <<spoiled, requests>>

-----------------------------------------------------------------------------
(* Skills                                                                  *)

\* SkillRepository.get_or_create, then the check for an existing association.
ResolveSkill(s, k) ==
  /\ pc[s] = "ready"
  /\ IF k \notin catalogue THEN Proceed(s, "newskill", k)
     ELSE IF k \in attached[user[s]] THEN Return(s)
     ELSE Proceed(s, "attach", k)
  /\ UNCHANGED <<account, rows, spoiled, requests>>

\* The unique normalized_name decides between two creators of one skill.
CreateSkill(s) ==
  /\ pc[s] = "newskill"
  /\ IF item[s] \in catalogue THEN Return(s) ELSE Proceed(s, "attach", item[s])
  /\ catalogue' = catalogue \cup {item[s]}
  /\ UNCHANGED <<account, profile, filled, entries, attached, prefs, percent, saved>>
  /\ UNCHANGED <<spoiled, requests>>

\* The unique (profile_id, skill_id) decides between two associations.
AttachSkill(s) ==
  /\ pc[s] = "attach"
  /\ IF item[s] \in attached[user[s]] THEN Return(s) ELSE Changed(s)
  /\ attached' = [attached EXCEPT ![user[s]] = @ \cup {item[s]}]
  /\ UNCHANGED <<account, profile, filled, entries, prefs, percent, catalogue, saved>>
  /\ UNCHANGED <<spoiled, requests>>

UpdateSkill(s, k) ==
  /\ pc[s] = "ready"
  /\ k \in attached[user[s]]
  /\ Refresh(s)
  /\ UNCHANGED <<account, rows, fresh, spoiled, requests>>

RemoveSkill(s, k) ==
  /\ pc[s] = "ready"
  /\ k \in attached[user[s]]
  /\ attached' = [attached EXCEPT ![user[s]] = @ \ {k}]
  /\ AfterRemoval(s)
  /\ UNCHANGED <<account, profile, filled, entries, prefs, percent, catalogue, saved>>
  /\ UNCHANGED <<spoiled, requests>>

-----------------------------------------------------------------------------
(* Preferences                                                             *)

\* create_or_update on an existing row: absent fields stay, so the payload may
\* keep the criteria, add one or empty the lists.
UpdatePreferences(s, p) ==
  /\ pc[s] = "ready"
  /\ IF prefs[user[s]] = "none"
     THEN Proceed(s, "newprefs", p) /\ UNCHANGED prefs
     ELSE Changed(s) /\ prefs' = [prefs EXCEPT ![user[s]] = p]
  /\ UNCHANGED <<account, profile, filled, entries, attached, percent, catalogue, saved>>
  /\ UNCHANGED <<spoiled, requests>>

\* get_preferences creates the default row, and does not refresh.
GetPreferences(s) ==
  /\ pc[s] = "ready"
  /\ IF prefs[user[s]] = "none" THEN Proceed(s, "newprefs", None) ELSE Return(s)
  /\ UNCHANGED <<account, rows, spoiled, requests>>

\* The unique profile_id decides between two requests that found no row.
InsertPreferences(s) ==
  /\ pc[s] = "newprefs"
  /\ LET found == prefs[user[s]] = "none" IN
       /\ prefs' = IF found
                   THEN [prefs EXCEPT ![user[s]] = IF item[s] = None THEN "empty" ELSE item[s]]
                   ELSE prefs
       /\ IF found /\ item[s] # None THEN Changed(s) ELSE Return(s)
  /\ UNCHANGED <<account, profile, filled, entries, attached, percent, catalogue, saved>>
  /\ UNCHANGED <<spoiled, requests>>

-----------------------------------------------------------------------------
(* Saved jobs                                                              *)

\* save_job: an existing bookmark keeps its row.
SaveJob(s, j) ==
  /\ pc[s] = "ready"
  /\ IF j \in saved[user[s]] THEN Return(s) ELSE Proceed(s, "saving", j)
  /\ UNCHANGED <<account, rows, spoiled, requests>>

\* The unique (profile_id, job_id): the loser gets an error, the row is there.
InsertSaved(s) ==
  /\ pc[s] = "saving"
  /\ saved' = [saved EXCEPT ![user[s]] = @ \cup {item[s]}]
  /\ Return(s)
  /\ UNCHANGED <<account, profile, filled, entries, attached, prefs, percent, catalogue>>
  /\ UNCHANGED <<spoiled, requests>>

UnsaveJob(s, j) ==
  /\ pc[s] = "ready"
  /\ j \in saved[user[s]]
  /\ saved' = [saved EXCEPT ![user[s]] = @ \ {j}]
  /\ Return(s)
  /\ UNCHANGED <<account, profile, filled, entries, attached, prefs, percent, catalogue>>
  /\ UNCHANGED <<spoiled, requests>>

-----------------------------------------------------------------------------

\* The process serving the request dies, or the database refuses a statement:
\* what was committed stays.
Lose(s) ==
  /\ pc[s] # Idle
  /\ spoiled' = IF pc[s] \in {"refresh", "store"} THEN spoiled \cup {user[s]} ELSE spoiled
  /\ Return(s)
  /\ UNCHANGED <<account, rows, requests>>

ProfileStep(s) ==
  \/ \E u \in User : RegisterCheck(s, u) \/ Enter(s, u)
  \/ RegisterInsert(s)
  \/ \E given \in SUBSET Field : CreateProfile(s, given)
  \/ CreateRefused(s)
  \/ ReadOnly(s)
  \/ Calculate(s)
  \/ StorePercent(s)
  \/ \E section \in Field : UpdateProfile(s, section)
  \/ \E k \in Kind, e \in Entry : AddEntry(s, k, e) \/ UpdateEntry(s, k, e) \/ RemoveEntry(s, k, e)
  \/ \E k \in Skill : ResolveSkill(s, k) \/ UpdateSkill(s, k) \/ RemoveSkill(s, k)
  \/ CreateSkill(s)
  \/ AttachSkill(s)
  \/ \E p \in {"empty", "set"} : UpdatePreferences(s, p)
  \/ GetPreferences(s)
  \/ InsertPreferences(s)
  \/ \E j \in Job : SaveJob(s, j) \/ UnsaveJob(s, j)
  \/ InsertSaved(s)
  \/ Lose(s)

ProfileNext == \E s \in Session : ProfileStep(s)

ProfileSpec == ProfileInit /\ [][ProfileNext]_profileVars

-----------------------------------------------------------------------------

ProfileTypeOK ==
  /\ account \in SUBSET User
  /\ profile \in SUBSET User
  /\ filled \in [User -> SUBSET ScalarSection]
  /\ entries \in [User -> [Collection -> SUBSET Entry]]
  /\ attached \in [User -> SUBSET Skill]
  /\ prefs \in [User -> {"none", "empty", "set"}]
  /\ percent \in [User -> 0..100]
  /\ catalogue \in SUBSET Skill
  /\ saved \in [User -> SUBSET Job]
  /\ user \in [Session -> User \cup {None}]
  /\ calc \in [Session -> 0..100]
  /\ then \in [Session -> {Idle, "ready"}]
  /\ fresh \in [Session -> BOOLEAN]
  /\ spoiled \in SUBSET User
  /\ requests \in 0..MaxRequests

\* A refresh of u is under way in session s.
Refreshing(s, u) == user[s] = u /\ pc[s] \in {"refresh", "store"}

\* The stored percentage is the completeness of the profile, or some request
\* is still to refresh it, or a refresh that was overtaken by another change or
\* lost was the last word.  A change whose handler forgets the refresh, or that
\* refreshes before it changes, would show here.
PercentAccountedFor ==
  \A u \in profile :
    \/ percent[u] = Completeness(u)
    \/ \E s \in Session : Refreshing(s, u)
    \/ u \in spoiled

=============================================================================

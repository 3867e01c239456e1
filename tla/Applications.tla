---------------------------- MODULE Applications ----------------------------
(***************************************************************************)
(* Tracked applications: ApplicationService with its audit history, notes  *)
(* and interviews, under concurrent requests of the candidates that        *)
(* Profile lets in.                                                        *)
(*                                                                         *)
(* A request loads the application it is about (ownership, current status) *)
(* and commits its change later: what it writes rests on what it loaded.   *)
(* An UPDATE of a row that has been deleted meanwhile raises               *)
(* StaleDataError, an INSERT below it is refused by the foreign key, a     *)
(* DELETE of it only warns.                                                *)
(***************************************************************************)
EXTENDS Profile

CONSTANTS
  Application,  \* row ids of applications
  Child         \* row ids of notes and interviews

VARIABLES
  app,         \* each application's owner, job and status, or None
  history,     \* its audit entries in the order of their commits
  children,    \* its notes and interviews
  used,        \* ids given out: a deleted row's id is not given out again
  at,          \* where each request is
  held,        \* what it has loaded or is about to write
  overlapped,  \* ghost: applications with two status requests at one time
  asked        \* requests begun

appVars == <<app, history, children, used, at, held, overlapped, asked>>

Applied == "APPLIED"

VALID_TRANSITIONS ==
  [APPLIED   |-> {"SCREENING", "INTERVIEW", "OFFER", "REJECTED", "WITHDRAWN"},
   SCREENING |-> {"INTERVIEW", "OFFER", "REJECTED", "WITHDRAWN", "APPLIED"},
   INTERVIEW |-> {"OFFER", "REJECTED", "WITHDRAWN", "SCREENING", "APPLIED"},
   OFFER     |-> {"ACCEPTED", "REJECTED", "WITHDRAWN", "INTERVIEW"},
   REJECTED  |-> {"APPLIED", "SCREENING", "INTERVIEW", "OFFER"},
   WITHDRAWN |-> {"APPLIED", "SCREENING", "INTERVIEW"},
   ACCEPTED  |-> {"OFFER", "WITHDRAWN"}]

AppStatus == DOMAIN VALID_TRANSITIONS

AppRow == [owner : User, job : Job \cup {None}, status : AppStatus]

ASSUME ApplicationsAssumption == None \notin AppRow \cup Job

Entries == [old : AppStatus \cup {None}, new : AppStatus]

\* What a request holds: the row it will insert, or the application, the
\* status as loaded and the status or child it was asked for.
Draft == [row : AppRow]
Change == [of : Application, seen : AppStatus, to : AppStatus \cup {None},
           child : Child \cup {None}]

AppPC == {Idle, "insert", "transition", "details", "remove",
          "addchild", "editchild", "dropchild"}

AppInit ==
  /\ app = [a \in Application |-> None]
  /\ history = [a \in Application |-> <<>>]
  /\ children = [a \in Application |-> {}]
  /\ used = {}
  /\ at = [s \in Session |-> Idle]
  /\ held = [s \in Session |-> None]
  /\ overlapped = {}
  /\ asked = 0

-----------------------------------------------------------------------------

\* The request's first reads are done; it commits at the label.
Hold(s, label, what) ==
  /\ at[s] = Idle
  /\ asked < MaxRequests
  /\ asked' = asked + 1
  /\ at' = [at EXCEPT ![s] = label]
  /\ held' = [held EXCEPT ![s] = what]

\* Answered, or ended by an exception.
Answer(s) ==
  /\ at' = [at EXCEPT ![s] = Idle]
  /\ held' = [held EXCEPT ![s] = None]
  /\ UNCHANGED <<overlapped, asked>>

\* get_application_for_candidate: owned by the requesting candidate.
Owned(u, a) == app[a] # None /\ app[a].owner = u

HasApplied(u, j) == \E a \in Application : Owned(u, a) /\ app[a].job = j

\* create_application: no application for this job yet, as far as it can see.
\* An application without a job is tracked by company and title only.
BeginCreate(s, u, j) ==
  /\ u \in profile
  /\ j # None => ~HasApplied(u, j)
  /\ Hold(s, "insert", [row |-> [owner |-> u, job |-> j, status |-> Applied]])
  /\ UNCHANGED <<app, history, children, used, overlapped>>

\* Mutant of JobTaken: the constraint is missing.
NeverTaken(row) == FALSE

\* The unique (profile_id, job_id), which does not bind rows without a job.
JobTaken(row) == row.job # None /\ HasApplied(row.owner, row.job)

\* The application and its first history entry in one commit.
CommitCreate(s, a) ==
  /\ at[s] = "insert"
  /\ ~JobTaken(held[s].row)
  /\ a \notin used
  /\ used' = used \cup {a}
  /\ app' = [app EXCEPT ![a] = held[s].row]
  /\ history' = [history EXCEPT ![a] = <<[old |-> None, new |-> Applied]>>]
  /\ Answer(s)
  /\ UNCHANGED children

CreateConflict(s) ==
  /\ at[s] = "insert"
  /\ JobTaken(held[s].row)
  /\ Answer(s)
  /\ UNCHANGED <<app, history, children, used>>

\* Loads an application for a change; the other columns it loads are not told apart.
Load(s, u, a, label, to, child) ==
  /\ Owned(u, a)
  /\ Hold(s, label, [of |-> a, seen |-> app[a].status, to |-> to, child |-> child])
  /\ UNCHANGED <<app, history, children, used>>

\* Mutant of Allowed: any other status will do.
AllowedAny(status) == AppStatus \ {status}

Allowed(status) == VALID_TRANSITIONS[status]

\* update_application_status: the target is reachable from the status loaded.
BeginTransition(s, u, a, to) ==
  /\ Owned(u, a)
  /\ to \in Allowed(app[a].status)
  /\ Load(s, u, a, "transition", to, None)
  /\ overlapped' =
       IF \E t \in Session : at[t] = "transition" /\ held[t].of = a
       THEN overlapped \cup {a} ELSE overlapped

BeginOther(s, u, a) ==
  /\ \/ Load(s, u, a, "details", None, None)
     \/ Load(s, u, a, "remove", None, None)
     \/ \E c \in Child :
          \/ /\ \A b \in Application : c \notin children[b]
             /\ Load(s, u, a, "addchild", None, c)
          \/ /\ c \in children[a]
             /\ \/ Load(s, u, a, "editchild", None, c)
                \/ Load(s, u, a, "dropchild", None, c)
  /\ UNCHANGED overlapped

\* Mutant of Recorded: the old status is read after the assignment.
RecordedLate(s) == [old |-> held[s].to, new |-> held[s].to]

\* The history entry of a transition, its old status as loaded.
Recorded(s) == [old |-> held[s].seen, new |-> held[s].to]

Gone(s) == app[held[s].of] = None

\* Status and history entry in one commit.
CommitTransition(s) ==
  /\ at[s] = "transition"
  /\ ~Gone(s)
  /\ app' = [app EXCEPT ![held[s].of].status = held[s].to]
  /\ history' = [history EXCEPT ![held[s].of] = Append(@, Recorded(s))]
  /\ Answer(s)
  /\ UNCHANGED <<children, used>>

\* StaleDataError, or an edit of columns the model leaves out.
CommitDetails(s) ==
  /\ \/ at[s] \in {"details", "editchild"}
     \/ at[s] = "transition" /\ Gone(s)
  /\ Answer(s)
  /\ UNCHANGED <<app, history, children, used>>

\* History, notes and interviews go with the row, whoever added them.
CommitRemove(s) ==
  /\ at[s] = "remove"
  /\ app' = [app EXCEPT ![held[s].of] = None]
  /\ history' = [history EXCEPT ![held[s].of] = <<>>]
  /\ children' = [children EXCEPT ![held[s].of] = {}]
  /\ Answer(s)
  /\ UNCHANGED used

\* Mutant of ParentGone: no foreign key.
ParentAssumed(s) == FALSE

\* The foreign key refuses the insert.
ParentGone(s) == Gone(s)

CommitAddChild(s) ==
  /\ at[s] = "addchild"
  /\ children' = IF ParentGone(s) THEN children
                 ELSE [children EXCEPT ![held[s].of] = @ \cup {held[s].child}]
  /\ Answer(s)
  /\ UNCHANGED <<app, history, used>>

CommitDropChild(s) ==
  /\ at[s] = "dropchild"
  /\ children' = [children EXCEPT ![held[s].of] = @ \ {held[s].child}]
  /\ Answer(s)
  /\ UNCHANGED <<app, history, used>>

\* The process dies before the commit.
LoseRequest(s) ==
  /\ at[s] # Idle
  /\ Answer(s)
  /\ UNCHANGED <<app, history, children, used>>

AppStep(s) ==
  \/ \E u \in User, j \in Job \cup {None} : BeginCreate(s, u, j)
  \/ \E a \in Application : CommitCreate(s, a)
  \/ CreateConflict(s)
  \/ \E u \in User, a \in Application, to \in AppStatus : BeginTransition(s, u, a, to)
  \/ \E u \in User, a \in Application : BeginOther(s, u, a)
  \/ CommitTransition(s)
  \/ CommitDetails(s)
  \/ CommitRemove(s)
  \/ CommitAddChild(s)
  \/ CommitDropChild(s)
  \/ LoseRequest(s)

AppNext == \E s \in Session : AppStep(s)

AppSpec ==
  /\ ProfileInit /\ AppInit
  /\ [][ \/ ProfileNext /\ UNCHANGED appVars
         \/ AppNext /\ UNCHANGED profileVars ]_<<profileVars, appVars>>

-----------------------------------------------------------------------------

\* What a request may hold at a label.
FitsLabel(label, what) ==
  /\ label = Idle => what = None
  /\ label = "insert" => what \in Draft /\ what.row.status = Applied
  /\ label \notin {Idle, "insert"} => what \in Change
  /\ label = "addchild" => what.child \in Child
  /\ label = "transition" => what.to \in VALID_TRANSITIONS[what.seen]

AppTypeOK ==
  /\ app \in [Application -> AppRow \cup {None}]
  /\ history \in [Application -> Seq(Entries)]
  /\ children \in [Application -> SUBSET Child]
  /\ used \in SUBSET Application
  /\ at \in [Session -> AppPC]
  /\ held \in [Session -> Draft \cup Change \cup {None}]
  /\ \A s \in Session : FitsLabel(at[s], held[s])
  /\ overlapped \in SUBSET Application
  /\ asked \in Nat

Last(h) == h[Len(h)]

\* The audit trail of an application begins with its submission, every later
\* entry is a transition the table allows, and the status is where the last
\* one led: status and history never part, whatever requests overlap.
AuditTrail ==
  \A a \in Application : app[a] # None =>
    /\ history[a] # <<>>
    /\ history[a][1] = [old |-> None, new |-> Applied]
    /\ \A i \in 2..Len(history[a]) :
         history[a][i].new \in VALID_TRANSITIONS[history[a][i].old]
    /\ Last(history[a]).new = app[a].status

\* As long as no two status requests of an application overlap, each entry
\* begins where the one before ended.  With overlaps it need not: the second
\* request has validated its target against a status that is gone.
UnbrokenTrail ==
  \A a \in Application \ overlapped : \A i \in 2..Len(history[a]) :
    history[a][i].old = history[a][i - 1].new

\* No candidate has two applications for one job, however requests race.
OneApplicationPerJob ==
  \A a, b \in Application :
    app[a] # None /\ app[b] # None /\ a # b /\ app[a].job # None
      => <<app[a].owner, app[a].job>> # <<app[b].owner, app[b].job>>

\* Deleting an application leaves no history, note or interview behind, and a
\* request that is late adds none.
NoOrphans ==
  \A a \in Application : app[a] = None => history[a] = <<>> /\ children[a] = {}

=============================================================================

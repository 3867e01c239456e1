--------------------------- MODULE DeliveryQueue ---------------------------
(***************************************************************************)
(* The table notification_deliveries as a job queue shared by workers.     *)
(*                                                                         *)
(* A worker is one call of process_pending_deliveries: the background      *)
(* process makes one every 15 seconds, POST /notifications/deliveries/     *)
(* process makes one per request, each in a database session of its own.   *)
(* A worker recovers stale rows, reads a batch of claimable rows and, for  *)
(* every row of the batch, claims it, sends it through the provider,       *)
(* records the outcome and folds the outcome into the parent notification. *)
(* Every commit of that path is a step of its own here; reads that no      *)
(* other session can tell from the commit before them belong to its step.  *)
(*                                                                         *)
(* Sessions are created with expire_on_commit=False: a row a session has   *)
(* loaded keeps the values it was loaded with, whatever other sessions     *)
(* commit, until the session refreshes it.  The variable view is that      *)
(* identity map, and it is what record_success, record_failure and         *)
(* _update_parent_notification_status read.                                *)
(*                                                                         *)
(* The module follows the notifications of one candidate, so that          *)
(* cancelling a channel concerns every row of the channel.  Time is        *)
(* abstract: a row's timer (next_retry_at of a RETRYING row, updated_at    *)
(* plus the processing timeout of a PROCESSING row) has elapsed or not.    *)
(***************************************************************************)
EXTENDS Integers, FiniteSets

CONSTANTS
  Worker,        \* database sessions that may process deliveries
  Poller,        \* those of the background process, which polls forever
  Alert,         \* notifications
  Channel,       \* EMAIL, WEBHOOK
  MaxAttempts,   \* NOTIFICATION_MAX_RETRIES, stored in each row
  Limit,         \* size of a batch
  MaxCrashes,    \* bound: crashes in one behaviour
  LeaseOverrun,  \* may a send outlast the processing timeout?
  None

Delivery == Alert \X Channel

ASSUME QueueAssumption ==
  /\ MaxAttempts \in Nat \ {0}
  /\ Limit \in Nat \ {0}
  /\ MaxCrashes \in Nat
  /\ LeaseOverrun \in BOOLEAN
  /\ Poller \subseteq Worker
  /\ None \notin Delivery /\ None \notin Worker
  /\ IsFiniteSet(Delivery)

VARIABLES
  row,      \* the table: status, attempt_count and timer of each delivery
  born,     \* created_at, as a position in the order of creation
  parent,   \* Notification.status
  pc,       \* where each worker is
  todo,     \* the rest of its batch, the row in hand included
  cur,      \* the row in hand
  view,     \* its identity map
  note,     \* the notification as it has loaded it
  verdict,  \* the parent status it is about to write
  reached,  \* ghost: deliveries whose recipient has received a message
  crashes   \* ghost: workers lost so far

vars == <<row, born, parent, pc, todo, cur, view, note, verdict, reached, crashes>>
session == <<pc, todo, cur, view, note, verdict>>

-----------------------------------------------------------------------------
(* Types                                                                   *)

Open == {"PENDING", "PROCESSING", "RETRYING"}
Terminal == {"SENT", "FAILED", "CANCELLED"}
Status == Open \cup Terminal
Row == [status : Status \cup {"ABSENT"}, attempts : 0..MaxAttempts, elapsed : BOOLEAN]
View == [status : Status \cup {"UNLOADED"}, attempts : 0..MaxAttempts]
ParentStatus == {"ABSENT", "PENDING", "SENT", "FAILED"}
Step == {"idle", "select", "loop", "sending", "tally", "write"}

Unloaded == [status |-> "UNLOADED", attempts |-> 0]
EmptyView == [d \in Delivery |-> Unloaded]

\* seen is the loaded status; a note is kept when the caller of the worker
\* holds the object, and is loaded anew for every dispatch otherwise.
Note == [seen : ParentStatus, kept : BOOLEAN]
NoNote == [seen |-> "ABSENT", kept |-> FALSE]

TypeOK ==
  /\ row \in [Delivery -> Row]
  /\ born \in [Delivery -> Nat]
  /\ parent \in [Alert -> ParentStatus]
  /\ pc \in [Worker -> Step]
  /\ todo \in [Worker -> SUBSET Delivery]
  /\ cur \in [Worker -> Delivery \cup {None}]
  /\ view \in [Worker -> [Delivery -> View]]
  /\ note \in [Worker -> Note]
  /\ verdict \in [Worker -> {"NONE", "SENT", "FAILED"}]
  /\ reached \in SUBSET Delivery
  /\ crashes \in 0..MaxCrashes

-----------------------------------------------------------------------------
(* Helpers                                                                 *)

Exists(d) == row[d].status # "ABSENT"

\* Mutants of Stale: the cutoff forgotten, and no recovery at all.
StaleWithoutCutoff(d) == row[d].status = "PROCESSING"
NothingStale(d) == FALSE

\* The WHERE clause of recover_stale_processing.
Stale(d) == row[d].status = "PROCESSING" /\ row[d].elapsed

\* Mutants of Cancellable: every row of the channel, and rows in flight too.
CancelAnything(d) == row[d].status # "ABSENT"
CancelInFlight(d) == row[d].status \in Open

\* The WHERE clause of cancel_pending_for_channel.
Cancellable(d) == row[d].status \in {"PENDING", "RETRYING"}

\* Mutant of RetryLeft: one retry too many.
RetryLeftOffByOne(n) == n <= MaxAttempts

\* May a delivery with n recorded attempts be tried again?
RetryLeft(n) == n < MaxAttempts

\* The WHERE clause of get_pending_or_retryable and of claim_for_processing.
Claimable(d) ==
  \/ row[d].status = "PENDING"
  \/ row[d].status = "RETRYING" /\ row[d].elapsed

\* ORDER BY created_at ASC LIMIT :limit.
Oldest(S) == {d \in S : Cardinality({e \in S : born[e] < born[d]}) < Limit}

\* Mutant of WithStatus: the count starts anew.
FreshWithStatus(d, s) == [status |-> s, attempts |-> 0, elapsed |-> FALSE]

\* Row d with a new status; a new status starts a new timer.
WithStatus(d, s) == [status |-> s, attempts |-> row[d].attempts, elapsed |-> FALSE]

\* A row as a session loads it.
Loaded(d) == [status |-> row[d].status, attempts |-> row[d].attempts]

\* Worker w has claimed d and has not recorded the outcome yet.
Holds(w, d) == pc[w] = "sending" /\ cur[w] = d

\* The statuses _update_parent_notification_status sees: the identity map
\* wins over the row the query has just returned.
SeenStatuses(w, a) ==
  {IF view[w][<<a, c>>].status = "UNLOADED"
     THEN row[<<a, c>>].status ELSE view[w][<<a, c>>].status : c \in Channel}
    \ {"ABSENT"}

\* Mutants of Fold: settled taken for sent, and the SENT branch missing.
FoldSettledAsSent(S) == IF S \cap Open = {} THEN "SENT" ELSE "NONE"
FoldFailuresOnly(S) == IF S = {"FAILED"} THEN "FAILED" ELSE "NONE"

\* any SENT makes the parent SENT, all FAILED make it FAILED.
Fold(S) == IF "SENT" \in S THEN "SENT" ELSE IF S = {"FAILED"} THEN "FAILED" ELSE "NONE"

EndSession(w) ==
  /\ pc' = [pc EXCEPT ![w] = "idle"]
  /\ todo' = [todo EXCEPT ![w] = {}]
  /\ cur' = [cur EXCEPT ![w] = None]
  /\ view' = [view EXCEPT ![w] = EmptyView]
  /\ note' = [note EXCEPT ![w] = NoNote]
  /\ verdict' = [verdict EXCEPT ![w] = "NONE"]

\* The row in hand is dealt with and the session has s for the notification:
\* on to the next row of the batch.
NextItem(w, s) ==
  /\ pc' = [pc EXCEPT ![w] = "loop"]
  /\ todo' = [todo EXCEPT ![w] = @ \ {cur[w]}]
  /\ cur' = [cur EXCEPT ![w] = None]
  /\ note' = [note EXCEPT ![w] = IF @.kept THEN [seen |-> s, kept |-> TRUE] ELSE NoNote]
  /\ verdict' = [verdict EXCEPT ![w] = "NONE"]

Init ==
  /\ row = [d \in Delivery |-> [status |-> "ABSENT", attempts |-> 0, elapsed |-> FALSE]]
  /\ born = [d \in Delivery |-> 0]
  /\ parent = [a \in Alert |-> "ABSENT"]
  /\ pc = [w \in Worker |-> "idle"]
  /\ todo = [w \in Worker |-> {}]
  /\ cur = [w \in Worker |-> None]
  /\ view = [w \in Worker |-> EmptyView]
  /\ note = [w \in Worker |-> NoNote]
  /\ verdict = [w \in Worker |-> "NONE"]
  /\ reached = {}
  /\ crashes = 0

-----------------------------------------------------------------------------
(* Producers: NotificationRepository.create, create_delivery and           *)
(* cancel_pending_for_channel, each with its own commit.                   *)

CreateNotification(a) ==
  /\ parent[a] = "ABSENT"
  /\ parent' = [parent EXCEPT ![a] = "PENDING"]
  /\ UNCHANGED <<row, born, session, reached, crashes>>

CreateDelivery(d) ==
  /\ parent[d[1]] # "ABSENT"
  /\ ~Exists(d)
  /\ row' = [row EXCEPT ![d] = [status |-> "PENDING", attempts |-> 0, elapsed |-> FALSE]]
  /\ born' = [born EXCEPT ![d] = 1 + Cardinality({e \in Delivery : Exists(e)})]
  /\ UNCHANGED <<parent, session, reached, crashes>>

CancelChannel(c) ==
  /\ row' = [d \in Delivery |->
               IF d[2] = c /\ Cancellable(d)
                 THEN WithStatus(d, "CANCELLED")
                 ELSE row[d]]
  /\ UNCHANGED <<born, parent, session, reached, crashes>>

-----------------------------------------------------------------------------
(* Workers                                                                 *)

\* recover_stale_processing: both bulk updates and their commit.
Recover(w) ==
  /\ pc[w] = "idle"
  /\ pc' = [pc EXCEPT ![w] = "select"]
  /\ row' = [d \in Delivery |->
               IF Stale(d)
                 THEN WithStatus(d, IF RetryLeft(row[d].attempts) THEN "RETRYING" ELSE "FAILED")
                 ELSE row[d]]
  /\ UNCHANGED <<born, parent, todo, cur, view, note, verdict, reached, crashes>>

\* get_pending_or_retryable: the batch enters the identity map.
SelectBatch(w) ==
  /\ pc[w] = "select"
  /\ LET batch == Oldest({d \in Delivery : Claimable(d)}) IN
       /\ todo' = [todo EXCEPT ![w] = batch]
       /\ view' = [view EXCEPT ![w] =
                     [d \in Delivery |-> IF d \in batch THEN Loaded(d) ELSE view[w][d]]]
  /\ pc' = [pc EXCEPT ![w] = "loop"]
  /\ UNCHANGED <<row, born, parent, cur, note, verdict, reached, crashes>>

\* The row of the batch the loop takes next.
IsNext(w, d) ==
  /\ d \in todo[w]
  /\ \A e \in todo[w] : born[d] <= born[e]

\* claim_for_processing returns True; _dispatch_claimed_delivery then loads
\* the notification with its deliveries, those of the batch being already in
\* the identity map.  The bulk update marks the loaded row PROCESSING too but
\* does not reload its attempt_count.
Claim(w, d) ==
  /\ pc[w] = "loop"
  /\ IsNext(w, d)
  /\ Claimable(d)
  /\ row' = [row EXCEPT ![d] = WithStatus(d, "PROCESSING")]
  /\ view' = [view EXCEPT ![w] =
                [e \in Delivery |->
                   IF e = d THEN [status |-> "PROCESSING", attempts |-> view[w][d].attempts]
                   ELSE IF e[1] = d[1] /\ view[w][e].status = "UNLOADED" /\ Exists(e)
                          THEN Loaded(e) ELSE view[w][e]]]
  /\ note' = [note EXCEPT ![w] = IF @.kept THEN @ ELSE [seen |-> parent[d[1]], kept |-> FALSE]]
  /\ cur' = [cur EXCEPT ![w] = d]
  /\ pc' = [pc EXCEPT ![w] = "sending"]
  /\ UNCHANGED <<born, parent, todo, verdict, reached, crashes>>

\* claim_for_processing returns False: another worker, or a cancellation, came
\* first.
LoseClaim(w, d) ==
  /\ pc[w] = "loop"
  /\ IsNext(w, d)
  /\ ~Claimable(d)
  /\ todo' = [todo EXCEPT ![w] = @ \ {d}]
  /\ UNCHANGED <<row, born, parent, pc, cur, view, note, verdict, reached, crashes>>

\* What record_success and record_failure commit: the attempt count of the
\* identity map plus one, whatever the table holds, and the refresh after it.
Record(w, status) ==
  LET d == cur[w]
      count == view[w][d].attempts + 1
  IN /\ row' = [row EXCEPT ![d] = [status |-> status, attempts |-> count, elapsed |-> FALSE]]
     /\ view' = [view EXCEPT ![w] =
                   [@ EXCEPT ![d] = [status |-> status, attempts |-> count]]]
     /\ pc' = [pc EXCEPT ![w] = "tally"]
     /\ UNCHANGED <<born, parent, todo, cur, note, verdict, crashes>>

\* channel.send reports success.
RecordSuccess(w) ==
  /\ pc[w] = "sending"
  /\ reached' = reached \cup {cur[w]}
  /\ Record(w, "SENT")

\* A failure the code calls transient: the retry budget decides.  A timeout may
\* strike after the provider has accepted the message.
RecordTransient(w) ==
  /\ pc[w] = "sending"
  /\ reached' \in {reached, reached \cup {cur[w]}}
  /\ Record(w, IF RetryLeft(view[w][cur[w]].attempts + 1) THEN "RETRYING" ELSE "FAILED")

\* A failure the code calls permanent: a validation before the send (no address,
\* unverified address, no webhook URL) or a refusal of the provider.
RecordPermanent(w) ==
  /\ pc[w] = "sending"
  /\ UNCHANGED reached
  /\ Record(w, "FAILED")

\* _update_parent_notification_status, up to its decision: it looks at the
\* notification as the dispatch has loaded it.
Tally(w) ==
  /\ pc[w] = "tally"
  /\ LET a == cur[w][1]
         v == Fold(SeenStatuses(w, a))
     IN IF v \in {"NONE", note[w].seen}
          THEN NextItem(w, note[w].seen)
          ELSE /\ pc' = [pc EXCEPT ![w] = "write"]
               /\ verdict' = [verdict EXCEPT ![w] = v]
               /\ UNCHANGED <<todo, cur, note>>
  /\ UNCHANGED <<row, born, parent, view, reached, crashes>>

\* NotificationRepository.update_status: an unconditional write.
WriteParent(w) ==
  /\ pc[w] = "write"
  /\ parent' = [parent EXCEPT ![cur[w][1]] = verdict[w]]
  /\ NextItem(w, verdict[w])
  /\ UNCHANGED <<row, born, view, reached, crashes>>

EndCycle(w) ==
  /\ pc[w] = "loop"
  /\ todo[w] = {}
  /\ EndSession(w)
  /\ UNCHANGED <<row, born, parent, reached, crashes>>

\* The process dies, or an exception leaves process_pending_deliveries: the
\* session is gone, its claim stays in the table.
Crash(w) ==
  /\ pc[w] # "idle"
  /\ crashes < MaxCrashes
  /\ crashes' = crashes + 1
  /\ reached' \in IF pc[w] = "sending" THEN {reached, reached \cup {cur[w]}} ELSE {reached}
  /\ EndSession(w)
  /\ UNCHANGED <<row, born, parent>>

\* next_retry_at is reached, or a PROCESSING row grows stale.  The timeouts of
\* the providers (10 s) are far below the processing timeout (600 s): unless
\* LeaseOverrun, a PROCESSING row grows stale only when its worker is gone.
TimePasses(d) ==
  /\ row[d].status \in {"RETRYING", "PROCESSING"}
  /\ ~row[d].elapsed
  /\ (row[d].status = "PROCESSING" /\ ~LeaseOverrun) => \A w \in Worker : ~Holds(w, d)
  /\ row' = [row EXCEPT ![d] = [status |-> row[d].status, attempts |-> row[d].attempts,
                                elapsed |-> TRUE]]
  /\ UNCHANGED <<born, parent, session, reached, crashes>>

-----------------------------------------------------------------------------

Produce ==
  \/ \E a \in Alert : CreateNotification(a)
  \/ \E d \in Delivery : CreateDelivery(d)
  \/ \E c \in Channel : CancelChannel(c)

\* What a worker does once its cycle has begun.
Work(w) ==
  \/ SelectBatch(w)
  \/ \E d \in Delivery : Claim(w, d) \/ LoseClaim(w, d)
  \/ RecordSuccess(w)
  \/ RecordTransient(w)
  \/ RecordPermanent(w)
  \/ Tally(w)
  \/ WriteParent(w)
  \/ EndCycle(w)

Next ==
  \/ Produce
  \/ \E w \in Worker : Recover(w) \/ Work(w) \/ Crash(w)
  \/ \E d \in Delivery : TimePasses(d)

Spec == Init /\ [][Next]_vars

\* The background process starts a cycle every 15 seconds and every started
\* cycle runs on; time passes.  Nothing obliges anyone to create, to cancel or
\* to crash.
Fairness ==
  /\ \A w \in Worker : WF_vars(Work(w))
  /\ \A w \in Poller : WF_vars(Recover(w))
  /\ \A d \in Delivery : WF_vars(TimePasses(d))

FairSpec == Spec /\ Fairness
-----------------------------------------------------------------------------
(* What the queue promises                                                 *)

\* No two workers are sending the same delivery: the conditional UPDATE of
\* claim_for_processing, taken with recovery and cancellation, is a lease.
\* Only for ~LeaseOverrun: nothing fences a worker whose row was recovered.
ExclusiveClaim ==
  \A d \in Delivery : \A v, w \in Worker : Holds(v, d) /\ Holds(w, d) => v = w

\* SENT, FAILED and CANCELLED are final: no late write of another session, no
\* recovery and no cancellation ever touches such a row again, although
\* record_success and record_failure write without looking at the status.
SettledForGood ==
  [][\A d \in Delivery : row[d].status \in Terminal => row'[d] = row[d]]_vars

\* A notification is shown as SENT only if a channel really delivered it, and
\* as FAILED only if some channel gave up, however stale the sibling rows were
\* that the worker looked at.
ParentTruthful ==
  \A a \in Alert :
    /\ parent[a] = "SENT" =>
         \E c \in Channel : row[<<a, c>>].status = "SENT" /\ <<a, c>> \in reached
    /\ parent[a] = "FAILED" => \E c \in Channel : row[<<a, c>>].status = "FAILED"

\* Every delivery is eventually sent, failed or cancelled, whatever batches
\* it waits behind and however often (finitely) its workers crash.
EveryDeliverySettles ==
  \A d \in Delivery : row[d].status = "PENDING" ~> row[d].status \in Terminal

\* Worker w is about to show alert a as FAILED, and a sibling delivery has been
\* queued since it decided so: the channels of one notification are committed
\* one by one, and the write does not look again.
Overtaken(w, a) ==
  /\ pc[w] = "write"
  /\ cur[w][1] = a
  /\ verdict[w] = "FAILED"
  /\ \E c \in Channel : row[<<a, c>>].status \notin {"ABSENT", "FAILED"}

\* A delivered notification is shown as SENT in the end, and stays so, whatever
\* becomes of its other channel.  Two accidents are left out, because the code
\* does lose the status to them: a worker lost between the commit of the
\* outcome and the one of the parent, and a worker overtaken by a new sibling.
SentSurfaces ==
  \A d \in Delivery :
    [](crashes = 0 /\ \A w \in Worker : ~Overtaken(w, d[1])) =>
      (row[d].status = "SENT" ~> [](parent[d[1]] = "SENT"))

-----------------------------------------------------------------------------
(* What the repository says of the queue and the code does not do          *)

\* docs/notifications.md: a transient failure increments attempt_count.  (A
\* row whose timer has not elapsed leaves PROCESSING for RETRYING only when a
\* worker records a transient failure.)
TransientFailureCounts ==
  [][\A d \in Delivery :
       /\ row[d].status = "PROCESSING"
       /\ ~row[d].elapsed
       /\ row'[d].status = "RETRYING"
       => row'[d].attempts = row[d].attempts + 1]_vars

\* The docstring of _update_parent_notification_status: it synchronizes the
\* parent with the deliveries.  Once every worker is idle and none was lost,
\* a notification all of whose deliveries failed should be FAILED.
ParentSynchronized ==
  (crashes = 0 /\ \A w \in Worker : pc[w] = "idle") =>
    \A a \in Alert :
      (\A c \in Channel : row[<<a, c>>].status = "FAILED") => parent[a] = "FAILED"
=============================================================================

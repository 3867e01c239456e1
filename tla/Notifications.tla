--------------------------- MODULE Notifications ---------------------------
(***************************************************************************)
(* NotificationService on top of the delivery queue.                       *)
(*                                                                         *)
(* Evaluators run evaluate_and_notify_match for the matches of one         *)
(* candidate: read the preferences, the hourly count and the idempotency   *)
(* key, insert the notification, queue one delivery per enabled channel    *)
(* and, on request, dispatch them at once in the same session.  Each       *)
(* insert commits on its own.  Meanwhile the candidate saves preferences:  *)
(* update_preferences commits the new preferences and then cancels each    *)
(* channel it disables, again commit by commit.  An element of Alert is an *)
(* idempotency key: profile, event type, canonical job, scoring version.   *)
(* Matches below minimum_match_score return before anything is read that   *)
(* matters here, and are left out.                                         *)
(***************************************************************************)
EXTENDS DeliveryQueue

CONSTANTS
  Evaluator,   \* sessions that may evaluate matches
  Email,       \* the channel served first
  MaxPerHour   \* preferences.max_per_hour

ASSUME NotificationsAssumption ==
  /\ Email \in Channel
  /\ MaxPerHour \in Nat
  /\ IsFiniteSet(Evaluator)
  /\ IsFiniteSet(Alert)

VARIABLES
  enabled,   \* channels enabled in the stored preferences (webhook: with a URL)
  saving,    \* channels update_preferences has disabled and not cancelled yet
  recent,    \* notifications created in the past hour
  epc,       \* where each evaluator is
  subject,   \* the alert it evaluates
  plan,      \* the channels enabled when it loaded the preferences
  wanted,    \* ghost: the plan of the evaluator that created the alert
  quiet,     \* ghost: channels disabled by a request that has returned
  leaked     \* ghost: deliveries such a request could not see as open

service == <<enabled, saving, recent, epc, subject, plan, wanted, quiet, leaked>>
allVars == <<vars, service>>

TypeInvariant ==
  /\ TypeOK
  /\ enabled \in SUBSET Channel /\ saving \in SUBSET Channel /\ quiet \in SUBSET Channel
  /\ recent \in SUBSET Alert
  /\ epc \in [Evaluator -> {"idle", "insert", "deliver"}]
  /\ subject \in [Evaluator -> Alert \cup {None}]
  /\ plan \in [Evaluator -> SUBSET Channel]
  /\ wanted \in [Alert -> SUBSET Channel]
  /\ leaked \in SUBSET Delivery

-----------------------------------------------------------------------------

\* Evaluator e is between its checks and its return, on alert a.
Evaluating(e, a) == epc[e] # "idle" /\ subject[e] = a

\* Mutant of Missing: the channels are read again instead of taken from the
\* loaded preferences.
MissingByCurrentPreferences(e) == {c \in enabled : ~Exists(<<subject[e], c>>)}

\* Planned channels whose delivery row is not committed yet.
Missing(e) == {c \in plan[e] : ~Exists(<<subject[e], c>>)}

Return(e) ==
  /\ epc' = [epc EXCEPT ![e] = "idle"]
  /\ subject' = [subject EXCEPT ![e] = None]
  /\ plan' = [plan EXCEPT ![e] = {}]

ServiceInit ==
  /\ Init
  /\ enabled \in SUBSET Channel
  /\ saving = {} /\ quiet = {} /\ leaked = {} /\ recent = {}
  /\ epc = [e \in Evaluator |-> "idle"]
  /\ subject = [e \in Evaluator |-> None]
  /\ plan = [e \in Evaluator |-> {}]
  /\ wanted = [a \in Alert |-> {}]

-----------------------------------------------------------------------------
(* evaluate_and_notify_match                                               *)

\* Mutant of UnderHourlyLimit: the limit is not looked at.
NoHourlyLimit == TRUE

\* count_sent_in_last_hour against max_per_hour.
UnderHourlyLimit == Cardinality(recent) < MaxPerHour

\* Mutant of EnabledChannels: every channel is planned.
AllChannels == Channel

\* The channels the loaded preferences enable.
EnabledChannels == enabled

\* Preferences, hourly count, idempotency key.  When the limit is reached or
\* the key exists the call returns and nothing has changed.
Check(e, a) ==
  /\ epc[e] = "idle"
  /\ UnderHourlyLimit
  /\ parent[a] = "ABSENT"
  /\ epc' = [epc EXCEPT ![e] = "insert"]
  /\ subject' = [subject EXCEPT ![e] = a]
  /\ plan' = [plan EXCEPT ![e] = EnabledChannels]
  /\ UNCHANGED <<vars, enabled, saving, recent, wanted, quiet, leaked>>

\* Mutant of UniqueKey: the unique constraint on idempotency_key is missing.
NoUniqueKey(a) == TRUE

UniqueKey(a) == parent[a] = "ABSENT"

\* The notification is committed; the unique constraint decides between
\* evaluators of the same key.
Insert(e) ==
  /\ epc[e] = "insert"
  /\ LET a == subject[e] IN
       /\ UniqueKey(a)
       /\ parent' = [parent EXCEPT ![a] = "PENDING"]
       /\ recent' = recent \cup {a}
       /\ wanted' = [wanted EXCEPT ![a] = plan[e]]
  /\ epc' = [epc EXCEPT ![e] = "deliver"]
  /\ UNCHANGED <<row, born, session, reached, crashes, enabled, saving, subject, plan, quiet, leaked>>

\* IntegrityError: the call raises, nothing is queued.
InsertRefused(e) ==
  /\ epc[e] = "insert"
  /\ ~UniqueKey(subject[e])
  /\ Return(e)
  /\ UNCHANGED <<vars, enabled, saving, recent, wanted, quiet, leaked>>

\* create_delivery for the next channel of the plan, e-mail first.
QueueDelivery(e, c) ==
  /\ epc[e] = "deliver"
  /\ c \in Missing(e)
  /\ Email \in Missing(e) => c = Email
  /\ CreateDelivery(<<subject[e], c>>)
  /\ UNCHANGED service

Done(e) ==
  /\ epc[e] = "deliver"
  /\ Missing(e) = {}
  /\ Return(e)
  /\ UNCHANGED <<vars, enabled, saving, recent, wanted, quiet, leaked>>

\* force_immediate_dispatch: a worker on the evaluator's session, whose
\* identity map holds the notification and its deliveries as they were created.
DispatchNow(e, w) ==
  /\ epc[e] = "deliver"
  /\ Missing(e) = {}
  /\ plan[e] # {}
  /\ pc[w] = "idle"
  /\ LET mine == {subject[e]} \X plan[e] IN
       /\ todo' = [todo EXCEPT ![w] = mine]
       /\ view' = [view EXCEPT ![w] =
                     [d \in Delivery |-> IF d \in mine THEN [status |-> "PENDING", attempts |-> 0]
                                         ELSE Unloaded]]
  /\ note' = [note EXCEPT ![w] = [seen |-> "PENDING", kept |-> TRUE]]
  /\ pc' = [pc EXCEPT ![w] = "loop"]
  /\ Return(e)
  /\ UNCHANGED <<row, born, parent, cur, verdict, reached, crashes>>
  /\ UNCHANGED <<enabled, saving, recent, wanted, quiet, leaked>>

\* The evaluator dies between two of its commits.
Lose(e) ==
  /\ epc[e] # "idle"
  /\ crashes < MaxCrashes
  /\ crashes' = crashes + 1
  /\ Return(e)
  /\ UNCHANGED <<row, born, parent, session, reached>>
  /\ UNCHANGED <<enabled, saving, recent, wanted, quiet, leaked>>

-----------------------------------------------------------------------------
(* update_preferences, one request at a time                               *)

\* PreferenceRepository.upsert: the fields of the request that are present.
SavePreferences(on, off) ==
  /\ saving = {}
  /\ on \cap off = {}
  /\ enabled' = (enabled \cup on) \ off
  /\ saving' = off
  /\ quiet' = quiet \ on
  /\ UNCHANGED <<vars, recent, epc, subject, plan, wanted, leaked>>

\* cancel_pending_for_channel for the next disabled channel, e-mail first.  What
\* it cannot see: rows in flight, and rows an evaluator is about to create.
CancelDisabled(c) ==
  /\ c \in saving
  /\ Email \in saving => c = Email
  /\ CancelChannel(c)
  /\ saving' = saving \ {c}
  /\ quiet' = quiet \cup {c}
  /\ leaked' = {d \in leaked : d[2] # c} \cup
               {d \in Delivery : d[2] = c /\
                  (\/ row[d].status = "PROCESSING"
                   \/ \E e \in Evaluator : Evaluating(e, d[1]) /\ c \in Missing(e))}
  /\ UNCHANGED <<enabled, recent, epc, subject, plan, wanted>>

\* The request dies between the commit of the preferences and the cancellations.
LoseRequest ==
  /\ saving # {}
  /\ crashes < MaxCrashes
  /\ crashes' = crashes + 1
  /\ saving' = {}
  /\ UNCHANGED <<row, born, parent, session, reached>>
  /\ UNCHANGED <<enabled, recent, epc, subject, plan, wanted, quiet, leaked>>

\* A notification is more than an hour old.
HourPasses(a) ==
  /\ a \in recent
  /\ recent' = recent \ {a}
  /\ UNCHANGED <<vars, enabled, saving, epc, subject, plan, wanted, quiet, leaked>>

-----------------------------------------------------------------------------

Evaluate(e) ==
  \/ \E a \in Alert : Check(e, a)
  \/ Insert(e)
  \/ InsertRefused(e)
  \/ \E c \in Channel : QueueDelivery(e, c)
  \/ Done(e)
  \/ \E w \in Worker : DispatchNow(e, w)
  \/ Lose(e)

Deliver ==
  /\ \/ \E w \in Worker : Recover(w) \/ Work(w) \/ Crash(w)
     \/ \E d \in Delivery : TimePasses(d)
  /\ UNCHANGED service

ServiceNext ==
  \/ \E e \in Evaluator : Evaluate(e)
  \/ Deliver
  \/ \E on, off \in SUBSET Channel : SavePreferences(on, off)
  \/ \E c \in Channel : CancelDisabled(c)
  \/ LoseRequest
  \/ \E a \in Alert : HourPasses(a)

ServiceSpec == ServiceInit /\ [][ServiceNext]_allVars

-----------------------------------------------------------------------------
(* What the service promises                                               *)

\* Evaluators of one idempotency key never queue deliveries side by side, so
\* no insert ever meets the unique constraint on notification and channel.
OneProducer ==
  \A d, e \in Evaluator :
    epc[d] = "deliver" /\ epc[e] = "deliver" /\ subject[d] = subject[e] => d = e

\* The hourly count is checked before the insert and not with it: concurrent
\* evaluators may exceed the limit, by one notification each.
HourlyLimitOvershoot ==
  Cardinality(recent) <= MaxPerHour + Cardinality(Evaluator) - 1

\* Unless a process was lost, a notification nobody is working on has a
\* delivery for each channel its candidate had enabled: an idempotency hit
\* never hides an alert that was not queued.
QueuedAsWanted ==
  crashes = 0 =>
    \A a \in Alert :
      (parent[a] # "ABSENT" /\ \A e \in Evaluator : ~Evaluating(e, a)) =>
        \A c \in wanted[a] : Exists(<<a, c>>)

\* After a channel was disabled, the only deliveries of the channel that can
\* still be claimed are those that were in flight, or about to be created by
\* an evaluator with older preferences, when it was cancelled.
OnlyInFlightLeaks ==
  \A d \in Delivery :
    d[2] \in quiet /\ row[d].status \in {"PENDING", "RETRYING"} => d \in leaked

-----------------------------------------------------------------------------
(* What the repository says of the service and the code does not do        *)

\* docs/notifications.md, "Immediate Unsubscribe": once the request that
\* disabled a channel has returned, no delivery of the channel is claimed, and
\* so none is sent, until the candidate enables it again.
UnsubscribeIsImmediate ==
  [][\A d \in Delivery :
       d[2] \in quiet /\ row[d].status # "PROCESSING" => row'[d].status # "PROCESSING"]_allVars
=============================================================================

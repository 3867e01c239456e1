------------------------- MODULE NotificationsProofs -------------------------
(***************************************************************************)
(* Proofs about Notifications.  The service shares the tables of the       *)
(* delivery queue with the workers, so the queue's invariants (module      *)
(* DeliveryQueueProofs) are shown to survive everything the service does   *)
(* that is no step of the queue: dispatching at once from the session that *)
(* created the deliveries, and losing an evaluator or a request.           *)
(***************************************************************************)
EXTENDS Notifications, DeliveryQueueProofs

\* The types of the service's own variables; who evaluates has an alert in hand.
ServiceTypes ==
  /\ enabled \in SUBSET Channel /\ saving \in SUBSET Channel /\ quiet \in SUBSET Channel
  /\ recent \in SUBSET Alert
  /\ epc \in [Evaluator -> {"idle", "insert", "deliver"}]
  /\ subject \in [Evaluator -> Alert \cup {None}]
  /\ \A e \in Evaluator : epc[e] # "idle" => subject[e] \in Alert
  /\ plan \in [Evaluator -> SUBSET Channel]
  /\ wanted \in [Alert -> SUBSET Channel]
  /\ leaked \in SUBSET Delivery

\* An evaluator or a request is lost: the queue is not touched.
LostStep ==
  /\ crashes < MaxCrashes /\ crashes' = crashes + 1
  /\ UNCHANGED <<row, born, parent, session, reached>>

-----------------------------------------------------------------------------
(* The service and the queue                                               *)

\* To the queue, a step of the service is a step of its own, an immediate
\* dispatch, or a loss.
LEMMA QueueSteps ==
  ServiceTypes /\ [ServiceNext]_allVars =>
    \/ [Next]_vars
    \/ \E e \in Evaluator, w \in Worker : DispatchNow(e, w)
    \/ LostStep
<1> SUFFICES ASSUME ServiceTypes, [ServiceNext]_allVars
             PROVE  \/ [Next]_vars
                    \/ \E e \in Evaluator, w \in Worker : DispatchNow(e, w)
                    \/ LostStep
  OBVIOUS
<1>1. ASSUME NEW e \in Evaluator, Evaluate(e)
      PROVE  \/ [Next]_vars
             \/ \E w \in Worker : DispatchNow(e, w)
             \/ LostStep
  <2>1. ASSUME Insert(e) PROVE Next
    <3>1. CreateNotification(subject[e])
      BY <2>1 DEF Insert, UniqueKey, CreateNotification
    <3>2. subject[e] \in Alert
      BY <2>1 DEF Insert, ServiceTypes
    <3>3. QED
      BY <3>1, <3>2 DEF Next, Produce
  <2>2. ASSUME NEW c \in Channel, QueueDelivery(e, c) PROVE Next
    <3>1. CreateDelivery(<<subject[e], c>>)
      BY <2>2 DEF QueueDelivery
    <3>2. <<subject[e], c>> \in Delivery
      BY <2>2 DEF QueueDelivery, ServiceTypes, Delivery
    <3>3. QED
      BY <3>1, <3>2 DEF Next, Produce
  <2>3. ASSUME NEW a \in Alert, Check(e, a) PROVE UNCHANGED vars
    BY <2>3 DEF Check
  <2>4. ASSUME InsertRefused(e) \/ Done(e) PROVE UNCHANGED vars
    BY <2>4 DEF InsertRefused, Done
  <2>5. ASSUME Lose(e) PROVE LostStep
    BY <2>5 DEF Lose, LostStep
  <2>6. QED
    BY <1>1, <2>1, <2>2, <2>3, <2>4, <2>5 DEF Evaluate
<1>2. ASSUME Deliver PROVE Next
  BY <1>2 DEF Deliver, Next
<1>3. ASSUME NEW on \in SUBSET Channel, NEW off \in SUBSET Channel, SavePreferences(on, off)
      PROVE  UNCHANGED vars
  BY <1>3 DEF SavePreferences
<1>4. ASSUME NEW c \in Channel, CancelDisabled(c) PROVE Next
  BY <1>4 DEF CancelDisabled, Next, Produce
<1>5. ASSUME LoseRequest PROVE LostStep
  BY <1>5 DEF LoseRequest, LostStep
<1>6. ASSUME NEW a \in Alert, HourPasses(a) PROVE UNCHANGED vars
  BY <1>6 DEF HourPasses
<1>7. CASE UNCHANGED allVars
  BY <1>7 DEF allVars
<1>8. QED
  BY <1>1, <1>2, <1>3, <1>4, <1>5, <1>6, <1>7 DEF ServiceNext

\* The batch of an immediate dispatch: fresh rows of existing deliveries.
LEMMA DispatchKeepsQueue ==
  ASSUME BudgetInv, ServiceTypes, NEW e \in Evaluator, NEW w \in Worker, DispatchNow(e, w)
  PROVE  BudgetInv' /\ (LeaseInv => LeaseInv') /\ (TruthInv => TruthInv')
<1> DEFINE mine == {subject[e]} \X plan[e]
           fresh == [d \in Delivery |-> IF d \in mine THEN [status |-> "PENDING", attempts |-> 0]
                                        ELSE Unloaded]
<1>1. /\ mine \in SUBSET Delivery
      /\ todo' = [todo EXCEPT ![w] = mine] /\ view' = [view EXCEPT ![w] = fresh]
      /\ pc' = [pc EXCEPT ![w] = "loop"] /\ pc[w] = "idle"
      /\ note' = [note EXCEPT ![w] = [seen |-> "PENDING", kept |-> TRUE]]
      /\ UNCHANGED <<row, born, parent, cur, verdict, reached, crashes>>
  BY DEF DispatchNow, ServiceTypes, Delivery
<1>2. /\ fresh \in [Delivery -> View]
      /\ \A d \in mine : fresh[d].status # "UNLOADED" /\ fresh[d].attempts = 0
      /\ \A d \in Delivery : fresh[d].status \notin {"SENT", "FAILED"}
  BY <1>1, QueueAssumption DEF View, Status, Open, Unloaded
<1> HIDE DEF mine, fresh
<1>3. TypeOK'
  BY <1>1, <1>2 DEF BudgetInv, TypeOK, Step, Note, ParentStatus
<1>4. BudgetLeftWhileOpen'
  BY <1>1 DEF BudgetInv, BudgetLeftWhileOpen
<1>5. HandInv'
  BY <1>1, <1>2, QueueAssumption DEF BudgetInv, HandInv, TypeOK
<1>6. LeaseInv => LeaseInv'
  BY <1>1 DEF LeaseInv, ExclusiveClaim, Holds, BudgetInv, TypeOK
<1>7. TruthInv => TruthInv'
  BY <1>1, <1>2 DEF TruthInv, BudgetInv, TypeOK
<1>8. QED
  BY <1>3, <1>4, <1>5, <1>6, <1>7 DEF BudgetInv

LEMMA LossKeepsQueue ==
  BudgetInv /\ LostStep => BudgetInv' /\ (LeaseInv => LeaseInv') /\ (TruthInv => TruthInv')
<1> SUFFICES ASSUME BudgetInv, LostStep
             PROVE  BudgetInv' /\ (LeaseInv => LeaseInv') /\ (TruthInv => TruthInv')
  OBVIOUS
<1> USE DEF LostStep, session
<1>1. TypeOK'
  BY QueueAssumption DEF BudgetInv, TypeOK
<1>2. BudgetLeftWhileOpen' /\ HandInv'
  BY DEF BudgetInv, BudgetLeftWhileOpen, HandInv
<1>3. LeaseInv => LeaseInv'
  BY DEF LeaseInv, ExclusiveClaim, Holds
<1>4. TruthInv => TruthInv'
  BY DEF TruthInv
<1>5. QED
  BY <1>1, <1>2, <1>3, <1>4 DEF BudgetInv

\* The queue's invariants survive the service.
LEMMA ServiceKeepsQueue ==
  BudgetInv /\ ServiceTypes /\ [ServiceNext]_allVars =>
    /\ BudgetInv'
    /\ ~LeaseOverrun /\ LeaseInv => LeaseInv' /\ (TruthInv => TruthInv')
<1> SUFFICES ASSUME BudgetInv, ServiceTypes, [ServiceNext]_allVars
             PROVE  /\ BudgetInv'
                    /\ ~LeaseOverrun /\ LeaseInv => LeaseInv' /\ (TruthInv => TruthInv')
  OBVIOUS
<1>1. CASE [Next]_vars
  <2>1. BudgetInv'
    BY <1>1, NextBudget
  <2>2. ~LeaseOverrun /\ LeaseInv => LeaseInv'
    BY <1>1, NextLease
  <2>3. LeaseInv /\ TruthInv => TruthInv'
    BY <1>1, <2>1, NextTruth
  <2>4. QED
    BY <2>1, <2>2, <2>3
<1>2. CASE \E e \in Evaluator, w \in Worker : DispatchNow(e, w)
  BY <1>2, DispatchKeepsQueue
<1>3. CASE LostStep
  BY <1>3, LossKeepsQueue
<1>4. QED
  BY <1>1, <1>2, <1>3, QueueSteps

\* The types of the service's variables.
LEMMA ServiceTypesStep == ServiceTypes /\ [ServiceNext]_allVars => ServiceTypes'
<1> SUFFICES ASSUME ServiceTypes, [ServiceNext]_allVars PROVE ServiceTypes'
  OBVIOUS
<1> USE DEF ServiceTypes, service
<1>1. ASSUME NEW e \in Evaluator, Evaluate(e) PROVE ServiceTypes'
  <2>1. ASSUME NEW a \in Alert, Check(e, a) PROVE ServiceTypes'
    BY <2>1 DEF Check, EnabledChannels
  <2>2. CASE Insert(e)
    BY <2>2 DEF Insert
  <2>3. CASE InsertRefused(e) \/ Done(e) \/ Lose(e)
    BY <2>3 DEF InsertRefused, Done, Lose, Return
  <2>4. ASSUME NEW c \in Channel, QueueDelivery(e, c) PROVE ServiceTypes'
    BY <2>4 DEF QueueDelivery
  <2>5. ASSUME NEW w \in Worker, DispatchNow(e, w) PROVE ServiceTypes'
    BY <2>5 DEF DispatchNow, Return
  <2>6. QED
    BY <1>1, <2>1, <2>2, <2>3, <2>4, <2>5 DEF Evaluate
<1>2. CASE Deliver
  BY <1>2 DEF Deliver
<1>3. ASSUME NEW on \in SUBSET Channel, NEW off \in SUBSET Channel, SavePreferences(on, off)
      PROVE  ServiceTypes'
  BY <1>3 DEF SavePreferences
<1>4. ASSUME NEW c \in Channel, CancelDisabled(c) PROVE ServiceTypes'
  BY <1>4 DEF CancelDisabled
<1>5. CASE LoseRequest
  BY <1>5 DEF LoseRequest
<1>6. ASSUME NEW a \in Alert, HourPasses(a) PROVE ServiceTypes'
  BY <1>6 DEF HourPasses
<1>7. CASE UNCHANGED allVars
  BY <1>7 DEF allVars
<1>8. QED
  BY <1>1, <1>2, <1>3, <1>4, <1>5, <1>6, <1>7 DEF ServiceNext

-----------------------------------------------------------------------------
(* What no step undoes                                                     *)

\* Rows and notifications stay, and losses are not forgotten.
Lasting ==
  /\ \A d \in Delivery : Exists(d) => row'[d].status # "ABSENT"
  /\ \A a \in Alert : parent[a] # "ABSENT" => parent'[a] # "ABSENT"
  /\ crashes' = 0 => crashes = 0

LEMMA DeliverLasts == BudgetInv /\ Deliver => Lasting
<1> SUFFICES ASSUME BudgetInv, Deliver PROVE Lasting
  OBVIOUS
<1> USE DEF BudgetInv, TypeOK, Exists, Lasting
<1>1. ASSUME NEW w \in Worker, Recover(w) PROVE Lasting
  BY <1>1 DEF Recover, Stale, WithStatus
<1>2. ASSUME NEW w \in Worker, Work(w) PROVE Lasting
  <2>1. ASSUME SelectBatch(w) \/ Tally(w) \/ EndCycle(w) \/ \E d \in Delivery : LoseClaim(w, d)
        PROVE  Lasting
    <3>1. UNCHANGED <<row, parent, crashes>>
      BY <2>1 DEF SelectBatch, Tally, EndCycle, LoseClaim
    <3>2. QED
      BY <3>1
  <2>2. ASSUME NEW d \in Delivery, Claim(w, d) PROVE Lasting
    BY <2>2 DEF Claim, WithStatus
  <2>3. ASSUME RecordSuccess(w) \/ RecordTransient(w) \/ RecordPermanent(w) PROVE Lasting
    <3>1. PICK s \in {"SENT", "RETRYING", "FAILED"} : Record(w, s)
      BY <2>3 DEF RecordSuccess, RecordTransient, RecordPermanent
    <3>2. QED
      BY <3>1 DEF Record
  <2>4. CASE WriteParent(w)
    BY <2>4 DEF WriteParent, HandInv
  <2>5. QED
    BY <1>2, <2>1, <2>2, <2>3, <2>4 DEF Work
<1>3. ASSUME NEW w \in Worker, Crash(w) PROVE Lasting
  BY <1>3 DEF Crash
<1>4. ASSUME NEW d \in Delivery, TimePasses(d) PROVE Lasting
  BY <1>4 DEF TimePasses
<1>5. QED
  BY <1>1, <1>2, <1>3, <1>4 DEF Deliver

\* The service's own steps do not undo them either.
LEMMA ServiceLasts == BudgetInv /\ ServiceTypes /\ [ServiceNext]_allVars => Lasting
<1> SUFFICES ASSUME BudgetInv, ServiceTypes, [ServiceNext]_allVars PROVE Lasting
  OBVIOUS
<1> USE DEF BudgetInv, TypeOK, Exists, Lasting
<1>1. CASE Deliver
  BY <1>1, DeliverLasts
<1>2. ASSUME NEW e \in Evaluator, Evaluate(e) PROVE Lasting
  <2>1. ASSUME NEW a \in Alert, Check(e, a) PROVE Lasting
    BY <2>1 DEF Check, vars
  <2>2. CASE Insert(e)
    BY <2>2 DEF Insert
  <2>3. CASE InsertRefused(e) \/ Done(e)
    BY <2>3 DEF InsertRefused, Done, vars
  <2>4. ASSUME NEW c \in Channel, QueueDelivery(e, c) PROVE Lasting
    BY <2>4 DEF QueueDelivery, CreateDelivery
  <2>5. ASSUME NEW w \in Worker, DispatchNow(e, w) PROVE Lasting
    BY <2>5 DEF DispatchNow
  <2>6. CASE Lose(e)
    BY <2>6 DEF Lose
  <2>7. QED
    BY <1>2, <2>1, <2>2, <2>3, <2>4, <2>5, <2>6 DEF Evaluate
<1>3. ASSUME NEW on \in SUBSET Channel, NEW off \in SUBSET Channel, SavePreferences(on, off)
      PROVE  Lasting
  BY <1>3 DEF SavePreferences, vars
<1>4. ASSUME NEW c \in Channel, CancelDisabled(c) PROVE Lasting
  BY <1>4 DEF CancelDisabled, CancelChannel, WithStatus
<1>5. CASE LoseRequest
  BY <1>5 DEF LoseRequest
<1>6. ASSUME NEW a \in Alert, HourPasses(a) PROVE Lasting
  BY <1>6 DEF HourPasses, vars
<1>7. CASE UNCHANGED allVars
  BY <1>7 DEF allVars, vars
<1>8. QED
  BY <1>1, <1>2, <1>3, <1>4, <1>5, <1>6, <1>7 DEF ServiceNext

-----------------------------------------------------------------------------
(* Evaluators                                                              *)

\* Who queues deliveries does so for a notification that is stored, alone, and
\* with the channels noted as wanted; who is done has queued them all.
ProducerInv ==
  /\ \A e \in Evaluator : epc[e] = "deliver" => parent[subject[e]] # "ABSENT"
  /\ OneProducer
  /\ crashes = 0 => \A a \in Alert :
       \/ \A c \in wanted[a] : Exists(<<a, c>>)
       \/ \E e \in Evaluator : epc[e] = "deliver" /\ subject[e] = a /\ plan[e] = wanted[a]

\* A step that leaves the evaluators and what they want alone.
LEMMA ProducersRest ==
  ASSUME ServiceTypes, ProducerInv, Lasting, UNCHANGED <<epc, subject, plan, wanted>>
  PROVE  ProducerInv'
<1>1. \A e \in Evaluator : epc'[e] = "deliver" => parent'[subject'[e]] # "ABSENT"
  BY DEF ProducerInv, Lasting, ServiceTypes
<1>2. OneProducer'
  BY DEF ProducerInv, OneProducer
<1>3. ASSUME crashes' = 0, NEW a \in Alert
      PROVE  \/ \A c \in wanted'[a] : Exists(<<a, c>>)'
             \/ \E e \in Evaluator : epc'[e] = "deliver" /\ subject'[e] = a /\ plan'[e] = wanted'[a]
  BY <1>3 DEF ProducerInv, Lasting, ServiceTypes, Exists, Delivery
<1>4. QED
  BY <1>1, <1>2, <1>3 DEF ProducerInv

\* An evaluator returns that was not queuing, or has queued everything, or is lost.
LEMMA ProducerReturns ==
  ASSUME ServiceTypes, ProducerInv, Lasting, NEW e \in Evaluator, Return(e), UNCHANGED wanted,
         epc[e] = "deliver" /\ crashes' = 0 => Missing(e) = {}
  PROVE  ProducerInv'
<1>0. /\ epc'[e] = "idle"
      /\ \A f \in Evaluator \ {e} : epc'[f] = epc[f] /\ subject'[f] = subject[f] /\ plan'[f] = plan[f]
  BY DEF Return, ServiceTypes
<1>1. \A f \in Evaluator : epc'[f] = "deliver" => parent'[subject'[f]] # "ABSENT"
  BY <1>0 DEF ProducerInv, Lasting, ServiceTypes
<1>2. OneProducer'
  BY <1>0 DEF ProducerInv, OneProducer
<1>3. ASSUME crashes' = 0, NEW a \in Alert
      PROVE  \/ \A c \in wanted'[a] : Exists(<<a, c>>)'
             \/ \E f \in Evaluator : epc'[f] = "deliver" /\ subject'[f] = a /\ plan'[f] = wanted'[a]
  <2>0. wanted' = wanted /\ wanted[a] \subseteq Channel /\ crashes = 0
    BY <1>3 DEF ServiceTypes, Lasting
  <2>1. CASE \A c \in wanted[a] : Exists(<<a, c>>)
    BY <2>0, <2>1 DEF Lasting, Exists, Delivery
  <2>2. ASSUME NEW f \in Evaluator, epc[f] = "deliver", subject[f] = a, plan[f] = wanted[a], f # e
        PROVE  epc'[f] = "deliver" /\ subject'[f] = a /\ plan'[f] = wanted'[a]
    BY <1>0, <2>0, <2>2
  <2>3. CASE epc[e] = "deliver" /\ subject[e] = a /\ plan[e] = wanted[a]
    <3>1. Missing(e) = {}
      BY <1>3, <2>3
    <3>2. \A c \in wanted[a] : Exists(<<a, c>>)
      BY <2>3, <3>1 DEF Missing
    <3>3. QED
      BY <2>1, <3>2
  <2>4. QED
    BY <2>0, <2>1, <2>2, <2>3 DEF ProducerInv
<1>4. QED
  BY <1>1, <1>2, <1>3 DEF ProducerInv

LEMMA ProducerStep ==
  BudgetInv /\ ServiceTypes /\ ProducerInv /\ [ServiceNext]_allVars => ProducerInv'
<1> SUFFICES ASSUME BudgetInv, ServiceTypes, ProducerInv, [ServiceNext]_allVars PROVE ProducerInv'
  OBVIOUS
<1>0. Lasting
  BY ServiceLasts
<1>1. ASSUME NEW e \in Evaluator, Evaluate(e) PROVE ProducerInv'
  <2>1. ASSUME NEW a \in Alert, Check(e, a) PROVE ProducerInv'
    <3>1. /\ epc[e] = "idle" /\ epc'[e] = "insert" /\ UNCHANGED <<vars, wanted>>
          /\ \A f \in Evaluator \ {e} :
               epc'[f] = epc[f] /\ subject'[f] = subject[f] /\ plan'[f] = plan[f]
      BY <2>1 DEF Check, ServiceTypes
    <3>2. OneProducer'
      BY <3>1 DEF ProducerInv, OneProducer
    <3>3. QED
      BY <3>1, <3>2 DEF ProducerInv, Exists, vars
  <2>2. CASE Insert(e)
    <3> DEFINE a == subject[e]
    <3>1. /\ epc[e] = "insert" /\ parent[a] = "ABSENT" /\ a \in Alert
          /\ parent' = [parent EXCEPT ![a] = "PENDING"]
          /\ wanted' = [wanted EXCEPT ![a] = plan[e]]
          /\ epc' = [epc EXCEPT ![e] = "deliver"] /\ UNCHANGED <<row, crashes, subject, plan>>
      BY <2>2 DEF Insert, UniqueKey, ServiceTypes
    <3>2. \A f \in Evaluator : epc[f] = "deliver" => subject[f] # a
      BY <3>1 DEF ProducerInv
    <3>3. \A f \in Evaluator : epc'[f] = "deliver" => parent'[subject'[f]] # "ABSENT"
      BY <3>1 DEF ProducerInv, ServiceTypes, BudgetInv, TypeOK
    <3>4. OneProducer'
      BY <3>1, <3>2 DEF ProducerInv, OneProducer, ServiceTypes
    <3>5. ASSUME crashes' = 0, NEW b \in Alert
          PROVE  \/ \A c \in wanted'[b] : Exists(<<b, c>>)'
                 \/ \E f \in Evaluator :
                      epc'[f] = "deliver" /\ subject'[f] = b /\ plan'[f] = wanted'[b]
      <4>1. CASE b = a
        <5>1. epc'[e] = "deliver" /\ subject'[e] = b /\ plan'[e] = wanted'[b]
          BY <3>1, <4>1 DEF ServiceTypes
        <5>2. QED
          BY <5>1
      <4>2. CASE b # a
        <5>1. wanted'[b] = wanted[b]
          BY <3>1, <4>2 DEF ServiceTypes
        <5>2. \A f \in Evaluator : epc[f] = "deliver" => epc'[f] = "deliver"
          BY <3>1 DEF ServiceTypes
        <5>3. \A c : Exists(<<b, c>>)' <=> Exists(<<b, c>>)
          BY <3>1 DEF Exists
        <5>4. QED
          BY <3>1, <3>5, <5>1, <5>2, <5>3 DEF ProducerInv
      <4>3. QED
        BY <4>1, <4>2
    <3>6. QED
      BY <3>3, <3>4, <3>5 DEF ProducerInv
  <2>3. CASE InsertRefused(e)
    BY <1>0, <2>3, ProducerReturns DEF InsertRefused
  <2>4. CASE Done(e)
    BY <1>0, <2>4, ProducerReturns DEF Done
  <2>5. ASSUME NEW w \in Worker, DispatchNow(e, w) PROVE ProducerInv'
    BY <1>0, <2>5, ProducerReturns DEF DispatchNow
  <2>6. CASE Lose(e)
    <3>1. crashes' # 0
      BY <2>6 DEF Lose, BudgetInv, TypeOK
    <3>2. QED
      BY <1>0, <2>6, <3>1, ProducerReturns DEF Lose
  <2>7. ASSUME NEW c \in Channel, QueueDelivery(e, c) PROVE ProducerInv'
    BY <1>0, <2>7, ProducersRest DEF QueueDelivery, service
  <2>8. QED
    BY <1>1, <2>1, <2>2, <2>3, <2>4, <2>5, <2>6, <2>7 DEF Evaluate
<1>2. CASE Deliver
  BY <1>0, <1>2, ProducersRest DEF Deliver, service
<1>3. ASSUME NEW on \in SUBSET Channel, NEW off \in SUBSET Channel, SavePreferences(on, off)
      PROVE  ProducerInv'
  BY <1>0, <1>3, ProducersRest DEF SavePreferences
<1>4. ASSUME NEW c \in Channel, CancelDisabled(c) PROVE ProducerInv'
  BY <1>0, <1>4, ProducersRest DEF CancelDisabled
<1>5. CASE LoseRequest
  BY <1>0, <1>5, ProducersRest DEF LoseRequest
<1>6. ASSUME NEW a \in Alert, HourPasses(a) PROVE ProducerInv'
  BY <1>0, <1>6, ProducersRest DEF HourPasses
<1>7. CASE UNCHANGED allVars
  BY <1>0, <1>7, ProducersRest DEF allVars, service
<1>8. QED
  BY <1>1, <1>2, <1>3, <1>4, <1>5, <1>6, <1>7 DEF ServiceNext

-----------------------------------------------------------------------------
(* The hourly limit                                                        *)

Inserting == {e \in Evaluator : epc[e] = "insert"}

\* Who is past the check has a place reserved, up to one for each evaluator.
LimitInv == Cardinality(recent) + Cardinality(Inserting) <= MaxPerHour + Cardinality(Evaluator) - 1

LEMMA LimitSizes ==
  ASSUME ServiceTypes
  PROVE  /\ IsFiniteSet(recent) /\ IsFiniteSet(Inserting)
         /\ Cardinality(recent) \in Nat /\ Cardinality(Inserting) \in Nat
         /\ Cardinality(Evaluator) \in Nat /\ Cardinality(Inserting) <= Cardinality(Evaluator)
<1>1. IsFiniteSet(recent) /\ IsFiniteSet(Inserting)
  BY FS_Subset, NotificationsAssumption DEF ServiceTypes, Inserting
<1>2. Cardinality(Inserting) <= Cardinality(Evaluator)
  BY FS_Subset, NotificationsAssumption DEF Inserting
<1>3. QED
  BY <1>1, <1>2, FS_CardinalityType, NotificationsAssumption

\* Fewer past the check, and fewer notifications.
LEMMA LimitRelaxed ==
  ASSUME ServiceTypes, LimitInv, Inserting' \subseteq Inserting, recent' \subseteq recent
  PROVE  LimitInv'
<1>1. /\ Cardinality(recent') <= Cardinality(recent) /\ Cardinality(recent') \in Nat
      /\ Cardinality(Inserting') <= Cardinality(Inserting) /\ Cardinality(Inserting') \in Nat
  BY LimitSizes, FS_Subset, FS_CardinalityType
<1>2. QED
  BY <1>1, LimitSizes, NotificationsAssumption DEF LimitInv

\* A place given up for a notification.
LEMMA LimitUsed ==
  ASSUME ServiceTypes, LimitInv, NEW e \in Inserting, NEW a \in Alert,
         Inserting' = Inserting \ {e}, recent' = recent \cup {a}
  PROVE  LimitInv'
<1>1. Cardinality(Inserting') = Cardinality(Inserting) - 1
  BY LimitSizes, FS_RemoveElement
<1>2. Cardinality(recent') <= Cardinality(recent) + 1 /\ Cardinality(recent') \in Nat
  <2>1. IsFiniteSet(recent) /\ Cardinality(recent) \in Nat
    BY LimitSizes
  <2>2. Cardinality(recent \cup {a}) = IF a \in recent THEN Cardinality(recent) ELSE Cardinality(recent) + 1
    BY <2>1, FS_AddElement
  <2>3. QED
    BY <2>1, <2>2
<1>3. QED
  BY <1>1, <1>2, LimitSizes, NotificationsAssumption DEF LimitInv

LEMMA LimitStep == ServiceTypes /\ LimitInv /\ [ServiceNext]_allVars => LimitInv'
<1> SUFFICES ASSUME ServiceTypes, LimitInv, [ServiceNext]_allVars PROVE LimitInv'
  OBVIOUS
<1>0. ASSUME UNCHANGED <<epc, recent>> PROVE LimitInv'
  BY <1>0 DEF LimitInv, Inserting
<1>1. ASSUME NEW e \in Evaluator, Evaluate(e) PROVE LimitInv'
  <2>1. ASSUME NEW a \in Alert, Check(e, a) PROVE LimitInv'
    <3>1. Cardinality(recent) < MaxPerHour /\ recent' = recent
      BY <2>1 DEF Check, UnderHourlyLimit
    <3>2. IsFiniteSet(Inserting') /\ Cardinality(Inserting') <= Cardinality(Evaluator)
      BY FS_Subset, NotificationsAssumption DEF Inserting
    <3>3. Cardinality(Inserting') \in Nat
      BY <3>2, FS_CardinalityType
    <3>4. QED
      BY <3>1, <3>2, <3>3, LimitSizes, NotificationsAssumption DEF LimitInv
  <2>2. CASE Insert(e)
    <3>1. /\ e \in Inserting /\ subject[e] \in Alert
          /\ epc' = [epc EXCEPT ![e] = "deliver"] /\ recent' = recent \cup {subject[e]}
      BY <2>2 DEF Insert, Inserting, ServiceTypes
    <3>2. Inserting' = Inserting \ {e}
      BY <3>1 DEF Inserting, ServiceTypes
    <3>3. QED
      BY <3>1, <3>2, LimitUsed
  <2>3. ASSUME Return(e), UNCHANGED recent PROVE LimitInv'
    <3>1. Inserting' \subseteq Inserting
      BY <2>3 DEF Return, Inserting, ServiceTypes
    <3>2. QED
      BY <2>3, <3>1, LimitRelaxed
  <2>4. ASSUME NEW c \in Channel, QueueDelivery(e, c) PROVE LimitInv'
    BY <1>0, <2>4 DEF QueueDelivery, service
  <2>5. QED
    BY <1>1, <2>1, <2>2, <2>3, <2>4 DEF Evaluate, InsertRefused, Done, DispatchNow, Lose
<1>2. CASE Deliver
  BY <1>0, <1>2 DEF Deliver, service
<1>3. ASSUME NEW on \in SUBSET Channel, NEW off \in SUBSET Channel, SavePreferences(on, off)
      PROVE  LimitInv'
  BY <1>0, <1>3 DEF SavePreferences
<1>4. ASSUME NEW c \in Channel, CancelDisabled(c) PROVE LimitInv'
  BY <1>0, <1>4 DEF CancelDisabled
<1>5. CASE LoseRequest
  BY <1>0, <1>5 DEF LoseRequest
<1>6. ASSUME NEW a \in Alert, HourPasses(a) PROVE LimitInv'
  <2>1. Inserting' = Inserting /\ recent' \subseteq recent
    BY <1>6 DEF HourPasses, Inserting
  <2>2. QED
    BY <2>1, LimitRelaxed
<1>7. CASE UNCHANGED allVars
  BY <1>0, <1>7 DEF allVars, service
<1>8. QED
  BY <1>1, <1>2, <1>3, <1>4, <1>5, <1>6, <1>7 DEF ServiceNext

-----------------------------------------------------------------------------
(* Unsubscribing                                                           *)

\* A channel that a returned request disabled is not enabled; what is open on
\* it, or will be created by an evaluator that does not know, is on the list.
LeakInv ==
  /\ (saving \cup quiet) \cap enabled = {}
  /\ \A d \in Delivery : d[2] \in quiet /\ row[d].status \in Open => d \in leaked
  /\ \A e \in Evaluator : epc[e] # "idle" =>
       \A c \in Missing(e) \cap quiet : <<subject[e], c>> \in leaked

\* Nothing becomes open on the queue's side.
NoneOpened ==
  \A d \in Delivery : row'[d].status \in Open => row[d].status \in Open

LEMMA DeliverOpensNone == BudgetInv /\ LeaseInv /\ Deliver => NoneOpened
<1> SUFFICES ASSUME BudgetInv, LeaseInv, Deliver PROVE NoneOpened
  OBVIOUS
<1> USE DEF NoneOpened, BudgetInv, TypeOK, Open
<1>1. ASSUME NEW w \in Worker, Recover(w) PROVE NoneOpened
  BY <1>1 DEF Recover, Stale, WithStatus
<1>2. ASSUME NEW w \in Worker, Work(w) PROVE NoneOpened
  <2>1. ASSUME SelectBatch(w) \/ Tally(w) \/ WriteParent(w) \/ EndCycle(w)
                 \/ \E d \in Delivery : LoseClaim(w, d)
        PROVE  UNCHANGED row
    BY <2>1 DEF SelectBatch, Tally, WriteParent, EndCycle, LoseClaim
  <2>2. ASSUME NEW d \in Delivery, Claim(w, d) PROVE NoneOpened
    BY <2>2 DEF Claim, Claimable, WithStatus
  <2>3. ASSUME RecordSuccess(w) \/ RecordTransient(w) \/ RecordPermanent(w) PROVE NoneOpened
    <3>1. PICK s \in {"SENT", "RETRYING", "FAILED"} : Record(w, s)
      BY <2>3 DEF RecordSuccess, RecordTransient, RecordPermanent
    <3>2. cur[w] \in Delivery /\ Holds(w, cur[w])
      BY <2>3 DEF RecordSuccess, RecordTransient, RecordPermanent, Holds, HandInv
    <3>3. row[cur[w]].status = "PROCESSING"
      BY <3>2 DEF LeaseInv
    <3>4. \A d \in Delivery \ {cur[w]} : row'[d] = row[d]
      BY <3>1 DEF Record
    <3>5. QED
      BY <3>3, <3>4
  <2>4. QED
    BY <1>2, <2>1, <2>2, <2>3 DEF Work
<1>3. ASSUME NEW w \in Worker, Crash(w) PROVE NoneOpened
  BY <1>3 DEF Crash
<1>4. ASSUME NEW d \in Delivery, TimePasses(d) PROVE NoneOpened
  BY <1>4 DEF TimePasses
<1>5. QED
  BY <1>1, <1>2, <1>3, <1>4 DEF Deliver

\* A step that leaves the service's variables alone, or at most lets an
\* evaluator return.
LEMMA LeaksRest ==
  ASSUME ServiceTypes, LeakInv, Lasting, NoneOpened,
         UNCHANGED <<enabled, saving, quiet, leaked>>,
         \A e \in Evaluator :
           epc'[e] # "idle" => epc[e] # "idle" /\ subject'[e] = subject[e] /\ plan'[e] = plan[e]
  PROVE  LeakInv'
<1>1. ASSUME NEW e \in Evaluator, epc'[e] # "idle" PROVE Missing(e)' \subseteq Missing(e)
  <2>1. /\ epc[e] # "idle" /\ subject'[e] = subject[e] /\ plan'[e] = plan[e]
        /\ subject[e] \in Alert /\ plan[e] \subseteq Channel
    BY <1>1 DEF ServiceTypes
  <2>2. ASSUME NEW c \in Channel, Exists(<<subject[e], c>>) PROVE Exists(<<subject[e], c>>)'
    BY <2>1, <2>2 DEF Lasting, Exists, Delivery
  <2>3. QED
    BY <2>1, <2>2 DEF Missing
<1>2. QED
  BY <1>1 DEF LeakInv, NoneOpened

LEMMA LeakStep ==
  BudgetInv /\ LeaseInv /\ ServiceTypes /\ LeakInv /\ [ServiceNext]_allVars => LeakInv'
<1> SUFFICES ASSUME BudgetInv, LeaseInv, ServiceTypes, LeakInv, [ServiceNext]_allVars
             PROVE  LeakInv'
  OBVIOUS
<1>0. Lasting
  BY ServiceLasts
<1>a. ASSUME UNCHANGED row PROVE NoneOpened
  BY <1>a DEF NoneOpened
<1>1. ASSUME NEW e \in Evaluator, Evaluate(e) PROVE LeakInv'
  <2>1. ASSUME NEW a \in Alert, Check(e, a) PROVE LeakInv'
    <3>1. /\ plan' = [plan EXCEPT ![e] = enabled] /\ UNCHANGED <<row, enabled, saving, quiet, leaked>>
          /\ \A f \in Evaluator \ {e} :
               epc'[f] = epc[f] /\ subject'[f] = subject[f] /\ plan'[f] = plan[f]
      BY <2>1 DEF Check, EnabledChannels, ServiceTypes, vars
    <3>2. Missing(e)' \cap quiet' = {}
      BY <3>1 DEF Missing, LeakInv, ServiceTypes
    <3>3. \A f \in Evaluator \ {e} : Missing(f)' = Missing(f)
      BY <3>1 DEF Missing, Exists
    <3>4. QED
      BY <3>1, <3>2, <3>3 DEF LeakInv
  <2>2. CASE Insert(e)
    <3>1. NoneOpened /\ epc[e] # "idle" /\ UNCHANGED <<subject, plan, enabled, saving, quiet, leaked>>
          /\ \A f \in Evaluator \ {e} : epc'[f] = epc[f]
      BY <1>a, <2>2 DEF Insert, ServiceTypes
    <3>2. QED
      BY <1>0, <3>1, LeaksRest
  <2>3. ASSUME Return(e), UNCHANGED <<row, enabled, saving, quiet, leaked>> PROVE LeakInv'
    <3>1. \A f \in Evaluator : epc'[f] # "idle" =>
            epc[f] # "idle" /\ subject'[f] = subject[f] /\ plan'[f] = plan[f]
      BY <2>3 DEF Return, ServiceTypes
    <3>2. QED
      BY <1>0, <1>a, <2>3, <3>1, LeaksRest
  <2>4. ASSUME NEW c \in Channel, QueueDelivery(e, c) PROVE LeakInv'
    <3> DEFINE d == <<subject[e], c>>
    <3>1. /\ epc[e] # "idle" /\ c \in Missing(e) /\ d \in Delivery /\ UNCHANGED service
          /\ \A b \in Delivery \ {d} : row'[b] = row[b]
      BY <2>4 DEF QueueDelivery, CreateDelivery, ServiceTypes, Delivery
    <3>2. c \in quiet => d \in leaked
      BY <3>1 DEF LeakInv
    <3>3. \A f \in Evaluator : epc[f] # "idle" => Missing(f)' \subseteq Missing(f)
      <4>1. ASSUME NEW f \in Evaluator, epc[f] # "idle", NEW b \in Channel, Exists(<<subject[f], b>>)
            PROVE  Exists(<<subject[f], b>>)'
        BY <1>0, <3>1, <4>1 DEF Lasting, Exists, Delivery, ServiceTypes, service
      <4>2. QED
        BY <3>1, <4>1 DEF Missing, ServiceTypes, service
    <3>4. \A b \in Delivery : b[2] \in quiet /\ row'[b].status \in Open => b \in leaked
      BY <3>1, <3>2 DEF LeakInv
    <3>5. QED
      BY <3>1, <3>3, <3>4 DEF LeakInv, service
  <2>5. QED
    BY <1>1, <2>1, <2>2, <2>3, <2>4 DEF Evaluate, InsertRefused, Done, DispatchNow, Lose, vars
<1>2. CASE Deliver
  <2>1. NoneOpened /\ UNCHANGED service
    BY <1>2, DeliverOpensNone DEF Deliver
  <2>2. QED
    BY <1>0, <2>1, LeaksRest DEF service
<1>3. ASSUME NEW on \in SUBSET Channel, NEW off \in SUBSET Channel, SavePreferences(on, off)
      PROVE  LeakInv'
  <2>1. /\ saving = {} /\ on \cap off = {} /\ enabled' = (enabled \cup on) \ off
        /\ saving' = off /\ quiet' = quiet \ on /\ UNCHANGED <<row, epc, subject, plan, leaked>>
    BY <1>3 DEF SavePreferences, vars
  <2>2. \A e \in Evaluator : Missing(e)' = Missing(e)
    BY <2>1 DEF Missing, Exists
  <2>3. QED
    BY <2>1, <2>2 DEF LeakInv
<1>4. ASSUME NEW c \in Channel, CancelDisabled(c) PROVE LeakInv'
  <2>1. /\ c \in saving /\ saving' = saving \ {c} /\ quiet' = quiet \cup {c}
        /\ leaked' = {d \in leaked : d[2] # c} \cup
                       {d \in Delivery : d[2] = c /\
                          (\/ row[d].status = "PROCESSING"
                           \/ \E e \in Evaluator : Evaluating(e, d[1]) /\ c \in Missing(e))}
        /\ row' = [d \in Delivery |->
                     IF d[2] = c /\ Cancellable(d) THEN WithStatus(d, "CANCELLED") ELSE row[d]]
        /\ UNCHANGED <<enabled, epc, subject, plan>>
    BY <1>4 DEF CancelDisabled, CancelChannel
  <2>2. \A e \in Evaluator : epc[e] # "idle" => Missing(e)' \subseteq Missing(e)
    <3>1. ASSUME NEW e \in Evaluator, epc[e] # "idle", NEW b \in Channel, Exists(<<subject[e], b>>)
          PROVE  Exists(<<subject[e], b>>)'
      BY <1>0, <2>1, <3>1 DEF Lasting, Exists, Delivery, ServiceTypes
    <3>2. QED
      BY <2>1, <3>1 DEF Missing, ServiceTypes
  <2>3. (saving' \cup quiet') \cap enabled' = {}
    BY <2>1 DEF LeakInv
  <2>4. ASSUME NEW d \in Delivery, d[2] \in quiet', row'[d].status \in Open PROVE d \in leaked'
    <3>1. CASE d[2] = c
      BY <2>1, <2>4, <3>1 DEF Cancellable, WithStatus, Open
    <3>2. CASE d[2] # c
      BY <2>1, <2>4, <3>2 DEF LeakInv
    <3>3. QED
      BY <3>1, <3>2
  <2>5. ASSUME NEW e \in Evaluator, epc[e] # "idle", NEW b \in Missing(e), b \in quiet'
        PROVE  <<subject[e], b>> \in leaked'
    <3>1. <<subject[e], b>> \in Delivery
      BY <2>5 DEF Missing, ServiceTypes, Delivery
    <3>2. CASE b = c
      <4>1. Evaluating(e, <<subject[e], b>>[1]) /\ c \in Missing(e)
        BY <2>5, <3>2 DEF Evaluating
      <4>2. QED
        BY <2>1, <3>1, <3>2, <4>1
    <3>3. CASE b # c
      BY <2>1, <2>5, <3>1, <3>3 DEF LeakInv
    <3>4. QED
      BY <3>2, <3>3
  <2>6. QED
    BY <2>1, <2>2, <2>3, <2>4, <2>5 DEF LeakInv
<1>5. CASE LoseRequest
  <2>1. /\ saving' = {} /\ UNCHANGED <<row, enabled, epc, subject, plan, quiet, leaked>>
    BY <1>5 DEF LoseRequest
  <2>2. \A e \in Evaluator : Missing(e)' = Missing(e)
    BY <2>1 DEF Missing, Exists
  <2>3. QED
    BY <2>1, <2>2 DEF LeakInv
<1>6. ASSUME NEW a \in Alert, HourPasses(a) PROVE LeakInv'
  BY <1>0, <1>6, <1>a, LeaksRest DEF HourPasses, vars
<1>7. CASE UNCHANGED allVars
  BY <1>0, <1>7, <1>a, LeaksRest DEF allVars, service, vars
<1>8. QED
  BY <1>1, <1>2, <1>3, <1>4, <1>5, <1>6, <1>7 DEF ServiceNext

-----------------------------------------------------------------------------
(* Theorems                                                                *)

LEMMA ServiceStarts ==
  ServiceInit => BudgetInv /\ LeaseInv /\ TruthInv /\ ServiceTypes /\ ProducerInv /\ LeakInv
<1> SUFFICES ASSUME ServiceInit
             PROVE  BudgetInv /\ LeaseInv /\ TruthInv /\ ServiceTypes /\ ProducerInv /\ LeakInv
  OBVIOUS
<1>1. Init
  BY DEF ServiceInit
<1>2. BudgetInv
  BY <1>1, InitBudget
<1>3. LeaseInv /\ TruthInv
  BY <1>1 DEF Init, LeaseInv, ExclusiveClaim, Holds, TruthInv, EmptyView, Unloaded
<1>4. ServiceTypes
  BY DEF ServiceInit, ServiceTypes
<1>5. ProducerInv /\ LeakInv
  BY <1>1 DEF ServiceInit, Init, ProducerInv, OneProducer, LeakInv, Open
<1>6. QED
  BY <1>2, <1>3, <1>4, <1>5

\* The queue keeps its budget under the service, evaluators keep out of each
\* other's way.
LEMMA ServiceInvariant == ServiceSpec => [](BudgetInv /\ ServiceTypes /\ ProducerInv)
<1>1. BudgetInv /\ ServiceTypes /\ ProducerInv /\ [ServiceNext]_allVars =>
        (BudgetInv /\ ServiceTypes /\ ProducerInv)'
  BY ServiceKeepsQueue, ServiceTypesStep, ProducerStep
<1>2. QED
  BY <1>1, ServiceStarts, PTL DEF ServiceSpec

\* The lease and the truth of the parents, while no send outlasts its lease.
LEMMA LeasedServiceInvariant ==
  ASSUME ~LeaseOverrun PROVE ServiceSpec => [](LeaseInv /\ TruthInv /\ LeakInv)
<1>1. BudgetInv /\ ServiceTypes /\ (LeaseInv /\ TruthInv /\ LeakInv) /\ [ServiceNext]_allVars =>
        (LeaseInv /\ TruthInv /\ LeakInv)'
  BY ServiceKeepsQueue, LeakStep
<1>2. QED
  BY <1>1, ServiceStarts, ServiceInvariant, PTL DEF ServiceSpec

\* Type correctness of the service and of the queue under it.
THEOREM ServiceTypeCorrect == ServiceSpec => []TypeInvariant
<1>1. BudgetInv /\ ServiceTypes => TypeInvariant
  BY DEF BudgetInv, ServiceTypes, TypeInvariant
<1>2. QED
  BY <1>1, ServiceInvariant, PTL

\* For any number of evaluators, channels and workers, no two evaluators queue
\* deliveries of one notification side by side.
THEOREM ProducersAreAlone == ServiceSpec => []OneProducer
<1>1. ProducerInv => OneProducer
  BY DEF ProducerInv
<1>2. QED
  BY <1>1, ServiceInvariant, PTL

\* An idempotency hit never hides an alert that was not queued: unless a process
\* was lost, every channel wanted has its delivery.
THEOREM WantedIsQueued == ServiceSpec => []QueuedAsWanted
<1>1. ProducerInv => QueuedAsWanted
  BY DEF ProducerInv, QueuedAsWanted, Evaluating
<1>2. QED
  BY <1>1, ServiceInvariant, PTL

\* The hourly limit is exceeded by less than one notification per evaluator.
THEOREM OvershootIsBounded ==
  ASSUME Evaluator # {} PROVE ServiceSpec => []HourlyLimitOvershoot
<1>1. ServiceInit => LimitInv
  <2> SUFFICES ASSUME ServiceInit PROVE LimitInv
    OBVIOUS
  <2>1. recent = {} /\ Inserting = {}
    BY DEF ServiceInit, Inserting
  <2>2. Cardinality(Evaluator) \in Nat /\ Cardinality(Evaluator) # 0
    BY NotificationsAssumption, FS_CardinalityType, FS_EmptySet
  <2>3. QED
    BY <2>1, <2>2, FS_EmptySet, NotificationsAssumption DEF LimitInv
<1>2. ServiceTypes /\ LimitInv /\ [ServiceNext]_allVars => LimitInv'
  BY LimitStep
<1>3. ServiceTypes /\ LimitInv => HourlyLimitOvershoot
  BY LimitSizes, NotificationsAssumption DEF LimitInv, HourlyLimitOvershoot
<1>4. QED
  BY <1>1, <1>2, <1>3, ServiceInvariant, PTL DEF ServiceSpec

\* Once a channel is disabled and the request has returned, what can still go out
\* on it was in flight, or about to be created, at that moment.
THEOREM LeaksWereInFlight == ASSUME ~LeaseOverrun PROVE ServiceSpec => []OnlyInFlightLeaks
<1>1. LeakInv => OnlyInFlightLeaks
  BY DEF LeakInv, OnlyInFlightLeaks, Open
<1>2. QED
  BY <1>1, LeasedServiceInvariant, PTL

\* Immediate dispatch beside the background process takes no lease away.
THEOREM ServiceClaimsAreExclusive == ASSUME ~LeaseOverrun PROVE ServiceSpec => []ExclusiveClaim
<1>1. LeaseInv => ExclusiveClaim
  BY DEF LeaseInv
<1>2. QED
  BY <1>1, LeasedServiceInvariant, PTL

\* With evaluators, preference requests and immediate dispatch around the queue,
\* a notification is still shown as sent or failed only if a channel was.
THEOREM ServiceParentIsTruthful == ASSUME ~LeaseOverrun PROVE ServiceSpec => []ParentTruthful
<1>1. TruthInv => ParentTruthful
  BY DEF TruthInv, ParentTruthful, Delivery
<1>2. QED
  BY <1>1, LeasedServiceInvariant, PTL

\* And a settled delivery stays as it is.
THEOREM ServiceSettledIsFinal == ASSUME ~LeaseOverrun PROVE ServiceSpec => SettledForGood
<1>1. BudgetInv /\ ServiceTypes /\ LeaseInv /\ [ServiceNext]_allVars =>
        [\A d \in Delivery : row[d].status \in Terminal => row'[d] = row[d]]_vars
  <2> SUFFICES ASSUME BudgetInv, ServiceTypes, LeaseInv, [ServiceNext]_allVars
               PROVE  SettledStep
    BY DEF SettledStep
  <2>1. CASE [Next]_vars
    BY <2>1, StepSettled
  <2>2. CASE UNCHANGED row
    BY <2>2 DEF SettledStep
  <2>3. QED
    BY <2>1, <2>2, QueueSteps DEF DispatchNow, LostStep
<1>2. QED
  BY <1>1, ServiceInvariant, LeasedServiceInvariant, PTL DEF ServiceSpec, SettledForGood

=============================================================================

------------------------ MODULE DeliveryQueueProofs ------------------------
(***************************************************************************)
(* Proofs about the delivery queue, for any number of workers,             *)
(* notifications, channels and attempts, up to the step-by-step proof that *)
(* it implements the delivery contract.                                    *)
(***************************************************************************)
EXTENDS DeliveryHistory, FiniteSetTheorems, TLAPS

USE QueueAssumption

-----------------------------------------------------------------------------
(* Type correctness and the retry budget.  The two need each other: the    *)
(* attempt count a worker writes is its loaded count plus one, which is    *)
(* within bounds only because rows are loaded while attempts are left.     *)

\* A row that may still be processed has attempts left: the second bulk update
\* of recover_stale_processing, which fails rows without, never finds one.
BudgetLeftWhileOpen ==
  \A d \in Delivery : row[d].status \in Open => row[d].attempts < MaxAttempts

\* A worker has a row in hand exactly while it works on it, and a row of its
\* batch was loaded, with attempts left, before the worker recorded anything.
HandInv ==
  \A w \in Worker :
    /\ pc[w] \in {"sending", "tally", "write"} => cur[w] \in todo[w]
    /\ pc[w] = "write" => verdict[w] # "NONE"
    /\ \A d \in todo[w] :
         /\ view[w][d].status # "UNLOADED"
         /\ (pc[w] \in {"tally", "write"} => d # cur[w]) => view[w][d].attempts < MaxAttempts

\* The inductive invariant of the queue itself.
BudgetInv == TypeOK /\ BudgetLeftWhileOpen /\ HandInv

\* An empty queue satisfies the invariant.
LEMMA InitBudget == Init => BudgetInv
  BY DEF Init, BudgetInv, TypeOK, BudgetLeftWhileOpen, HandInv, Note, NoNote, Row, View, Step,
         Status, Open, Terminal, ParentStatus, Delivery, EmptyView, Unloaded

\* Recording an outcome keeps the budget, if a retry is left to a retrying row.
LEMMA RecordBudget ==
  ASSUME BudgetInv, NEW w \in Worker, pc[w] = "sending",
         NEW s \in {"SENT", "RETRYING", "FAILED"}, Record(w, s), reached' \in SUBSET Delivery,
         s = "RETRYING" => view[w][cur[w]].attempts + 1 < MaxAttempts
  PROVE  BudgetInv'
  <1> USE DEF BudgetInv, HandInv, Note, Row, View, Step, Status, Open, Terminal, ParentStatus
  <1> DEFINE d == cur[w]
             count == view[w][d].attempts + 1
  <1>1. d \in Delivery /\ d \in todo[w]
    BY DEF TypeOK
  <1>2. count \in 1..MaxAttempts /\ (s = "RETRYING" => count < MaxAttempts)
    <2>1. view[w][d] \in View /\ view[w][d].attempts < MaxAttempts
      <3>1. view[w] \in [Delivery -> View]
        BY DEF TypeOK
      <3>2. view[w][d] \in View
        BY <1>1, <3>1
      <3>3. view[w][d].attempts < MaxAttempts
        BY <1>1
      <3> QED
        BY <3>2, <3>3
    <2> QED
      BY <2>1
  <1> HIDE DEF count
  <1>3. /\ row' = [row EXCEPT ![d] = [status |-> s, attempts |-> count, elapsed |-> FALSE]]
        /\ view' = [view EXCEPT ![w] = [@ EXCEPT ![d] = [status |-> s, attempts |-> count]]]
        /\ pc' = [pc EXCEPT ![w] = "tally"]
        /\ UNCHANGED <<born, parent, todo, cur, note, verdict, crashes>>
    BY DEF Record, count
  <1> HIDE DEF d
  <1>4. TypeOK'
    BY <1>1, <1>2, <1>3 DEF TypeOK
  <1>5. BudgetLeftWhileOpen'
    BY <1>1, <1>2, <1>3 DEF TypeOK, BudgetLeftWhileOpen
  <1>6. HandInv'
    BY <1>1, <1>2, <1>3 DEF TypeOK, d
  <1> QED
    BY <1>4, <1>5, <1>6

\* Every step keeps types, the budget and what a worker has in hand.
LEMMA NextBudget == BudgetInv /\ [Next]_vars => BudgetInv'
  <1> SUFFICES ASSUME BudgetInv, [Next]_vars PROVE BudgetInv'
    OBVIOUS
  <1> USE DEF WithStatus, Stale, Cancellable, RetryLeft, BudgetInv, HandInv, Note, Row, View, Step,
              Status, Open, Terminal, ParentStatus
  <1>1. ASSUME NEW a \in Alert, CreateNotification(a) PROVE BudgetInv'
    BY <1>1 DEF CreateNotification, TypeOK, BudgetLeftWhileOpen, session
  <1>2. ASSUME NEW d \in Delivery, CreateDelivery(d) PROVE BudgetInv'
    <2>1. Cardinality({e \in Delivery : Exists(e)}) \in Nat
      BY FS_Subset, FS_CardinalityType
    <2>2. TypeOK'
      BY <1>2, <2>1 DEF CreateDelivery, TypeOK, session
    <2> QED
      BY <1>2, <2>2 DEF CreateDelivery, TypeOK, BudgetLeftWhileOpen, session
  <1>3. ASSUME NEW c \in Channel, CancelChannel(c) PROVE BudgetInv'
    BY <1>3 DEF CancelChannel, TypeOK, BudgetLeftWhileOpen, session
  <1>4. ASSUME NEW w \in Worker, Recover(w) PROVE BudgetInv'
    BY <1>4 DEF Recover, TypeOK, BudgetLeftWhileOpen
  <1>5. ASSUME NEW w \in Worker, SelectBatch(w) PROVE BudgetInv'
    <2> DEFINE batch == Oldest({d \in Delivery : Claimable(d)})
    <2>1. batch \subseteq Delivery /\ \A d \in batch : Claimable(d)
      BY DEF Oldest
    <2>2. \A d \in batch : /\ Loaded(d) \in View
                           /\ Loaded(d).attempts < MaxAttempts
                           /\ Loaded(d).status # "UNLOADED"
      BY <2>1 DEF Claimable, Loaded, TypeOK, BudgetLeftWhileOpen
    <2> HIDE DEF batch
    <2>3. /\ pc' = [pc EXCEPT ![w] = "loop"]
          /\ todo' = [todo EXCEPT ![w] = batch]
          /\ view' = [view EXCEPT ![w] =
                        [d \in Delivery |-> IF d \in batch THEN Loaded(d) ELSE view[w][d]]]
          /\ UNCHANGED <<row, born, parent, cur, note, verdict, reached, crashes>>
      BY <1>5 DEF SelectBatch, batch
    <2>4. TypeOK'
      BY <2>1, <2>2, <2>3 DEF TypeOK
    <2>5. HandInv'
      BY <2>1, <2>2, <2>3 DEF TypeOK
    <2> QED
      BY <2>3, <2>4, <2>5 DEF BudgetLeftWhileOpen
  <1>6. ASSUME NEW w \in Worker, NEW d \in Delivery, Claim(w, d) PROVE BudgetInv'
    <2>1. note' \in [Worker -> Note]
      BY <1>6 DEF Claim, TypeOK, Delivery
    <2> QED
      BY <1>6, <2>1 DEF Claim, TypeOK, BudgetLeftWhileOpen, IsNext, Claimable, Loaded, Exists
  <1>7. ASSUME NEW w \in Worker, NEW d \in Delivery, LoseClaim(w, d) PROVE BudgetInv'
    BY <1>7 DEF LoseClaim, TypeOK, BudgetLeftWhileOpen, IsNext
  <1>8. ASSUME NEW w \in Worker, RecordSuccess(w) PROVE BudgetInv'
    BY <1>8, RecordBudget DEF RecordSuccess, TypeOK
  <1>9. ASSUME NEW w \in Worker, RecordTransient(w) PROVE BudgetInv'
    BY <1>9, RecordBudget DEF RecordTransient, TypeOK
  <1>10. ASSUME NEW w \in Worker, RecordPermanent(w) PROVE BudgetInv'
    BY <1>10, RecordBudget DEF RecordPermanent, TypeOK
  <1>11. ASSUME NEW w \in Worker, Tally(w) PROVE BudgetInv'
    <2>1. CASE Fold(SeenStatuses(w, cur[w][1])) \in {"NONE", note[w].seen}
      <3>1. NextItem(w, note[w].seen) /\ UNCHANGED <<row, born, parent, view, reached, crashes>>
        BY <1>11, <2>1 DEF Tally
      <3> QED
        BY <1>11, <3>1 DEF Tally, NextItem, NoNote, TypeOK, BudgetLeftWhileOpen
    <2>2. CASE Fold(SeenStatuses(w, cur[w][1])) \notin {"NONE", note[w].seen}
      <3>1. Fold(SeenStatuses(w, cur[w][1])) \in {"SENT", "FAILED"}
        BY <2>2 DEF Fold
      <3> QED
        <4>1. /\ pc[w] = "tally" /\ pc' = [pc EXCEPT ![w] = "write"]
              /\ verdict' = [verdict EXCEPT ![w] = Fold(SeenStatuses(w, cur[w][1]))]
              /\ UNCHANGED <<row, born, parent, todo, cur, view, note, reached, crashes>>
          BY <1>11, <2>2 DEF Tally
        <4>2. TypeOK'
          BY <3>1, <4>1 DEF TypeOK
        <4>3. BudgetLeftWhileOpen'
          BY <4>1 DEF BudgetLeftWhileOpen
        <4>4. HandInv'
          BY <3>1, <4>1 DEF TypeOK
        <4> QED
          BY <4>2, <4>3, <4>4
    <2> QED
      BY <2>1, <2>2
  <1>12. ASSUME NEW w \in Worker, WriteParent(w) PROVE BudgetInv'
    BY <1>12 DEF WriteParent, NextItem, NoNote, TypeOK, BudgetLeftWhileOpen
  <1>13. ASSUME NEW w \in Worker, EndCycle(w) PROVE BudgetInv'
    BY <1>13 DEF EndCycle, EndSession, TypeOK, BudgetLeftWhileOpen, EmptyView, Unloaded, NoNote
  <1>14. ASSUME NEW w \in Worker, Crash(w) PROVE BudgetInv'
    BY <1>14 DEF Crash, EndSession, TypeOK, BudgetLeftWhileOpen, EmptyView, Unloaded, NoNote
  <1>15. ASSUME NEW d \in Delivery, TimePasses(d) PROVE BudgetInv'
    BY <1>15 DEF TimePasses, TypeOK, BudgetLeftWhileOpen, session
  <1>16. CASE UNCHANGED vars
    BY <1>16 DEF vars, TypeOK, BudgetLeftWhileOpen
  <1> QED
    BY <1>1, <1>2, <1>3, <1>4, <1>5, <1>6, <1>7, <1>8, <1>9, <1>10, <1>11, <1>12, <1>13,
       <1>14, <1>15, <1>16 DEF Next, Produce, Work

\* BudgetInv is an inductive invariant.
THEOREM BudgetInvariant == Spec => []BudgetInv
  BY InitBudget, NextBudget, PTL DEF Spec

\* Type correctness of the queue.
THEOREM TypeCorrect == Spec => []TypeOK
  <1>1. BudgetInv => TypeOK
    BY DEF BudgetInv
  <1> QED
    BY <1>1, BudgetInvariant, PTL

-----------------------------------------------------------------------------
(* How often a delivery is tried.  While one session at a time has a row   *)
(* in its batch, its copy of the attempt count is the table's, so what it  *)
(* writes counts every attempt that was recorded; an attempt that was not  *)
(* recorded is in hand, or was lost with its worker.  None of this needs   *)
(* the lease: it holds with overruns too.                                  *)

\* Holds after a step.
WillHold(w, d) == pc'[w] = "sending" /\ cur'[w] = d

\* What is true of a delivery that no two sessions ever shared.
Counted(d) ==
  /\ \A v, w \in Worker : d \in todo[v] /\ d \in todo[w] => v = w
  /\ \A w \in Worker : d \in todo[w] => view[w][d].attempts = row[d].attempts
  /\ tries[d] <= row[d].attempts + crashes + 1
  /\ (\A w \in Worker : ~Holds(w, d)) => tries[d] <= row[d].attempts + crashes

\* The inductive invariant of the history: nothing is known of a delivery before
\* its row exists.
TriesInv ==
  /\ tries \in [Delivery -> Nat]
  /\ \A d \in Delivery : ~Exists(d) => tries[d] = 0 /\ \A w \in Worker : d \notin todo[w]
  /\ \A d \in Delivery \ overlaid : Counted(d)

\* What a step leaves as it is, seen from one delivery.
SameFor(d) ==
  /\ row'[d].attempts = row[d].attempts
  /\ crashes' = crashes
  /\ \A w \in Worker :
       /\ d \in todo'[w] => d \in todo[w] /\ view'[w][d].attempts = view[w][d].attempts
       /\ WillHold(w, d) <=> Holds(w, d)

\* A step that is no claim and disturbs nothing of d keeps its account.
LEMMA SameCounted ==
  ASSUME NEW d \in Delivery, Counted(d), SameFor(d), tries'[d] = tries[d]
  PROVE  Counted(d)'
  BY DEF Counted, SameFor, Holds, WillHold

\* Every step of the queue keeps the account of a delivery that is not shared
\* after it.
LEMMA StepCounted ==
  ASSUME BudgetInv, TriesInv, Next, Remember, NEW d \in Delivery \ overlaid'
  PROVE  Counted(d)'
  <1>t. TypeOK /\ HandInv /\ tries \in [Delivery -> Nat]
    BY DEF BudgetInv, TriesInv
  <1>c. Counted(d)
    BY DEF TriesInv, Remember
  <1>o. \A v, w \in Worker : d \in todo'[v] /\ d \in todo'[w] => v = w
    BY DEF Remember, Shared
  <1>n. tries'[d] = IF Claimed(d) THEN tries[d] + 1 ELSE tries[d]
    BY DEF Remember
  <1>a. row[d].attempts \in Nat /\ tries[d] \in Nat /\ crashes \in Nat
    BY <1>t DEF TypeOK, Row
  <1>1. ASSUME NEW a \in Alert, CreateNotification(a) PROVE Counted(d)'
    BY <1>1, <1>c, <1>n, SameCounted DEF CreateNotification, session, SameFor, Holds, WillHold, Claimed
  <1>2. ASSUME NEW e \in Delivery, CreateDelivery(e) PROVE Counted(d)'
    <2>1. CASE d = e
      <3>1. tries[d] = 0 /\ \A w \in Worker : d \notin todo[w]
        BY <1>2, <2>1 DEF TriesInv, CreateDelivery
      <3>2. row'[d] = [status |-> "PENDING", attempts |-> 0, elapsed |-> FALSE]
        BY <1>2, <1>t, <2>1 DEF CreateDelivery, TypeOK
      <3>3. todo' = todo /\ crashes' = crashes
        BY <1>2 DEF CreateDelivery, session
      <3>4. tries'[d] = 0
        BY <1>n, <3>1, <3>2 DEF Claimed
      <3> QED
        BY <1>a, <1>o, <3>1, <3>2, <3>3, <3>4 DEF Counted
    <2>2. CASE d # e
      <3>1. row'[d] = row[d]
        BY <1>2, <1>t, <2>2 DEF CreateDelivery, TypeOK
      <3> QED
        BY <1>2, <1>c, <1>n, <3>1, SameCounted
           DEF CreateDelivery, session, SameFor, Holds, WillHold, Claimed
    <2> QED
      BY <2>1, <2>2
  <1>3. ASSUME NEW c \in Channel, CancelChannel(c) PROVE Counted(d)'
    BY <1>3, <1>c, <1>n, SameCounted
       DEF CancelChannel, Cancellable, WithStatus, session, SameFor, Holds, WillHold, Claimed
  <1>4. ASSUME NEW w \in Worker, Recover(w) PROVE Counted(d)'
    <2>1. row'[d].attempts = row[d].attempts /\ ~Claimed(d)
      BY <1>4 DEF Recover, Stale, WithStatus, Claimed
    <2>2. \A v \in Worker : WillHold(v, d) <=> Holds(v, d)
      BY <1>4, <1>t DEF Recover, Holds, WillHold, TypeOK
    <2> QED
      BY <1>4, <1>c, <1>n, <2>1, <2>2, SameCounted DEF Recover, SameFor
  <1>5. ASSUME NEW w \in Worker, SelectBatch(w) PROVE Counted(d)'
    <2>1. row' = row /\ crashes' = crashes /\ tries'[d] = tries[d]
      BY <1>5, <1>n DEF SelectBatch, Claimed
    <2>2. \A v \in Worker : WillHold(v, d) <=> Holds(v, d)
      BY <1>5, <1>t DEF SelectBatch, Holds, WillHold, TypeOK
    <2>3. ASSUME NEW v \in Worker, d \in todo'[v] PROVE view'[v][d].attempts = row[d].attempts
      <3>1. CASE v = w
        BY <1>5, <1>t, <2>3, <3>1 DEF SelectBatch, TypeOK, Loaded
      <3>2. CASE v # w
        BY <1>5, <1>c, <1>t, <2>3, <3>2 DEF SelectBatch, TypeOK, Counted
      <3> QED
        BY <3>1, <3>2
    <2> QED
      BY <1>c, <1>o, <2>1, <2>2, <2>3 DEF Counted, Holds, WillHold
  <1>6. ASSUME NEW w \in Worker, NEW e \in Delivery, Claim(w, e) PROVE Counted(d)'
    <2>1. /\ crashes' = crashes /\ todo' = todo /\ e \in todo[w] /\ pc[w] = "loop"
          /\ pc' = [pc EXCEPT ![w] = "sending"] /\ cur' = [cur EXCEPT ![w] = e]
          /\ row' = [row EXCEPT ![e] = WithStatus(e, "PROCESSING")]
          /\ row[e].status # "PROCESSING"
      BY <1>6 DEF Claim, IsNext, Claimable
    <2>2. row'[d].attempts = row[d].attempts
      BY <1>t, <2>1 DEF TypeOK, WithStatus
    <2>3. ASSUME NEW v \in Worker, d \in todo[v] PROVE view'[v][d].attempts = view[v][d].attempts
      BY <1>6, <1>t, <2>3 DEF Claim, HandInv, TypeOK
    <2>4. CASE d = e
      <3>1. \A v \in Worker : ~Holds(v, d)
        BY <1>c, <1>t, <2>1, <2>4 DEF Counted, Holds, HandInv
      <3>2. tries'[d] = tries[d] + 1
        BY <1>n, <1>t, <2>1, <2>4 DEF Claimed, TypeOK, WithStatus
      <3>3. WillHold(w, d)
        BY <1>t, <2>1, <2>4 DEF WillHold, TypeOK
      <3> QED
        BY <1>a, <1>c, <1>o, <2>1, <2>2, <2>3, <3>1, <3>2, <3>3 DEF Counted, Holds, WillHold
    <2>5. CASE d # e
      <3>1. tries'[d] = tries[d]
        BY <1>n, <1>t, <2>1, <2>5 DEF Claimed, TypeOK
      <3>2. \A v \in Worker : WillHold(v, d) <=> Holds(v, d)
        BY <1>t, <2>1, <2>5 DEF Holds, WillHold, TypeOK
      <3> QED
        BY <1>c, <2>1, <2>2, <2>3, <3>1, <3>2, SameCounted DEF SameFor
    <2> QED
      BY <2>4, <2>5
  <1>7. ASSUME NEW w \in Worker, NEW e \in Delivery, LoseClaim(w, e) PROVE Counted(d)'
    <2>1. \A v \in Worker : d \in todo'[v] => d \in todo[v]
      BY <1>7, <1>t DEF LoseClaim, TypeOK
    <2> QED
      BY <1>7, <1>c, <1>n, <2>1, SameCounted DEF LoseClaim, SameFor, Holds, WillHold, Claimed
  <1>8. ASSUME NEW w \in Worker, NEW s \in {"SENT", "RETRYING", "FAILED"}, pc[w] = "sending",
               Record(w, s)
        PROVE  Counted(d)'
    <2> DEFINE e == cur[w]
               new == [status |-> s, attempts |-> view[w][e].attempts + 1, elapsed |-> FALSE]
    <2>1. /\ crashes' = crashes /\ todo' = todo /\ cur' = cur
          /\ pc' = [pc EXCEPT ![w] = "tally"] /\ row' = [row EXCEPT ![e] = new]
          /\ view' = [view EXCEPT ![w] =
                        [@ EXCEPT ![e] = [status |-> s, attempts |-> view[w][e].attempts + 1]]]
      BY <1>8 DEF Record
    <2>2. e \in Delivery /\ e \in todo[w]
      BY <1>8, <1>t DEF HandInv, TypeOK
    <2>3. tries'[d] = tries[d]
      BY <1>n, <1>t, <2>1, <2>2 DEF Claimed, TypeOK
    <2>4. CASE d = e
      <3>1. row'[d].attempts = view[w][d].attempts + 1 /\ view[w][d].attempts = row[d].attempts
        BY <1>c, <1>t, <2>1, <2>2, <2>4 DEF TypeOK, Counted
      <3>2. \A v \in Worker : d \in todo[v] => v = w
        BY <1>c, <2>2, <2>4 DEF Counted
      <3>3. view'[w][d].attempts = row'[d].attempts
        BY <1>t, <2>1, <2>2, <2>4, <3>1 DEF TypeOK
      <3> QED
        BY <1>a, <1>c, <1>o, <2>1, <2>3, <3>1, <3>2, <3>3 DEF Counted
    <2>5. CASE d # e
      <3>1. row'[d] = row[d] /\ \A v \in Worker : view'[v][d] = view[v][d]
        BY <1>t, <2>1, <2>2, <2>5 DEF TypeOK
      <3>2. \A v \in Worker : WillHold(v, d) <=> Holds(v, d)
        BY <1>t, <2>1, <2>5 DEF Holds, WillHold, TypeOK
      <3> QED
        BY <1>c, <2>1, <2>3, <3>1, <3>2, SameCounted DEF SameFor
    <2> QED
      BY <2>4, <2>5
  <1>9. ASSUME NEW w \in Worker, RecordSuccess(w) \/ RecordTransient(w) \/ RecordPermanent(w)
        PROVE  Counted(d)'
    BY <1>8, <1>9 DEF RecordSuccess, RecordTransient, RecordPermanent
  <1>10. ASSUME NEW w \in Worker, Tally(w) \/ WriteParent(w) \/ EndCycle(w) PROVE Counted(d)'
    <2>1. row' = row /\ crashes' = crashes
      BY <1>10 DEF Tally, WriteParent, EndCycle
    <2>2. \A v \in Worker : WillHold(v, d) <=> Holds(v, d)
      BY <1>10, <1>t DEF Tally, WriteParent, EndCycle, NextItem, EndSession, Holds, WillHold, TypeOK
    <2>3. ASSUME NEW v \in Worker, d \in todo'[v] PROVE d \in todo[v] /\ view'[v][d] = view[v][d]
      <3>t. todo \in [Worker -> SUBSET Delivery] /\ view \in [Worker -> [Delivery -> View]]
        BY <1>t DEF TypeOK
      <3>1. CASE Tally(w) \/ WriteParent(w)
        <4>1. view' = view
          BY <3>1 DEF Tally, WriteParent
        <4>2. todo' = todo \/ todo' = [todo EXCEPT ![w] = @ \ {cur[w]}]
          BY <3>1 DEF Tally, WriteParent, NextItem
        <4> QED
          BY <2>3, <3>t, <4>1, <4>2
      <3>2. CASE EndCycle(w)
        <4>1. todo' = [todo EXCEPT ![w] = {}] /\ view' = [view EXCEPT ![w] = EmptyView]
          BY <3>2 DEF EndCycle, EndSession
        <4> QED
          BY <2>3, <3>t, <4>1
      <3> QED
        BY <1>10, <3>1, <3>2
    <2> QED
      BY <1>c, <1>n, <2>1, <2>2, <2>3, SameCounted DEF SameFor, Claimed
  <1>11. ASSUME NEW w \in Worker, Crash(w) PROVE Counted(d)'
    <2>1. row' = row /\ crashes' = crashes + 1 /\ tries'[d] = tries[d]
      BY <1>11, <1>n DEF Crash, Claimed
    <2>2. ASSUME NEW v \in Worker, d \in todo'[v] PROVE d \in todo[v] /\ view'[v][d] = view[v][d]
      BY <1>11, <1>t, <2>2 DEF Crash, EndSession, TypeOK
    <2> QED
      BY <1>a, <1>c, <1>o, <2>1, <2>2 DEF Counted
  <1>12. ASSUME NEW e \in Delivery, TimePasses(e) PROVE Counted(d)'
    <2>1. row'[d].attempts = row[d].attempts /\ row'[d].status = row[d].status
      BY <1>12, <1>t DEF TimePasses, TypeOK
    <2> QED
      BY <1>12, <1>c, <1>n, <2>1, SameCounted
         DEF TimePasses, session, SameFor, Holds, WillHold, Claimed
  <1> QED
    BY <1>1, <1>2, <1>3, <1>4, <1>5, <1>6, <1>7, <1>9, <1>10, <1>11, <1>12 DEF Next, Produce, Work

\* TriesInv survives every step.
LEMMA NextTries ==
  BudgetInv /\ TriesInv /\ [Next /\ Remember]_<<vars, history>> => TriesInv'
  <1>1. ASSUME BudgetInv, TriesInv, Next, Remember PROVE TriesInv'
    <2>1. tries' \in [Delivery -> Nat]
      BY <1>1 DEF Remember, TriesInv
    <2>2. ASSUME NEW d \in Delivery, ~Exists(d)'
          PROVE  ~Exists(d) /\ ~Claimed(d) /\ \A w \in Worker : todo'[w] \cap {d} \subseteq todo[w]
      <3>1. TypeOK /\ HandInv
        BY <1>1 DEF BudgetInv
      <3>2. ASSUME NEW w \in Worker, RecordSuccess(w) \/ RecordTransient(w) \/ RecordPermanent(w)
            PROVE  ~Exists(d) /\ todo' = todo
        <4>1. PICK s \in {"SENT", "RETRYING", "FAILED"} : Record(w, s)
          BY <3>2 DEF RecordSuccess, RecordTransient, RecordPermanent
        <4> QED
          BY <2>2, <3>1, <4>1 DEF Record, TypeOK, HandInv, Exists
      <3>3. ASSUME NEW e \in Delivery, CreateDelivery(e) \/ TimePasses(e)
            PROVE  ~Exists(d) /\ todo' = todo
        BY <2>2, <3>1, <3>3 DEF CreateDelivery, TimePasses, session, Exists, TypeOK
      <3>4. ASSUME NEW c \in Channel, CancelChannel(c) PROVE ~Exists(d) /\ todo' = todo
        BY <2>2, <3>4 DEF CancelChannel, WithStatus, session, Exists
      <3>5. ASSUME NEW w \in Worker, Recover(w) PROVE ~Exists(d) /\ todo' = todo
        BY <2>2, <3>5 DEF Recover, WithStatus, Exists
      <3>6. ASSUME NEW w \in Worker, NEW e \in Delivery, Claim(w, e) PROVE ~Exists(d) /\ todo' = todo
        BY <2>2, <3>1, <3>6 DEF Claim, WithStatus, Exists, TypeOK
      <3>7. ASSUME NEW w \in Worker, SelectBatch(w)
            PROVE  ~Exists(d) /\ \A v \in Worker : d \in todo'[v] => d \in todo[v]
        <4>1. ~Exists(d)
          BY <2>2, <3>7 DEF SelectBatch, Exists
        <4> QED
          BY <3>1, <3>7, <4>1 DEF SelectBatch, Oldest, Claimable, Exists, TypeOK
      <3>8. ASSUME NEW w \in Worker, Tally(w) \/ WriteParent(w) \/ EndCycle(w) \/ Crash(w)
                                     \/ \E e \in Delivery : LoseClaim(w, e)
            PROVE  ~Exists(d) /\ \A v \in Worker : d \in todo'[v] => d \in todo[v]
        <4>1. row' = row
          BY <3>8 DEF Tally, WriteParent, EndCycle, Crash, LoseClaim
        <4>2. \A v \in Worker : d \in todo'[v] => d \in todo[v]
          BY <3>1, <3>8 DEF Tally, NextItem, WriteParent, EndCycle, EndSession, Crash, LoseClaim, TypeOK
        <4> QED
          BY <2>2, <4>1, <4>2 DEF Exists
      <3>9. ASSUME NEW a \in Alert, CreateNotification(a) PROVE ~Exists(d) /\ todo' = todo
        BY <2>2, <3>9 DEF CreateNotification, session, Exists
      <3>10. ~Exists(d) /\ \A w \in Worker : d \in todo'[w] => d \in todo[w]
        BY <1>1, <3>2, <3>3, <3>4, <3>5, <3>6, <3>7, <3>8, <3>9 DEF Next, Produce, Work
      <3>11. ~Claimed(d)
        BY <2>2 DEF Claimed, Exists
      <3> QED
        BY <3>10, <3>11
    <2>3. \A d \in Delivery : ~Exists(d)' => tries'[d] = 0 /\ \A w \in Worker : d \notin todo'[w]
      BY <1>1, <2>2 DEF TriesInv, Remember
    <2>4. \A d \in Delivery \ overlaid' : Counted(d)'
      BY <1>1, StepCounted
    <2> QED
      BY <2>1, <2>3, <2>4 DEF TriesInv
  <1>2. ASSUME TriesInv, UNCHANGED <<vars, history>> PROVE TriesInv'
    BY <1>2 DEF TriesInv, Counted, Exists, Holds, vars, history
  <1> QED
    BY <1>1, <1>2

\* A delivery that no two sessions shared is tried at most MaxAttempts times, and
\* once more for each worker lost, overruns or not.
THEOREM TriesAreBounded == HistorySpec => []TriesBounded
  <1>1. HistoryInit => BudgetInv /\ TriesInv
    <2>1. HistoryInit => BudgetInv
      BY InitBudget DEF HistoryInit
    <2>2. HistoryInit => TriesInv
      BY DEF HistoryInit, Init, TriesInv, Counted, Exists, Holds
    <2> QED
      BY <2>1, <2>2
  <1>2. BudgetInv /\ TriesInv /\ [Next /\ Remember]_<<vars, history>> => BudgetInv' /\ TriesInv'
    <2>1. [Next /\ Remember]_<<vars, history>> => [Next]_vars
      BY DEF vars
    <2> QED
      BY <2>1, NextBudget, NextTries
  <1>3. BudgetInv /\ TriesInv => TriesBounded
    <2> SUFFICES ASSUME BudgetInv, TriesInv, NEW d \in Delivery \ overlaid
                 PROVE  tries[d] <= MaxAttempts + crashes
      BY DEF TriesBounded
    <2>1. /\ row[d].attempts \in 0..MaxAttempts /\ tries[d] \in Nat /\ crashes \in Nat
          /\ Counted(d) /\ TypeOK /\ HandInv
      BY DEF BudgetInv, TriesInv, TypeOK, Row
    <2>2. CASE \A w \in Worker : ~Holds(w, d)
      BY <2>1, <2>2 DEF Counted
    <2>3. ASSUME NEW w \in Worker, Holds(w, d) PROVE row[d].attempts < MaxAttempts
      BY <2>1, <2>3 DEF Holds, HandInv, Counted
    <2>4. CASE \E w \in Worker : Holds(w, d)
      <3>1. row[d].attempts < MaxAttempts
        BY <2>3, <2>4
      <3> QED
        BY <2>1, <3>1 DEF Counted
    <2> QED
      BY <2>2, <2>4
  <1> QED
    BY <1>1, <1>2, <1>3, PTL DEF HistorySpec

-----------------------------------------------------------------------------
(* The claim is a lease.  Without an overrun only a worker without a row   *)
(* in hand lets a PROCESSING row grow stale, so recovery never takes a row *)
(* from a live worker.                                                     *)

\* A row in hand is PROCESSING and younger than the cutoff of recovery, and in
\* one hand only.
LeaseInv ==
  /\ \A w \in Worker : \A d \in Delivery :
       Holds(w, d) => row[d].status = "PROCESSING" /\ ~row[d].elapsed
  /\ ExclusiveClaim

\* Every step keeps the lease: recovery needs a stale row, a claim a row that
\* nobody holds, and time passes only for rows that nobody holds.
LEMMA NextLease == ~LeaseOverrun /\ BudgetInv /\ LeaseInv /\ [Next]_vars => LeaseInv'
  <1> SUFFICES ASSUME ~LeaseOverrun, TypeOK, LeaseInv, [Next]_vars PROVE LeaseInv'
    BY DEF BudgetInv
  <1> USE DEF LeaseInv, ExclusiveClaim, Holds, WithStatus, Stale, Cancellable, RetryLeft, TypeOK
  <1>1. ASSUME NEW a \in Alert, CreateNotification(a) PROVE LeaseInv'
    BY <1>1 DEF CreateNotification, session
  <1>2. ASSUME NEW d \in Delivery, CreateDelivery(d) PROVE LeaseInv'
    BY <1>2 DEF CreateDelivery, Exists, session
  <1>3. ASSUME NEW c \in Channel, CancelChannel(c) PROVE LeaseInv'
    BY <1>3 DEF CancelChannel, session
  <1>4. ASSUME NEW w \in Worker, Recover(w) PROVE LeaseInv'
    BY <1>4 DEF Recover
  <1>5. ASSUME NEW w \in Worker, SelectBatch(w) PROVE LeaseInv'
    BY <1>5 DEF SelectBatch
  <1>6. ASSUME NEW w \in Worker, NEW d \in Delivery, Claim(w, d) PROVE LeaseInv'
    BY <1>6 DEF Claim, Claimable
  <1>7. ASSUME NEW w \in Worker, NEW d \in Delivery, LoseClaim(w, d) PROVE LeaseInv'
    BY <1>7 DEF LoseClaim
  <1>8. ASSUME NEW w \in Worker, NEW s, pc[w] = "sending", Record(w, s) PROVE LeaseInv'
    BY <1>8 DEF Record
  <1>9. ASSUME NEW w \in Worker, RecordSuccess(w) \/ RecordTransient(w) \/ RecordPermanent(w)
        PROVE LeaseInv'
    BY <1>8, <1>9 DEF RecordSuccess, RecordTransient, RecordPermanent
  <1>10. ASSUME NEW w \in Worker, Tally(w) PROVE LeaseInv'
    <2>1. row' = row /\ pc'[w] # "sending"
      BY <1>10 DEF Tally, NextItem
    <2>2. \A v \in Worker \ {w} : pc'[v] = pc[v] /\ cur'[v] = cur[v]
      BY <1>10 DEF Tally, NextItem
    <2>3. \A v \in Worker : \A d \in Delivery : Holds(v, d)' => Holds(v, d)
      BY <2>1, <2>2
    <2> HIDE DEF Holds
    <2> QED
      BY <2>1, <2>3
  <1>11. ASSUME NEW w \in Worker, WriteParent(w) PROVE LeaseInv'
    BY <1>11 DEF WriteParent, NextItem
  <1>12. ASSUME NEW w \in Worker, EndCycle(w) PROVE LeaseInv'
    BY <1>12 DEF EndCycle, EndSession
  <1>13. ASSUME NEW w \in Worker, Crash(w) PROVE LeaseInv'
    BY <1>13 DEF Crash, EndSession
  <1>14. ASSUME NEW d \in Delivery, TimePasses(d) PROVE LeaseInv'
    BY <1>14 DEF TimePasses, session
  <1>15. CASE UNCHANGED vars
    BY <1>15 DEF vars
  <1> QED
    BY <1>1, <1>2, <1>3, <1>4, <1>5, <1>6, <1>7, <1>9, <1>10, <1>11, <1>12, <1>13, <1>14, <1>15
       DEF Next, Produce, Work

\* LeaseInv holds of every execution without an overrun.
LEMMA LeaseInvariant == ASSUME ~LeaseOverrun PROVE Spec => []LeaseInv
  <1>1. Init => LeaseInv
    BY DEF Init, LeaseInv, ExclusiveClaim, Holds
  <1>2. BudgetInv /\ LeaseInv /\ [Next]_vars => LeaseInv'
    BY NextLease
  <1> QED
    BY <1>1, <1>2, BudgetInvariant, PTL DEF Spec

\* While no send outlasts the processing timeout, no delivery is being sent by
\* two workers at once.
THEOREM ClaimsAreExclusive == ASSUME ~LeaseOverrun PROVE Spec => []ExclusiveClaim
  <1>1. LeaseInv => ExclusiveClaim
    BY DEF LeaseInv
  <1> QED
    BY <1>1, LeaseInvariant, PTL

\* A step that leaves settled rows alone.
SettledStep == \A d \in Delivery : row[d].status \in Terminal => row'[d] = row[d]

\* Only the worker that holds a PROCESSING row writes to it, so the
\* unconditional writes of record_success and record_failure hit no settled row.
LEMMA StepSettled == BudgetInv /\ LeaseInv /\ [Next]_vars => SettledStep
  <1> SUFFICES ASSUME TypeOK, LeaseInv, [Next]_vars, HandInv PROVE SettledStep
    BY DEF BudgetInv
  <1> USE DEF SettledStep, Terminal, Stale, Cancellable, TypeOK
  <1>1. ASSUME NEW d \in Delivery, CreateDelivery(d) PROVE SettledStep
    BY <1>1 DEF CreateDelivery, Exists
  <1>2. ASSUME NEW c \in Channel, CancelChannel(c) PROVE SettledStep
    BY <1>2 DEF CancelChannel
  <1>3. ASSUME NEW w \in Worker, Recover(w) PROVE SettledStep
    BY <1>3 DEF Recover
  <1>4. ASSUME NEW w \in Worker, NEW d \in Delivery, Claim(w, d) PROVE SettledStep
    BY <1>4 DEF Claim, Claimable
  <1>5. ASSUME NEW w \in Worker, RecordSuccess(w) \/ RecordTransient(w) \/ RecordPermanent(w)
        PROVE SettledStep
    <2>1. cur[w] \in Delivery /\ row[cur[w]].status = "PROCESSING"
      BY <1>5 DEF HandInv, LeaseInv, Holds, RecordSuccess, RecordTransient, RecordPermanent
    <2>2. \E new : row' = [row EXCEPT ![cur[w]] = new]
      BY <1>5 DEF Record, RecordSuccess, RecordTransient, RecordPermanent
    <2> QED
      BY <2>1, <2>2
  <1>6. ASSUME NEW d \in Delivery, TimePasses(d) PROVE SettledStep
    BY <1>6 DEF TimePasses
  <1>7. CASE row' = row
    BY <1>7
  <1> QED
    BY <1>1, <1>2, <1>3, <1>4, <1>5, <1>6, <1>7
       DEF Next, Produce, Work, vars, CreateNotification, SelectBatch, LoseClaim, Tally,
           WriteParent, EndCycle, Crash

\* SENT, FAILED and CANCELLED rows never change again.
THEOREM SettledIsFinal == ASSUME ~LeaseOverrun PROVE Spec => SettledForGood
  <1>1. BudgetInv /\ LeaseInv /\ [Next]_vars
          => [\A d \in Delivery : row[d].status \in Terminal => row'[d] = row[d]]_vars
    BY StepSettled DEF SettledStep
  <1> QED
    BY <1>1, BudgetInvariant, LeaseInvariant, PTL DEF Spec, SettledForGood

-----------------------------------------------------------------------------
(* The status a candidate sees.                                            *)

\* A settled status in an identity map is the status of the row, because
\* settled rows are final; a verdict rests on settled rows.
TruthInv ==
  /\ \A d \in Delivery : row[d].status = "SENT" => d \in reached
  /\ \A w \in Worker : \A d \in Delivery :
       view[w][d].status \in {"SENT", "FAILED"} => row[d].status = view[w][d].status
  /\ \A w \in Worker : pc[w] = "write" /\ verdict[w] # "NONE" =>
       \E c \in Channel : row[<<cur[w][1], c>>].status = verdict[w]
  /\ \A a \in Alert : parent[a] \in {"SENT", "FAILED"} =>
       \E c \in Channel : row[<<a, c>>].status = parent[a]

\* What a worker folds into the parent is the status of one of its rows.
LEMMA FoldTrue ==
  ASSUME TypeOK, TruthInv, NEW w \in Worker, NEW a \in Alert,
         NEW v \in {"SENT", "FAILED"}, Fold(SeenStatuses(w, a)) = v
  PROVE  \E c \in Channel : row[<<a, c>>].status = v
  <1>1. v \in SeenStatuses(w, a)
    BY DEF Fold
  <1>2. PICK c \in Channel : v = IF view[w][<<a, c>>].status = "UNLOADED"
                                   THEN row[<<a, c>>].status ELSE view[w][<<a, c>>].status
    BY <1>1 DEF SeenStatuses
  <1>3. <<a, c>> \in Delivery
    BY DEF Delivery
  <1> QED
    BY <1>2, <1>3 DEF TruthInv

\* Settled rows keep supporting what rests on them.
LEMMA SettledKeepsTruth ==
  ASSUME SettledStep, NEW a \in Alert, NEW v \in {"SENT", "FAILED"},
         \E c \in Channel : row[<<a, c>>].status = v
  PROVE  \E c \in Channel : row'[<<a, c>>].status = v
  BY DEF SettledStep, Delivery, Terminal

\* Every step keeps TruthInv: one step per conjunct, since most actions disturb
\* only one of them.
LEMMA NextTruth ==
  BudgetInv /\ LeaseInv /\ BudgetInv' /\ TruthInv /\ [Next]_vars => TruthInv'
  <1> SUFFICES ASSUME BudgetInv, LeaseInv, TypeOK', TruthInv, [Next]_vars, SettledStep
               PROVE  TruthInv'
    BY StepSettled DEF BudgetInv
  <1>t. TypeOK /\ HandInv
    BY DEF BudgetInv
  <1>a. ASSUME NEW d \in Delivery, row'[d].status = "SENT" PROVE d \in reached'
    <2>1. CASE row[d].status = "SENT"
      BY <2>1 DEF TruthInv, Next, Produce, Work, vars, CreateNotification, CreateDelivery,
         CancelChannel, Recover, SelectBatch, Claim, LoseClaim, RecordSuccess, RecordTransient,
         RecordPermanent, Tally, WriteParent, EndCycle, Crash, TimePasses
    <2>2. CASE row[d].status # "SENT"
      <3>1. row' # row
        BY <1>a, <2>2
      <3>2. ASSUME NEW w \in Worker, RecordSuccess(w) PROVE d \in reached'
        BY <1>a, <1>t, <2>2, <3>2 DEF RecordSuccess, Record, TypeOK
      <3>3. ASSUME NEW w \in Worker, NEW s \in {"RETRYING", "FAILED"}, Record(w, s) PROVE FALSE
        BY <1>a, <1>t, <2>2, <3>3 DEF Record, TypeOK
      <3>4. ASSUME NEW w \in Worker, RecordTransient(w) \/ RecordPermanent(w) PROVE FALSE
        BY <3>3, <3>4 DEF RecordTransient, RecordPermanent
      <3>5. ASSUME NEW e \in Delivery, CreateDelivery(e) \/ TimePasses(e) PROVE FALSE
        BY <1>a, <1>t, <2>2, <3>5 DEF CreateDelivery, TimePasses, TypeOK
      <3>6. ASSUME NEW c \in Channel, CancelChannel(c) PROVE FALSE
        BY <1>a, <1>t, <2>2, <3>6 DEF CancelChannel, WithStatus, Cancellable, TypeOK
      <3>7. ASSUME NEW w \in Worker, Recover(w) PROVE FALSE
        BY <1>a, <1>t, <2>2, <3>7 DEF Recover, WithStatus, Stale, RetryLeft, TypeOK
      <3>8. ASSUME NEW w \in Worker, NEW e \in Delivery, Claim(w, e) PROVE FALSE
        BY <1>a, <1>t, <2>2, <3>8 DEF Claim, WithStatus, TypeOK
      <3> QED
        BY <3>1, <3>2, <3>4, <3>5, <3>6, <3>7, <3>8 DEF Next, Produce, Work, vars,
           CreateNotification, SelectBatch, LoseClaim, Tally, WriteParent, EndCycle, Crash
    <2> QED
      BY <2>1, <2>2
  <1>b. ASSUME NEW w \in Worker, NEW d \in Delivery, view'[w][d].status \in {"SENT", "FAILED"}
        PROVE  row'[d].status = view'[w][d].status
    <2>1. CASE view'[w][d] = view[w][d]
      BY <1>b, <2>1 DEF TruthInv, SettledStep, Terminal
    <2>2. CASE view'[w][d].status = row[d].status
      BY <1>b, <2>2 DEF SettledStep, Terminal
    <2>3. ASSUME NEW s, Record(w, s), pc[w] = "sending" PROVE row'[d].status = view'[w][d].status
      <3>1. CASE d = cur[w]
        BY <1>t, <2>3, <3>1 DEF TypeOK, Record
      <3>2. CASE d # cur[w]
        BY <1>t, <2>1, <2>3, <3>2 DEF TypeOK, Record
      <3> QED
        BY <3>1, <3>2
    <2>4. CASE view'[w] = EmptyView
      BY <1>b, <2>4 DEF EmptyView, Unloaded
    <2>5. CASE SelectBatch(w)
      BY <1>t, <2>1, <2>2, <2>5 DEF SelectBatch, TypeOK, Loaded
    <2>6. ASSUME NEW e \in Delivery, Claim(w, e) PROVE row'[d].status = view'[w][d].status
      <3>1. CASE d = e
        BY <1>b, <1>t, <2>6, <3>1 DEF Claim, TypeOK
      <3>2. CASE d # e
        BY <1>t, <2>1, <2>2, <2>6, <3>2 DEF Claim, TypeOK, Loaded
      <3> QED
        BY <3>1, <3>2
    <2>7. CASE EndCycle(w) \/ Crash(w)
      BY <1>t, <2>4, <2>7 DEF EndCycle, Crash, EndSession, TypeOK
    <2>8. CASE RecordSuccess(w) \/ RecordTransient(w) \/ RecordPermanent(w)
      BY <2>3, <2>8 DEF RecordSuccess, RecordTransient, RecordPermanent
    <2>9. ASSUME NEW v \in Worker, v # w, SelectBatch(v) \/ (\E e \in Delivery : Claim(v, e))
                 \/ RecordSuccess(v) \/ RecordTransient(v) \/ RecordPermanent(v)
                 \/ EndCycle(v) \/ Crash(v)
          PROVE  view'[w][d] = view[w][d]
      BY <1>t, <2>9 DEF TypeOK, SelectBatch, Claim, RecordSuccess, RecordTransient,
         RecordPermanent, Record, EndCycle, Crash, EndSession
    <2>10. CASE view' = view
      BY <2>1, <2>10
    <2> QED
      BY <2>1, <2>5, <2>6, <2>7, <2>8, <2>9, <2>10 DEF Next, Produce, Work, vars, session,
         CreateNotification, CreateDelivery, CancelChannel, Recover, LoseClaim, Tally,
         WriteParent, TimePasses
  <1>c. ASSUME NEW w \in Worker, pc'[w] = "write", verdict'[w] # "NONE"
        PROVE  \E c \in Channel : row'[<<cur'[w][1], c>>].status = verdict'[w]
    <2>1. CASE Tally(w)
      <3>1. /\ cur[w] \in Delivery /\ cur' = cur /\ row' = row
            /\ verdict'[w] = Fold(SeenStatuses(w, cur[w][1]))
        BY <1>c, <1>t, <2>1 DEF Tally, NextItem, TypeOK, HandInv
      <3>2. cur[w][1] \in Alert
        BY <3>1 DEF Delivery
      <3>3. verdict'[w] \in {"SENT", "FAILED"}
        BY <1>c, <3>1 DEF Fold
      <3> QED
        BY <1>t, <3>1, <3>2, <3>3, FoldTrue, SMTT(30)
    <2>2. CASE pc[w] = "write" /\ cur'[w] = cur[w] /\ verdict'[w] = verdict[w]
      <3>1. cur[w][1] \in Alert
        BY <1>t, <2>2 DEF TypeOK, HandInv, Delivery
      <3>2. verdict[w] \in {"SENT", "FAILED"}
        BY <1>c, <1>t, <2>2 DEF TypeOK
      <3>3. \E c \in Channel : row[<<cur[w][1], c>>].status = verdict[w]
        BY <2>2, <3>2 DEF TruthInv
      <3>4. \E c \in Channel : row'[<<cur[w][1], c>>].status = verdict[w]
        BY <3>1, <3>2, <3>3, SettledKeepsTruth
      <3> QED
        BY <2>2, <3>4
    <2>3. CASE UNCHANGED <<pc, cur, verdict>>
      BY <1>c, <2>2, <2>3
    <2>4. ASSUME NEW v \in Worker, v # w, Recover(v) \/ Work(v) \/ Crash(v)
          PROVE  pc'[w] = pc[w] /\ cur'[w] = cur[w] /\ verdict'[w] = verdict[w]
      BY <1>t, <2>4 DEF TypeOK, Work, Recover, SelectBatch, Claim, LoseClaim, RecordSuccess,
         RecordTransient, RecordPermanent, Record, Tally, NextItem, WriteParent, EndCycle,
         EndSession, Crash
    <2>5. ASSUME Recover(w) \/ Work(w) \/ Crash(w), ~Tally(w) PROVE FALSE
      BY <1>c, <1>t, <2>5 DEF TypeOK, Work, Recover, SelectBatch, Claim, LoseClaim,
         RecordSuccess, RecordTransient, RecordPermanent, Record, NextItem, WriteParent,
         EndCycle, EndSession, Crash
    <2>6. Produce \/ (\E d \in Delivery : TimePasses(d)) \/ UNCHANGED vars
            => UNCHANGED <<pc, cur, verdict>>
      BY DEF Produce, CreateNotification, CreateDelivery, CancelChannel, TimePasses, session, vars
    <2> QED
      BY <1>c, <2>1, <2>2, <2>3, <2>4, <2>5, <2>6 DEF Next
  <1>d. ASSUME NEW a \in Alert, parent'[a] \in {"SENT", "FAILED"}
        PROVE  \E c \in Channel : row'[<<a, c>>].status = parent'[a]
    <2>1. CASE parent'[a] = parent[a]
      <3>1. \E c \in Channel : row[<<a, c>>].status = parent[a]
        BY <1>d, <2>1 DEF TruthInv
      <3>2. \E c \in Channel : row'[<<a, c>>].status = parent[a]
        BY <1>d, <2>1, <3>1, SettledKeepsTruth
      <3> QED
        BY <2>1, <3>2
    <2>2. ASSUME NEW w \in Worker, WriteParent(w)
          PROVE  \E c \in Channel : row'[<<a, c>>].status = parent'[a]
      BY <1>d, <1>t, <2>1, <2>2 DEF WriteParent, TruthInv, TypeOK
    <2>3. ASSUME NEW b \in Alert, CreateNotification(b) PROVE parent'[a] = parent[a]
      BY <1>d, <1>t, <2>3 DEF CreateNotification, TypeOK
    <2> QED
      BY <2>1, <2>2, <2>3 DEF Next, Produce, Work, vars, CreateDelivery, CancelChannel, Recover,
         SelectBatch, Claim, LoseClaim, RecordSuccess, RecordTransient, RecordPermanent, Record,
         Tally, EndCycle, Crash, TimePasses
  <1> QED
    BY <1>a, <1>b, <1>c, <1>d DEF TruthInv

\* What a candidate sees of a notification is backed by one of its deliveries,
\* although workers look at sibling rows that other workers have since changed.
THEOREM ParentIsTruthful == ASSUME ~LeaseOverrun PROVE Spec => []ParentTruthful
  <1>1. Init => TruthInv
    BY DEF Init, TruthInv, EmptyView, Unloaded
  <1>2. BudgetInv /\ LeaseInv /\ BudgetInv' /\ TruthInv /\ [Next]_vars => TruthInv'
    BY NextTruth
  <1>3. TruthInv => ParentTruthful
    BY DEF TruthInv, ParentTruthful, Delivery
  <1> QED
    BY <1>1, <1>2, <1>3, BudgetInvariant, LeaseInvariant, PTL DEF Spec

-----------------------------------------------------------------------------
(* The queue implements the contract.  The state of a delivery is read off *)
(* its status; its holder is the worker whose claim is not yet recorded,   *)
(* of which there is one at most (ExclusiveClaim).                         *)

\* What a status says to the contract.
StateOf(s) ==
  CASE s = "ABSENT" -> "absent"
    [] s \in {"PENDING", "RETRYING"} -> "queued"
    [] s = "PROCESSING" -> "leased"
    [] s = "SENT" -> "sent"
    [] s = "FAILED" -> "failed"
    [] s = "CANCELLED" -> "withdrawn"

\* contractState, before and after a step, by StateOf.
LEMMA States ==
  /\ contractState = [d \in Delivery |-> StateOf(row[d].status)]
  /\ contractState' = [d \in Delivery |-> StateOf(row'[d].status)]
  BY DEF contractState, StateOf

\* StateOf, one status at a time.
LEMMA StateValues ==
  /\ StateOf("ABSENT") = "absent"
  /\ StateOf("PENDING") = "queued" /\ StateOf("RETRYING") = "queued"
  /\ StateOf("PROCESSING") = "leased"
  /\ StateOf("SENT") = "sent" /\ StateOf("FAILED") = "failed"
  /\ StateOf("CANCELLED") = "withdrawn"
  BY DEF StateOf

\* The worker that holds a delivery is its holder.
LEMMA HolderNow ==
  ASSUME ExclusiveClaim, NEW d \in Delivery
  PROVE  /\ \A w \in Worker : Holds(w, d) => contractHolder[d] = w
         /\ (\A w \in Worker : ~Holds(w, d)) => contractHolder[d] = None
  <1>1. ASSUME NEW w \in Worker, Holds(w, d) PROVE contractHolder[d] = w
    <2> DEFINE h == CHOOSE v \in Worker : Holds(v, d)
    <2>1. contractHolder[d] = h
      BY <1>1 DEF contractHolder
    <2>2. h \in Worker /\ Holds(h, d)
      BY <1>1, Zenon
    <2> QED
      BY <1>1, <2>1, <2>2 DEF ExclusiveClaim
  <1>2. (\A w \in Worker : ~Holds(w, d)) => contractHolder[d] = None
    BY DEF contractHolder
  <1> QED
    BY <1>1, <1>2

\* The same after a step, for a function f that names the holders.
LEMMA HolderNext ==
  ASSUME ExclusiveClaim', NEW f, f = [d \in Delivery |-> f[d]],
         \A d \in Delivery : \/ f[d] \in Worker /\ WillHold(f[d], d)
                             \/ f[d] = None /\ \A w \in Worker : ~WillHold(w, d)
  PROVE  contractHolder' = f
  <1>1. ASSUME NEW d \in Delivery, f[d] \in Worker, WillHold(f[d], d)
        PROVE  contractHolder'[d] = f[d]
    <2> DEFINE h == CHOOSE v \in Worker : WillHold(v, d)
    <2>1. contractHolder'[d] = h
      BY <1>1 DEF contractHolder, Holds, WillHold
    <2>2. h \in Worker /\ WillHold(h, d)
      BY <1>1, Zenon
    <2> QED
      BY <1>1, <2>1, <2>2 DEF ExclusiveClaim, Holds, WillHold
  <1>2. ASSUME NEW d \in Delivery, f[d] = None, \A w \in Worker : ~WillHold(w, d)
        PROVE  contractHolder'[d] = f[d]
    BY <1>2 DEF contractHolder, Holds, WillHold
  <1>3. contractHolder' = [d \in Delivery |-> contractHolder'[d]]
    BY DEF contractHolder
  <1> QED
    BY <1>1, <1>2, <1>3

\* A step that changes no claim changes no holder.
LEMMA HoldersStay ==
  ASSUME ExclusiveClaim, ExclusiveClaim',
         \A d \in Delivery : \A w \in Worker : WillHold(w, d) <=> Holds(w, d)
  PROVE  contractHolder' = contractHolder
  <1> DEFINE f == contractHolder
  <1>1. f = [d \in Delivery |-> f[d]]
    BY DEF contractHolder
  <1>2. ASSUME NEW d \in Delivery
        PROVE  \/ f[d] \in Worker /\ WillHold(f[d], d)
               \/ f[d] = None /\ \A w \in Worker : ~WillHold(w, d)
    <2>1. CASE \E w \in Worker : Holds(w, d)
      BY <2>1, HolderNow
    <2>2. CASE \A w \in Worker : ~Holds(w, d)
      BY <2>2, HolderNow
    <2> QED
      BY <2>1, <2>2
  <1> HIDE DEF f
  <1>3. contractHolder' = f
    BY <1>1, <1>2, HolderNext
  <1> QED
    BY <1>3 DEF f

\* The producers offer and withdraw deliveries.
LEMMA ProduceImplements ==
  ASSUME TypeOK, LeaseInv, LeaseInv', Produce
  PROVE  [Contract!Next]_Contract!vars
  <1>1. contractHolder' = contractHolder
    <2>1. pc' = pc /\ cur' = cur
      BY DEF Produce, CreateNotification, CreateDelivery, CancelChannel, session
    <2>2. \A d \in Delivery : \A w \in Worker : WillHold(w, d) <=> Holds(w, d)
      BY <2>1 DEF Holds, WillHold
    <2> QED
      BY <2>2, HoldersStay DEF LeaseInv
  <1>2. ASSUME NEW a \in Alert, CreateNotification(a) PROVE contractState' = contractState
    BY <1>2, States DEF CreateNotification
  <1>3. ASSUME NEW d \in Delivery, CreateDelivery(d) PROVE Contract!Offer(d)
    <2>1. row' = [row EXCEPT ![d] = [status |-> "PENDING", attempts |-> 0, elapsed |-> FALSE]]
      BY <1>3 DEF CreateDelivery
    <2>2. row'[d].status = "PENDING" /\ \A e \in Delivery \ {d} : row'[e] = row[e]
      BY <2>1 DEF TypeOK
    <2>3. row[d].status = "ABSENT"
      BY <1>3 DEF CreateDelivery, Exists
    <2> QED
      BY <1>1, <2>2, <2>3, States, StateValues DEF Contract!Offer
  <1>4. ASSUME NEW c \in Channel, CancelChannel(c)
        PROVE  \E S \in SUBSET Delivery : Contract!Withdraw(S)
    <2> DEFINE S == {d \in Delivery : d[2] = c /\ Cancellable(d)}
    <2>1. \A d \in S : contractState[d] = "queued"
      BY States, StateValues DEF Cancellable
    <2>2. \A d \in Delivery : row'[d].status = IF d \in S THEN "CANCELLED" ELSE row[d].status
      BY <1>4 DEF CancelChannel, WithStatus
    <2>3. contractState' = [d \in Delivery |-> IF d \in S THEN "withdrawn" ELSE contractState[d]]
      BY <2>2, States, StateValues
    <2> QED
      BY <1>1, <2>1, <2>3 DEF Contract!Withdraw
  <1> QED
    BY <1>1, <1>2, <1>3, <1>4 DEF Produce, Contract!Next, Contract!vars

\* A claim is a lease: the row was claimable, and the worker has no other in hand.
LEMMA ClaimImplements ==
  ASSUME TypeOK, LeaseInv, LeaseInv', NEW w \in Worker, NEW d \in Delivery, Claim(w, d)
  PROVE  Contract!Lease(d, w)
  <1>1. /\ row' = [row EXCEPT ![d] = WithStatus(d, "PROCESSING")]
        /\ row[d].status \in {"PENDING", "RETRYING"} /\ pc[w] = "loop"
        /\ pc' = [pc EXCEPT ![w] = "sending"] /\ cur' = [cur EXCEPT ![w] = d]
    BY DEF Claim, Claimable
  <1>2. contractState[d] = "queued"
    BY <1>1, States, StateValues
  <1>3. contractState' = [contractState EXCEPT ![d] = "leased"]
    <2>1. row'[d].status = "PROCESSING" /\ \A e \in Delivery \ {d} : row'[e] = row[e]
      BY <1>1 DEF WithStatus, TypeOK
    <2> QED
      BY <2>1, States, StateValues
  <1>4. ASSUME NEW e \in Delivery PROVE contractHolder[e] # w
    <2>1. \A v \in Worker : Holds(v, e) => v # w
      BY <1>1 DEF Holds, WillHold
    <2>2. CASE \E v \in Worker : Holds(v, e)
      BY <2>1, <2>2, HolderNow DEF LeaseInv
    <2>3. CASE \A v \in Worker : ~Holds(v, e)
      BY <2>3, HolderNow DEF LeaseInv
    <2> QED
      BY <2>2, <2>3
  <1>5. contractHolder' = [contractHolder EXCEPT ![d] = w]
    <2> DEFINE f == [contractHolder EXCEPT ![d] = w]
    <2>1. f = [e \in Delivery |-> IF e = d THEN w ELSE contractHolder[e]]
      BY DEF contractHolder
    <2>2. ASSUME NEW e \in Delivery
          PROVE  \/ f[e] \in Worker /\ WillHold(f[e], e)
                 \/ f[e] = None /\ \A v \in Worker : ~WillHold(v, e)
      <3>1. CASE e = d
        BY <1>1, <2>1, <3>1 DEF Holds, WillHold, TypeOK
      <3>2. CASE e # d
        <4>1. \A v \in Worker : WillHold(v, e) <=> Holds(v, e)
          BY <1>1, <3>2 DEF Holds, WillHold, TypeOK
        <4>2. f[e] = contractHolder[e]
          BY <2>1, <3>2
        <4>3. CASE \E v \in Worker : Holds(v, e)
          BY <4>1, <4>2, <4>3, HolderNow DEF LeaseInv
        <4>4. CASE \A v \in Worker : ~Holds(v, e)
          BY <4>1, <4>2, <4>4, HolderNow DEF LeaseInv
        <4> QED
          BY <4>3, <4>4
      <3> QED
        BY <3>1, <3>2
    <2>3. f = [e \in Delivery |-> f[e]]
      BY <2>1
    <2> HIDE DEF f
    <2>4. contractHolder' = f
      BY <2>2, <2>3, HolderNext DEF LeaseInv
    <2> QED
      BY <2>4 DEF f
  <1> QED
    BY <1>2, <1>3, <1>4, <1>5 DEF Contract!Lease

\* A worker that stops sending, with its outcome recorded or lost, is no holder
\* any more; nothing else changes hands.
LEMMA Released ==
  ASSUME TypeOK, LeaseInv, LeaseInv', NEW w \in Worker, pc[w] = "sending", cur[w] \in Delivery,
         pc'[w] # "sending", \A v \in Worker \ {w} : pc'[v] = pc[v] /\ cur'[v] = cur[v]
  PROVE  /\ contractHolder[cur[w]] = w
         /\ contractHolder' = [contractHolder EXCEPT ![cur[w]] = None]
  <1> DEFINE d == cur[w]
             f == [contractHolder EXCEPT ![d] = None]
  <1>1. Holds(w, d)
    BY DEF Holds, WillHold
  <1>2. contractHolder[d] = w
    BY <1>1, HolderNow DEF LeaseInv
  <1>3. f = [e \in Delivery |-> IF e = d THEN None ELSE contractHolder[e]]
    BY DEF contractHolder
  <1>4. \A e \in Delivery : \A v \in Worker : WillHold(v, e) <=> Holds(v, e) /\ v # w
    BY DEF Holds, WillHold
  <1>5. ASSUME NEW e \in Delivery
        PROVE  \/ f[e] \in Worker /\ WillHold(f[e], e)
               \/ f[e] = None /\ \A v \in Worker : ~WillHold(v, e)
    <2>1. CASE e = d
      <3>1. \A v \in Worker : ~WillHold(v, d)
        BY <1>1, <1>4 DEF LeaseInv, ExclusiveClaim
      <3> QED
        BY <1>3, <2>1, <3>1
    <2>2. CASE e # d
      <3>1. f[e] = contractHolder[e] /\ ~Holds(w, e)
        BY <1>3, <2>2 DEF Holds, WillHold
      <3>2. CASE \E v \in Worker : Holds(v, e)
        BY <1>4, <3>1, <3>2, HolderNow DEF LeaseInv
      <3>3. CASE \A v \in Worker : ~Holds(v, e)
        BY <1>4, <3>1, <3>3, HolderNow DEF LeaseInv
      <3> QED
        BY <3>2, <3>3
    <2> QED
      BY <2>1, <2>2
  <1>6. f = [e \in Delivery |-> f[e]]
    BY <1>3
  <1> HIDE DEF f
  <1>7. contractHolder' = f
    BY <1>5, <1>6, HolderNext DEF LeaseInv
  <1> QED
    BY <1>2, <1>7 DEF f

\* What the holder of a delivery records settles the lease: it holds the delivery
\* alone, and nobody else has touched the row meanwhile.
LEMMA RecordImplements ==
  ASSUME TypeOK, LeaseInv, LeaseInv', NEW w \in Worker, pc[w] = "sending", cur[w] \in Delivery,
         NEW s \in {"SENT", "RETRYING", "FAILED"}, Record(w, s)
  PROVE  Contract!Settle(cur[w])
  <1> DEFINE d == cur[w]
  <1>1. /\ \E new : new.status = s /\ row' = [row EXCEPT ![d] = new]
        /\ pc' = [pc EXCEPT ![w] = "tally"] /\ cur' = cur
    BY DEF Record
  <1>2. contractHolder[d] = w /\ contractHolder' = [contractHolder EXCEPT ![d] = None]
    <2>1. pc'[w] # "sending" /\ \A v \in Worker \ {w} : pc'[v] = pc[v] /\ cur'[v] = cur[v]
      BY <1>1 DEF TypeOK
    <2> QED
      BY <2>1, Released
  <1>3. row[d].status = "PROCESSING"
    BY DEF LeaseInv, Holds
  <1>4. contractState[d] = "leased"
    BY <1>3, States, StateValues
  <1>5. row'[d].status = s /\ \A e \in Delivery \ {d} : row'[e] = row[e]
    BY <1>1 DEF TypeOK
  <1>6. contractState' = [contractState EXCEPT ![d] = StateOf(s)]
    BY <1>5, States
  <1>7. StateOf(s) \in {"sent", "failed", "queued"}
    BY StateValues
  <1> QED
    BY <1>2, <1>4, <1>6, <1>7 DEF Contract!Settle

\* A lost worker abandons the delivery in hand, if it has one.
LEMMA CrashImplements ==
  ASSUME TypeOK, HandInv, LeaseInv, LeaseInv', NEW w \in Worker, Crash(w)
  PROVE  [Contract!Next]_Contract!vars
  <1>1. /\ row' = row /\ pc'[w] # "sending"
        /\ \A v \in Worker \ {w} : pc'[v] = pc[v] /\ cur'[v] = cur[v]
    BY DEF Crash, EndSession, TypeOK
  <1>2. contractState' = contractState
    BY <1>1, States
  <1>3. CASE pc[w] = "sending"
    <2>1. cur[w] \in Delivery
      BY <1>3 DEF HandInv, TypeOK
    <2>2. Contract!Abandon(cur[w])
      BY <1>1, <1>2, <1>3, <2>1, Released DEF Contract!Abandon
    <2> QED
      BY <2>1, <2>2 DEF Contract!Next
  <1>4. CASE pc[w] # "sending"
    <2>1. \A d \in Delivery : \A v \in Worker : WillHold(v, d) <=> Holds(v, d)
      BY <1>1, <1>4 DEF Holds, WillHold
    <2> QED
      BY <1>2, <2>1, HoldersStay DEF LeaseInv, Contract!vars
  <1> QED
    BY <1>3, <1>4

\* Recovery reclaims leases without a holder, and never fails one.
LEMMA RecoverImplements ==
  ASSUME BudgetInv, LeaseInv, LeaseInv', NEW w \in Worker, Recover(w)
  PROVE  \E S \in SUBSET Delivery : Contract!Reclaim(S)
  <1> DEFINE S == {d \in Delivery : Stale(d)}
  <1>1. contractHolder' = contractHolder
    <2>1. \A d \in Delivery : \A v \in Worker : WillHold(v, d) <=> Holds(v, d)
      BY DEF Recover, Holds, WillHold, BudgetInv, TypeOK
    <2> QED
      BY <2>1, HoldersStay DEF LeaseInv
  <1>2. \A d \in S : contractState[d] = "leased" /\ contractHolder[d] = None
    <2>1. \A d \in S : \A v \in Worker : ~Holds(v, d)
      BY DEF LeaseInv, Stale
    <2> QED
      BY <2>1, HolderNow, States, StateValues DEF LeaseInv, Stale
  <1>3. \A d \in Delivery : row'[d].status = IF d \in S THEN "RETRYING" ELSE row[d].status
    BY DEF Recover, WithStatus, Stale, RetryLeft, BudgetInv, BudgetLeftWhileOpen, Open
  <1>4. contractState' = [d \in Delivery |-> IF d \in S THEN "queued" ELSE contractState[d]]
    BY <1>3, States, StateValues
  <1> QED
    BY <1>1, <1>2, <1>4 DEF Contract!Reclaim

\* Steps that neither change a status nor take or give up a claim.
LEMMA QuietImplements ==
  ASSUME TypeOK, LeaseInv, LeaseInv',
         \A d \in Delivery : row'[d].status = row[d].status,
         \A w \in Worker :
           (pc'[w] = pc[w] /\ cur'[w] = cur[w]) \/ (pc[w] # "sending" /\ pc'[w] # "sending")
  PROVE  UNCHANGED Contract!vars
  <1>1. \A d \in Delivery : \A w \in Worker : WillHold(w, d) <=> Holds(w, d)
    BY DEF Holds, WillHold
  <1>2. contractHolder' = contractHolder
    BY <1>1, HoldersStay DEF LeaseInv
  <1>3. contractState' = contractState
    BY States
  <1> QED
    BY <1>2, <1>3 DEF Contract!vars

\* Every step of the queue is one of the contract, or changes nothing the
\* contract knows of.
LEMMA StepImplements ==
  ASSUME BudgetInv, LeaseInv, LeaseInv', [Next]_vars
  PROVE  [Contract!Next]_Contract!vars
  <1>t. TypeOK /\ HandInv
    BY DEF BudgetInv
  <1>1. ASSUME NEW w \in Worker, RecordSuccess(w) \/ RecordTransient(w) \/ RecordPermanent(w)
        PROVE  [Contract!Next]_Contract!vars
    <2>1. pc[w] = "sending" /\ \E s \in {"SENT", "RETRYING", "FAILED"} : Record(w, s)
      BY <1>1 DEF RecordSuccess, RecordTransient, RecordPermanent
    <2>2. cur[w] \in Delivery
      BY <1>t, <2>1 DEF HandInv, TypeOK
    <2> QED
      BY <1>t, <2>1, <2>2, RecordImplements DEF Contract!Next
  <1>2. ASSUME NEW w \in Worker, SelectBatch(w) \/ Tally(w) \/ WriteParent(w) \/ EndCycle(w)
                                 \/ \E d \in Delivery : LoseClaim(w, d)
        PROVE  UNCHANGED Contract!vars
    <2>1. row' = row
      BY <1>2 DEF SelectBatch, Tally, WriteParent, EndCycle, LoseClaim
    <2>2. \A v \in Worker :
            (pc'[v] = pc[v] /\ cur'[v] = cur[v]) \/ (pc[v] # "sending" /\ pc'[v] # "sending")
      BY <1>t, <1>2 DEF SelectBatch, Tally, WriteParent, EndCycle, EndSession, LoseClaim, NextItem,
         TypeOK
    <2> QED
      BY <1>t, <2>1, <2>2, QuietImplements
  <1>3. ASSUME NEW d \in Delivery, TimePasses(d) PROVE UNCHANGED Contract!vars
    <2>1. \A e \in Delivery : row'[e].status = row[e].status
      BY <1>t, <1>3 DEF TimePasses, TypeOK
    <2>2. pc' = pc /\ cur' = cur
      BY <1>3 DEF TimePasses, session
    <2> QED
      BY <1>t, <2>1, <2>2, QuietImplements
  <1>4. CASE UNCHANGED vars
    BY <1>t, <1>4, QuietImplements DEF vars
  <1>5. CASE Produce
    BY <1>t, <1>5, ProduceImplements
  <1>6. ASSUME NEW w \in Worker, Recover(w) PROVE Contract!Next
    BY <1>6, RecoverImplements DEF Contract!Next
  <1>7. ASSUME NEW w \in Worker, NEW d \in Delivery, Claim(w, d) PROVE Contract!Next
    BY <1>t, <1>7, ClaimImplements DEF Contract!Next
  <1>8. ASSUME NEW w \in Worker, Crash(w) PROVE [Contract!Next]_Contract!vars
    BY <1>t, <1>8, CrashImplements
  <1> QED
    BY <1>1, <1>2, <1>3, <1>4, <1>5, <1>6, <1>7, <1>8 DEF Next, Work

\* The delivery queue implements the delivery contract: claim, record, recovery
\* and cancellation of any number of workers look like leases of single holders.
THEOREM QueueImplementsContract == ASSUME ~LeaseOverrun PROVE Spec => ImplementsContract
  <1>1. Init => Contract!Init
    <2> SUFFICES ASSUME Init PROVE Contract!Init
      OBVIOUS
    <2>1. contractState = [d \in Delivery |-> "absent"]
      BY States, StateValues DEF Init
    <2>2. contractHolder = [d \in Delivery |-> None]
      BY DEF Init, contractHolder, Holds
    <2> QED
      BY <2>1, <2>2 DEF Contract!Init
  <1>2. BudgetInv /\ LeaseInv /\ LeaseInv' /\ [Next]_vars => [Contract!Next]_Contract!vars
    BY StepImplements
  <1> QED
    BY <1>1, <1>2, BudgetInvariant, LeaseInvariant, PTL DEF Spec, ImplementsContract, Contract!Spec
=============================================================================

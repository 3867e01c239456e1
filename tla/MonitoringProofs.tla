-------------------------- MODULE MonitoringProofs --------------------------
(***************************************************************************)
(* Proofs about Monitoring for any processes, sources and limits.          *)
(*                                                                         *)
(* Inv strengthens the invariants of the runs just enough to be inductive. *)
(* A call that backs off has attempts left, without which Retry could      *)
(* leave the range of attempt.  OneCallPerSource and ActiveSetExact need   *)
(* one another: Admit excludes a second call through _active_sources,      *)
(* which has to be exact, and the finally clause keeps it exact only       *)
(* because the call it ends is the only one for its source.  That an       *)
(* interruption blocks few sources rests on two facts more: an open record *)
(* belongs to a call inside the semaphore, and no more than MaxConcurrency *)
(* calls are inside.                                                       *)
(***************************************************************************)
EXTENDS Monitoring, FiniteSetTheorems, TLAPS

\* A call sleeps before a retry only while MONITORING_MAX_RETRIES allows one.
BackoffHasAttempts == \A c \in Call : pc[c] = "backoff" => run[c].attempt < MaxAttempts

\* A record is open only while its call is inside the semaphore.
OpenRunsHaveSlots == \A c \in Call : run[c].status \in ActiveStatus => HasSlot(c)

\* The semaphore of every process counts right.
SlotsBounded == \A p \in Process : Cardinality(SlotsOf(p)) <= MaxConcurrency

Inv ==
  /\ TypeOK
  /\ BackoffHasAttempts
  /\ OneCallPerSource
  /\ ActiveSetExact
  /\ OpenRunsHaveSlots
  /\ SlotsBounded
  /\ IsFiniteSet(Blocked)
  /\ InterruptionsBlockFew

\* The calls of a process are finitely many, those inside the semaphore too.
LEMMA FiniteSlots == ASSUME NEW p PROVE IsFiniteSet(SlotsOf(p)) /\ Cardinality(SlotsOf(p)) \in Nat
<1>1. SlotsOf(p) \in SUBSET Call
  BY DEF SlotsOf
<1>2. IsFiniteSet(SlotsOf(p))
  BY <1>1, FS_Subset, MonitoringAssumption
<1> QED BY <1>2, FS_CardinalityType

\* A step after which no call is inside the semaphore that was not before it.
LEMMA SlotsKept ==
  ASSUME SlotsBounded, \A d \in Call : HasSlot(d)' => HasSlot(d)
  PROVE  SlotsBounded'
<1> SUFFICES ASSUME NEW p \in Process PROVE Cardinality(SlotsOf(p)') <= MaxConcurrency
  BY DEF SlotsBounded
<1> DEFINE S == SlotsOf(p)  T == SlotsOf(p)'
<1>1. T \in SUBSET S
  BY DEF SlotsOf
<1>2. IsFiniteSet(S) /\ Cardinality(S) \in Nat
  BY FiniteSlots
<1>3. Cardinality(S) <= MaxConcurrency
  BY DEF SlotsBounded
<1>4. IsFiniteSet(T) /\ Cardinality(T) <= Cardinality(S)
  BY <1>1, <1>2, FS_Subset
<1>5. Cardinality(T) \in Nat
  BY <1>4, FS_CardinalityType
<1> HIDE DEF S, T
<1>6. Cardinality(T) <= MaxConcurrency
  BY <1>2, <1>3, <1>4, <1>5, MonitoringAssumption
<1> QED BY <1>6 DEF T

\* An interruption that leaves behind the open records of calls of one process
\* blocks no more sources than the semaphore has slots.
LEMMA FewMore ==
  ASSUME Inv, NEW p \in Process, NEW cause \in Cause, NEW C \in SUBSET {c \in Call : c[1] = p},
         Interruption, stuck' = stuck \cup Orphans(C, cause)
  PROVE  /\ stuck' \in SUBSET (Source \X Cause)
         /\ interruptions' \in 0..MaxInterruptions
         /\ IsFiniteSet(Blocked)'
         /\ InterruptionsBlockFew'
<1> DEFINE open == {c \in C : run[c].status \in ActiveStatus}
           more == {c[2] : c \in open}
           B == Blocked
           M == MaxConcurrency
           i == interruptions
<1>1. \A c \in Call : c[2] \in Source
  BY DEF Call
<1>2. stuck' \in SUBSET (Source \X Cause)
  BY <1>1 DEF Orphans, Inv, TypeOK
<1>3. i \in Nat /\ M \in Nat /\ i' = i + 1 /\ i' \in 0..MaxInterruptions
  BY MonitoringAssumption DEF Interruption, Inv, TypeOK
<1>4. open \in SUBSET SlotsOf(p)
  BY DEF Inv, OpenRunsHaveSlots, SlotsOf
<1>5. IsFiniteSet(SlotsOf(p)) /\ Cardinality(SlotsOf(p)) \in Nat
  BY FiniteSlots
<1>6. IsFiniteSet(open) /\ Cardinality(open) <= Cardinality(SlotsOf(p))
  BY <1>4, <1>5, FS_Subset
<1>7. Cardinality(open) \in Nat /\ Cardinality(SlotsOf(p)) <= M
  BY <1>6, FS_CardinalityType DEF Inv, SlotsBounded
<1>8. IsFiniteSet(more) /\ Cardinality(more) <= Cardinality(open)
  <2> DEFINE f == [c \in open |-> c[2]]
  <2>1. f \in Surjection(open, more)
    BY DEF Surjection
  <2> QED BY <2>1, <1>6, FS_Surjection
<1>9. Cardinality(more) \in Nat
  BY <1>8, FS_CardinalityType
<1>10. Blocked' = B \cup more
  <2>1. more \in SUBSET Source
    BY <1>1
  <2> QED BY <2>1 DEF Blocked, Orphans
<1>11. IsFiniteSet(B) /\ Cardinality(B) \in Nat /\ Cardinality(B) <= i * M
  BY FS_CardinalityType DEF Inv, InterruptionsBlockFew
<1>12. /\ IsFiniteSet(B \cup more)
       /\ Cardinality(B \cup more) = Cardinality(B) + Cardinality(more) - Cardinality(B \cap more)
  BY <1>8, <1>11, FS_Union
<1>13. Cardinality(B \cap more) \in Nat
  <2>1. IsFiniteSet(B \cap more)
    BY <1>11, FS_Subset
  <2> QED BY <2>1, FS_CardinalityType
<1>14. Cardinality(B \cup more) <= i' * M
  <2>1. i' * M = i * M + M
    BY <1>3
  <2>2. i * M \in Nat
    BY <1>3
  <2> HIDE DEF open, more, B, M, i
  <2>3. Cardinality(more) <= M
    BY <1>3, <1>5, <1>6, <1>7, <1>8, <1>9
  <2> QED BY <1>3, <1>9, <1>11, <1>12, <1>13, <2>1, <2>2, <2>3
<1> QED BY <1>2, <1>3, <1>10, <1>12, <1>14 DEF InterruptionsBlockFew

\* A step that blocks nothing more, whether it interrupts something or not.
LEMMA NoMore ==
  ASSUME Inv, stuck' = stuck, UNCHANGED interruptions \/ Interruption
  PROVE  /\ stuck' \in SUBSET (Source \X Cause)
         /\ interruptions' \in 0..MaxInterruptions
         /\ IsFiniteSet(Blocked)'
         /\ InterruptionsBlockFew'
<1> DEFINE n == Cardinality(Blocked)  M == MaxConcurrency  i == interruptions
<1>1. Blocked' = Blocked
  BY DEF Blocked
<1>2. IsFiniteSet(Blocked) /\ n \in Nat /\ n <= i * M
  BY FS_CardinalityType DEF Inv, InterruptionsBlockFew
<1>3. i \in Nat /\ M \in Nat /\ (i' = i \/ i' = i + 1) /\ i' \in 0..MaxInterruptions
  BY MonitoringAssumption DEF Interruption, Inv, TypeOK
<1>4. n <= i' * M
  <2> HIDE DEF n, M, i
  <2>1. i * M \in Nat /\ (i + 1) * M = i * M + M
    BY <1>3
  <2>2. CASE i' = i
    BY <1>2, <2>2
  <2>3. CASE i' = i + 1
    <3>1. i' * M = i * M + M
      BY <2>1, <2>3
    <3> DEFINE before == i * M  after == i' * M
    <3>2. before \in Nat /\ after = before + M /\ n <= before
      BY <1>2, <2>1, <3>1
    <3> HIDE DEF before, after
    <3>3. n <= after
      BY <1>2, <1>3, <3>2
    <3> QED BY <3>3 DEF after
  <2> QED BY <1>3, <2>2, <2>3
<1>5. stuck' \in SUBSET (Source \X Cause)
  BY DEF Inv, TypeOK
<1>6. IsFiniteSet(Blocked)' /\ InterruptionsBlockFew'
  BY <1>1, <1>2, <1>4 DEF InterruptionsBlockFew
<1> QED BY <1>3, <1>5, <1>6

\* The initial state satisfies Inv.
LEMMA InitInv == Init => Inv
<1> SUFFICES ASSUME Init PROVE Inv
  OBVIOUS
<1>1. TypeOK /\ BackoffHasAttempts /\ OneCallPerSource /\ ActiveSetExact /\ OpenRunsHaveSlots
  BY MonitoringAssumption
  DEF Init, TypeOK, BackoffHasAttempts, OneCallPerSource, ActiveSetExact, OpenRunsHaveSlots,
      InProgress, Admitted, NoRun, Step, ActiveStatus, MaxAttempts
<1>2. \A p \in Process : SlotsOf(p) = {}
  BY DEF Init, SlotsOf, HasSlot
<1>3. Blocked = {}
  BY DEF Init, Blocked
<1>4. SlotsBounded
  BY <1>2, FS_EmptySet, MonitoringAssumption DEF SlotsBounded
<1>5. IsFiniteSet(Blocked) /\ InterruptionsBlockFew
  BY <1>3, FS_EmptySet, MonitoringAssumption DEF InterruptionsBlockFew, Init
<1> QED BY <1>1, <1>4, <1>5 DEF Inv

\* Call c leaves execute_source, nobody else does anything: whatever happened to
\* its record, the invariant is kept.
LEMMA LeaveKeeps ==
  ASSUME NEW c \in Call, Inv, Leave(c), Admitted(c), UNCHANGED <<alive, awaited, waiters>>,
         \/ stuck' = stuck /\ (UNCHANGED interruptions \/ Interruption)
         \/ stuck' = stuck \cup Orphans({c}, "database") /\ Interruption
  PROVE  Inv'
<1> USE MonitoringAssumption
<1> c[1] \in Process /\ c[2] \in Source
  BY DEF Call
<1>0. /\ stuck' \in SUBSET (Source \X Cause)
      /\ interruptions' \in 0..MaxInterruptions
      /\ IsFiniteSet(Blocked)'
      /\ InterruptionsBlockFew'
  BY FewMore, NoMore DEF Cause
<1>1. TypeOK'
  BY <1>0 DEF Leave, Released, Inv, TypeOK, NoRun, Step, ActiveStatus, MaxAttempts
<1>2. BackoffHasAttempts'
  BY DEF Leave, Inv, TypeOK, BackoffHasAttempts
<1>3. OpenRunsHaveSlots'
  BY DEF Leave, NoRun, Inv, TypeOK, OpenRunsHaveSlots, HasSlot, ActiveStatus
<1>4. OneCallPerSource'
  BY DEF Leave, Inv, TypeOK, OneCallPerSource, Admitted
<1>5. ActiveSetExact'
  <2> SUFFICES ASSUME NEW p \in Process, NEW s \in Source
               PROVE  s \in active'[p] <=>
                        \E d \in Call : d[1] = p /\ d[2] = s /\ Admitted(d)'
    BY <1>1 DEF ActiveSetExact, InProgress, TypeOK
  <2>1. s \in active[p] <=> \E d \in Call : d[1] = p /\ d[2] = s /\ Admitted(d)
    BY DEF Inv, ActiveSetExact, InProgress
  <2>2. \A d \in Call : Admitted(d)' <=> Admitted(d) /\ d # c
    BY DEF Leave, Admitted, Inv, TypeOK
  <2>3. \A d \in Call : d[1] = c[1] /\ d[2] = c[2] /\ Admitted(d) => d = c
    BY DEF Inv, OneCallPerSource
  <2>4. s \in active'[p] <=> s \in active[p] /\ ~(p = c[1] /\ s = c[2])
    BY DEF Leave, Released, Inv, TypeOK
  <2> QED BY <2>1, <2>2, <2>3, <2>4
<1>6. SlotsBounded'
  <2>1. \A d \in Call : HasSlot(d)' => HasSlot(d)
    BY DEF Leave, HasSlot, Inv, TypeOK
  <2> QED BY <2>1, SlotsKept DEF Inv
<1> QED BY <1>0, <1>1, <1>2, <1>3, <1>4, <1>5, <1>6 DEF Inv

\* Call c goes from one place past the lock to another, or from outside to
\* outside: _active_sources may stay.
LEMMA MoveKeeps ==
  ASSUME NEW c \in Call, NEW step \in Step, Inv, TypeOK', BackoffHasAttempts', SlotsBounded',
         pc' = [pc EXCEPT ![c] = step], UNCHANGED <<active, stuck>>,
         UNCHANGED interruptions \/ Interruption,
         Admitted(c) <=> step \in {"queued", "created", "fetching", "backoff"},
         \A d \in Call : d # c => run'[d] = run[d],
         run'[c].status \in ActiveStatus => step \in {"created", "fetching", "backoff"}
  PROVE  Inv'
<1>1. \A d \in Call : Admitted(d)' <=> Admitted(d)
  BY DEF Admitted, Inv, TypeOK
<1>2. OneCallPerSource'
  BY <1>1 DEF Inv, OneCallPerSource
<1>3. ActiveSetExact'
  BY <1>1 DEF Inv, ActiveSetExact, InProgress
<1>4. OpenRunsHaveSlots'
  BY DEF Inv, TypeOK, OpenRunsHaveSlots, HasSlot
<1>5. IsFiniteSet(Blocked)' /\ InterruptionsBlockFew'
  BY NoMore
<1> QED BY <1>2, <1>3, <1>4, <1>5 DEF Inv

\* The end of a process, graceful or not.
LEMMA AbortKeeps ==
  ASSUME NEW p \in Process, NEW cause \in Cause, Inv, Abort(p, cause)
  PROVE  Inv'
<1> USE MonitoringAssumption
<1> DEFINE mine == {c \in Call : c[1] = p}
<1>0. /\ Interruption
      /\ stuck' = stuck \cup Orphans(mine, cause)
      /\ run' = [c \in Call |-> IF c \in mine THEN NoRun ELSE run[c]]
      /\ pc' = [c \in Call |-> IF c \in mine THEN "idle" ELSE pc[c]]
      /\ active' = [active EXCEPT ![p] = {}]
      /\ waiters' = [waiters EXCEPT ![p] = <<>>]
      /\ alive' = alive \ {p}
      /\ awaited' = [awaited EXCEPT ![p] = None]
  BY DEF Abort
<1>1. /\ stuck' \in SUBSET (Source \X Cause)
      /\ interruptions' \in 0..MaxInterruptions
      /\ IsFiniteSet(Blocked)'
      /\ InterruptionsBlockFew'
  BY <1>0, FewMore
<1>2. TypeOK'
  BY <1>0, <1>1 DEF Inv, TypeOK, NoRun, Step, ActiveStatus, MaxAttempts
<1>3. BackoffHasAttempts'
  BY <1>0 DEF Inv, BackoffHasAttempts
<1>4. \A c \in Call : Admitted(c)' <=> Admitted(c) /\ c[1] # p
  BY <1>0 DEF Admitted
<1>5. OneCallPerSource'
  BY <1>4 DEF Inv, OneCallPerSource
<1>6. ActiveSetExact'
  <2>1. \A q \in Process : active'[q] = IF q = p THEN {} ELSE active[q]
    BY <1>0 DEF Inv, TypeOK
  <2> QED BY <2>1, <1>4 DEF Inv, ActiveSetExact, InProgress
<1>7. OpenRunsHaveSlots'
  BY <1>0 DEF Inv, TypeOK, OpenRunsHaveSlots, HasSlot, NoRun, ActiveStatus
<1>8. SlotsBounded'
  <2>1. \A d \in Call : HasSlot(d)' => HasSlot(d)
    BY <1>0 DEF HasSlot
  <2> QED BY <2>1, SlotsKept DEF Inv
<1> QED BY <1>1, <1>2, <1>3, <1>5, <1>6, <1>7, <1>8 DEF Inv

\* A step that moves no call past the lock or out of it, and touches no record:
\* what the scheduler does, what a caller does before Admit, and stuttering.
LEMMA OutsideKeeps ==
  ASSUME Inv, TypeOK', UNCHANGED <<active, run, stuck>>,
         UNCHANGED interruptions \/ Interruption,
         \A d \in Call : pc'[d] = pc[d] \/ (pc[d] \in {"idle", "called"} /\ pc'[d] \in {"idle", "called"})
  PROVE  Inv'
<1>1. \A d \in Call : (Admitted(d)' <=> Admitted(d)) /\ (HasSlot(d)' <=> HasSlot(d))
  BY DEF Admitted, HasSlot
<1>2. BackoffHasAttempts'
  BY DEF Inv, BackoffHasAttempts
<1>3. OneCallPerSource' /\ ActiveSetExact'
  BY <1>1 DEF Inv, OneCallPerSource, ActiveSetExact, InProgress
<1>4. OpenRunsHaveSlots'
  BY <1>1 DEF Inv, OpenRunsHaveSlots
<1>5. SlotsBounded'
  BY <1>1, SlotsKept DEF Inv
<1>6. IsFiniteSet(Blocked)' /\ InterruptionsBlockFew'
  BY NoMore
<1> QED BY <1>2, <1>3, <1>4, <1>5, <1>6 DEF Inv

\* Every step keeps Inv.
LEMMA NextInv == Inv /\ [Next]_vars => Inv'
<1> USE MonitoringAssumption
<1> SUFFICES ASSUME Inv, [Next]_vars PROVE Inv'
  OBVIOUS
<1>T. TypeOK /\ BackoffHasAttempts
  BY DEF Inv
<1>1. ASSUME NEW p \in Process, BeginCycle(p) PROVE Inv'
  <2> PICK g \in Gather : /\ \A c \in GatherCalls(p, g) : pc[c] = "idle"
                          /\ awaited' = [awaited EXCEPT ![p] = g]
                          /\ pc' = [c \in Call |-> IF c \in GatherCalls(p, g) THEN "called"
                                                                               ELSE pc[c]]
    BY <1>1 DEF BeginCycle, Unused
  <2>1. TypeOK'
    BY <1>1, <1>T DEF BeginCycle, TypeOK, Step
  <2> QED BY <1>1, <2>1, OutsideKeeps DEF BeginCycle
<1>2. ASSUME NEW p \in Process, EndCycle(p) PROVE Inv'
  <2>1. TypeOK'
    BY <1>2, <1>T DEF EndCycle, TypeOK
  <2> QED BY <1>2, <2>1, OutsideKeeps DEF EndCycle
<1>3. ASSUME NEW p \in Process, Stop(p) PROVE Inv'
  BY <1>3, AbortKeeps DEF Stop, Cause
<1>4. ASSUME NEW p \in Process, Kill(p) PROVE Inv'
  BY <1>4, AbortKeeps DEF Kill, Cause
<1>5. ASSUME NEW p \in Process, Start(p) PROVE Inv'
  <2>1. TypeOK'
    BY <1>5, <1>T DEF Start, TypeOK
  <2> QED BY <1>5, <2>1, OutsideKeeps DEF Start
<1>6. ASSUME NEW c \in Call, Request(c) PROVE Inv'
  <2>1. TypeOK'
    BY <1>6, <1>T DEF Request, TypeOK, Step
  <2> QED BY <1>6, <1>T, <2>1, OutsideKeeps DEF Request, TypeOK
<1>7. ASSUME NEW c \in Call, Admit(c) PROVE Inv'
  <2> c[1] \in Process /\ c[2] \in Source
    BY DEF Call
  <2>1. TypeOK'
    <3>1. waiters' \in [Process -> Seq(Call)]
      BY <1>7, <1>T DEF Admit, TypeOK
    <3> QED BY <1>7, <1>T, <3>1 DEF Admit, TypeOK, Step
  <2>2. \A d \in Call : Admitted(d)' <=> Admitted(d) \/ d = c
    BY <1>7, <1>T DEF Admit, Admitted, TypeOK
  <2>3. \A d \in Call : d[1] = c[1] /\ d[2] = c[2] => ~Admitted(d)
    BY <1>7 DEF Admit, Overlapping, Inv, ActiveSetExact, InProgress
  <2>4. OneCallPerSource'
    BY <2>2, <2>3 DEF Inv, OneCallPerSource
  <2>5. ActiveSetExact'
    <3> SUFFICES ASSUME NEW p \in Process, NEW s \in Source
                 PROVE  s \in active'[p] <=>
                          \E d \in Call : d[1] = p /\ d[2] = s /\ Admitted(d)'
      BY <2>1 DEF ActiveSetExact, InProgress, TypeOK
    <3>1. s \in active[p] <=> \E d \in Call : d[1] = p /\ d[2] = s /\ Admitted(d)
      BY DEF Inv, ActiveSetExact, InProgress
    <3>2. s \in active'[p] <=> s \in active[p] \/ (p = c[1] /\ s = c[2])
      BY <1>7, <1>T DEF Admit, TypeOK
    <3> QED BY <2>2, <3>1, <3>2
  <2>6. BackoffHasAttempts' /\ OpenRunsHaveSlots'
    BY <1>7, <1>T DEF Admit, Inv, TypeOK, BackoffHasAttempts, OpenRunsHaveSlots, HasSlot
  <2>7. SlotsBounded'
    <3>1. \A d \in Call : HasSlot(d)' => HasSlot(d)
      BY <1>7, <1>T DEF Admit, HasSlot, TypeOK
    <3> QED BY <3>1, SlotsKept DEF Inv
  <2>8. IsFiniteSet(Blocked)' /\ InterruptionsBlockFew'
    BY <1>7, NoMore DEF Admit
  <2> QED BY <2>1, <2>4, <2>5, <2>6, <2>7, <2>8 DEF Inv
<1>8. ASSUME NEW c \in Call, Skip(c) PROVE Inv'
  <2>1. TypeOK'
    BY <1>8, <1>T DEF Skip, TypeOK, Step
  <2> QED BY <1>8, <1>T, <2>1, OutsideKeeps DEF Skip, TypeOK
<1>9. ASSUME NEW c \in Call, Create(c) PROVE Inv'
  <2> c[1] \in Process
    BY DEF Call
  <2>1. TypeOK'
    <3>1. waiters' \in [Process -> Seq(Call)]
      BY <1>9, <1>T DEF Create, TypeOK
    <3> QED BY <1>9, <1>T, <3>1 DEF Create, TypeOK, Step, ActiveStatus, MaxAttempts
  <2>2. BackoffHasAttempts'
    BY <1>9, <1>T DEF Create, TypeOK, BackoffHasAttempts
  <2>3. SlotsBounded'
    <3> SUFFICES ASSUME NEW p \in Process PROVE Cardinality(SlotsOf(p)') <= MaxConcurrency
      BY DEF SlotsBounded
    <3>1. SlotsOf(p)' = IF p = c[1] THEN SlotsOf(p) \cup {c} ELSE SlotsOf(p)
      BY <1>9, <1>T DEF Create, SlotsOf, HasSlot, TypeOK
    <3>2. IsFiniteSet(SlotsOf(p)) /\ Cardinality(SlotsOf(p)) \in Nat
      BY FiniteSlots
    <3>3. c \notin SlotsOf(p)
      BY <1>9 DEF Create, SlotsOf, HasSlot
    <3>4. CASE p = c[1]
      <4>1. Cardinality(SlotsOf(p)) < MaxConcurrency
        BY <1>9, <3>4 DEF Create, SlotFree
      <4>2. Cardinality(SlotsOf(p) \cup {c}) = Cardinality(SlotsOf(p)) + 1
        BY <3>2, <3>3, FS_AddElement
      <4> QED BY <3>1, <3>2, <3>4, <4>1, <4>2
    <3>5. CASE p # c[1]
      BY <3>1, <3>5 DEF Inv, SlotsBounded
    <3> QED BY <3>4, <3>5
  <2> QED BY <1>9, <1>T, <2>1, <2>2, <2>3, MoveKeeps DEF Create, Step, Admitted, TypeOK
<1>10. ASSUME NEW c \in Call, MarkRunning(c) PROVE Inv'
  <2>1. TypeOK' /\ BackoffHasAttempts'
    BY <1>10, <1>T DEF MarkRunning, TypeOK, Step, ActiveStatus, MaxAttempts, BackoffHasAttempts
  <2>2. \A d \in Call : HasSlot(d)' => HasSlot(d)
    BY <1>10, <1>T DEF MarkRunning, HasSlot, TypeOK
  <2>3. SlotsBounded'
    BY <2>2, SlotsKept DEF Inv
  <2> QED BY <1>10, <1>T, <2>1, <2>3, MoveKeeps DEF MarkRunning, Step, Admitted, TypeOK
<1>11. ASSUME NEW c \in Call, Finish(c) PROVE Inv'
  BY <1>11, LeaveKeeps DEF Finish, Admitted
<1>12. ASSUME NEW c \in Call, FailTransiently(c) PROVE Inv'
  <2>1. CASE AttemptsLeft(run[c].attempt)
    <3>1. TypeOK' /\ BackoffHasAttempts'
      BY <1>12, <1>T, <2>1 DEF FailTransiently, AttemptsLeft, TypeOK, Step, BackoffHasAttempts
    <3>2. \A d \in Call : HasSlot(d)' => HasSlot(d)
      BY <1>12, <1>T, <2>1 DEF FailTransiently, HasSlot, TypeOK
    <3>3. SlotsBounded'
      BY <3>2, SlotsKept DEF Inv
    <3> QED BY <1>12, <2>1, <3>1, <3>3, MoveKeeps DEF FailTransiently, Step, Admitted
  <2>2. CASE ~AttemptsLeft(run[c].attempt)
    BY <1>12, <2>2, LeaveKeeps DEF FailTransiently, Admitted
  <2> QED BY <2>1, <2>2
<1>13. ASSUME NEW c \in Call, Retry(c) PROVE Inv'
  <2>1. TypeOK' /\ BackoffHasAttempts'
    BY <1>13, <1>T DEF Retry, TypeOK, Step, ActiveStatus, MaxAttempts, BackoffHasAttempts
  <2>2. \A d \in Call : HasSlot(d)' => HasSlot(d)
    BY <1>13, <1>T DEF Retry, HasSlot, TypeOK
  <2>3. SlotsBounded'
    BY <2>2, SlotsKept DEF Inv
  <2> QED BY <1>13, <1>T, <2>1, <2>3, MoveKeeps DEF Retry, Step, Admitted, TypeOK
<1>14. ASSUME NEW c \in Call, CheckFails(c) PROVE Inv'
  <2> c[1] \in Process
    BY DEF Call
  <2>1. stuck' = stuck /\ interruptions' \in 0..MaxInterruptions
    BY <1>14, NoMore DEF CheckFails
  <2>2. TypeOK'
    BY <1>14, <1>T, <2>1 DEF CheckFails, TypeOK, Step
  <2> QED BY <1>14, <1>T, <2>2, OutsideKeeps DEF CheckFails, TypeOK
<1>15. ASSUME NEW c \in Call, CompleteUnnoticed(c) PROVE Inv'
  <2>1. CASE AttemptsLeft(run[c].attempt)
    <3>1. stuck' = stuck /\ interruptions' \in 0..MaxInterruptions
      BY <1>15, NoMore DEF CompleteUnnoticed
    <3>2. /\ run' = [run EXCEPT ![c] = [status |-> "DONE", attempt |-> run[c].attempt]]
          /\ pc' = [pc EXCEPT ![c] = "backoff"]
          /\ UNCHANGED <<alive, awaited, active, waiters>>
      BY <1>15, <2>1 DEF CompleteUnnoticed
    <3>3. run[c].attempt \in 0..MaxAttempts /\ run[c].attempt < MaxAttempts
      BY <1>T, <2>1 DEF AttemptsLeft, TypeOK
    <3>4. TypeOK'
      BY <1>T, <3>1, <3>2, <3>3 DEF TypeOK, Step
    <3>5. BackoffHasAttempts'
      BY <1>T, <3>2, <3>3 DEF TypeOK, BackoffHasAttempts
    <3>6. \A d \in Call : HasSlot(d)' => HasSlot(d)
      BY <1>15, <1>T, <2>1 DEF CompleteUnnoticed, HasSlot, TypeOK
    <3>7. SlotsBounded'
      BY <3>6, SlotsKept DEF Inv
    <3> QED
      BY <1>15, <1>T, <3>2, <3>4, <3>5, <3>7, MoveKeeps
         DEF CompleteUnnoticed, Step, Admitted, TypeOK, ActiveStatus
  <2>2. CASE ~AttemptsLeft(run[c].attempt)
    BY <1>15, <2>2, LeaveKeeps DEF CompleteUnnoticed, Admitted
  <2> QED BY <2>1, <2>2
<1>16. ASSUME NEW c \in Call, DatabaseError(c) PROVE Inv'
  BY <1>16, LeaveKeeps DEF DatabaseError, Admitted
<1>17. CASE UNCHANGED vars
  <2>1. TypeOK'
    BY <1>17, <1>T DEF vars, TypeOK
  <2> QED BY <1>17, <2>1, OutsideKeeps DEF vars
<1> QED
  BY <1>1, <1>2, <1>3, <1>4, <1>5, <1>6, <1>7, <1>8, <1>9, <1>10, <1>11, <1>12, <1>13, <1>14,
     <1>15, <1>16, <1>17 DEF Next, Advance

\* Inv holds in every reachable state.
LEMMA Invariance == Spec => []Inv
  BY InitInv, NextInv, PTL DEF Spec

\* Type correctness: in particular no retry ever exceeds MONITORING_MAX_RETRIES.
THEOREM MonitoringTypeCorrect == Spec => []TypeOK
  BY Invariance, PTL DEF Inv

\* Overlap protection within a process, for any number of sources, requests,
\* slots, retries and interruptions, whichever gathers are under way.
THEOREM NoOverlapInProcess == Spec => []OneCallPerSource
  BY Invariance, PTL DEF Inv

\* The in-memory set neither leaks nor forgets an entry.
THEOREM ActiveSetIsExact == Spec => []ActiveSetExact
  BY Invariance, PTL DEF Inv

\* However many sources there are, and wherever shutdowns, kills and database
\* errors strike, each of them blocks at most MONITORING_MAX_CONCURRENCY sources.
THEOREM InterruptionsBlockFewSources == Spec => []InterruptionsBlockFew
  BY Invariance, PTL DEF Inv
=============================================================================

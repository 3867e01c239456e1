----------------------------- MODULE Monitoring -----------------------------
(***************************************************************************)
(* MonitoringScheduler, MonitoringExecutor and MonitoringService in the    *)
(* processes that share the table monitoring_runs.                         *)
(*                                                                         *)
(* A call is one execute_source of one process for one source: either one  *)
(* that a gather of the scheduler makes, or the one a manual request makes.*)
(* gather does not return exceptions: when the checks of one call raise,   *)
(* the scheduler's cycle is over, the other calls of the gather go on, and *)
(* the next cycle may start another gather next to them.  Within a process *)
(* calls are coroutines of one event loop, so that they interleave only    *)
(* where they await: on the semaphore, on the connector, in the backoff.   *)
(* The lock of execute_source is held across no await and never delays     *)
(* anybody.  Between processes, and at a kill, every commit is a point of  *)
(* its own.                                                                *)
(*                                                                         *)
(* A source is an active CareerSource: nothing in the program deactivates  *)
(* one.  A record is followed while its call may still write it; DONE      *)
(* stands for SUCCESS, PARTIAL_SUCCESS and FAILED, which no step tells     *)
(* apart.  A record that some call has left PENDING or RUNNING for good    *)
(* is kept in stuck.                                                       *)
(***************************************************************************)
EXTENDS Integers, FiniteSets, Sequences

CONSTANTS
  Process,           \* the API server and the background worker
  Scheduling,        \* those with MONITORING_ENABLED
  Serving,           \* those that answer POST /monitoring/run
  Source,            \* active career sources
  Gather,            \* bound: gathers of one scheduler with calls under way
  MaxConcurrency,    \* MONITORING_MAX_CONCURRENCY
  MaxRetries,        \* MONITORING_MAX_RETRIES
  MaxInterruptions,  \* bound: shutdowns, kills and database errors together
  Manual, None

\* Bound: one manual request per process and source at a time.
Call == {c \in Process \X Source \X (Gather \cup {Manual}) :
           c[1] \in IF c[3] \in Gather THEN Scheduling ELSE Serving}

ASSUME MonitoringAssumption ==
  /\ MaxConcurrency \in Nat \ {0}
  /\ MaxRetries \in Nat
  /\ MaxInterruptions \in Nat
  /\ Scheduling \subseteq Process
  /\ Serving \subseteq Process
  /\ Manual \notin Gather /\ None \notin Gather
  /\ IsFiniteSet(Call)

VARIABLES
  alive,          \* processes that are up, their scheduler started
  awaited,        \* the gather each scheduler waits for, None between cycles
  active,         \* _active_sources of each process
  waiters,        \* calls that wait for the semaphore of each process, in order
  pc,             \* where each call is
  run,            \* the MonitoringRun of each call
  stuck,          \* runs no call will ever finish, by source and cause
  interruptions   \* ghost: how many interruptions there were

vars == <<alive, awaited, active, waiters, pc, run, stuck, interruptions>>

ActiveStatus == {"PENDING", "RUNNING"}
MaxAttempts == MaxRetries + 1
Cause == {"shutdown", "crash", "database"}
Step == {"idle", "called", "queued", "created", "fetching", "backoff"}

TypeOK ==
  /\ alive \in SUBSET Process
  /\ awaited \in [Process -> Gather \cup {None}]
  /\ active \in [Process -> SUBSET Source]
  /\ waiters \in [Process -> Seq(Call)]
  /\ pc \in [Call -> Step]
  /\ run \in [Call -> [status : ActiveStatus \cup {"DONE", "NONE"},
                       attempt : 0..MaxAttempts]]
  /\ stuck \in SUBSET (Source \X Cause)
  /\ interruptions \in 0..MaxInterruptions

-----------------------------------------------------------------------------
(* Helpers                                                                 *)

\* Past the lock of execute_source.
Admitted(c) == pc[c] \in {"queued", "created", "fetching", "backoff"}

\* Inside the semaphore.
HasSlot(c) == pc[c] \in {"created", "fetching", "backoff"}

\* The calls of process p for source s that are past the lock.
InProgress(p, s) == {c \in Call : c[1] = p /\ c[2] = s /\ Admitted(c)}

\* Nobody but c can be between two awaits of its process.
LoopIsFree(c) == \A d \in Call : d[1] = c[1] /\ pc[d] = "created" => d = c

\* get_active_run_for_source finds a row.
HasActiveRun(s) ==
  \/ \E cause \in Cause : <<s, cause>> \in stuck
  \/ \E c \in Call : c[2] = s /\ run[c].status \in ActiveStatus

SlotsOf(p) == {c \in Call : c[1] = p /\ HasSlot(c)}

\* Mutant of SlotFree: one semaphore per call instead of one per executor.
SlotAlwaysFree(p) == TRUE

\* The semaphore of the executor of p is not taken up.
SlotFree(p) == Cardinality(SlotsOf(p)) < MaxConcurrency

NoRun == [status |-> "NONE", attempt |-> 0]

\* Mutant of Released: the finally clause is missing.
KeptActive(c) == active

\* _active_sources after the finally clause of execute_source.
Released(c) == [active EXCEPT ![c[1]] = @ \ {c[2]}]

\* Call c returns.
Leave(c) ==
  /\ active' = Released(c)
  /\ pc' = [pc EXCEPT ![c] = "idle"]
  /\ run' = [run EXCEPT ![c] = NoRun]

\* The runs that the calls of C would leave behind.
Orphans(C, cause) == {<<c[2], cause>> : c \in {d \in C : run[d].status \in ActiveStatus}}

Interruption ==
  /\ interruptions < MaxInterruptions
  /\ interruptions' = interruptions + 1

Init ==
  /\ alive = Process
  /\ awaited = [p \in Process |-> None]
  /\ active = [p \in Process |-> {}]
  /\ waiters = [p \in Process |-> <<>>]
  /\ pc = [c \in Call |-> "idle"]
  /\ run = [c \in Call |-> NoRun]
  /\ stuck = {}
  /\ interruptions = 0

-----------------------------------------------------------------------------
(* The scheduler and the endpoints                                         *)

GatherCalls(p, g) == {c \in Call : c[1] = p /\ c[3] = g}

\* Gathers whose calls have all returned.
Unused(p) == {g \in Gather : \A c \in GatherCalls(p, g) : pc[c] = "idle"}

\* The interval has passed: gather starts a call for every active source.
BeginCycle(p) ==
  /\ p \in alive \cap Scheduling
  /\ awaited[p] = None
  /\ Unused(p) # {}
  /\ LET g == CHOOSE g \in Unused(p) : TRUE IN
       /\ awaited' = [awaited EXCEPT ![p] = g]
       /\ pc' = [c \in Call |-> IF c \in GatherCalls(p, g) THEN "called" ELSE pc[c]]
  /\ UNCHANGED <<alive, active, waiters, run, stuck, interruptions>>

\* gather returns when its last call has; the next interval begins.
EndCycle(p) ==
  /\ awaited[p] \in Unused(p)
  /\ awaited' = [awaited EXCEPT ![p] = None]
  /\ UNCHANGED <<alive, active, waiters, pc, run, stuck, interruptions>>

\* POST /monitoring/run/{source_id}, and each source of run-all.
Request(c) ==
  /\ c[3] = Manual
  /\ c[1] \in alive
  /\ pc[c] = "idle"
  /\ pc' = [pc EXCEPT ![c] = "called"]
  /\ UNCHANGED <<alive, awaited, waiters, active, run, stuck, interruptions>>

-----------------------------------------------------------------------------
(* execute_source and run_source                                           *)

\* Mutant of Overlapping: only the table is looked at.
OverlapInTable(c) == HasActiveRun(c[2])

\* The two checks made under the lock.
Overlapping(c) == c[2] \in active[c[1]] \/ HasActiveRun(c[2])

Admit(c) ==
  /\ pc[c] = "called" /\ LoopIsFree(c)
  /\ ~Overlapping(c)
  /\ active' = [active EXCEPT ![c[1]] = @ \cup {c[2]}]
  /\ waiters' = [waiters EXCEPT ![c[1]] = Append(@, c)]
  /\ pc' = [pc EXCEPT ![c] = "queued"]
  /\ UNCHANGED <<alive, awaited, run, stuck, interruptions>>

Skip(c) ==
  /\ pc[c] = "called" /\ LoopIsFree(c)
  /\ Overlapping(c)
  /\ pc' = [pc EXCEPT ![c] = "idle"]
  /\ UNCHANGED <<alive, awaited, waiters, active, run, stuck, interruptions>>

\* The semaphore is acquired, by who waited longest (asyncio.Semaphore), and the
\* record is inserted, PENDING.  Whether another process has started a run
\* meanwhile is not looked at again.
Create(c) ==
  /\ pc[c] = "queued" /\ LoopIsFree(c)
  /\ SlotFree(c[1])
  /\ waiters[c[1]] # <<>> /\ c = Head(waiters[c[1]])
  /\ waiters' = [waiters EXCEPT ![c[1]] = Tail(@)]
  /\ run' = [run EXCEPT ![c] = [status |-> "PENDING", attempt |-> 1]]
  /\ pc' = [pc EXCEPT ![c] = "created"]
  /\ UNCHANGED <<alive, awaited, active, stuck, interruptions>>

\* mark_running, then the first attempt, whose number is stored already.
MarkRunning(c) ==
  /\ pc[c] = "created"
  /\ run' = [run EXCEPT ![c] = [status |-> "RUNNING", attempt |-> 1]]
  /\ pc' = [pc EXCEPT ![c] = "fetching"]
  /\ UNCHANGED <<alive, awaited, waiters, active, stuck, interruptions>>

\* Ingestion returns, and complete_run stores SUCCESS or PARTIAL_SUCCESS; or it
\* raises a configuration error, and mark_failed stores FAILED, no retry.
Finish(c) ==
  /\ pc[c] = "fetching" /\ LoopIsFree(c)
  /\ Leave(c)
  /\ UNCHANGED <<alive, awaited, waiters, stuck, interruptions>>

\* Mutant of AttemptsLeft: the loop runs once too often.
AttemptsLeftOffByOne(n) == n <= MaxAttempts

\* while current_attempt < max_attempts
AttemptsLeft(n) == n < MaxAttempts

\* The timeout, or any other exception; mark_failed after the last attempt.
FailTransiently(c) ==
  /\ pc[c] = "fetching" /\ LoopIsFree(c)
  /\ IF AttemptsLeft(run[c].attempt)
       THEN /\ pc' = [pc EXCEPT ![c] = "backoff"]
            /\ UNCHANGED <<run, active>>
       ELSE Leave(c)
  /\ UNCHANGED <<alive, awaited, waiters, stuck, interruptions>>

\* The backoff is over: run.attempt is stored and ingestion starts again.
Retry(c) ==
  /\ pc[c] = "backoff" /\ LoopIsFree(c)
  /\ run' = [run EXCEPT ![c] = [status |-> run[c].status, attempt |-> run[c].attempt + 1]]
  /\ pc' = [pc EXCEPT ![c] = "fetching"]
  /\ UNCHANGED <<alive, awaited, waiters, active, stuck, interruptions>>

-----------------------------------------------------------------------------
(* What interrupts a call                                                  *)

\* One of the two reads under the lock raises.  The call ends, and with it the
\* cycle of the gather that made it: the scheduler logs the exception and waits
\* for its next interval, whatever the other calls of the gather do.
CheckFails(c) ==
  /\ pc[c] = "called" /\ LoopIsFree(c)
  /\ Interruption
  /\ pc' = [pc EXCEPT ![c] = "idle"]
  /\ awaited' = [awaited EXCEPT ![c[1]] = IF @ = c[3] THEN None ELSE @]
  /\ UNCHANGED <<alive, active, waiters, run, stuck>>

\* complete_run has committed, its refresh raises: _execute_with_retries takes
\* that for a transient failure of the ingestion.
CompleteUnnoticed(c) ==
  /\ pc[c] = "fetching" /\ LoopIsFree(c)
  /\ Interruption
  /\ IF AttemptsLeft(run[c].attempt)
       THEN /\ run' = [run EXCEPT ![c] = [status |-> "DONE", attempt |-> run[c].attempt]]
            /\ pc' = [pc EXCEPT ![c] = "backoff"]
            /\ UNCHANGED active
       ELSE Leave(c)
  /\ UNCHANGED <<alive, awaited, waiters, stuck>>

\* mark_running, the update of attempt or mark_failed raises: the exception
\* leaves run_source, execute_source logs it and returns.
DatabaseError(c) ==
  /\ \/ pc[c] = "created"
     \/ pc[c] \in {"backoff", "fetching"} /\ LoopIsFree(c)
  /\ Interruption
  /\ stuck' = stuck \cup Orphans({c}, "database")
  /\ Leave(c)
  /\ UNCHANGED <<alive, awaited, waiters>>

\* Every coroutine of process p ends where it is.
Abort(p, cause) ==
  LET mine == {c \in Call : c[1] = p}
  IN /\ p \in alive
     /\ Interruption
     /\ stuck' = stuck \cup Orphans(mine, cause)
     /\ run' = [c \in Call |-> IF c \in mine THEN NoRun ELSE run[c]]
     /\ pc' = [c \in Call |-> IF c \in mine THEN "idle" ELSE pc[c]]
     /\ active' = [active EXCEPT ![p] = {}]
     /\ waiters' = [waiters EXCEPT ![p] = <<>>]
     /\ alive' = alive \ {p}
     /\ awaited' = [awaited EXCEPT ![p] = None]

\* MonitoringScheduler.stop: the cycle's calls are cancelled where they await.
\* CancelledError passes the except clauses; only the finally clauses run.  The
\* server has finished its requests before it shuts the scheduler down.
Stop(p) ==
  /\ \A c \in Call : c[1] = p => pc[c] # "created" /\ (c[3] = Manual => pc[c] = "idle")
  /\ Abort(p, "shutdown")

Kill(p) == Abort(p, "crash")

\* A new process: an executor with an empty set, a scheduler at its interval.
Start(p) ==
  /\ p \notin alive
  /\ alive' = alive \cup {p}
  /\ UNCHANGED <<awaited, active, waiters, pc, run, stuck, interruptions>>

-----------------------------------------------------------------------------

\* What a call does once it is made.
Advance(c) ==
  \/ Admit(c)
  \/ Skip(c)
  \/ MarkRunning(c)
  \/ Finish(c)
  \/ FailTransiently(c)
  \/ Retry(c)

Next ==
  \/ \E p \in Process :
       BeginCycle(p) \/ EndCycle(p) \/ Stop(p) \/ Kill(p) \/ Start(p)
  \/ \E c \in Call :
       \/ Request(c) \/ Create(c) \/ Advance(c)
       \/ CheckFails(c) \/ CompleteUnnoticed(c) \/ DatabaseError(c)

Spec == Init /\ [][Next]_vars

\* The event loop runs what is ready in the order it became ready, so that a
\* call that waits for nothing but the loop runs again and again.
Runs(c) == []<>(pc[c] \in {"idle", "queued"}) \/ []<><<Advance(c)>>_vars

\* Ingestion ends at its timeout at the latest, a waiter takes the slot that is
\* kept free for it, the interval passes, and the container restarts what ended.
\* Nobody has to send requests.
Fairness ==
  /\ \A c \in Call : Runs(c) /\ WF_vars(Create(c))
  /\ \A p \in Process : WF_vars(BeginCycle(p)) /\ WF_vars(EndCycle(p)) /\ WF_vars(Start(p))

FairSpec == Spec /\ Fairness

-----------------------------------------------------------------------------
(* What monitoring promises                                                *)

\* A process never has two calls for one source past the lock, whether they
\* come from the scheduler or from requests, wait for the semaphore or back off.
OneCallPerSource ==
  \A c, d \in Call : c[1] = d[1] /\ c[2] = d[2] /\ Admitted(c) /\ Admitted(d) => c = d

\* _active_sources is exactly the set of sources such calls are about: no way
\* out of a call leaks an entry, which would block the source until the process
\* restarts, and none releases the entry of another call.
ActiveSetExact ==
  \A p \in Process : active[p] = {s \in Source : InProgress(p, s) # {}}

\* Sources that no process will ever monitor again: the table shows an active
\* run for them, and nothing in the program closes it.
Blocked == {s \in Source : \E cause \in Cause : <<s, cause>> \in stuck}

\* A shutdown, a kill or a database error blocks sources for good, but only
\* those that held a slot at that moment: a cycle over hundreds of sources that
\* is cut off leaves at most MaxConcurrency of them behind.
InterruptionsBlockFew == Cardinality(Blocked) <= interruptions * MaxConcurrency

\* Every source is monitored again and again, although others hang, fail and
\* hold the slots, and whatever requests come, as long as no run is stuck.
KeepsMonitoring ==
  [](stuck = {}) =>
    \A s \in Source : []<>HasActiveRun(s) /\ []<>~HasActiveRun(s)

-----------------------------------------------------------------------------
(* What the repository says of monitoring and the code does not do         *)

\* docs/monitoring.md, state machine: shutdown takes a RUNNING run to CANCELLED.
ShutdownCancels == \A s \in Source : <<s, "shutdown">> \notin stuck
=============================================================================

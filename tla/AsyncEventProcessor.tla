------------------------- MODULE AsyncEventProcessor -------------------------
(***************************************************************************)
(* rtpdds::async::AsyncEventProcessor: the bounded queue between the       *)
(* threads that receive (IPC receive thread, DDS reader threads) and the   *)
(* one worker thread that executes.  Threads: the posters, the worker, the *)
(* statistics monitor, and the owner that calls start() and stop().        *)
(*                                                                         *)
(* A step is what a thread does between two points where another thread    *)
(* can see it: one atomic operation, or one critical section of m_.  m_    *)
(* itself is modelled only where its holder can be observed half-way: the  *)
(* worker between the evaluation of the wait predicate and the block, and  *)
(* get_stats() between its loads of counters that change without m_.       *)
(*                                                                         *)
(* A job is the ticket number of the post() that made it: the three        *)
(* overloads of post() differ in the counter and the handler only, so enq  *)
(* is the sum of the three enq counters.  The body of a job and what it    *)
(* throws (caught at once and logged) leave this component's state alone.  *)
(***************************************************************************)
EXTENDS Naturals, Sequences, FiniteSets

CONSTANTS
  Poster,      \* threads that call post()
  MaxQueue,    \* Config::max_queue
  MonitorOn,   \* Config::monitor_sec > 0
  MaxPosts,    \* bound: how many times post() is called
  MaxStarts    \* bound: how many times start() is called

ASSUME ConstantsAssumption ==
  /\ IsFiniteSet(Poster)
  /\ MaxQueue \in Nat
  /\ MonitorOn \in BOOLEAN
  /\ MaxPosts \in Nat
  /\ MaxStarts \in Nat

VARIABLES
  running,    \* running_
  drainStop,  \* cfg_.drain_stop, fixed by the constructor
  m,          \* who holds m_ across steps: "free", "worker" or "monitor"
  q,          \* q_
  enq,        \* stats_enq_sample_ + stats_enq_cmd_ + stats_enq_err_
  exec,       \* stats_exec_
  drop,       \* stats_drop_
  maxDepth,   \* max_depth_
  ppc, pjob,  \* each poster: where it is in post(), the job it is posting
  wpc, wjob,  \* the worker: where it is in loop(), the job it runs
  mpc,        \* the monitor: where it is in monitor_loop()
  snap,       \* the Stats record get_stats() is filling, then the last one
  opc,        \* the owner: where it is in start()/stop()
  starts,     \* number of start() calls so far
  accepted    \* history: every job pushed on q_, in order

posterVars == <<ppc, pjob>>
queueVars == <<q, maxDepth, accepted>>
workerVars == <<wpc, wjob>>
monitorVars == <<mpc, snap>>
ownerVars == <<running, drainStop, opc, starts>>
vars == <<m, enq, exec, drop, posterVars, queueVars, workerVars, monitorVars, ownerVars>>

NoJob == 0
Job == 1..MaxPosts

EmptyStats == [enq |-> 0, exec |-> 0, drop |-> 0, depth |-> 0]

Init ==
  /\ running = FALSE /\ drainStop \in BOOLEAN
  /\ m = "free"
  /\ q = <<>> /\ accepted = <<>>
  /\ enq = 0 /\ exec = 0 /\ drop = 0 /\ maxDepth = 0
  /\ ppc = [p \in Poster |-> "idle"] /\ pjob = [p \in Poster |-> NoJob]
  /\ wpc = "none" /\ wjob = NoJob
  /\ mpc = "none" /\ snap = EmptyStats
  /\ opc = "down" /\ starts = 0

(***************************************************************************)
(* post() and enqueue().  Posters do not look at running_: DDS and IPC     *)
(* threads keep posting before start(), during stop() and after it.        *)
(***************************************************************************)

\* post(): the counter moves before the lock is taken.
PostCount(p) ==
  /\ ppc[p] = "idle"
  /\ enq < MaxPosts
  /\ enq' = enq + 1
  /\ ppc' = [ppc EXCEPT ![p] = "enqueue"]
  /\ pjob' = [pjob EXCEPT ![p] = enq + 1]
  /\ UNCHANGED <<m, exec, drop, queueVars, workerVars, monitorVars, ownerVars>>

EnqueueFull(p) ==
  /\ ppc[p] = "enqueue" /\ m = "free"
  /\ Len(q) >= MaxQueue
  /\ drop' = drop + 1
  /\ ppc' = [ppc EXCEPT ![p] = "idle"]
  /\ UNCHANGED <<m, enq, exec, pjob, queueVars, workerVars, monitorVars, ownerVars>>

Push(p, job) ==
  /\ ppc[p] = "enqueue" /\ m = "free"
  /\ Len(q) < MaxQueue
  /\ q' = Append(q, job)
  /\ accepted' = Append(accepted, job)
  /\ maxDepth' = IF Len(q) + 1 > maxDepth THEN Len(q) + 1 ELSE maxDepth
  /\ ppc' = [ppc EXCEPT ![p] = "notify"]
  /\ UNCHANGED <<m, enq, exec, drop, pjob, workerVars, monitorVars, ownerVars>>

\* Mutant: a moved-from closure is pushed.
EnqueuePushMovedFrom(p) == Push(p, NoJob)
EnqueuePush(p) == Push(p, pjob[p])

\* Waking a worker that is not blocked in wait() has no effect.
WakeWorker ==
  /\ wpc' = IF wpc = "waiting" THEN "lock" ELSE wpc
  /\ wjob' = wjob

NotifyOne(p) ==
  /\ ppc[p] = "notify"
  /\ WakeWorker
  /\ ppc' = [ppc EXCEPT ![p] = "idle"]
  /\ UNCHANGED <<m, enq, exec, drop, pjob, queueVars, monitorVars, ownerVars>>

(***************************************************************************)
(* loop().  The predicate of wait() and the tests after it read running_   *)
(* under m_; running_ does not change back while this worker exists, so    *)
(* they are evaluated in one step, except that a false predicate leaves    *)
(* the worker holding m_ until it blocks.                                  *)
(***************************************************************************)

WorkerFindsNothing ==
  /\ wpc = "lock" /\ m = "free"
  /\ running /\ q = <<>>
  /\ m' = "worker"
  /\ wpc' = "checked"
  /\ UNCHANGED <<enq, exec, drop, wjob, posterVars, queueVars, monitorVars, ownerVars>>

WorkerBlock ==
  /\ wpc = "checked"
  /\ m' = "free"
  /\ wpc' = "waiting"
  /\ UNCHANGED <<enq, exec, drop, wjob, posterVars, queueVars, monitorVars, ownerVars>>

\* A condition variable may return without a notification; it need not.
WorkerSpuriousWakeup ==
  /\ wpc = "waiting"
  /\ WakeWorker
  /\ UNCHANGED <<m, enq, exec, drop, posterVars, queueVars, monitorVars, ownerVars>>

\* Leaves the loop, discarding what is queued; n of it is counted as dropped.
Leave(n) ==
  /\ wpc = "lock" /\ m = "free"
  /\ ~running
  /\ drop' = drop + n
  /\ q' = <<>>
  /\ wpc' = "exited"
  /\ UNCHANGED <<m, enq, exec, maxDepth, accepted, wjob, posterVars, monitorVars, ownerVars>>

\* Mutants: discarded jobs are not counted; drain_stop is not consulted.
WorkerExitUncounted == (q = <<>> \/ ~drainStop) /\ Leave(0)
WorkerExitWithoutDraining == Leave(Len(q))

WorkerExit == (q = <<>> \/ ~drainStop) /\ Leave(Len(q))

WorkerTake ==
  /\ wpc = "lock" /\ m = "free"
  /\ q # <<>>
  /\ running \/ drainStop
  /\ wjob' = Head(q)
  /\ q' = Tail(q)
  /\ wpc' = "run"
  /\ UNCHANGED <<m, enq, exec, drop, maxDepth, accepted, posterVars, monitorVars, ownerVars>>

\* The handler returns or throws a std::exception; either way it is counted.
WorkerFinish ==
  /\ wpc = "run"
  /\ exec' = exec + 1
  /\ wjob' = NoJob
  /\ wpc' = "lock"
  /\ UNCHANGED <<m, enq, drop, posterVars, queueVars, monitorVars, ownerVars>>

(***************************************************************************)
(* monitor_loop() and get_stats().  The enq and exec counters move without *)
(* m_, so holding it does not make the record a snapshot: they are loaded  *)
(* one after the other, in the order of the initialiser list.              *)
(***************************************************************************)

Monitor(from, to) ==
  /\ mpc = from
  /\ mpc' = to
  /\ UNCHANGED <<enq, exec, drop, posterVars, queueVars, workerVars, ownerVars>>

MonitorTest ==
  /\ Monitor("test", IF running THEN "sleep" ELSE "exited")
  /\ UNCHANGED <<m, snap>>

\* Mutant: get_stats() without its lock_guard.
StatsUnlocked == Monitor("sleep", "loadEnq") /\ UNCHANGED <<m, snap>>

StatsLock ==
  /\ m = "free"
  /\ m' = "monitor"
  /\ Monitor("sleep", "loadEnq")
  /\ UNCHANGED snap

StatsLoadEnq ==
  /\ Monitor("loadEnq", "loadExec")
  /\ snap' = [snap EXCEPT !.enq = enq]
  /\ UNCHANGED m

StatsLoadExec ==
  /\ Monitor("loadExec", "loadRest")
  /\ snap' = [snap EXCEPT !.exec = exec]
  /\ UNCHANGED m

\* stats_drop_ and q_ change only under m_.
StatsLoadRest ==
  /\ Monitor("loadRest", "test")
  /\ snap' = [snap EXCEPT !.drop = drop, !.depth = Len(q)]
  /\ m' = "free"

(***************************************************************************)
(* start() and stop(), called by the thread that owns the object.  stop()  *)
(* clears running_ and notifies without taking m_.                         *)
(***************************************************************************)

Start ==
  /\ opc = "down"
  /\ starts < MaxStarts
  /\ running' = TRUE
  /\ wpc' = "lock"
  /\ mpc' = IF MonitorOn THEN "test" ELSE "none"
  /\ opc' = "up"
  /\ starts' = starts + 1
  /\ UNCHANGED <<drainStop, m, enq, exec, drop, wjob, snap, posterVars, queueVars>>

Stopping(from, to) ==
  /\ opc = from
  /\ opc' = to
  /\ UNCHANGED <<m, enq, exec, drop, drainStop, starts, posterVars, queueVars, monitorVars>>

StopClear == Stopping("up", "notify") /\ running' = FALSE /\ UNCHANGED workerVars

\* Mutant: stop() forgets to notify.
StopWithoutNotify == Stopping("notify", "joinWorker") /\ UNCHANGED <<running, workerVars>>

StopNotify == Stopping("notify", "joinWorker") /\ WakeWorker /\ UNCHANGED running

\* Mutant: the worker is detached instead of joined.
StopDetachWorker == Stopping("joinWorker", "joinMonitor") /\ UNCHANGED <<running, workerVars>>

StopJoinWorker ==
  /\ wpc = "exited"
  /\ Stopping("joinWorker", "joinMonitor")
  /\ UNCHANGED <<running, workerVars>>

StopJoinMonitor ==
  /\ mpc \in {"none", "exited"}
  /\ Stopping("joinMonitor", "down")
  /\ UNCHANGED <<running, workerVars>>

PostStep(p) ==
  \/ PostCount(p)
  \/ EnqueueFull(p)
  \/ EnqueuePush(p)
  \/ NotifyOne(p)

WorkerStep ==
  \/ WorkerFindsNothing
  \/ WorkerBlock
  \/ WorkerExit
  \/ WorkerTake
  \/ WorkerFinish

MonitorStep ==
  \/ MonitorTest
  \/ StatsLock
  \/ StatsLoadEnq
  \/ StatsLoadExec
  \/ StatsLoadRest

OwnerStep ==
  \/ Start
  \/ StopClear
  \/ StopNotify
  \/ StopJoinWorker
  \/ StopJoinMonitor

Next ==
  \/ \E p \in Poster : PostStep(p)
  \/ WorkerStep
  \/ WorkerSpuriousWakeup
  \/ MonitorStep
  \/ OwnerStep

(***************************************************************************)
(* Fairness.  A thread that can run does.  Contenders for m_ get it in the *)
(* end (strong fairness): every other holder leaves m_ after a handful of  *)
(* loads, and the monitor sleeps for seconds between two acquisitions.     *)
(* Nothing makes a thread call post(), start() or stop(), and nothing      *)
(* makes a condition variable wake up without a notification.              *)
(***************************************************************************)
Fairness ==
  /\ \A p \in Poster : SF_vars(EnqueueFull(p) \/ EnqueuePush(p)) /\ WF_vars(NotifyOne(p))
  /\ SF_vars(WorkerFindsNothing \/ WorkerExit \/ WorkerTake)
  /\ WF_vars(WorkerBlock)
  /\ WF_vars(WorkerFinish)
  /\ SF_vars(StatsLock)
  /\ WF_vars(MonitorTest \/ StatsLoadEnq \/ StatsLoadExec \/ StatsLoadRest)
  /\ WF_vars(StopNotify \/ StopJoinWorker \/ StopJoinMonitor)

SafeSpec == Init /\ [][Next]_vars
Spec == SafeSpec /\ Fairness

-------------------------------------------------------------------------------

StatsType == [enq : Nat, exec : Nat, drop : Nat, depth : Nat]

TypeOK ==
  /\ running \in BOOLEAN
  /\ drainStop \in BOOLEAN
  /\ m \in {"free", "worker", "monitor"}
  /\ q \in Seq(Job)
  /\ enq \in Nat /\ exec \in Nat /\ drop \in Nat /\ maxDepth \in Nat
  /\ ppc \in [Poster -> {"idle", "enqueue", "notify"}]
  /\ pjob \in [Poster -> Nat]
  /\ wpc \in {"none", "lock", "checked", "waiting", "run", "exited"}
  /\ wjob \in Nat
  /\ mpc \in {"none", "test", "sleep", "loadEnq", "loadExec", "loadRest", "exited"}
  /\ snap \in StatsType
  /\ opc \in {"down", "up", "notify", "joinWorker", "joinMonitor"}
  /\ starts \in Nat
  /\ accepted \in Seq(Job)

\* Posts that are counted but whose job is neither queued nor dropped yet.
InFlight == {p \in Poster : ppc[p] = "enqueue"}

\* Every post() is accounted for exactly once, at every instant: it is on its
\* way to the queue, queued, being executed, executed or dropped.  The counters
\* are kept by four kinds of threads, two of them outside m_, and drops come from
\* two places (a full queue, a discarding stop).
Accounting ==
  enq = Cardinality(InFlight) + Len(q) + exec + drop
          + (IF wpc = "run" THEN 1 ELSE 0)

\* The record get_stats() hands to the monitor never shows more work finished,
\* dropped and queued than was posted, although its counters are loaded one by
\* one while other threads move them: monitor_loop() and its readers subtract
\* these unsigned values.  It depends on the order of the loads.
SnapshotNeverOvercounts ==
  mpc \in {"test", "sleep", "exited"} =>
    snap.exec + snap.drop + snap.depth <= snap.enq

\* When stop() has returned, no job is running and neither thread exists, so
\* the members the jobs use may be destroyed (GatewayApp::stop() relies on it
\* before it destroys ipc_).
NothingRunsAfterStop ==
  opc = "down" => /\ wpc \in {"none", "exited"}
                  /\ mpc \in {"none", "exited"}
                  /\ m = "free"

(***************************************************************************)
(* The abstract queue, with the position of the next job computed from     *)
(* what is left in q_.                                                     *)
(***************************************************************************)
Promise == INSTANCE JobQueue WITH
  Capacity <- MaxQueue,
  next     <- (Len(accepted) + 1) - Len(q),
  current  <- wjob,
  lost     <- drop,
  open     <- wpc \notin {"none", "exited"},
  discards <- ~drainStop

\* The processor implements the abstract job queue: FIFO order, each accepted
\* job run at most once, losses only at capacity or on a discarding stop, and no
\* accepted job left pending for ever while the worker exists.
ImplementsJobQueue == Promise!Spec

\* stop() returns.  (async_event_processor.hpp says that stop() ends the
\* threads.)  The notification is sent without m_, so it can fall between the
\* worker's test of its predicate and its block.
StopReturns == (opc = "notify") ~> (opc = "down")

\* stop() does return, having drained or discarded the queue, whenever the worker
\* is not inside that window when running_ is cleared: asleep, about to lock,
\* or in the middle of a job.
StopReturnsOutsideWindow ==
  (opc = "notify" /\ wpc # "checked") ~> (opc = "down")
===============================================================================

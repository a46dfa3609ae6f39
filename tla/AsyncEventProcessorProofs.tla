---------------------- MODULE AsyncEventProcessorProofs ----------------------
(***************************************************************************)
(* Proofs about AsyncEventProcessor for every number of posting threads,   *)
(* every queue capacity and every number of posts and restarts.            *)
(***************************************************************************)
EXTENDS AsyncEventProcessor, FiniteSetTheorems, SequenceTheorems, TLAPS

USE DEF posterVars, queueVars, workerVars, monitorVars, ownerVars, NoJob, Job,
        Push, WakeWorker, Leave, Monitor, Stopping

-------------------------------------------------------------------------------
\* The ticket of a post that is on its way to the queue is a real one.
PostedJob == \A p \in Poster : ppc[p] = "enqueue" => pjob[p] \in Job

\* m_ is held across steps by the thread whose position says so.
LockOwner ==
  /\ m = "worker" <=> wpc = "checked"
  /\ m = "monitor" <=> mpc \in {"loadEnq", "loadExec", "loadRest"}

\* What the owner has done so far determines who exists.
Lifecycle ==
  /\ running <=> opc = "up"
  /\ opc = "down" => wpc \in {"none", "exited"} /\ mpc \in {"none", "exited"}
  /\ opc = "joinMonitor" => wpc = "exited"

TypeInv == TypeOK /\ PostedJob

LEMMA TypeInvInit == ConstantsAssumption /\ Init => TypeInv
<1> SUFFICES ASSUME ConstantsAssumption, Init PROVE TypeInv
  OBVIOUS
<1>1. snap \in StatsType
  BY DEF Init, StatsType, EmptyStats
<1>2. q \in Seq(Job) /\ accepted \in Seq(Job)
  BY EmptySeq DEF Init
<1>3. ppc \in [Poster -> {"idle", "enqueue", "notify"}] /\ pjob \in [Poster -> Nat]
  BY DEF Init
<1>4. PostedJob
  BY DEF Init, PostedJob
<1> QED
  BY <1>1, <1>2, <1>3, <1>4 DEF Init, TypeInv, TypeOK

LEMMA TypeInvNext == ConstantsAssumption /\ TypeInv /\ [Next]_vars => TypeInv'
<1> SUFFICES ASSUME ConstantsAssumption, TypeInv, [Next]_vars
             PROVE  TypeInv'
  OBVIOUS
<1> USE DEF TypeInv, TypeOK, PostedJob, StatsType, ConstantsAssumption
<1>1. ASSUME NEW p \in Poster, PostCount(p) PROVE TypeInv'
  BY <1>1 DEF PostCount
<1>2. ASSUME NEW p \in Poster, EnqueueFull(p) PROVE TypeInv'
  BY <1>2 DEF EnqueueFull
<1>3. ASSUME NEW p \in Poster, EnqueuePush(p) PROVE TypeInv'
  BY <1>3 DEF EnqueuePush
<1>4. ASSUME NEW p \in Poster, NotifyOne(p) PROVE TypeInv'
  BY <1>4 DEF NotifyOne
<1>5. CASE WorkerStep
  <2>1. CASE WorkerFindsNothing BY <2>1 DEF WorkerFindsNothing
  <2>2. CASE WorkerBlock BY <2>2 DEF WorkerBlock
  <2>3. CASE WorkerExit BY <2>3 DEF WorkerExit
  <2>4. CASE WorkerTake BY <2>4 DEF WorkerTake
  <2>5. CASE WorkerFinish BY <2>5 DEF WorkerFinish
  <2> QED BY <1>5, <2>1, <2>2, <2>3, <2>4, <2>5 DEF WorkerStep
<1>6. CASE WorkerSpuriousWakeup
  BY <1>6 DEF WorkerSpuriousWakeup
<1>7. CASE MonitorStep
  <2>1. CASE MonitorTest BY <2>1 DEF MonitorTest
  <2>2. CASE StatsLock BY <2>2 DEF StatsLock
  <2>3. CASE StatsLoadEnq BY <2>3 DEF StatsLoadEnq
  <2>4. CASE StatsLoadExec BY <2>4 DEF StatsLoadExec
  <2>5. CASE StatsLoadRest
    <3>1. Len(q) \in Nat
      BY LenProperties
    <3>2. snap' \in StatsType
      BY <2>5, <3>1 DEF StatsLoadRest
    <3> QED BY <2>5, <3>2 DEF StatsLoadRest
  <2> QED BY <1>7, <2>1, <2>2, <2>3, <2>4, <2>5 DEF MonitorStep
<1>8. CASE OwnerStep
  <2>1. CASE Start BY <2>1 DEF Start
  <2>2. CASE StopClear BY <2>2 DEF StopClear
  <2>3. CASE StopNotify BY <2>3 DEF StopNotify
  <2>4. CASE StopJoinWorker BY <2>4 DEF StopJoinWorker
  <2>5. CASE StopJoinMonitor BY <2>5 DEF StopJoinMonitor
  <2> QED BY <1>8, <2>1, <2>2, <2>3, <2>4, <2>5 DEF OwnerStep
<1>9. CASE UNCHANGED vars
  BY <1>9 DEF vars
<1> QED
  BY <1>1, <1>2, <1>3, <1>4, <1>5, <1>6, <1>7, <1>8, <1>9 DEF Next, PostStep

\* Every variable of the processor keeps its type.
THEOREM TypeCorrect == Spec => []TypeOK
<1>1. SafeSpec => []TypeInv
  BY ConstantsAssumption, TypeInvInit, TypeInvNext, PTL DEF SafeSpec
<1>2. TypeInv => TypeOK
  BY DEF TypeInv
<1> QED BY <1>1, <1>2, PTL DEF Spec

-------------------------------------------------------------------------------
(***************************************************************************)
(* Locks and life cycle.                                                   *)
(***************************************************************************)

LEMMA ControlInit == Init => LockOwner /\ Lifecycle
  BY DEF Init, LockOwner, Lifecycle

LEMMA ControlNext ==
  TypeOK /\ LockOwner /\ Lifecycle /\ [Next]_vars => LockOwner' /\ Lifecycle'
<1> SUFFICES ASSUME TypeOK, LockOwner, Lifecycle, [Next]_vars
             PROVE  LockOwner' /\ Lifecycle'
  OBVIOUS
<1> USE DEF LockOwner, Lifecycle, TypeOK
<1>1. ASSUME NEW p \in Poster, PostStep(p) PROVE LockOwner' /\ Lifecycle'
  BY <1>1 DEF PostStep, PostCount, EnqueueFull, EnqueuePush, NotifyOne
<1>2. CASE WorkerStep \/ WorkerSpuriousWakeup
  BY <1>2 DEF WorkerStep, WorkerFindsNothing, WorkerBlock, WorkerExit, WorkerTake,
              WorkerFinish, WorkerSpuriousWakeup
<1>3. CASE MonitorStep
  BY <1>3 DEF MonitorStep, MonitorTest, StatsLock, StatsLoadEnq, StatsLoadExec, StatsLoadRest
<1>4. CASE Start
  BY <1>4 DEF Start
<1>5. CASE StopClear \/ StopNotify \/ StopJoinWorker \/ StopJoinMonitor
  BY <1>5 DEF StopClear, StopNotify, StopJoinWorker, StopJoinMonitor
<1>6. CASE UNCHANGED vars
  BY <1>6 DEF vars
<1> QED
  BY <1>1, <1>2, <1>3, <1>4, <1>5, <1>6 DEF Next, OwnerStep

LEMMA Control == SafeSpec => [](TypeInv /\ LockOwner /\ Lifecycle)
<1>1. TypeInv => TypeOK
  BY DEF TypeInv
<1> QED
  BY <1>1, ConstantsAssumption, TypeInvInit, TypeInvNext, ControlInit, ControlNext, PTL DEF SafeSpec

\* Once stop() has returned, both threads are gone and m_ is free.
THEOREM StopIsQuiescent == Spec => []NothingRunsAfterStop
<1>1. LockOwner /\ Lifecycle /\ TypeInv => NothingRunsAfterStop
  BY DEF LockOwner, Lifecycle, TypeInv, TypeOK, NothingRunsAfterStop
<1> QED BY <1>1, Control, PTL DEF Spec

-------------------------------------------------------------------------------
(***************************************************************************)
(* Every post is accounted for.  Running is the number of jobs the worker  *)
(* holds.  A poster that enters or leaves enqueue() changes the size of    *)
(* InFlight by one, which is where the finiteness of Poster is needed.     *)
(***************************************************************************)

Running == IF wpc = "run" THEN 1 ELSE 0

LEMMA InFlightFinite == ConstantsAssumption => IsFiniteSet(InFlight) /\ Cardinality(InFlight) \in Nat
<1> SUFFICES ASSUME ConstantsAssumption PROVE IsFiniteSet(InFlight) /\ Cardinality(InFlight) \in Nat
  OBVIOUS
<1>1. InFlight \in SUBSET Poster /\ IsFiniteSet(Poster)
  BY DEF InFlight, ConstantsAssumption
<1>2. IsFiniteSet(InFlight)
  BY <1>1, FS_Subset
<1> QED BY <1>2, FS_CardinalityType

LEMMA InFlightEnters ==
  ASSUME ConstantsAssumption, TypeOK, NEW p \in Poster,
         ppc[p] = "idle", ppc' = [ppc EXCEPT ![p] = "enqueue"]
  PROVE  Cardinality(InFlight') = Cardinality(InFlight) + 1
<1>1. InFlight' = InFlight \cup {p} /\ p \notin InFlight
  BY DEF InFlight, TypeOK
<1> QED BY <1>1, InFlightFinite, FS_AddElement

LEMMA InFlightLeaves ==
  ASSUME ConstantsAssumption, TypeOK, NEW p \in Poster, NEW s \in {"idle", "notify"},
         ppc[p] = "enqueue", ppc' = [ppc EXCEPT ![p] = s]
  PROVE  Cardinality(InFlight') = Cardinality(InFlight) - 1
<1>1. InFlight' = InFlight \ {p} /\ p \in InFlight
  BY DEF InFlight, TypeOK
<1> QED BY <1>1, InFlightFinite, FS_RemoveElement

LEMMA InFlightStays ==
  ASSUME UNCHANGED ppc
  PROVE  InFlight' = InFlight
  BY DEF InFlight

LEMMA AccountingInit == Init => Accounting
<1> SUFFICES ASSUME Init PROVE Accounting
  OBVIOUS
<1>1. InFlight = {}
  BY DEF Init, InFlight
<1> QED BY <1>1, FS_EmptySet DEF Init, Accounting

LEMMA AccountingNext ==
  ConstantsAssumption /\ TypeInv /\ Lifecycle /\ Accounting /\ [Next]_vars => Accounting'
<1> SUFFICES ASSUME ConstantsAssumption, TypeInv, Lifecycle, Accounting, [Next]_vars
             PROVE  Accounting'
  OBVIOUS
<1>0. TypeOK /\ Cardinality(InFlight) \in Nat /\ Len(q) \in Nat
  BY InFlightFinite, LenProperties DEF TypeInv, TypeOK
<1> USE <1>0 DEF Accounting, TypeOK
<1>1. ASSUME NEW p \in Poster, PostCount(p) PROVE Accounting'
  <2>1. Cardinality(InFlight') = Cardinality(InFlight) + 1
    BY <1>1, InFlightEnters DEF PostCount
  <2> QED BY <1>1, <2>1 DEF PostCount
<1>2. ASSUME NEW p \in Poster, EnqueueFull(p) PROVE Accounting'
  <2>1. Cardinality(InFlight') = Cardinality(InFlight) - 1
    BY <1>2, InFlightLeaves DEF EnqueueFull
  <2> QED BY <1>2, <2>1 DEF EnqueueFull
<1>3. ASSUME NEW p \in Poster, EnqueuePush(p) PROVE Accounting'
  <2>1. Cardinality(InFlight') = Cardinality(InFlight) - 1
    BY <1>3, InFlightLeaves DEF EnqueuePush
  <2>2. pjob[p] \in Job
    BY <1>3 DEF TypeInv, PostedJob, EnqueuePush
  <2>3. Len(q') = Len(q) + 1
    BY <1>3, <2>2, AppendProperties DEF EnqueuePush
  <2> QED BY <1>3, <2>1, <2>3 DEF EnqueuePush
<1>4. ASSUME NEW p \in Poster, NotifyOne(p) PROVE Accounting'
  <2>1. InFlight' = InFlight
    BY <1>4 DEF NotifyOne, InFlight
  <2> QED BY <1>4, <2>1 DEF NotifyOne
<1>5. CASE WorkerStep \/ WorkerSpuriousWakeup
  <2>0. UNCHANGED <<enq, ppc>>
    BY <1>5 DEF WorkerStep, WorkerFindsNothing, WorkerBlock, WorkerExit, WorkerTake,
                WorkerFinish, WorkerSpuriousWakeup
  <2>1. InFlight' = InFlight
    BY <2>0, InFlightStays
  <2>2. CASE WorkerExit
    BY <2>1, <2>2 DEF WorkerExit
  <2>3. CASE WorkerTake
    <3>1. Len(q') = Len(q) - 1 /\ Len(q) > 0
      BY <2>3, HeadTailProperties, LenProperties DEF WorkerTake
    <3> QED BY <2>1, <2>3, <3>1 DEF WorkerTake
  <2>4. CASE WorkerFinish
    BY <2>1, <2>4 DEF WorkerFinish
  <2>5. CASE WorkerFindsNothing \/ WorkerBlock \/ WorkerSpuriousWakeup
    BY <2>1, <2>5 DEF WorkerFindsNothing, WorkerBlock, WorkerSpuriousWakeup
  <2> QED BY <1>5, <2>2, <2>3, <2>4, <2>5 DEF WorkerStep
<1>6. CASE MonitorStep
  BY <1>6, InFlightStays DEF MonitorStep, MonitorTest, StatsLock, StatsLoadEnq, StatsLoadExec,
                             StatsLoadRest
<1>7. CASE OwnerStep
  <2>1. InFlight' = InFlight
    BY <1>7, InFlightStays DEF OwnerStep, Start, StopClear, StopNotify, StopJoinWorker,
                               StopJoinMonitor
  <2>2. CASE Start
    \* wpc moves to "lock" from a position that is not "run"
    BY <2>1, <2>2 DEF Start, Lifecycle
  <2>3. CASE StopClear \/ StopNotify \/ StopJoinWorker \/ StopJoinMonitor
    BY <2>1, <2>3 DEF StopClear, StopNotify, StopJoinWorker, StopJoinMonitor
  <2> QED BY <1>7, <2>2, <2>3 DEF OwnerStep
<1>8. CASE UNCHANGED vars
  BY <1>8, InFlightStays DEF vars
<1> QED
  BY <1>1, <1>2, <1>3, <1>4, <1>5, <1>6, <1>7, <1>8 DEF Next, PostStep

\* Every post() is in flight, queued, running, executed or dropped.
THEOREM EveryPostAccounted == Spec => []Accounting
<1>1. ConstantsAssumption
  BY ConstantsAssumption
<1>2. SafeSpec => Accounting
  BY AccountingInit DEF SafeSpec
<1> QED
  BY <1>1, <1>2, Control, AccountingNext, PTL DEF SafeSpec, Spec

-------------------------------------------------------------------------------
(***************************************************************************)
(* The monitor's record.  Between the load of the enq counters and the     *)
(* end of get_stats() the jobs that are executed, running, dropped or      *)
(* queued stay within the loaded value: the queue and the drop counter     *)
(* cannot move while the monitor holds m_, and a job that finishes only    *)
(* moves from running to executed.                                         *)
(***************************************************************************)

SnapshotInv ==
  /\ mpc \notin {"loadExec", "loadRest"} => snap.exec + snap.drop + snap.depth <= snap.enq
  /\ mpc = "loadExec" => exec + Running + drop + Len(q) <= snap.enq
  /\ mpc = "loadRest" => snap.exec + drop + Len(q) <= snap.enq

LEMMA SnapshotInit == Init => SnapshotInv
  BY DEF Init, SnapshotInv, EmptyStats

LEMMA SnapshotNext ==
  /\ ConstantsAssumption /\ TypeInv /\ LockOwner /\ Lifecycle /\ Accounting
  /\ SnapshotInv /\ [Next]_vars
  => SnapshotInv'
<1> SUFFICES ASSUME ConstantsAssumption, TypeInv, LockOwner, Lifecycle, Accounting,
                    SnapshotInv, [Next]_vars
             PROVE  SnapshotInv'
  OBVIOUS
<1>0. TypeOK /\ Cardinality(InFlight) \in Nat /\ Len(q) \in Nat
  BY InFlightFinite, LenProperties DEF TypeInv, TypeOK
<1> USE <1>0 DEF SnapshotInv, Running, TypeOK, StatsType, LockOwner
<1>1. ASSUME NEW p \in Poster, PostStep(p) PROVE SnapshotInv'
  <2>1. CASE PostCount(p) BY <2>1 DEF PostCount
  <2>2. CASE EnqueueFull(p) BY <2>2 DEF EnqueueFull
  <2>3. CASE EnqueuePush(p) BY <2>3 DEF EnqueuePush
  <2>4. CASE NotifyOne(p) BY <2>4 DEF NotifyOne
  <2> QED BY <1>1, <2>1, <2>2, <2>3, <2>4 DEF PostStep
<1>2. CASE WorkerFinish
  BY <1>2 DEF WorkerFinish
<1>3. CASE WorkerFindsNothing \/ WorkerBlock \/ WorkerSpuriousWakeup
  BY <1>3 DEF WorkerFindsNothing, WorkerBlock, WorkerSpuriousWakeup
<1>3a. CASE WorkerExit \/ WorkerTake
  <2>1. m = "free" /\ UNCHANGED <<mpc, snap>>
    BY <1>3a DEF WorkerExit, WorkerTake
  <2> QED BY <2>1
<1>4. CASE MonitorTest \/ StatsLock
  BY <1>4 DEF MonitorTest, StatsLock
<1>5. CASE StatsLoadEnq
  <2>1. snap'.enq = enq /\ mpc' = "loadExec" /\ UNCHANGED <<exec, wpc, drop, q>>
    BY <1>5 DEF StatsLoadEnq
  <2>2. exec + Running + drop + Len(q) <= enq
    BY DEF Accounting
  <2> QED BY <2>1, <2>2
<1>6. CASE StatsLoadExec
  BY <1>6 DEF StatsLoadExec
<1>7. CASE StatsLoadRest
  BY <1>7 DEF StatsLoadRest
<1>8. CASE Start
  BY <1>8 DEF Start, Lifecycle
<1>9. CASE StopClear \/ StopNotify \/ StopJoinWorker \/ StopJoinMonitor
  BY <1>9 DEF StopClear, StopNotify, StopJoinWorker, StopJoinMonitor
<1>10. CASE UNCHANGED vars
  BY <1>10 DEF vars
<1> QED
  BY <1>1, <1>2, <1>3, <1>3a, <1>4, <1>5, <1>6, <1>7, <1>8, <1>9, <1>10
     DEF Next, WorkerStep, MonitorStep, OwnerStep

\* A record returned by get_stats() never overcounts the work done.
THEOREM SnapshotSound == Spec => []SnapshotNeverOvercounts
<1>1. ConstantsAssumption
  BY ConstantsAssumption
<1>2. SafeSpec => Accounting /\ SnapshotInv
  BY AccountingInit, SnapshotInit DEF SafeSpec
<1>3. SnapshotInv => SnapshotNeverOvercounts
  BY DEF SnapshotInv, SnapshotNeverOvercounts
<1> QED
  BY <1>1, <1>2, <1>3, Control, AccountingNext, SnapshotNext, PTL DEF SafeSpec, Spec

-------------------------------------------------------------------------------
(***************************************************************************)
(* Refinement.  q_ is always the tail of the history of accepted jobs, and *)
(* the worker holds a job exactly while it runs one.                       *)
(***************************************************************************)

QueueIsSuffix ==
  /\ Len(q) <= Len(accepted)
  /\ \A i \in 1..Len(q) : q[i] = accepted[(Len(accepted) - Len(q)) + i]

JobHeld == wjob = NoJob <=> wpc # "run"

LEMMA HistoryInit == Init => QueueIsSuffix /\ JobHeld
  BY DEF Init, QueueIsSuffix, JobHeld

LEMMA HistoryNext ==
  TypeInv /\ Lifecycle /\ QueueIsSuffix /\ JobHeld /\ [Next]_vars => QueueIsSuffix' /\ JobHeld'
<1> SUFFICES ASSUME TypeInv, Lifecycle, QueueIsSuffix, JobHeld, [Next]_vars
             PROVE  QueueIsSuffix' /\ JobHeld'
  OBVIOUS
<1>0. TypeOK /\ Len(q) \in Nat /\ Len(accepted) \in Nat
  BY LenProperties DEF TypeInv, TypeOK
<1> USE <1>0 DEF TypeOK
<1>1. ASSUME NEW p \in Poster, EnqueuePush(p) PROVE QueueIsSuffix' /\ JobHeld'
  <2>1. pjob[p] \in Job
    BY <1>1 DEF TypeInv, PostedJob, EnqueuePush
  <2>2. q' = Append(q, pjob[p]) /\ accepted' = Append(accepted, pjob[p]) /\ UNCHANGED <<wjob, wpc>>
    BY <1>1 DEF EnqueuePush
  <2>3. /\ Len(q') = Len(q) + 1 /\ Len(accepted') = Len(accepted) + 1
        /\ \A i \in 1..Len(q) : q'[i] = q[i]
        /\ q'[Len(q) + 1] = pjob[p]
        /\ \A i \in 1..Len(accepted) : accepted'[i] = accepted[i]
        /\ accepted'[Len(accepted) + 1] = pjob[p]
    BY <2>1, <2>2, AppendProperties
  <2>4. ASSUME NEW i \in 1..Len(q')
        PROVE  q'[i] = accepted'[(Len(accepted') - Len(q')) + i]
    <3>1. CASE i = Len(q) + 1
      BY <2>3, <3>1
    <3>2. CASE i \in 1..Len(q)
      <4>1. (Len(accepted) - Len(q)) + i \in 1..Len(accepted)
        BY <3>2 DEF QueueIsSuffix
      <4>2. (Len(accepted') - Len(q')) + i = (Len(accepted) - Len(q)) + i
        BY <2>3, <3>2
      <4>3. q[i] = accepted[(Len(accepted) - Len(q)) + i]
        BY <3>2 DEF QueueIsSuffix
      <4> QED BY <2>3, <3>2, <4>1, <4>2, <4>3
    <3> QED BY <2>3, <3>1, <3>2
  <2>5. Len(q') <= Len(accepted')
    BY <2>3 DEF QueueIsSuffix
  <2>6. QueueIsSuffix'
    BY <2>4, <2>5 DEF QueueIsSuffix
  <2> QED BY <2>2, <2>6 DEF JobHeld
<1>2. CASE WorkerTake
  <2>1. q # <<>> /\ q' = Tail(q) /\ wjob' = Head(q) /\ wpc' = "run" /\ accepted' = accepted
    BY <1>2 DEF WorkerTake
  <2>a. q \in Seq(Job) /\ Len(q) > 0
    BY <2>1, LenProperties
  <2>b. Head(q) \in Job /\ Tail(q) \in Seq(Job) /\ Len(Tail(q)) = Len(q) - 1
        /\ \A i \in 1..Len(Tail(q)) : Tail(q)[i] = q[i + 1]
    BY <2>1, <2>a, HeadTailProperties
  <2>2. /\ Len(q) > 0 /\ Len(q') = Len(q) - 1
        /\ \A i \in 1..Len(q') : q'[i] = q[i + 1]
        /\ wjob' \in Job
    BY <2>1, <2>a, <2>b
  <2>3. QueueIsSuffix'
    BY <2>1, <2>2 DEF QueueIsSuffix
  <2> QED BY <2>1, <2>2, <2>3 DEF JobHeld
<1>3. CASE WorkerExit
  <2>1. q' = <<>> /\ wpc' # "run" /\ wpc # "run" /\ UNCHANGED <<accepted, wjob>>
    BY <1>3 DEF WorkerExit
  <2> QED BY <2>1 DEF QueueIsSuffix, JobHeld
<1>4. CASE WorkerFinish
  BY <1>4 DEF WorkerFinish, QueueIsSuffix, JobHeld
<1>5. CASE Start
  BY <1>5 DEF Start, QueueIsSuffix, JobHeld, Lifecycle
<1>6. CASE WorkerFindsNothing \/ WorkerBlock \/ WorkerSpuriousWakeup
  BY <1>6 DEF WorkerFindsNothing, WorkerBlock, WorkerSpuriousWakeup, QueueIsSuffix, JobHeld
<1>7. ASSUME NEW p \in Poster, PostCount(p) \/ EnqueueFull(p) \/ NotifyOne(p)
      PROVE QueueIsSuffix' /\ JobHeld'
  BY <1>7 DEF PostCount, EnqueueFull, NotifyOne, QueueIsSuffix, JobHeld
<1>8. CASE MonitorStep
  BY <1>8 DEF MonitorStep, MonitorTest, StatsLock, StatsLoadEnq, StatsLoadExec, StatsLoadRest,
              QueueIsSuffix, JobHeld
<1>9. CASE StopClear \/ StopNotify \/ StopJoinWorker \/ StopJoinMonitor
  BY <1>9 DEF StopClear, StopNotify, StopJoinWorker, StopJoinMonitor, QueueIsSuffix, JobHeld
<1>10. CASE UNCHANGED vars
  BY <1>10 DEF vars, QueueIsSuffix, JobHeld
<1> QED
  BY <1>1, <1>2, <1>3, <1>4, <1>5, <1>6, <1>7, <1>8, <1>9, <1>10
     DEF Next, PostStep, WorkerStep, OwnerStep

LEMMA RefinesInit == Init => Promise!Init
  BY DEF Init, Promise!Init

LEMMA RefinesNext ==
  TypeInv /\ Lifecycle /\ QueueIsSuffix /\ JobHeld /\ [Next]_vars => [Promise!Next]_(Promise!vars)
<1> SUFFICES ASSUME TypeInv, Lifecycle, QueueIsSuffix, JobHeld, [Next]_vars
             PROVE  [Promise!Next]_(Promise!vars)
  OBVIOUS
<1>0. TypeOK /\ Len(q) \in Nat /\ Len(accepted) \in Nat /\ MaxQueue \in Nat
  BY LenProperties, ConstantsAssumption DEF TypeInv, TypeOK, ConstantsAssumption
<1>p. Promise!Pending = Len(q)
  BY <1>0 DEF Promise!Pending
<1> USE <1>0 DEF TypeOK
<1>1. ASSUME NEW p \in Poster, EnqueuePush(p) PROVE Promise!Next
  <2>1. pjob[p] \in Job
    BY <1>1 DEF TypeInv, PostedJob, EnqueuePush
  <2>2. Len(q') = Len(q) + 1 /\ Len(accepted') = Len(accepted) + 1
    BY <1>1, <2>1, AppendProperties DEF EnqueuePush
  <2>3. (Len(accepted') + 1) - Len(q') = (Len(accepted) + 1) - Len(q)
    BY <2>2
  <2>4. Promise!Accept(pjob[p])
    BY <1>1, <1>p, <2>3 DEF EnqueuePush, Promise!Accept
  <2> QED BY <2>1, <2>4 DEF Promise!Next
<1>2. ASSUME NEW p \in Poster, EnqueueFull(p) PROVE Promise!Next
  <2>1. Promise!Refuse
    BY <1>2, <1>p DEF EnqueueFull, Promise!Refuse
  <2> QED BY <2>1 DEF Promise!Next
<1>3. CASE WorkerTake
  <2>1. q # <<>> /\ q' = Tail(q) /\ wjob' = Head(q) /\ wpc' = "run" /\ wpc = "lock"
        /\ UNCHANGED <<accepted, drop, drainStop>>
    BY <1>3 DEF WorkerTake
  <2>2. Len(q) > 0 /\ Len(q') = Len(q) - 1 /\ Head(q) = q[1]
    BY <2>1, HeadTailProperties, LenProperties
  <2>3. wjob' = accepted[(Len(accepted) + 1) - Len(q)]
    BY <2>1, <2>2 DEF QueueIsSuffix
  <2>4. (Len(accepted') + 1) - Len(q') = ((Len(accepted) + 1) - Len(q)) + 1
    BY <2>1, <2>2
  <2>5. Promise!StartJob
    BY <1>p, <2>1, <2>2, <2>3, <2>4 DEF Promise!StartJob, JobHeld
  <2> QED BY <2>5 DEF Promise!Next
<1>4. CASE WorkerFinish
  <2>1. Promise!FinishJob
    BY <1>4 DEF WorkerFinish, Promise!FinishJob, JobHeld
  <2> QED BY <2>1 DEF Promise!Next
<1>5. CASE WorkerExit
  <2>1. /\ wpc = "lock" /\ wpc' = "exited" /\ q' = <<>> /\ drop' = drop + Len(q)
        /\ UNCHANGED <<accepted, wjob, drainStop>>
        /\ Len(q) = 0 \/ ~drainStop
    BY <1>5 DEF WorkerExit
  <2>2. (Len(accepted') + 1) - Len(q') = Len(accepted) + 1
    BY <2>1
  <2>3. Promise!Close
    BY <1>p, <2>1, <2>2 DEF Promise!Close, JobHeld
  <2> QED BY <2>3 DEF Promise!Next
<1>6. CASE Start
  <2>1. Promise!Open
    BY <1>6 DEF Start, Lifecycle, Promise!Open
  <2> QED BY <2>1 DEF Promise!Next
<1>7. ASSUME NEW p \in Poster, PostCount(p) \/ NotifyOne(p) PROVE UNCHANGED Promise!vars
  BY <1>7 DEF PostCount, NotifyOne, Promise!vars
<1>8. CASE WorkerFindsNothing \/ WorkerBlock \/ WorkerSpuriousWakeup
  BY <1>8 DEF WorkerFindsNothing, WorkerBlock, WorkerSpuriousWakeup, Promise!vars
<1>9. CASE MonitorStep
  BY <1>9 DEF MonitorStep, MonitorTest, StatsLock, StatsLoadEnq, StatsLoadExec, StatsLoadRest,
              Promise!vars
<1>10. CASE StopClear \/ StopNotify \/ StopJoinWorker \/ StopJoinMonitor
  BY <1>10 DEF StopClear, StopNotify, StopJoinWorker, StopJoinMonitor, Promise!vars
<1>11. CASE UNCHANGED vars
  BY <1>11 DEF vars, Promise!vars
<1> QED
  BY <1>1, <1>2, <1>3, <1>4, <1>5, <1>6, <1>7, <1>8, <1>9, <1>10, <1>11
     DEF Next, PostStep, WorkerStep, OwnerStep

\* The processor implements the abstract queue: FIFO, at most once, no loss but
\* at capacity or on a discarding stop (the safety part of ImplementsJobQueue).
THEOREM ProcessorImplementsQueue == Spec => Promise!SafeSpec
<1>1. SafeSpec => QueueIsSuffix /\ JobHeld
  BY HistoryInit DEF SafeSpec
<1> QED
  BY <1>1, Control, HistoryNext, RefinesInit, RefinesNext, PTL DEF SafeSpec, Spec, Promise!SafeSpec
==============================================================================

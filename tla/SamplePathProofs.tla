---------------------------- MODULE SamplePathProofs ----------------------------
(***************************************************************************)
(* Proofs about SamplePath for any number of readers, threads and samples  *)
(* and any length of the queue.                                            *)
(***************************************************************************)
EXTENDS SamplePath, SequenceTheorems, TLAPS

USE DEF cacheVars, threadVars, queueVars, workerVars

-------------------------------------------------------------------------------
(***************************************************************************)
(* Types.  A thread in process_data() holds a loan from a reader it serves *)
(* and what it posts is in its pool; what is pending was taken from the    *)
(* pool of its thread, in this call or in an earlier one.                  *)
(***************************************************************************)
Loan     == [reader : Reader \cup {NoData}, rest : Seq(Sample)]
Busy     == [phase : {"convert"}, ev : EventType, value : Sample \cup {Torn}]
EmitType == [reader : Reader, sample : Sample, call : Nat, thread : Thread,
             value : Sample \cup {Torn, NoData}]

Served(th) ==
  /\ loan[th].reader \in Reader
  /\ servedBy[loan[th].reader] = th
  /\ pc[th] = "post" => loan[th].rest # <<>> /\ poolIndex[th] > 0

FromPool(e) == e.obj <= Len(pool[e.thread]) /\ e.call <= calls[e.thread]

Types ==
  /\ servedBy \in [Reader -> Thread]
  /\ arrived \in 0..MaxSamples /\ cache \in [Reader -> Seq(Sample)]
  /\ pc \in [Thread -> {"idle", "copy", "post"}]
  /\ loan \in [Thread -> Loan]
  /\ pool \in [Thread -> Seq(Sample \cup {Torn})]
  /\ poolIndex \in [Thread -> Nat] /\ calls \in [Thread -> Nat]
  /\ q \in Seq(EventType) /\ drops \in Nat
  /\ worker \in {Idle} \cup Busy
  /\ emitted \in Seq(EmitType)

TypeInv ==
  /\ Types
  /\ \A th \in Thread : /\ poolIndex[th] <= Len(pool[th])
                        /\ pc[th] # "idle" => Served(th)
  /\ \A e \in Pending : FromPool(e)
  /\ \A i \in 1..Len(emitted) : emitted[i].call <= calls[emitted[i].thread]

LEMMA BusyWorker ==
  ASSUME NEW w \in {Idle} \cup Busy
  PROVE  w # Idle <=> w \in Busy
<1>1. Idle \notin Busy
  <2>1. \A b \in Busy : b.phase = "convert" BY DEF Busy
  <2>2. Idle.phase = "idle" BY DEF Idle
  <2> QED BY <2>1, <2>2
<1> QED BY <1>1

LEMMA TypesInit == ConstantsAssumption /\ Init => TypeInv
<1>1. ASSUME ConstantsAssumption, Init PROVE TypeInv
  <2>1. Types BY <1>1 DEF Init, Types, Loan, NoLoan, ConstantsAssumption
  <2>2. Pending = {} BY <1>1 DEF Init, Pending
  <2> QED BY <1>1, <2>1, <2>2 DEF Init, TypeInv
<1> QED BY <1>1

(***************************************************************************)
(* What the steps do to the events that are pending.                       *)
(***************************************************************************)
LEMMA PendingStays ==
  ASSUME UNCHANGED <<q, worker>>
  PROVE  Pending' = Pending
  BY DEF Pending

LEMMA PendingPosted ==
  ASSUME Types, NEW e \in EventType, q' = Append(q, e), worker' = worker
  PROVE  Pending' = Pending \cup {e}
<1>1. {q'[i] : i \in 1..Len(q')} = {q[i] : i \in 1..Len(q)} \cup {e}
  <2>1. /\ Len(q') = Len(q) + 1 /\ Len(q) \in Nat
        /\ \A i \in 1..Len(q) : q'[i] = q[i]
        /\ q'[Len(q) + 1] = e
    BY AppendProperties DEF Types
  <2>2. 1..Len(q') = (1..Len(q)) \cup {Len(q) + 1} BY <2>1
  <2> QED BY <2>1, <2>2
<1> QED BY <1>1 DEF Pending

LEMMA PendingStarted ==
  ASSUME TypeInv, StartEvent
  PROVE  /\ q # <<>> /\ Head(q) \in EventType /\ Head(q) \in Pending
         /\ q' = Tail(q) /\ q' \in Seq(EventType)
         /\ worker' = [phase |-> "convert", ev |-> Head(q), value |-> Contents(Head(q))]
         /\ worker' \in Busy
         /\ Pending' = Pending
<1> USE DEF StartEvent
<1>1. /\ q \in Seq(EventType) /\ q # <<>> /\ worker = Idle
  BY DEF TypeInv, Types
<1>2. /\ Head(q) = q[1] /\ Head(q) \in EventType
      /\ Tail(q) \in Seq(EventType) /\ Len(Tail(q)) = Len(q) - 1
      /\ Len(q) \in Nat \ {0}
      /\ \A i \in 1..Len(Tail(q)) : Tail(q)[i] = q[i + 1]
  BY <1>1, HeadTailProperties
<1>3. Pending = {q[i] : i \in 1..Len(q)}
  BY <1>1 DEF Pending
<1>4. Head(q) \in Pending
  BY <1>2, <1>3
<1>5. Contents(Head(q)) \in Sample \cup {Torn}
  <2>1. FromPool(Head(q)) BY <1>4 DEF TypeInv
  <2>2. /\ Head(q).thread \in Thread /\ Head(q).obj \in Nat \ {0}
    BY <1>2 DEF EventType
  <2>3. pool[Head(q).thread] \in Seq(Sample \cup {Torn})
    BY <2>2 DEF TypeInv, Types
  <2>4. Head(q).obj \in 1..Len(pool[Head(q).thread])
    BY <2>1, <2>2, <2>3 DEF FromPool
  <2> QED BY <2>3, <2>4, ElementOfSeq DEF Contents
<1>6. worker' \in Busy
  BY <1>2, <1>5 DEF Busy
<1>7. worker' # Idle /\ worker'.ev = Head(q)
  BY <1>6, BusyWorker DEF Busy
<1>8. Pending' = {Tail(q)[i] : i \in 1..Len(Tail(q))} \cup {Head(q)}
  BY <1>7 DEF Pending
<1>9. {Tail(q)[i] : i \in 1..Len(Tail(q))} \cup {Head(q)} = {q[i] : i \in 1..Len(q)}
  <2>1. ASSUME NEW i \in 1..Len(Tail(q))
        PROVE  i + 1 \in 1..Len(q) /\ Tail(q)[i] = q[i + 1]
    BY <1>2
  <2>2. ASSUME NEW i \in 1..Len(q)
        PROVE  i = 1 \/ (i - 1 \in 1..Len(Tail(q)) /\ Tail(q)[i - 1] = q[i])
    BY <1>2
  <2> QED BY <1>2, <2>1, <2>2
<1> QED BY <1>1, <1>2, <1>3, <1>4, <1>6, <1>8, <1>9

LEMMA PendingFinished ==
  ASSUME worker' = Idle, q' = q
  PROVE  Pending' \subseteq Pending
  BY DEF Pending

LEMMA PendingType ==
  ASSUME Types
  PROVE  Pending \subseteq EventType
<1>1. \A i \in 1..Len(q) : q[i] \in EventType
  BY ElementOfSeq DEF Types
<1>2. worker # Idle => worker.ev \in EventType
  BY BusyWorker DEF Types, Busy
<1> QED BY <1>1, <1>2 DEF Pending

LEMMA EmittedType ==
  ASSUME Types, NEW i \in 1..Len(emitted)
  PROVE  /\ emitted[i] \in EmitType
         /\ emitted[i].thread \in Thread /\ emitted[i].call \in Nat
         /\ emitted[i].reader \in Reader /\ emitted[i].sample \in Sample
<1>1. emitted[i] \in EmitType
  BY ElementOfSeq DEF Types
<1> QED BY <1>1 DEF EmitType

(***************************************************************************)
(* Types: one lemma for each action.  Pools and calls only grow, so that   *)
(* what was posted earlier remains in its pool.                            *)
(***************************************************************************)
Grow ==
  \A th \in Thread : calls[th] <= calls'[th] /\ Len(pool[th]) <= Len(pool'[th])

LEMMA EarlierInPool ==
  ASSUME TypeInv, Types', Grow
  PROVE  /\ \A e \in Pending : FromPool(e)'
         /\ \A i \in 1..Len(emitted) : emitted[i].call <= calls'[emitted[i].thread]
<1> USE DEF TypeInv
<1>1. \A th \in Thread : /\ Len(pool[th]) \in Nat /\ Len(pool'[th]) \in Nat
                         /\ calls[th] \in Nat /\ calls'[th] \in Nat
  <2>1. \A th \in Thread : /\ pool[th] \in Seq(Sample \cup {Torn})
                           /\ pool'[th] \in Seq(Sample \cup {Torn})
                           /\ calls[th] \in Nat /\ calls'[th] \in Nat
    BY DEF Types
  <2> QED BY <2>1
<1>2. ASSUME NEW e \in Pending PROVE FromPool(e)'
  <2>1. e.thread \in Thread /\ e.obj \in Nat /\ e.call \in Nat
    BY PendingType DEF EventType
  <2>2. /\ e.obj <= Len(pool[e.thread]) /\ e.call <= calls[e.thread]
    BY DEF FromPool
  <2>3. e.obj <= Len(pool'[e.thread]) /\ e.call <= calls'[e.thread]
    BY <1>1, <2>1, <2>2 DEF Grow
  <2> QED BY <2>3 DEF FromPool
<1>3. ASSUME NEW i \in 1..Len(emitted) PROVE emitted[i].call <= calls'[emitted[i].thread]
  <2>1. emitted[i].thread \in Thread /\ emitted[i].call \in Nat
    BY EmittedType
  <2>2. emitted[i].call <= calls[emitted[i].thread]
    OBVIOUS
  <2> QED BY <1>1, <2>1, <2>2 DEF Grow
<1> QED BY <1>2, <1>3

LEMMA AssignProperties ==
  ASSUME NEW S, NEW s \in Seq(S), NEW i \in 1..(Len(s) + 1), NEW x \in S
  PROVE  /\ Assign(s, i, x) \in Seq(S) /\ Assign(s, i, x)[i] = x
         /\ Len(Assign(s, i, x)) >= i /\ Len(Assign(s, i, x)) >= Len(s)
         /\ Len(Assign(s, i, x)) \in Nat
         /\ \A n \in 1..Len(s) : n # i => Assign(s, i, x)[n] = s[n]
<1>0. Len(s) \in Nat
  OBVIOUS
<1>1. CASE i <= Len(s)
  <2>1. Assign(s, i, x) = [s EXCEPT ![i] = x] /\ i \in 1..Len(s)
    BY <1>1 DEF Assign
  <2> QED BY <1>0, <1>1, <2>1, ExceptSeq
<1>2. CASE i = Len(s) + 1
  <2>1. Assign(s, i, x) = Append(s, x) BY <1>0, <1>2 DEF Assign
  <2> QED BY <1>0, <1>2, <2>1, AppendProperties
<1> QED BY <1>0, <1>1, <1>2

LEMMA TakeTypes ==
  ASSUME TypeInv, NEW r \in Reader, Take(r)
  PROVE  TypeInv' /\ Grow
<1> USE DEF Take, TypeInv
<1>1. Types'
  BY EmptySeq DEF Types, Loan
<1>2. \A th \in Thread : /\ poolIndex'[th] <= Len(pool'[th])
                         /\ pc'[th] # "idle" => Served(th)'
  BY DEF Served, Types, Loan
<1>3. Grow
  BY DEF Grow, Types
<1> QED BY <1>1, <1>2, <1>3, PendingStays, EarlierInPool

LEMMA CopyTypes ==
  ASSUME TypeInv, NEW th \in Thread, CopySample(th)
  PROVE  /\ TypeInv' /\ Grow
         /\ pool'[th][poolIndex'[th]] = Head(loan[th].rest)
         /\ poolIndex'[th] = poolIndex[th] + 1
         /\ \A n \in 1..poolIndex[th] : pool'[th][n] = pool[th][n]
<1> USE DEF CopySample, CopyInto, TypeInv
<1> DEFINE i == poolIndex[th] + 1
           x == Head(loan[th].rest)
           new == Assign(pool[th], i, x)
<1>1. /\ pool[th] \in Seq(Sample \cup {Torn}) /\ Len(pool[th]) \in Nat
      /\ poolIndex[th] \in Nat /\ i \in 1..(Len(pool[th]) + 1)
      /\ x \in Sample
  <2>1. loan[th].rest \in Seq(Sample) BY DEF Types, Loan
  <2>2. x \in Sample BY <2>1, HeadTailProperties
  <2> QED BY <2>2 DEF Types
<1> HIDE DEF CopySample, CopyInto, TypeInv
<1>2. /\ new \in Seq(Sample \cup {Torn}) /\ new[i] = x
      /\ Len(new) >= i /\ Len(new) >= Len(pool[th]) /\ Len(new) \in Nat
      /\ \A n \in 1..Len(pool[th]) : n # i => new[n] = pool[th][n]
  <2> DEFINE T == Sample \cup {Torn}
             s == pool[th]
  <2>1. s \in Seq(T) /\ x \in T /\ i \in 1..(Len(s) + 1) BY <1>1
  <2> HIDE DEF i, x, T, s
  <2>2. LET a == Assign(s, i, x)
        IN  /\ a \in Seq(T) /\ a[i] = x
            /\ Len(a) >= i /\ Len(a) >= Len(s) /\ Len(a) \in Nat
            /\ \A n \in 1..Len(s) : n # i => a[n] = s[n]
    BY <2>1, AssignProperties
  <2> QED BY <2>2 DEF T, s
<1> HIDE DEF new, i, x
<1> USE DEF CopySample, CopyInto, TypeInv
<1>3. pool' = [pool EXCEPT ![th] = new] /\ poolIndex' = [poolIndex EXCEPT ![th] = i]
  BY DEF new, i, x
<1>4. Types'
  BY <1>1, <1>2, <1>3 DEF Types
<1>5. \A t \in Thread : /\ poolIndex'[t] <= Len(pool'[t])
                        /\ pc'[t] # "idle" => Served(t)'
  BY <1>1, <1>2, <1>3 DEF Served, Types
<1>6. Grow
  <2>1. ASSUME NEW t \in Thread PROVE Len(pool[t]) <= Len(pool'[t])
    <3>1. Len(pool[t]) \in Nat BY DEF Types
    <3> QED BY <1>2, <1>3, <3>1 DEF Types
  <2> QED BY <2>1 DEF Grow, Types
<1>7. /\ pool'[th][poolIndex'[th]] = x /\ poolIndex'[th] = i
      /\ \A n \in 1..poolIndex[th] : pool'[th][n] = pool[th][n]
  <2>1. pool'[th] = new /\ poolIndex'[th] = i
    BY <1>3 DEF Types
  <2>2. \A n \in 1..poolIndex[th] : n \in 1..Len(pool[th]) /\ n # i
    BY <1>1 DEF i
  <2> QED BY <1>2, <2>1, <2>2
<1>8. TypeInv'
  BY <1>4, <1>5, <1>6, PendingStays, EarlierInPool
<1> QED BY <1>6, <1>7, <1>8 DEF i, x

LEMMA ThrowTypes ==
  ASSUME ConstantsAssumption, TypeInv, NEW th \in Thread, CopyThrows(th)
  PROVE  /\ TypeInv' /\ Grow
         /\ \A n \in 1..poolIndex[th] : pool'[th][n] = pool[th][n]
<1> USE DEF CopyThrows, ThrowTo, TypeInv
<1> DEFINE i == poolIndex[th] + 1
<1>1. /\ pool[th] \in Seq(Sample \cup {Torn}) /\ Len(pool[th]) \in Nat
      /\ poolIndex[th] \in Nat /\ i \in 1..(Len(pool[th]) + 1)
  BY DEF Types
<1>2. /\ pool'[th] \in Seq(Sample \cup {Torn}) /\ Len(pool'[th]) = Len(pool[th])
      /\ \A n \in 1..poolIndex[th] : pool'[th][n] = pool[th][n]
      /\ poolIndex'[th] \in Nat /\ poolIndex'[th] <= Len(pool[th])
      /\ pool' = [pool EXCEPT ![th] = pool'[th]]
      /\ poolIndex' = [poolIndex EXCEPT ![th] = poolIndex'[th]]
  <2>1. CASE i <= Len(pool[th])
    <3>1. pool' = [pool EXCEPT ![th] = [pool[th] EXCEPT ![i] = Torn]] /\ poolIndex'[th] = i
      BY <2>1 DEF Types
    <3>2. pool'[th] = [pool[th] EXCEPT ![i] = Torn]
      BY <3>1 DEF Types
    <3> QED BY <1>1, <2>1, <3>1, <3>2, ExceptSeq DEF Types
  <2>2. CASE ~(i <= Len(pool[th]))
    BY <1>1, <2>2 DEF Types
  <2> QED BY <2>1, <2>2
<1>3. Types'
  BY <1>2, EmptySeq DEF Types, Loan, NoLoan
<1>4. \A t \in Thread : /\ poolIndex'[t] <= Len(pool'[t])
                        /\ pc'[t] # "idle" => Served(t)'
  BY <1>2 DEF Served, Types
<1>5. Grow
  <2>1. ASSUME NEW t \in Thread PROVE Len(pool[t]) <= Len(pool'[t])
    <3>1. t # th => pool'[t] = pool[t] BY <1>2 DEF Types
    <3>2. Len(pool[t]) \in Nat /\ Len(pool'[t]) \in Nat BY <1>3 DEF Types
    <3> QED BY <1>2, <3>1, <3>2
  <2> QED BY <2>1 DEF Grow, Types
<1>6. TypeInv'
  BY <1>3, <1>4, <1>5, PendingStays, EarlierInPool
<1> QED BY <1>2, <1>5, <1>6

LEMMA WithRest ==
  ASSUME NEW r \in Loan, NEW v
  PROVE  [r EXCEPT !.rest = v] = [reader |-> r.reader, rest |-> v]
  BY DEF Loan

LEMMA PostTypes ==
  ASSUME TypeInv, NEW th \in Thread, PostEvent(th)
  PROVE  /\ TypeInv' /\ Grow
         /\ Event(th) \in EventType
         /\ Pending' \subseteq Pending \cup {Event(th)}
         /\ loan[th].rest \in Seq(Sample) /\ loan[th].rest # <<>>
<1> USE DEF PostEvent, Post, TypeInv
<1> DEFINE rest == loan[th].rest
<1>1. /\ rest \in Seq(Sample) /\ rest # <<>> /\ Served(th)
      /\ Head(rest) \in Sample /\ Tail(rest) \in Seq(Sample)
  <2>1. rest \in Seq(Sample) /\ Served(th) BY DEF Types, Loan
  <2>2. rest # <<>> BY <2>1 DEF Served
  <2> QED BY <2>1, <2>2, HeadTailProperties
<1>2. Event(th) \in EventType
  BY <1>1 DEF Event, EventType, Served, Types
<1>3. q' \in Seq(EventType) /\ Pending' \subseteq Pending \cup {Event(th)}
  <2>1. CASE Len(q) < MaxQueue
    <3>1. q' = Append(q, Event(th)) BY <2>1
    <3> QED BY <1>2, <3>1, PendingPosted, AppendProperties DEF Types
  <2>2. CASE ~(Len(q) < MaxQueue)
    BY <2>2, PendingStays DEF Types
  <2> QED BY <2>1, <2>2
<1>4. loan' = [loan EXCEPT ![th] = [reader |-> loan[th].reader, rest |-> Tail(rest)]]
  <2>1. loan[th] \in Loan BY DEF Types
  <2>2. [loan[th] EXCEPT !.rest = Tail(rest)] = [reader |-> loan[th].reader, rest |-> Tail(rest)]
    BY <2>1, WithRest
  <2>3. loan' = [loan EXCEPT ![th] = [loan[th] EXCEPT !.rest = Tail(rest)]]
    OBVIOUS
  <2> QED BY <2>2, <2>3
<1>5. Types'
  <2>1. [reader |-> loan[th].reader, rest |-> Tail(rest)] \in Loan
    BY <1>1 DEF Loan, Served
  <2>2. loan' \in [Thread -> Loan]
    BY <1>4, <2>1 DEF Types
  <2> QED BY <1>3, <2>2 DEF Types
<1>6. \A t \in Thread : /\ poolIndex'[t] <= Len(pool'[t])
                        /\ pc'[t] # "idle" => Served(t)'
  BY <1>4 DEF Served, Types
<1>7. Grow
  BY DEF Grow, Types
<1>8. \A e : e = Event(th) => FromPool(e)'
  BY DEF FromPool, Event, Types
<1>9. TypeInv'
  <2>1. \A e \in Pending' : FromPool(e)'
    <3>1. \A e \in Pending : FromPool(e)' BY <1>5, <1>7, EarlierInPool
    <3> QED BY <1>3, <1>8, <3>1
  <2>2. \A n \in 1..Len(emitted') : emitted'[n].call <= calls'[emitted'[n].thread]
    BY <1>5, <1>7, EarlierInPool
  <2> QED BY <1>5, <1>6, <2>1, <2>2
<1> QED BY <1>1, <1>2, <1>3, <1>7, <1>9

LEMMA EndCallTypes ==
  ASSUME ConstantsAssumption, TypeInv, NEW th \in Thread, EndCall(th)
  PROVE  TypeInv' /\ Grow
<1> USE DEF EndCall, TypeInv
<1>1. Types'
  BY EmptySeq DEF Types, Loan, NoLoan
<1>2. \A t \in Thread : /\ poolIndex'[t] <= Len(pool'[t])
                        /\ pc'[t] # "idle" => Served(t)'
  BY DEF Served, Types
<1>3. Grow
  BY DEF Grow, Types
<1> QED BY <1>1, <1>2, <1>3, PendingStays, EarlierInPool

LEMMA ArriveTypes ==
  ASSUME ConstantsAssumption, TypeInv, NEW r \in Reader, Arrive(r)
  PROVE  TypeInv' /\ Grow
<1> USE DEF Arrive, TypeInv
<1>1. arrived + 1 \in Sample /\ arrived' \in 0..MaxSamples
  BY DEF Types, Sample, ConstantsAssumption
<1>2. Types'
  BY <1>1, AppendProperties DEF Types
<1>3. \A t \in Thread : /\ poolIndex'[t] <= Len(pool'[t])
                        /\ pc'[t] # "idle" => Served(t)'
  BY DEF Served
<1>4. Grow
  BY DEF Grow, Types
<1> QED BY <1>2, <1>3, <1>4, PendingStays, EarlierInPool

LEMMA WorkTypes ==
  ASSUME TypeInv, Work
  PROVE  TypeInv' /\ Grow /\ Pending' \subseteq Pending
<1> USE DEF TypeInv
<1>1. UNCHANGED <<servedBy, cacheVars, threadVars>>
  BY DEF Work, StartEvent, EmitEvt, Emit, EmitThrows
<1>2. \A t \in Thread : /\ poolIndex'[t] <= Len(pool'[t])
                        /\ pc'[t] # "idle" => Served(t)'
  BY <1>1 DEF Served
<1>3. Grow
  BY <1>1 DEF Grow, Types
<1>4. CASE StartEvent
  <2>1. Types'
    BY <1>4, <1>1, PendingStarted DEF Types, StartEvent
  <2> QED BY <1>1, <1>2, <1>3, <1>4, <2>1, PendingStarted, EarlierInPool DEF StartEvent
<1>5. ASSUME NEW v \in Sample \cup {Torn, NoData}, worker # Idle, Emit(v)
      PROVE  Types' /\ TypeInv' /\ Pending' \subseteq Pending
  <2> DEFINE evt == [reader |-> worker.ev.reader, sample |-> worker.ev.sample,
                     call |-> worker.ev.call, thread |-> worker.ev.thread, value |-> v]
  <2>1. worker.ev \in EventType /\ worker.ev \in Pending
    BY <1>5, BusyWorker DEF Types, Busy, Pending
  <2>2. evt \in EmitType
    BY <2>1 DEF EmitType, EventType
  <2>3. emitted' = Append(emitted, evt)
    BY <1>5 DEF Emit
  <2>4. Types'
    BY <1>1, <1>5, <2>2, <2>3, AppendProperties DEF Types, Emit
  <2>5. Pending' \subseteq Pending
    BY <1>5, PendingFinished DEF Emit
  <2>6. evt.call <= calls'[evt.thread]
    BY <1>1, <2>1 DEF FromPool
  <2>7. ASSUME NEW n \in 1..Len(emitted') PROVE emitted'[n].call <= calls'[emitted'[n].thread]
    <3>1. (n \in 1..Len(emitted) /\ emitted'[n] = emitted[n]) \/ emitted'[n] = evt
      BY <2>2, <2>3, AppendProperties DEF Types
    <3> QED BY <1>3, <2>4, <2>6, <3>1, EarlierInPool
  <2> QED BY <1>2, <1>3, <2>4, <2>5, <2>7, EarlierInPool
<1>6. CASE EmitEvt
  <2>1. worker # Idle /\ worker.value \in Sample \cup {Torn}
    BY <1>6, BusyWorker DEF EmitEvt, Types, Busy
  <2>2. PICK v \in Sample \cup {Torn, NoData} : Emit(v)
    BY <1>6, <2>1 DEF EmitEvt
  <2> QED BY <1>3, <1>5, <2>1, <2>2
<1>7. CASE EmitThrows
  <2>1. Types' BY <1>1, <1>7 DEF EmitThrows, Types
  <2>2. Pending' \subseteq Pending BY <1>7, PendingFinished DEF EmitThrows
  <2> QED BY <1>2, <1>3, <1>7, <2>1, <2>2, EarlierInPool DEF EmitThrows
<1> QED BY <1>3, <1>4, <1>5, <1>6, <1>7, PendingStarted DEF Work

LEMMA TypesNext ==
  ASSUME ConstantsAssumption, TypeInv, [Next]_vars
  PROVE  TypeInv'
<1>1. CASE UNCHANGED vars
  <2>1. Types' BY <1>1 DEF vars, TypeInv, Types
  <2>2. \A t \in Thread : Served(t)' <=> Served(t)
    BY <1>1 DEF vars, Served
  <2>3. \A e : FromPool(e)' <=> FromPool(e)
    BY <1>1 DEF vars, FromPool
  <2>4. Pending' = Pending BY <1>1, PendingStays DEF vars
  <2> QED BY <1>1, <2>1, <2>2, <2>3, <2>4 DEF TypeInv, vars
<1>2. CASE Next
  BY <1>2, ArriveTypes, TakeTypes, CopyTypes, ThrowTypes, PostTypes, EndCallTypes, WorkTypes
     DEF Next, ProcessData
<1> QED BY <1>1, <1>2

THEOREM TypesInvariant == Spec => []TypeInv
<1>1. Init => TypeInv
  BY TypesInit, ConstantsAssumption
<1>2. TypeInv /\ [Next]_vars => TypeInv'
  BY TypesNext, ConstantsAssumption
<1> QED BY <1>1, <1>2, PTL DEF Spec

\* The type invariant that the run SampleFlow checks.
THEOREM SamplePathTypeCorrect == Spec => []TypeOK
<1>1. TypeInv => TypeOK
  BY BusyWorker DEF TypeInv, Types, TypeOK, Loan, EmitType, Busy
<1> QED BY <1>1, TypesInvariant, PTL

-------------------------------------------------------------------------------
(***************************************************************************)
(* What an event shows.  In the call that posted it, a thread assigns only *)
(* objects behind the one of the event: pool_index is past it.  Only a     *)
(* later call comes back to the object.                                    *)
(***************************************************************************)
Late(e) == calls[e.thread] > e.call

Spared(e) ==
  /\ Contents(e) = e.sample
  /\ pc[e.thread] = "copy" => e.obj <= poolIndex[e.thread]
  /\ pc[e.thread] = "post" => e.obj < poolIndex[e.thread]

DataInv ==
  /\ \A th \in Thread :
       pc[th] = "post" => pool[th][poolIndex[th]] = Head(loan[th].rest)
  /\ \A e \in Pending : Spared(e) \/ Late(e)
  /\ worker # Idle => worker.value = worker.ev.sample \/ Late(worker.ev)
  /\ WrongDataMeansLateWorker

LEMMA DataInit == Init => DataInv
<1> SUFFICES ASSUME Init PROVE DataInv
  OBVIOUS
<1>1. Pending = {} /\ worker = Idle /\ Len(emitted) = 0
  BY DEF Init, Pending
<1> QED BY <1>1 DEF Init, DataInv, WrongDataMeansLateWorker

\* What a thread of process_data() leaves to prove: the events.
LEMMA DataOfThread ==
  ASSUME TypeInv, Grow, Types', DataInv, UNCHANGED workerVars,
         \A th \in Thread :
           pc'[th] = "post" => pool'[th][poolIndex'[th]] = Head(loan'[th].rest),
         \A e \in Pending : Spared(e) => Spared(e)' \/ Late(e)',
         \A e \in Pending' : e \in Pending \/ Spared(e)'
  PROVE  DataInv'
<1> USE DEF DataInv
<1>1. ASSUME NEW e, e.thread \in Thread, e.call \in Nat, Late(e) PROVE Late(e)'
  <2>1. calls[e.thread] \in Nat /\ calls'[e.thread] \in Nat
    BY <1>1 DEF TypeInv, Types
  <2> QED BY <1>1, <2>1 DEF Late, Grow
<1>2. \A e \in Pending : e.thread \in Thread /\ e.call \in Nat
  BY PendingType DEF EventType, TypeInv
<1>3. \A e \in Pending' : Spared(e)' \/ Late(e)'
  BY <1>1, <1>2
<1>4. worker # Idle => worker.value = worker.ev.sample \/ Late(worker.ev)'
  <2>1. worker # Idle => worker.ev \in Pending
    BY DEF Pending
  <2> QED BY <1>1, <1>2, <2>1
<1>5. WrongDataMeansLateWorker'
  <2>1. ASSUME NEW i \in 1..Len(emitted)
        PROVE  emitted[i].value \in {emitted[i].sample, NoData} \/ Late(emitted[i])'
    <3>1. emitted[i].thread \in Thread /\ emitted[i].call \in Nat
      BY EmittedType DEF TypeInv
    <3>2. emitted[i].value \in {emitted[i].sample, NoData} \/ Late(emitted[i])
      BY DEF WrongDataMeansLateWorker, Late
    <3> QED BY <1>1, <3>1, <3>2
  <2> QED BY <2>1 DEF WrongDataMeansLateWorker, Late
<1>6. (worker # Idle => worker.value = worker.ev.sample \/ Late(worker.ev))'
  BY <1>4 DEF Late
<1> QED BY <1>3, <1>5, <1>6

LEMMA TakeData ==
  ASSUME TypeInv, DataInv, NEW r \in Reader, Take(r)
  PROVE  DataInv'
<1> USE DEF Take
<1>1. TypeInv' /\ Grow /\ Pending' = Pending
  BY TakeTypes, PendingStays
<1>2. \A th \in Thread :
        pc'[th] = "post" => pool'[th][poolIndex'[th]] = Head(loan'[th].rest)
  BY DEF DataInv, TypeInv, Types
<1>3. ASSUME NEW e \in Pending, Spared(e) PROVE Spared(e)' \/ Late(e)'
  <2>1. e.thread \in Thread /\ e.call \in Nat
    BY PendingType DEF EventType, TypeInv
  <2>2. CASE e.thread = servedBy[r]
    <3>1. e.call <= calls[e.thread] /\ calls[e.thread] \in Nat
      BY <2>1 DEF TypeInv, Types, FromPool
    <3>2. calls'[e.thread] = calls[e.thread] + 1
      BY <2>1, <2>2 DEF TypeInv, Types
    <3> QED BY <2>1, <3>1, <3>2 DEF Late
  <2>3. CASE e.thread # servedBy[r]
    BY <1>3, <2>1, <2>3 DEF Spared, Contents, TypeInv, Types
  <2> QED BY <2>2, <2>3
<1> QED BY <1>1, <1>2, <1>3, DataOfThread DEF TypeInv

LEMMA CopyData ==
  ASSUME TypeInv, DataInv, NEW th \in Thread, CopySample(th)
  PROVE  DataInv'
<1> USE DEF CopySample, CopyInto
<1>1. /\ TypeInv' /\ Grow /\ Pending' = Pending
      /\ pool'[th][poolIndex'[th]] = Head(loan[th].rest)
      /\ poolIndex'[th] = poolIndex[th] + 1
      /\ \A n \in 1..poolIndex[th] : pool'[th][n] = pool[th][n]
  BY CopyTypes, PendingStays
<1>2. \A t \in Thread :
        pc'[t] = "post" => pool'[t][poolIndex'[t]] = Head(loan'[t].rest)
  BY <1>1 DEF DataInv, TypeInv, Types
<1>3. ASSUME NEW e \in Pending, Spared(e) PROVE Spared(e)'
  <2>1. e.thread \in Thread /\ e.obj \in Nat \ {0}
    BY PendingType DEF EventType, TypeInv
  <2>2. CASE e.thread = th
    <3>1. e.obj <= poolIndex[th] /\ poolIndex[th] \in Nat
      BY <1>3, <2>2 DEF Spared, TypeInv, Types
    <3>2. e.obj \in 1..poolIndex[th] /\ e.obj < poolIndex'[th]
      BY <1>1, <2>1, <3>1
    <3>3. pc'[th] = "post"
      BY DEF TypeInv, Types
    <3> QED BY <1>1, <1>3, <2>2, <3>2, <3>3 DEF Spared, Contents
  <2>3. CASE e.thread # th
    BY <1>3, <2>1, <2>3 DEF Spared, Contents, TypeInv, Types
  <2> QED BY <2>2, <2>3
<1> QED BY <1>1, <1>2, <1>3, DataOfThread DEF TypeInv

LEMMA LeaveData ==
  ASSUME ConstantsAssumption, TypeInv, DataInv, NEW th \in Thread,
         CopyThrows(th) \/ EndCall(th)
  PROVE  DataInv'
<1> USE DEF CopyThrows, ThrowTo, EndCall
<1>1. /\ TypeInv' /\ Grow /\ Pending' = Pending
      /\ \A n \in 1..poolIndex[th] : pool'[th][n] = pool[th][n]
  BY ThrowTypes, EndCallTypes, PendingStays
<1>2. /\ pc[th] = "copy" /\ pc' = [pc EXCEPT ![th] = "idle"]
      /\ \A t \in Thread : t # th => /\ pool'[t] = pool[t] /\ poolIndex'[t] = poolIndex[t]
                                     /\ loan'[t] = loan[t]
  BY DEF TypeInv, Types
<1>3. \A t \in Thread :
        pc'[t] = "post" => pool'[t][poolIndex'[t]] = Head(loan'[t].rest)
  BY <1>2 DEF DataInv, TypeInv, Types
<1>4. ASSUME NEW e \in Pending, Spared(e) PROVE Spared(e)'
  <2>1. e.thread \in Thread /\ e.obj \in Nat \ {0}
    BY PendingType DEF EventType, TypeInv
  <2>2. CASE e.thread = th
    <3>1. e.obj \in 1..poolIndex[th]
      BY <1>2, <1>4, <2>1, <2>2 DEF Spared, TypeInv, Types
    <3>2. pc'[th] = "idle"
      BY <1>2 DEF TypeInv, Types
    <3> QED BY <1>1, <1>4, <2>2, <3>1, <3>2 DEF Spared, Contents
  <2>3. CASE e.thread # th
    <3>1. pc'[e.thread] = pc[e.thread]
      BY <1>2, <2>1, <2>3 DEF TypeInv, Types
    <3> QED BY <1>2, <1>4, <2>1, <2>3, <3>1 DEF Spared, Contents
  <2> QED BY <2>2, <2>3
<1> QED BY <1>1, <1>3, <1>4, DataOfThread DEF TypeInv

LEMMA PostData ==
  ASSUME TypeInv, DataInv, NEW th \in Thread, PostEvent(th)
  PROVE  DataInv'
<1> USE DEF PostEvent, Post
<1>1. TypeInv' /\ Grow /\ Pending' \subseteq Pending \cup {Event(th)}
  BY PostTypes
<1>2. pc[th] = "post" /\ pc'[th] = "copy"
  BY DEF TypeInv, Types
<1>3. \A t \in Thread :
        pc'[t] = "post" => pool'[t][poolIndex'[t]] = Head(loan'[t].rest)
  BY DEF DataInv, TypeInv, Types
<1>4. ASSUME NEW e \in Pending, Spared(e) PROVE Spared(e)'
  <2>1. e.thread \in Thread /\ e.obj \in Nat \ {0}
    BY PendingType DEF EventType, TypeInv
  <2>2. CASE e.thread = th
    <3>1. e.obj < poolIndex[th] /\ poolIndex[th] \in Nat
      BY <1>2, <1>4, <2>2 DEF Spared, TypeInv, Types
    <3>2. e.obj <= poolIndex[th]
      BY <2>1, <3>1
    <3> QED BY <1>2, <1>4, <2>2, <3>2 DEF Spared, Contents
  <2>3. CASE e.thread # th
    BY <1>4, <2>1, <2>3 DEF Spared, Contents, TypeInv, Types
  <2> QED BY <2>2, <2>3
<1>5. ASSUME NEW e, e = Event(th) PROVE Spared(e)'
  <2>1. /\ e.thread = th /\ e.obj = poolIndex[th] /\ e.sample = Head(loan[th].rest)
    BY <1>5 DEF Event
  <2>2. pool[th][poolIndex[th]] = Head(loan[th].rest) /\ poolIndex[th] \in Nat
    BY <1>2 DEF DataInv, TypeInv, Types
  <2> QED BY <1>2, <2>1, <2>2 DEF Spared, Contents
<1> QED BY <1>1, <1>3, <1>4, <1>5, DataOfThread DEF TypeInv

LEMMA WorkData ==
  ASSUME TypeInv, DataInv, Work
  PROVE  DataInv'
<1>1. UNCHANGED threadVars /\ Pending' \subseteq Pending
  BY WorkTypes DEF Work, StartEvent, EmitEvt, Emit, EmitThrows
<1>2. \A e : Spared(e)' <=> Spared(e)
  BY <1>1 DEF Spared, Contents
<1>3. \A e : Late(e)' <=> Late(e)
  BY <1>1 DEF Late
<1>4. /\ \A th \in Thread :
           pc'[th] = "post" => pool'[th][poolIndex'[th]] = Head(loan'[th].rest)
      /\ \A e \in Pending' : Spared(e)' \/ Late(e)'
  BY <1>1, <1>2, <1>3 DEF DataInv
<1>5. WrongDataMeansLateWorker <=>
        \A i \in 1..Len(emitted) : emitted[i].value \in {emitted[i].sample, NoData} \/ Late(emitted[i])
  BY DEF WrongDataMeansLateWorker, Late
<1>6. WrongDataMeansLateWorker' <=>
        \A i \in 1..Len(emitted') :
          emitted'[i].value \in {emitted'[i].sample, NoData} \/ Late(emitted'[i])
  BY <1>1 DEF WrongDataMeansLateWorker, Late
<1>7. CASE StartEvent
  <2>1. Spared(Head(q)) \/ Late(Head(q))
    BY <1>7, PendingStarted DEF DataInv
  <2>2. worker'.value = worker'.ev.sample \/ Late(worker'.ev)
    BY <1>7, <2>1, PendingStarted DEF Spared
  <2> QED BY <1>3, <1>4, <1>5, <1>6, <1>7, <2>2 DEF DataInv, StartEvent
<1>8. CASE EmitThrows
  BY <1>4, <1>5, <1>6, <1>8 DEF DataInv, EmitThrows
<1>9. ASSUME NEW v, worker # Idle, Emit(v),
             v \in {worker.ev.sample, NoData} \/ Late(worker.ev)
      PROVE  DataInv'
  <2> DEFINE evt == [reader |-> worker.ev.reader, sample |-> worker.ev.sample,
                     call |-> worker.ev.call, thread |-> worker.ev.thread, value |-> v]
  <2>1. emitted' = Append(emitted, evt) /\ worker' = Idle
    BY <1>9 DEF Emit
  <2>2. evt.value \in {evt.sample, NoData} \/ Late(evt)
    BY <1>9 DEF Late
  <2>3. \A i \in 1..Len(emitted') : (i \in 1..Len(emitted) /\ emitted'[i] = emitted[i])
                                    \/ emitted'[i] = evt
    BY <2>1 DEF TypeInv, Types
  <2> QED BY <1>4, <1>5, <1>6, <2>1, <2>2, <2>3 DEF DataInv
<1>10. CASE EmitEvt
  <2>1. worker # Idle /\ worker.ev \in Pending
    BY <1>10 DEF EmitEvt, Pending
  <2>2. Spared(worker.ev) \/ Late(worker.ev)
    BY <2>1 DEF DataInv
  <2>3. worker.value = worker.ev.sample \/ Late(worker.ev)
    BY <2>1 DEF DataInv
  <2>4. LET v == IF Contents(worker.ev) = worker.value THEN worker.value ELSE Torn
        IN  v \in {worker.ev.sample, NoData} \/ Late(worker.ev)
    BY <2>2, <2>3 DEF Spared
  <2> QED BY <1>9, <1>10, <2>1, <2>4 DEF EmitEvt
<1> QED BY <1>7, <1>8, <1>10 DEF Work

LEMMA DataNext ==
  ASSUME ConstantsAssumption, TypeInv, DataInv, [Next]_vars
  PROVE  DataInv'
<1>1. ASSUME UNCHANGED <<threadVars, queueVars, workerVars>> PROVE DataInv'
  <2>1. Pending' = Pending BY <1>1, PendingStays
  <2>2. \A e : (Spared(e)' <=> Spared(e)) /\ (Late(e)' <=> Late(e))
    BY <1>1 DEF Spared, Contents, Late
  <2>3. WrongDataMeansLateWorker' <=> WrongDataMeansLateWorker
    BY <1>1 DEF WrongDataMeansLateWorker
  <2> QED BY <1>1, <2>1, <2>2, <2>3 DEF DataInv
<1>2. CASE Next
  BY <1>1, <1>2, TakeData, CopyData, LeaveData, PostData, WorkData
     DEF Next, ProcessData, Arrive
<1> QED BY <1>1, <1>2 DEF vars

THEOREM DataInvariant == Spec => []DataInv
<1>1. Init => DataInv
  BY DataInit
<1>2. TypeInv /\ DataInv /\ [Next]_vars => DataInv'
  BY DataNext, ConstantsAssumption
<1> QED BY <1>1, <1>2, TypesInvariant, PTL DEF Spec

\* A pending event finds its own sample in the object it shares with the pool
\* until its thread enters process_data() again, however many readers share
\* the thread, whatever the copies throw and however full the queue is.
THEOREM EventsIntactUntilNextCall == Spec => []IntactUntilNextCall
<1>1. DataInv => IntactUntilNextCall
  BY DEF DataInv, IntactUntilNextCall, Spared, Late
<1> QED BY <1>1, DataInvariant, PTL

\* An EVT with another sample's data, or a torn one, can only leave when the
\* worker is a whole call of process_data() behind.
THEOREM WrongDataOnlyWhenLate == Spec => []WrongDataMeansLateWorker
<1>1. DataInv => WrongDataMeansLateWorker
  BY DEF DataInv
<1> QED BY <1>1, DataInvariant, PTL

-------------------------------------------------------------------------------
(***************************************************************************)
(* The order of the samples.  Those of a reader stand in a line of six     *)
(* places, and every step moves a sample at most one place forward: each   *)
(* place holds only samples that arrived before all those of the places    *)
(* behind it.                                                              *)
(***************************************************************************)
SamplesOf(events, r) == {events[i].sample : i \in {n \in 1..Len(events) : events[n].reader = r}}

Sent(r)    == SamplesOf(emitted, r)
InWork(r)  == IF worker # Idle /\ worker.ev.reader = r THEN {worker.ev.sample} ELSE {}
Queued(r)  == SamplesOf(q, r)
Lent(r)    == IF loan[servedBy[r]].reader = r THEN Range(loan[servedBy[r]].rest) ELSE {}
Cached(r)  == Range(cache[r])
Coming     == {n \in Nat : n > arrived}
Line(r)    == <<Sent(r), InWork(r), Queued(r), Lent(r), Cached(r), Coming>>

Place == 1..6
Before(S, T) == \A x \in S, y \in T : x < y
InLine(line) == \A m, n \in Place : m < n => Before(line[m], line[n])
Rising(samples) == \A i, j \in 1..Len(samples) : i < j => samples[i] < samples[j]

EventsInOrder(events) ==
  \A i, j \in 1..Len(events) :
    i < j /\ events[i].reader = events[j].reader => events[i].sample < events[j].sample

OrderInv ==
  /\ \A r \in Reader : InLine(Line(r)) /\ Rising(cache[r])
  /\ \A th \in Thread : Rising(loan[th].rest)
  /\ EventsInOrder(q) /\ EventsInOrder(emitted)

(***************************************************************************)
(* Sequences that rise, and events in order.                               *)
(***************************************************************************)
LEMMA AppendRises ==
  ASSUME NEW S, NEW s \in Seq(S), NEW x \in S, Rising(s), Before(Range(s), {x})
  PROVE  /\ Rising(Append(s, x))
         /\ Range(Append(s, x)) = Range(s) \cup {x}
<1>1. /\ Len(Append(s, x)) = Len(s) + 1 /\ Len(s) \in Nat
      /\ \A i \in 1..Len(s) : Append(s, x)[i] = s[i]
      /\ Append(s, x)[Len(s) + 1] = x
      /\ DOMAIN s = 1..Len(s) /\ DOMAIN Append(s, x) = (1..Len(s)) \cup {Len(s) + 1}
  BY AppendProperties
<1>2. \A i \in 1..Len(s) : s[i] < x
  BY <1>1 DEF Before, Range
<1> QED BY <1>1, <1>2 DEF Rising, Range

LEMMA TailRises ==
  ASSUME NEW S, NEW s \in Seq(S), s # <<>>, Rising(s)
  PROVE  /\ Rising(Tail(s))
         /\ Range(Tail(s)) \subseteq Range(s) /\ Head(s) \in Range(s)
         /\ Before({Head(s)}, Range(Tail(s)))
<1>1. /\ Len(s) \in Nat \ {0} /\ Head(s) = s[1]
      /\ Len(Tail(s)) = Len(s) - 1
      /\ \A i \in 1..Len(Tail(s)) : Tail(s)[i] = s[i + 1] /\ i + 1 \in 1..Len(s)
      /\ DOMAIN s = 1..Len(s) /\ DOMAIN Tail(s) = 1..Len(Tail(s))
  BY HeadTailProperties
<1>2. \A i \in 1..Len(Tail(s)) : s[1] < s[i + 1]
  BY <1>1 DEF Rising
<1> QED BY <1>1, <1>2 DEF Rising, Range, Before

LEMMA AppendInOrder ==
  ASSUME NEW S, NEW s \in Seq(S), NEW e \in S, EventsInOrder(s),
         Before(SamplesOf(s, e.reader), {e.sample})
  PROVE  /\ EventsInOrder(Append(s, e))
         /\ \A r : SamplesOf(Append(s, e), r) \subseteq
                     SamplesOf(s, r) \cup (IF e.reader = r THEN {e.sample} ELSE {})
<1>1. /\ Len(Append(s, e)) = Len(s) + 1 /\ Len(s) \in Nat
      /\ \A i \in 1..Len(s) : Append(s, e)[i] = s[i]
      /\ Append(s, e)[Len(s) + 1] = e
  BY AppendProperties
<1>2. \A i \in 1..Len(s) : s[i].reader = e.reader => s[i].sample < e.sample
  BY DEF Before, SamplesOf
<1>3. EventsInOrder(Append(s, e))
  BY <1>1, <1>2 DEF EventsInOrder
<1>4. \A i \in 1..Len(Append(s, e)) : i \in 1..Len(s) \/ i = Len(s) + 1
  BY <1>1
<1> QED BY <1>1, <1>3, <1>4 DEF SamplesOf

LEMMA TailInOrder ==
  ASSUME NEW S, NEW s \in Seq(S), s # <<>>, EventsInOrder(s)
  PROVE  /\ EventsInOrder(Tail(s))
         /\ \A r : SamplesOf(Tail(s), r) \subseteq SamplesOf(s, r)
         /\ Head(s).sample \in SamplesOf(s, Head(s).reader)
         /\ Before({Head(s).sample}, SamplesOf(Tail(s), Head(s).reader))
<1>1. /\ Len(s) \in Nat \ {0} /\ Head(s) = s[1]
      /\ Len(Tail(s)) = Len(s) - 1
      /\ \A i \in 1..Len(Tail(s)) : Tail(s)[i] = s[i + 1] /\ i + 1 \in 1..Len(s)
  BY HeadTailProperties
<1>2. \A i \in 1..Len(Tail(s)) : s[1].reader = s[i + 1].reader => s[1].sample < s[i + 1].sample
  BY <1>1 DEF EventsInOrder
<1>3. EventsInOrder(Tail(s))
  BY <1>1 DEF EventsInOrder
<1>4. \A r : SamplesOf(Tail(s), r) \subseteq SamplesOf(s, r)
  BY <1>1 DEF SamplesOf
<1>5. Head(s).sample \in SamplesOf(s, Head(s).reader)
  BY <1>1 DEF SamplesOf
<1> QED BY <1>1, <1>2, <1>3, <1>4, <1>5 DEF SamplesOf, Before

(***************************************************************************)
(* A line in which the samples X move from the place k + 1 to the place k, *)
(* or leave, is one in which all still stand in order.                     *)
(***************************************************************************)
LEMMA Moves ==
  ASSUME NEW old, NEW new, NEW X, NEW k \in 1..5, InLine(old),
         \A n \in Place : new[n] \subseteq old[n] \/ (n = k /\ new[n] \subseteq old[n] \cup X),
         X \subseteq old[k + 1], Before(X, new[k + 1])
  PROVE  InLine(new)
<1>1. ASSUME NEW m \in Place, NEW n \in Place, m < n, NEW x \in new[m], NEW y \in new[n]
      PROVE  x < y
  <2>0. k + 1 \in Place /\ k \in Place /\ k < k + 1 BY DEF Place
  <2>1. CASE x \in old[m] /\ y \in old[n]
    BY <1>1, <2>1 DEF InLine, Before
  <2>2. CASE x \in old[m] /\ n = k /\ y \in X
    <3>1. m < k + 1 /\ y \in old[k + 1] BY <1>1, <2>2 DEF Place
    <3> QED BY <2>0, <2>2, <3>1 DEF InLine, Before
  <2>3. CASE m = k /\ x \in X /\ n = k + 1
    BY <2>3 DEF Before
  <2>4. CASE m = k /\ x \in X /\ n # k + 1 /\ y \in old[n]
    <3>1. k + 1 < n /\ x \in old[k + 1] BY <1>1, <2>4 DEF Place
    <3> QED BY <2>0, <2>4, <3>1 DEF InLine, Before
  <2> QED BY <1>1, <2>1, <2>2, <2>3, <2>4
<1> QED BY <1>1 DEF InLine, Before

LEMMA LineMoves ==
  ASSUME NEW r \in Reader, NEW X, NEW k \in 1..5, InLine(Line(r)),
         X \subseteq Line(r)[k + 1], Before(X, Line(r)'[k + 1]),
         Sent(r)'   \subseteq Sent(r)   \/ (k = 1 /\ Sent(r)'   \subseteq Sent(r) \cup X),
         InWork(r)' \subseteq InWork(r) \/ (k = 2 /\ InWork(r)' \subseteq InWork(r) \cup X),
         Queued(r)' \subseteq Queued(r) \/ (k = 3 /\ Queued(r)' \subseteq Queued(r) \cup X),
         Lent(r)'   \subseteq Lent(r)   \/ (k = 4 /\ Lent(r)'   \subseteq Lent(r) \cup X),
         Cached(r)' \subseteq Cached(r) \/ (k = 5 /\ Cached(r)' \subseteq Cached(r) \cup X),
         Coming' \subseteq Coming
  PROVE  InLine(Line(r))'
<1>1. \A n \in Place : \/ Line(r)'[n] \subseteq Line(r)[n]
                       \/ n = k /\ Line(r)'[n] \subseteq Line(r)[n] \cup X
  BY DEF Line, Place
<1>2. InLine(Line(r)')
  BY <1>1, Moves
<1> QED BY <1>2 DEF InLine, Before, Place

LEMMA LineStays ==
  ASSUME NEW r \in Reader, InLine(Line(r)),
         Sent(r)' \subseteq Sent(r), InWork(r)' \subseteq InWork(r),
         Queued(r)' \subseteq Queued(r), Lent(r)' \subseteq Lent(r),
         Cached(r)' \subseteq Cached(r), Coming' \subseteq Coming
  PROVE  InLine(Line(r))'
<1>1. Before({}, Line(r)'[2])
  BY DEF Before
<1> QED BY <1>1, LineMoves

(***************************************************************************)
(* The order: one lemma for each action.                                   *)
(***************************************************************************)
LEMMA OrderInit == ConstantsAssumption /\ Init => OrderInv
<1> SUFFICES ASSUME ConstantsAssumption, Init PROVE OrderInv
  OBVIOUS
<1>1. ASSUME NEW r \in Reader PROVE InLine(Line(r)) /\ Rising(cache[r])
  <2>1. /\ Sent(r) = {} /\ InWork(r) = {} /\ Queued(r) = {} /\ Cached(r) = {}
    BY DEF Init, Sent, InWork, Queued, Cached, SamplesOf, Range
  <2>2. Lent(r) = {}
    BY DEF Init, Lent, NoLoan, Range
  <2>3. \A n \in Place : n < 6 => Line(r)[n] = {}
    BY <2>1, <2>2 DEF Line, Place
  <2> QED BY <2>3 DEF InLine, Before, Place, Rising, Init
<1> QED BY <1>1 DEF Init, OrderInv, EventsInOrder, Rising, NoLoan

LEMMA ArriveOrder ==
  ASSUME ConstantsAssumption, TypeInv, OrderInv, NEW r0 \in Reader, Arrive(r0)
  PROVE  OrderInv'
<1> USE DEF Arrive, OrderInv
<1> DEFINE new == arrived + 1
<1>1. arrived \in Nat /\ new \in Sample /\ cache[r0] \in Seq(Sample)
  BY DEF TypeInv, Types, Sample, ConstantsAssumption
<1>2. Coming' \subseteq Coming /\ new \in Coming /\ Before({new}, Coming')
  BY <1>1 DEF Coming, Before
<1>3. Before(Range(cache[r0]), {new})
  <2>1. Before(Line(r0)[5], Line(r0)[6])
    BY DEF InLine, Place
  <2> QED BY <1>2, <2>1 DEF Line, Cached, Before
<1>4. Rising(cache'[r0]) /\ Range(cache'[r0]) = Range(cache[r0]) \cup {new}
  BY <1>1, <1>3, AppendRises DEF TypeInv, Types
<1>5. ASSUME NEW r \in Reader PROVE InLine(Line(r))' /\ Rising(cache'[r])
  <2>1. /\ Sent(r)' = Sent(r) /\ InWork(r)' = InWork(r) /\ Queued(r)' = Queued(r)
        /\ Lent(r)' = Lent(r)
    BY DEF Sent, InWork, Queued, Lent
  <2>2. CASE r = r0
    <3> DEFINE k == 5
               X == {new}
    <3>1. k = 5 /\ Cached(r)' \subseteq Cached(r) \cup X
      BY <1>4, <2>2 DEF Cached
    <3>2. k \in 1..5 /\ X \subseteq Line(r)[k + 1] /\ Before(X, Line(r)'[k + 1])
      BY <1>2 DEF Line
    <3> HIDE DEF k, X
    <3>3. InLine(Line(r))'
      BY <1>2, <2>1, <3>1, <3>2, LineMoves
    <3> QED BY <1>4, <2>2, <3>3
  <2>3. CASE r # r0
    <3>1. cache'[r] = cache[r]
      BY <2>3 DEF TypeInv, Types
    <3>2. Cached(r)' = Cached(r)
      BY <3>1 DEF Cached
    <3> QED BY <1>2, <2>1, <3>1, <3>2, LineStays
  <2> QED BY <2>2, <2>3
<1> QED BY <1>5

LEMMA TakeOrder ==
  ASSUME TypeInv, OrderInv, NEW r0 \in Reader, Take(r0)
  PROVE  OrderInv'
<1> USE DEF Take, OrderInv
<1> DEFINE th == servedBy[r0]
<1>1. /\ th \in Thread /\ servedBy' = servedBy
      /\ loan'[th] = [reader |-> r0, rest |-> cache[r0]]
      /\ cache'[r0] = <<>>
      /\ \A t \in Thread : t # th => loan'[t] = loan[t]
      /\ \A r \in Reader : r # r0 => cache'[r] = cache[r]
  BY DEF TypeInv, Types
<1>2. ASSUME NEW r \in Reader PROVE InLine(Line(r))' /\ Rising(cache'[r])
  <2>1. /\ Sent(r)' = Sent(r) /\ InWork(r)' = InWork(r) /\ Queued(r)' = Queued(r)
        /\ Coming' = Coming
    BY DEF Sent, InWork, Queued, Coming
  <2>2. CASE r = r0
    <3>1. Lent(r)' = Cached(r) /\ Cached(r)' = {} /\ Line(r)'[5] = {} /\ Line(r)[5] = Cached(r)
      BY <1>1, <2>2 DEF Lent, Cached, Line, Range
    <3>2. Rising(cache'[r])
      BY <1>1, <2>2 DEF Rising
    <3> DEFINE k == 4
               X == Cached(r)
    <3>3. k = 4 /\ Lent(r)' \subseteq Lent(r) \cup X /\ Cached(r)' \subseteq Cached(r)
      BY <3>1
    <3>4. k \in 1..5 /\ X \subseteq Line(r)[k + 1] /\ Before(X, Line(r)'[k + 1])
      BY <3>1 DEF Before
    <3> HIDE DEF k, X
    <3>5. InLine(Line(r))'
      BY <2>1, <3>3, <3>4, LineMoves
    <3> QED BY <3>2, <3>5
  <2>3. CASE r # r0
    <3>1. Cached(r)' = Cached(r)
      BY <1>1, <2>3 DEF Cached
    <3>2. Lent(r)' \subseteq Lent(r)
      BY <1>1, <2>3 DEF Lent, TypeInv, Types
    <3> QED BY <1>1, <2>1, <2>3, <3>1, <3>2, LineStays
  <2> QED BY <2>2, <2>3
<1>3. ASSUME NEW t \in Thread PROVE Rising(loan'[t].rest)
  BY <1>1
<1> QED BY <1>2, <1>3

\* Steps that move no sample, or lose what is left of a loan.
LEMMA LoanOrder ==
  ASSUME TypeInv, OrderInv, UNCHANGED <<servedBy, cacheVars, queueVars, workerVars>>,
         \A th \in Thread : loan'[th] = loan[th] \/ loan'[th] = NoLoan
  PROVE  OrderInv'
<1> USE DEF OrderInv
<1>1. Range(<<>>) = {} /\ Rising(<<>>)
  BY DEF Range, Rising
<1>2. ASSUME NEW r \in Reader PROVE InLine(Line(r))' /\ Rising(cache'[r])
  <2>1. /\ Sent(r)' = Sent(r) /\ InWork(r)' = InWork(r) /\ Queued(r)' = Queued(r)
        /\ Cached(r)' = Cached(r) /\ Coming' = Coming
    BY DEF Sent, InWork, Queued, Cached, Coming
  <2>2. Lent(r)' \subseteq Lent(r)
    <3>1. servedBy[r] \in Thread BY DEF TypeInv, Types
    <3> QED BY <1>1, <3>1 DEF Lent, NoLoan
  <2> QED BY <2>1, <2>2, LineStays
<1>3. ASSUME NEW t \in Thread PROVE Rising(loan'[t].rest)
  BY <1>1 DEF NoLoan
<1> QED BY <1>2, <1>3

LEMMA PostOrder ==
  ASSUME TypeInv, OrderInv, NEW th \in Thread, PostEvent(th)
  PROVE  OrderInv'
<1> USE DEF PostEvent, Post, OrderInv
<1> DEFINE r0 == loan[th].reader
           rest == loan[th].rest
           x == Head(rest)
<1>1. /\ rest \in Seq(Sample) /\ rest # <<>> /\ Event(th) \in EventType
      /\ r0 \in Reader /\ servedBy[r0] = th
      /\ Event(th).reader = r0 /\ Event(th).sample = x
  BY PostTypes DEF TypeInv, Served, Event
<1>2. /\ Rising(Tail(rest)) /\ Range(Tail(rest)) \subseteq Range(rest)
      /\ x \in Range(rest) /\ Before({x}, Range(Tail(rest)))
  BY <1>1, TailRises
<1>3. /\ loan'[th].reader = r0 /\ loan'[th].rest = Tail(rest)
      /\ \A t \in Thread : t # th => loan'[t] = loan[t]
  <2>1. loan[th] \in Loan /\ loan' = [loan EXCEPT ![th] = [loan[th] EXCEPT !.rest = Tail(rest)]]
    BY DEF TypeInv, Types
  <2>2. loan'[th] = [reader |-> r0, rest |-> Tail(rest)]
    BY <2>1, WithRest DEF TypeInv, Types
  <2> QED BY <2>2 DEF TypeInv, Types
<1>4. Line(r0)[4] = Range(rest)
  BY <1>1 DEF Line, Lent
<1>5. Before(Queued(r0), {x})
  <2>1. Before(Line(r0)[3], Line(r0)[4])
    BY <1>1 DEF InLine, Place
  <2> QED BY <1>2, <1>4, <2>1 DEF Line, Before
<1>6. /\ EventsInOrder(q')
      /\ \A r : Queued(r)' \subseteq Queued(r) \cup (IF r = r0 THEN {x} ELSE {})
  <2>1. CASE Len(q) < MaxQueue
    <3>1. q' = Append(q, Event(th)) /\ q \in Seq(EventType) BY <2>1 DEF TypeInv, Types
    <3>2. Before(SamplesOf(q, Event(th).reader), {Event(th).sample})
      BY <1>1, <1>5 DEF Queued
    <3> QED BY <1>1, <3>1, <3>2, AppendInOrder DEF Queued
  <2>2. CASE ~(Len(q) < MaxQueue)
    BY <2>2 DEF Queued
  <2> QED BY <2>1, <2>2
<1>7. ASSUME NEW r \in Reader PROVE InLine(Line(r))' /\ Rising(cache'[r])
  <2>1. /\ Sent(r)' = Sent(r) /\ InWork(r)' = InWork(r)
        /\ Cached(r)' = Cached(r) /\ Coming' = Coming
    BY DEF Sent, InWork, Cached, Coming
  <2>2. CASE r = r0
    <3>1. Lent(r)' = Range(Tail(rest)) /\ Lent(r) = Range(rest)
      BY <1>1, <1>3, <2>2 DEF Lent
    <3> DEFINE k == 3
               X == {x}
    <3>2. k = 3 /\ Queued(r)' \subseteq Queued(r) \cup X /\ Lent(r)' \subseteq Lent(r)
      BY <1>2, <1>6, <2>2, <3>1
    <3>3. k \in 1..5 /\ X \subseteq Line(r)[k + 1] /\ Before(X, Line(r)'[k + 1])
      BY <1>2, <3>1 DEF Line
    <3> HIDE DEF k, X
    <3>4. InLine(Line(r))'
      BY <2>1, <3>2, <3>3, LineMoves
    <3> QED BY <3>4
  <2>3. CASE r # r0
    <3>1. Queued(r)' \subseteq Queued(r)
      BY <1>6, <2>3
    <3>2. Lent(r)' \subseteq Lent(r)
      BY <1>3, <2>3 DEF Lent, TypeInv, Types
    <3> QED BY <2>1, <3>1, <3>2, LineStays
  <2> QED BY <2>2, <2>3
<1>8. ASSUME NEW t \in Thread PROVE Rising(loan'[t].rest)
  BY <1>2, <1>3
<1> QED BY <1>6, <1>7, <1>8

LEMMA StartOrder ==
  ASSUME TypeInv, OrderInv, StartEvent
  PROVE  OrderInv'
<1> USE DEF StartEvent, OrderInv
<1> DEFINE r0 == Head(q).reader
           x == Head(q).sample
<1>1. /\ q \in Seq(EventType) /\ q # <<>> /\ q' = Tail(q)
      /\ worker = Idle /\ worker' # Idle /\ worker'.ev = Head(q)
  BY PendingStarted, BusyWorker DEF TypeInv, Types
<1>2. /\ EventsInOrder(q')
      /\ \A r : Queued(r)' \subseteq Queued(r)
      /\ x \in Queued(r0) /\ Before({x}, SamplesOf(q', r0))
  BY <1>1, TailInOrder DEF Queued
<1>3. ASSUME NEW r \in Reader PROVE InLine(Line(r))'
  <2>1. /\ Sent(r)' = Sent(r) /\ Lent(r)' = Lent(r)
        /\ Cached(r)' = Cached(r) /\ Coming' = Coming
    BY DEF Sent, Lent, Cached, Coming
  <2>2. CASE r = r0
    <3> DEFINE k == 2
               X == {x}
    <3>1. k = 2 /\ InWork(r)' \subseteq InWork(r) \cup X
      BY <1>1, <2>2 DEF InWork
    <3>2. k \in 1..5 /\ X \subseteq Line(r)[k + 1] /\ Before(X, Line(r)'[k + 1])
      BY <1>2, <2>2 DEF Line, Queued
    <3> HIDE DEF k, X
    <3> QED BY <1>2, <2>1, <3>1, <3>2, LineMoves
  <2>3. CASE r # r0
    <3>1. InWork(r)' \subseteq InWork(r)
      BY <1>1, <2>3 DEF InWork
    <3> QED BY <1>2, <2>1, <3>1, LineStays
  <2> QED BY <2>2, <2>3
<1> QED BY <1>2, <1>3

LEMMA EmitOrder ==
  ASSUME TypeInv, OrderInv, NEW v \in Sample \cup {Torn, NoData}, worker # Idle, Emit(v)
  PROVE  OrderInv'
<1> USE DEF Emit, OrderInv
<1> DEFINE e == [reader |-> worker.ev.reader, sample |-> worker.ev.sample,
                 call |-> worker.ev.call, thread |-> worker.ev.thread, value |-> v]
           r0 == worker.ev.reader
           x == worker.ev.sample
<1>1. worker.ev \in EventType /\ r0 \in Reader
  BY BusyWorker DEF TypeInv, Types, Busy, EventType
<1>2. e \in EmitType /\ e.reader = r0 /\ e.sample = x
  BY <1>1 DEF EventType, EmitType
<1>3. emitted \in Seq(EmitType) /\ emitted' = Append(emitted, e)
  BY DEF TypeInv, Types
<1>4. InWork(r0) = {x}
  BY DEF InWork
<1>5. Before(SamplesOf(emitted, e.reader), {e.sample})
  <2>1. Before(Line(r0)[1], Line(r0)[2])
    BY <1>1 DEF InLine, Place
  <2> QED BY <1>2, <1>4, <2>1 DEF Line, Sent
<1> HIDE DEF e
<1>6. /\ EventsInOrder(emitted')
      /\ \A r : Sent(r)' \subseteq Sent(r) \cup (IF r = r0 THEN {x} ELSE {})
  <2>1. /\ EventsInOrder(Append(emitted, e))
        /\ \A r : SamplesOf(Append(emitted, e), r) \subseteq
                    SamplesOf(emitted, r) \cup (IF e.reader = r THEN {e.sample} ELSE {})
    BY <1>2, <1>3, <1>5, AppendInOrder
  <2> QED BY <1>2, <1>3, <2>1 DEF Sent
<1>7. ASSUME NEW r \in Reader PROVE InLine(Line(r))'
  <2>1. /\ Queued(r)' = Queued(r) /\ Lent(r)' = Lent(r)
        /\ Cached(r)' = Cached(r) /\ Coming' = Coming
    BY DEF Queued, Lent, Cached, Coming
  <2>2. InWork(r)' = {}
    BY DEF InWork
  <2>3. CASE r = r0
    <3> DEFINE k == 1
               X == {x}
    <3>1. k = 1 /\ Sent(r)' \subseteq Sent(r) \cup X
      BY <1>6, <2>3
    <3>2. k \in 1..5 /\ X \subseteq Line(r)[k + 1] /\ Before(X, Line(r)'[k + 1])
      BY <1>4, <2>2, <2>3 DEF Line, Before
    <3> HIDE DEF k, X
    <3> QED BY <2>1, <2>2, <3>1, <3>2, LineMoves
  <2>4. CASE r # r0
    <3>1. Sent(r)' \subseteq Sent(r) BY <1>6, <2>4
    <3> QED BY <2>1, <2>2, <3>1, LineStays
  <2> QED BY <2>3, <2>4
<1> QED BY <1>6, <1>7

LEMMA OrderNext ==
  ASSUME ConstantsAssumption, TypeInv, OrderInv, [Next]_vars
  PROVE  OrderInv'
<1>1. CASE UNCHANGED vars
  BY <1>1, LoanOrder DEF vars
<1>2. ASSUME NEW th \in Thread, CopySample(th) PROVE OrderInv'
  BY <1>2, LoanOrder DEF CopySample, CopyInto
<1>3. ASSUME NEW th \in Thread, CopyThrows(th) \/ EndCall(th) PROVE OrderInv'
  <2>1. \A t \in Thread : loan'[t] = loan[t] \/ loan'[t] = NoLoan
    BY <1>3 DEF CopyThrows, ThrowTo, EndCall, TypeInv, Types
  <2> QED BY <1>3, <2>1, LoanOrder DEF CopyThrows, ThrowTo, EndCall
<1>4. CASE EmitEvt
  <2>1. worker # Idle /\ worker.value \in Sample \cup {Torn}
    BY <1>4, BusyWorker DEF EmitEvt, TypeInv, Types, Busy
  <2> QED BY <1>4, <2>1, EmitOrder DEF EmitEvt
<1>5. CASE EmitThrows
  <2>1. ASSUME NEW r \in Reader PROVE InLine(Line(r))'
    <3>1. /\ Sent(r)' = Sent(r) /\ Queued(r)' = Queued(r) /\ Lent(r)' = Lent(r)
          /\ Cached(r)' = Cached(r) /\ Coming' = Coming /\ InWork(r)' = {}
      BY <1>5 DEF EmitThrows, Sent, Queued, Lent, Cached, Coming, InWork
    <3> QED BY <3>1, LineStays DEF OrderInv
  <2> QED BY <1>5, <2>1 DEF EmitThrows, OrderInv
<1>6. CASE Next
  BY <1>2, <1>3, <1>4, <1>5, <1>6, ArriveOrder, TakeOrder, PostOrder, StartOrder
     DEF Next, ProcessData, Work
<1> QED BY <1>1, <1>6

THEOREM OrderInvariant == Spec => []OrderInv
<1>1. Init => OrderInv
  BY OrderInit, ConstantsAssumption
<1>2. TypeInv /\ OrderInv /\ [Next]_vars => OrderInv'
  BY OrderNext, ConstantsAssumption
<1> QED BY <1>1, <1>2, TypesInvariant, PTL DEF Spec

\* The EVTs of a reader leave in the order in which its samples arrived, each
\* at most once, however many readers and threads there are and whatever the
\* queue refuses or the copies and conversions throw away.
THEOREM EvtsLeaveInOrder == Spec => []EmittedInOrder
<1>1. OrderInv => EmittedInOrder
  BY DEF OrderInv, EventsInOrder, EmittedInOrder
<1> QED BY <1>1, OrderInvariant, PTL
===============================================================================

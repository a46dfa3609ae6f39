------------------------------ MODULE SamplePath ------------------------------
(***************************************************************************)
(* A DDS sample on its way to the UI: ReaderHolder<T>::process_data() on   *)
(* the thread that serves the reader, the job queue, and on the worker     *)
(* IpcAdapter::emit_evt_from_sample().                                     *)
(*                                                                         *)
(* process_data() does not allocate an object for each sample.  It copies  *)
(* samples into the objects of a pool that the thread keeps for the type   *)
(* T, from the first one on in every call, and posts a shared pointer: the *)
(* event and the pool share the object.  All readers here are of one type. *)
(* In WaitSet mode one thread serves them all, in Listener mode any of the *)
(* receive threads of the DDS library serves a reader.                     *)
(*                                                                         *)
(* The queue is the one that AsyncEventProcessor is shown to implement:    *)
(* a FIFO of bounded length that refuses what is offered when it is full.  *)
(***************************************************************************)
EXTENDS Naturals, Sequences

CONSTANTS
  Reader,      \* readers of the type
  Thread,      \* threads that call process_data()
  MaxQueue,    \* Config::max_queue
  MaxSamples,  \* bound: how many samples arrive
  Torn,        \* what is read of an object while it is assigned
  NoData       \* the EVT whose "data" is null

ASSUME ConstantsAssumption ==
  /\ MaxQueue \in Nat /\ MaxSamples \in Nat
  /\ Torn \notin Nat /\ NoData \notin Nat

VARIABLES
  servedBy,   \* the thread that serves each reader
  arrived,    \* how many samples arrived; they are numbered in that order
  cache,      \* samples each reader holds, not yet taken
  pc,         \* where each thread is in process_data()
  loan,       \* the reader each thread takes from and the samples left to copy
  pool,       \* sample_pool of each thread: the contents of its objects
  poolIndex,  \* pool_index of each thread
  calls,      \* history: how many times each thread entered process_data()
  q,          \* sample events in the queue
  drops,      \* samples refused by the full queue
  worker,     \* the event the worker converts, and what it has read so far
  emitted     \* history: EVT frames handed to send_frame()

cacheVars == <<arrived, cache>>
threadVars == <<pc, loan, pool, poolIndex, calls>>
queueVars == <<q, drops>>
workerVars == <<worker, emitted>>
vars == <<servedBy, cacheVars, threadVars, queueVars, workerVars>>

Sample == 1..MaxSamples
NoLoan == [reader |-> NoData, rest |-> <<>>]
Idle == [phase |-> "idle"]

Init ==
  /\ servedBy \in [Reader -> Thread]
  /\ arrived = 0 /\ cache = [r \in Reader |-> <<>>]
  /\ pc = [th \in Thread |-> "idle"] /\ loan = [th \in Thread |-> NoLoan]
  /\ pool = [th \in Thread |-> <<>>] /\ poolIndex = [th \in Thread |-> 0]
  /\ calls = [th \in Thread |-> 0]
  /\ q = <<>> /\ drops = 0
  /\ worker = Idle /\ emitted = <<>>

\* A sample arrives from the network.
Arrive(r) ==
  /\ arrived < MaxSamples
  /\ arrived' = arrived + 1
  /\ cache' = [cache EXCEPT ![r] = Append(@, arrived + 1)]
  /\ UNCHANGED <<servedBy, threadVars, queueVars, workerVars>>

(***************************************************************************)
(* process_data().  Samples that carry no valid data leave no trace.       *)
(***************************************************************************)

\* reader->take()
Take(r) ==
  LET th == servedBy[r]
  IN /\ pc[th] = "idle"
     /\ cache[r] # <<>>
     /\ pc' = [pc EXCEPT ![th] = "copy"]
     /\ loan' = [loan EXCEPT ![th] = [reader |-> r, rest |-> cache[r]]]
     /\ cache' = [cache EXCEPT ![r] = <<>>]
     /\ calls' = [calls EXCEPT ![th] = @ + 1]
     /\ UNCHANGED <<servedBy, arrived, pool, poolIndex, queueVars, workerVars>>

\* objects with the i-th one assigned, or created after the others.
Assign(objects, i, value) ==
  IF i <= Len(objects) THEN [objects EXCEPT ![i] = value] ELSE Append(objects, value)

\* Copies into the i-th object and leaves pool_index at n.
CopyInto(th, i, n) ==
  /\ pc[th] = "copy" /\ loan[th].rest # <<>>
  /\ pool' = [pool EXCEPT ![th] = Assign(@, i, Head(loan[th].rest))]
  /\ poolIndex' = [poolIndex EXCEPT ![th] = n]
  /\ pc' = [pc EXCEPT ![th] = "post"]
  /\ UNCHANGED <<servedBy, cacheVars, loan, calls, queueVars, workerVars>>

\* Mutants: pool_index never moves past the first object; it does not move.
CopySampleSameObject(th) == CopyInto(th, 1, 1)
CopySampleUncounted(th) == CopyInto(th, poolIndex[th] + 1, poolIndex[th])

CopySample(th) == CopyInto(th, poolIndex[th] + 1, poolIndex[th] + 1)

\* The assignment throws, and th gets to place: what is left of the loan is
\* lost, and pool_index is not reset.
ThrowTo(th, place) ==
  /\ pc[th] = "copy" /\ loan[th].rest # <<>>
  /\ LET i == poolIndex[th] + 1
     IN IF i <= Len(pool[th])
          THEN /\ pool' = [pool EXCEPT ![th][i] = Torn]
               /\ poolIndex' = [poolIndex EXCEPT ![th] = i]
          ELSE UNCHANGED <<pool, poolIndex>>
  /\ pc' = [pc EXCEPT ![th] = place]
  /\ loan' = [loan EXCEPT ![th] = NoLoan]
  /\ UNCHANGED <<servedBy, cacheVars, calls, queueVars, workerVars>>

\* Mutant: the loop around process_data() does not catch.
CopyThrowsEscapes(th) == ThrowTo(th, "dead")

CopyThrows(th) == ThrowTo(th, "idle")

\* sample_callback_: GatewayApp posts a SampleEvent.
Event(th) ==
  [ reader |-> loan[th].reader, sample |-> Head(loan[th].rest),
    thread |-> th, obj |-> poolIndex[th], call |-> calls[th] ]

\* Offers the event of th to the queue; what is queued then is queued.
Post(th, queued) ==
  /\ pc[th] = "post"
  /\ IF Len(q) < MaxQueue
       THEN q' = queued /\ UNCHANGED drops
       ELSE drops' = drops + 1 /\ UNCHANGED q
  /\ loan' = [loan EXCEPT ![th].rest = Tail(@)]
  /\ pc' = [pc EXCEPT ![th] = "copy"]
  /\ UNCHANGED <<servedBy, cacheVars, pool, poolIndex, calls, workerVars>>

\* Mutant: the newest event goes first.
PostFirst(th) == Post(th, <<Event(th)>> \o q)

PostEvent(th) == Post(th, Append(q, Event(th)))

EndCall(th) ==
  /\ pc[th] = "copy" /\ loan[th].rest = <<>>
  /\ poolIndex' = [poolIndex EXCEPT ![th] = 0]
  /\ pc' = [pc EXCEPT ![th] = "idle"]
  /\ loan' = [loan EXCEPT ![th] = NoLoan]
  /\ UNCHANGED <<servedBy, cacheVars, pool, calls, queueVars, workerVars>>

(***************************************************************************)
(* The worker: emit_evt_from_sample().  dds_to_json() reads the object     *)
(* while its thread may be assigning it again.                             *)
(***************************************************************************)

Contents(ev) == pool[ev.thread][ev.obj]

StartEvent ==
  /\ worker = Idle /\ q # <<>>
  /\ worker' = [phase |-> "convert", ev |-> Head(q), value |-> Contents(Head(q))]
  /\ q' = Tail(q)
  /\ UNCHANGED <<servedBy, cacheVars, threadVars, drops, emitted>>

Emit(value) ==
  /\ emitted' = Append(emitted, [reader |-> worker.ev.reader,
                                 sample |-> worker.ev.sample,
                                 call   |-> worker.ev.call,
                                 thread |-> worker.ev.thread,
                                 value  |-> value])
  /\ worker' = Idle
  /\ UNCHANGED <<servedBy, cacheVars, threadVars, queueVars>>

\* The EVT is sent with what was read, or with null if it does not convert.
EmitEvt ==
  /\ worker # Idle
  /\ \/ Emit(IF Contents(worker.ev) = worker.value THEN worker.value ELSE Torn)
     \/ Emit(NoData)

\* dump() throws on text that is not UTF-8: no EVT; the worker goes on.
EmitThrows ==
  /\ worker # Idle
  /\ worker' = Idle
  /\ UNCHANGED <<servedBy, cacheVars, threadVars, queueVars, emitted>>

ProcessData(th) == CopySample(th) \/ CopyThrows(th) \/ PostEvent(th) \/ EndCall(th)
Work == StartEvent \/ EmitEvt \/ EmitThrows

Next ==
  \/ \E r \in Reader : Arrive(r) \/ Take(r)
  \/ \E th \in Thread : ProcessData(th)
  \/ Work

\* Threads that can run do: a reader with data is served, and jobs run.
Spec ==
  /\ Init /\ [][Next]_vars
  /\ \A r \in Reader : SF_vars(Take(r))
  /\ \A th \in Thread : WF_vars(ProcessData(th))
  /\ WF_vars(Work)

(***************************************************************************)
(* Properties                                                              *)
(***************************************************************************)

EventType ==
  [reader : Reader, sample : Sample, thread : Thread, obj : Nat \ {0}, call : Nat]

TypeOK ==
  /\ servedBy \in [Reader -> Thread]
  /\ arrived \in 0..MaxSamples /\ cache \in [Reader -> Seq(Sample)]
  /\ pc \in [Thread -> {"idle", "copy", "post"}]
  /\ loan \in [Thread -> [reader : Reader \cup {NoData}, rest : Seq(Sample)]]
  /\ pool \in [Thread -> Seq(Sample \cup {Torn})]
  /\ poolIndex \in [Thread -> Nat] /\ calls \in [Thread -> Nat]
  /\ q \in Seq(EventType) /\ drops \in Nat
  /\ worker # Idle => worker.ev \in EventType
  /\ emitted \in Seq([reader : Reader, sample : Sample, call : Nat, thread : Thread,
                      value : Sample \cup {Torn, NoData}])

\* Events the worker has not finished.
Pending == {q[i] : i \in 1..Len(q)} \cup (IF worker = Idle THEN {} ELSE {worker.ev})

\* The object of a pending event holds the event's sample until its thread
\* enters process_data() again.
IntactUntilNextCall ==
  \A e \in Pending : Contents(e) = e.sample \/ calls[e.thread] > e.call

\* So an EVT shows another sample than the one it announces only if the
\* thread was already in a later call when it was sent.
WrongDataMeansLateWorker ==
  \A i \in 1..Len(emitted) :
    LET e == emitted[i]
    IN e.value \in {e.sample, NoData} \/ calls[e.thread] > e.call

\* The EVTs of one reader leave in the order in which its samples arrived,
\* each sample once at most: bursts, drops and failures keep the order.
EmittedInOrder ==
  \A i, j \in 1..Len(emitted) :
    i < j /\ emitted[i].reader = emitted[j].reader =>
      emitted[i].sample < emitted[j].sample

\* Samples are taken in the end, however the readers share their thread, and
\* every event posted is finished.
SamplesFlow == []<>(\A r \in Reader : cache[r] = <<>>) /\ []<>(Pending = {})

\* docs/ipc_json_protocol_v3.0.md says of EVT: topic is the topic the data
\* comes from, and data is the whole sample.  (Torn reads are left aside.)
EvtCarriesItsSample ==
  \A i \in 1..Len(emitted) :
    emitted[i].value \in Sample => emitted[i].value = emitted[i].sample
===============================================================================

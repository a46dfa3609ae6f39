-------------------------- MODULE GatewayLinkProofs --------------------------
(***************************************************************************)
(* Proofs about GatewayLink for every set of UIs and every number of       *)
(* datagrams, samples and sessions.                                        *)
(***************************************************************************)
EXTENDS GatewayLink, FiniteSetTheorems, SequenceTheorems, TLAPS

USE DEF queueVars, linkVars, recvVars, workerVars, ownerVars,
        Queue!Pending, Queue!Accept, Queue!Refuse, Queue!StartJob,
        Queue!FinishJob, Queue!Close, Queue!Open, Working, Owner, EnsureOpen

SafeSpec == Init /\ [][Next]_vars

-------------------------------------------------------------------------------
(***************************************************************************)
(* Types.                                                                  *)
(***************************************************************************)

Classes == {"short", "malformed", "request"}

\* While a datagram is looked at, it is one that a peer has sent.
DatagramReal ==
  rpc \in {"peer", "dispatch"} => datagram \in [from : Peer, class : Classes, corr : Corr]

\* The worker holds a job exactly while it works, and a frame while it sends.
WorkerHolds ==
  /\ wpc = "idle" <=> current = NoJob
  /\ wpc = "port" => frames = 1

TypeInv == TypeOK /\ DatagramReal /\ WorkerHolds

LEMMA NoJobIsNoJob == NoJob \notin Job
  BY DEF NoJob, Job, Command, SampleJob

\* Offering a job to the queue, which a request and a sample do, keeps the types.
LEMMA AcceptTyped ==
  ASSUME TypeOK, NEW j \in Job, Queue!Accept(j) \/ Queue!Refuse
  PROVE  /\ accepted' \in Seq(Job) /\ next' \in Nat \ {0} /\ lost' \in Nat
         /\ UNCHANGED <<current, open, discards, next>>
<1>1. Append(accepted, j) \in Seq(Job)
  BY AppendProperties DEF TypeOK
<1>2. accepted' \in Seq(Job)
  BY <1>1 DEF TypeOK
<1>3. next' \in Nat \ {0}
  BY DEF TypeOK
<1>4. lost' \in Nat
  BY DEF TypeOK
<1> QED
  BY <1>2, <1>3, <1>4

LEMMA TypeInvInit == ConstantsAssumption /\ Init => TypeInv
<1> SUFFICES ASSUME ConstantsAssumption, Init PROVE TypeInv
  OBVIOUS
<1>1. accepted \in Seq(Job) /\ sent \in Seq(Frame)
  BY EmptySeq DEF Init
<1>2. lastPeer \in [addr : Addr, port : Port, valid : BOOLEAN] /\ dest \in Addr
  BY DEF Init, NoPeer, Addr, Port
<1>3. TypeOK
  <2>1. open \in BOOLEAN /\ ipc \in BOOLEAN /\ sock \in BOOLEAN /\ running \in BOOLEAN
    BY DEF Init
  <2>2. current \in Job \cup {NoJob}
    BY DEF Init
  <2>3. next \in Nat \ {0} /\ lost \in Nat /\ discards = FALSE
    BY DEF Init
  <2>4. frames \in 0..1 /\ session \in Nat /\ received \in Nat /\ posted \in Nat
    BY DEF Init
  <2> QED BY <1>1, <1>2, <2>1, <2>2, <2>3, <2>4 DEF Init, TypeOK
<1>4. DatagramReal /\ WorkerHolds
  BY DEF Init, DatagramReal, WorkerHolds
<1> QED
  BY <1>3, <1>4 DEF TypeInv

LEMMA ReceiveKeepsTypes ==
  ASSUME ConstantsAssumption, TypeInv,
         NEW from \in Peer, NEW class \in Classes, NEW corr \in Corr,
         RecvFrom(from, class, corr)
  PROVE  TypeInv'
<1> USE DEF TypeInv, TypeOK, DatagramReal, WorkerHolds
<1>1. CASE class = "short"
  BY <1>1 DEF RecvFrom
<1>2. CASE class # "short"
  BY <1>2 DEF RecvFrom, ConstantsAssumption, Fields
<1> QED BY <1>1, <1>2

LEMMA RecvStepKeepsTypes ==
  ASSUME ConstantsAssumption, TypeInv, RecvStep
  PROVE  TypeInv'
<1> USE DEF TypeInv, TypeOK, DatagramReal, WorkerHolds
<1>1. CASE RecvTest BY <1>1 DEF RecvTest
<1>2. CASE RecvTimeout BY <1>2 DEF RecvTimeout
<1>3. ASSUME NEW field \in Fields, WritePeer(field) PROVE TypeInv'
  <2>1. datagram.from[1] \in Addr /\ datagram.from[2] \in Port
    BY <1>3 DEF WritePeer, Addr, Port
  <2>2. lastPeer' \in [addr : Addr, port : Port, valid : BOOLEAN]
    <3>1. CASE field = "addr" BY <1>3, <2>1, <3>1 DEF WritePeer
    <3>2. CASE field = "port" BY <1>3, <2>1, <3>2 DEF WritePeer
    <3>3. CASE field = "valid" BY <1>3, <3>3 DEF WritePeer
    <3> QED BY <3>1, <3>2, <3>3 DEF Fields
  <2> QED BY <1>3, <2>2 DEF WritePeer
<1>4. CASE Dispatch
  <2> DEFINE j == [kind |-> "command", corr |-> datagram.corr,
                   from |-> datagram.from, session |-> session]
  <2>1. CASE datagram.class = "request"
    <3>1. j \in Job
      BY <1>4 DEF Dispatch, Job, Command
    <3>2. Queue!Accept(j) \/ Queue!Refuse
      BY <1>4, <2>1 DEF Dispatch, Deliver
    <3>3. /\ accepted' \in Seq(Job) /\ next' \in Nat \ {0} /\ lost' \in Nat
          /\ UNCHANGED <<current, open, discards>>
      BY <3>1, <3>2, AcceptTyped
    <3>4. /\ rpc' = "test"
          /\ UNCHANGED <<linkVars, datagram, unwritten, received, sources, workerVars,
                         ownerVars, posted>>
      BY <1>4 DEF Dispatch, Deliver
    <3> QED BY <3>3, <3>4
  <2>2. CASE datagram.class # "request"
    BY <1>4, <2>2 DEF Dispatch, Deliver
  <2> QED BY <2>1, <2>2
<1> QED BY <1>1, <1>2, <1>3, <1>4 DEF RecvStep

LEMMA WorkerStepKeepsTypes ==
  ASSUME ConstantsAssumption, TypeInv, WorkerStep
  PROVE  TypeInv'
<1> USE DEF TypeInv, TypeOK, DatagramReal, WorkerHolds
<1>1. CASE StartJob
  <2>1. Len(accepted) \in Nat
    BY LenProperties
  <2>2. next \in 1..Len(accepted)
    BY <1>1, <2>1 DEF StartJob
  <2>3. accepted[next] \in Job
    BY <2>2, ElementOfSeq
  <2>4. /\ current' = accepted[next] /\ next' = next + 1 /\ wpc' = "run"
        /\ UNCHANGED <<accepted, lost, open, discards, linkVars, recvVars, frames, dest,
                       sent, ownerVars, posted>>
    BY <1>1 DEF StartJob
  <2>5. next' \in Nat \ {0} /\ current' \in Job
    BY <2>3, <2>4
  <2> QED BY <2>4, <2>5, NoJobIsNoJob
<1>2. CASE RunJob
  BY <1>2 DEF RunJob, Outcomes
<1>3. CASE SendRefused
  BY <1>3 DEF SendRefused
<1>4. CASE SendReadAddr
  BY <1>4 DEF SendReadAddr
<1>5. CASE SendTo
  <2> DEFINE f == [job |-> current, pos |-> next - 1, sources |-> sources,
                   session |-> session, to |-> <<dest, lastPeer.port>>]
  <2>1. f \in Frame
    BY <1>5 DEF SendTo, Frame
  <2>2. Append(sent, f) \in Seq(Frame)
    BY <2>1, AppendProperties
  <2>3. frames' \in 0..1
    BY <1>5 DEF SendTo
  <2> QED BY <1>5, <2>2, <2>3 DEF SendTo
<1>6. CASE FinishJob
  BY <1>6 DEF FinishJob
<1> QED BY <1>1, <1>2, <1>3, <1>4, <1>5, <1>6 DEF WorkerStep

LEMMA OwnerStepKeepsTypes ==
  ASSUME ConstantsAssumption, TypeInv, OwnerStep
  PROVE  TypeInv'
<1> USE DEF TypeInv, TypeOK, DatagramReal, WorkerHolds
<1>1. CASE StartServer
  <2>1. NoPeer \in [addr : Addr, port : Port, valid : BOOLEAN]
    BY DEF NoPeer, Addr, Port
  <2>2. open' \in BOOLEAN /\ ipc' \in BOOLEAN /\ sock' \in BOOLEAN /\ running' \in BOOLEAN
    BY <1>1 DEF StartServer
  <2>3. UNCHANGED <<accepted, next, current, lost, discards>>
    BY <1>1 DEF StartServer
  <2> QED BY <1>1, <2>1, <2>2, <2>3 DEF StartServer
<1>2. CASE StartServerFails
  <2>1. open' \in BOOLEAN /\ ipc' \in BOOLEAN /\ sock' \in BOOLEAN /\ running' \in BOOLEAN
    BY <1>2 DEF StartServerFails
  <2>2. UNCHANGED <<accepted, next, current, lost, discards>>
    BY <1>2 DEF StartServerFails
  <2> QED BY <1>2, <2>1, <2>2 DEF StartServerFails
<1>3. CASE Stop BY <1>3 DEF Stop
<1>4. CASE StopAsyncJoined
  <2>1. Len(accepted) \in Nat
    BY LenProperties
  <2>2. open' \in BOOLEAN /\ ipc' \in BOOLEAN /\ sock' \in BOOLEAN /\ running' \in BOOLEAN
    BY <1>4 DEF StopAsyncJoined
  <2>3. /\ next' = Len(accepted) + 1 /\ lost' = lost + ((Len(accepted) + 1) - next)
        /\ (Len(accepted) + 1) - next = 0 \/ discards
        /\ UNCHANGED <<accepted, current, discards>>
    BY <1>4 DEF StopAsyncJoined
  <2>4. lost' = lost + 0
    BY <2>3
  <2>5. next' \in Nat \ {0} /\ lost' \in Nat
    BY <2>1, <2>3, <2>4
  <2> QED BY <1>4, <2>2, <2>3, <2>5 DEF StopAsyncJoined
<1>5. CASE StopLinkJoined BY <1>5 DEF StopLinkJoined
<1> QED BY <1>1, <1>2, <1>3, <1>4, <1>5 DEF OwnerStep

LEMMA TypeInvNext == ConstantsAssumption /\ TypeInv /\ [Next]_vars => TypeInv'
<1> SUFFICES ASSUME ConstantsAssumption, TypeInv, [Next]_vars PROVE TypeInv'
  OBVIOUS
<1>1. CASE PostSample
  <2>1. SampleJob \in Job
    BY DEF Job
  <2>2. Queue!Accept(SampleJob) \/ Queue!Refuse
    BY <1>1 DEF PostSample
  <2>3. /\ accepted' \in Seq(Job) /\ next' \in Nat \ {0} /\ lost' \in Nat
        /\ UNCHANGED <<current, open, discards, next>>
    BY <2>1, <2>2, AcceptTyped DEF TypeInv
  <2> QED
    BY <1>1, <2>3 DEF PostSample, TypeInv, TypeOK, DatagramReal, WorkerHolds
<1>2. CASE UNCHANGED vars
  BY <1>2 DEF vars, TypeInv, TypeOK, DatagramReal, WorkerHolds
<1> QED
  BY <1>1, <1>2, ReceiveKeepsTypes, RecvStepKeepsTypes, WorkerStepKeepsTypes,
     OwnerStepKeepsTypes
  DEF Next, Classes

LEMMA AlwaysTypeInv == SafeSpec => []TypeInv
  BY ConstantsAssumption, TypeInvInit, TypeInvNext, PTL DEF SafeSpec

\* Every variable of the gateway keeps its type.
THEOREM LinkTypeCorrect == Spec => []TypeOK
<1>1. TypeInv => TypeOK
  BY DEF TypeInv
<1>2. Spec => SafeSpec
  BY PTL DEF Spec, SafeSpec
<1> QED BY <1>1, <1>2, AlwaysTypeInv, PTL

-------------------------------------------------------------------------------
(***************************************************************************)
(* The order of stop().                                                    *)
(***************************************************************************)

\* What exists in each phase of the owner.  The worker's own part is that it
\* is idle once the processor is closed, which is before the link goes down.
Lifecycle ==
  /\ sock <=> rpc # "none"
  /\ opc = "up" => open /\ sock
  /\ opc = "down" => ~sock /\ ~running
  /\ opc = "stopAsync" => open
  /\ opc = "stopLink" => ~open /\ ~running
  /\ ~open => current = NoJob
  /\ wpc = "port" => sock

LEMMA LifecycleInit == Init => Lifecycle
  BY DEF Init, Lifecycle

LEMMA LifecycleNext == TypeInv /\ Lifecycle /\ [Next]_vars => Lifecycle'
<1> SUFFICES ASSUME TypeInv, Lifecycle, [Next]_vars PROVE Lifecycle'
  OBVIOUS
<1> USE DEF TypeInv, TypeOK, WorkerHolds, Lifecycle
<1>1. ASSUME NEW from, NEW class, NEW corr, RecvFrom(from, class, corr)
      PROVE  Lifecycle'
  BY <1>1 DEF RecvFrom
<1>2. CASE RecvStep
  <2>1. CASE RecvTest BY <2>1 DEF RecvTest
  <2>2. CASE RecvTimeout BY <2>2 DEF RecvTimeout
  <2>3. CASE Dispatch BY <2>3 DEF Dispatch, Deliver
  <2>4. ASSUME NEW field \in Fields, WritePeer(field) PROVE Lifecycle'
    BY <2>4 DEF WritePeer
  <2> QED BY <1>2, <2>1, <2>2, <2>3, <2>4 DEF RecvStep
<1>3. CASE PostSample
  BY <1>3 DEF PostSample
<1>4. CASE WorkerStep
  <2>1. CASE StartJob BY <2>1 DEF StartJob
  <2>2. CASE RunJob BY <2>2 DEF RunJob
  <2>3. CASE SendRefused BY <2>3 DEF SendRefused
  <2>4. CASE SendReadAddr BY <2>4 DEF SendReadAddr
  <2>5. CASE SendTo BY <2>5 DEF SendTo
  <2>6. CASE FinishJob BY <2>6 DEF FinishJob
  <2> QED BY <1>4, <2>1, <2>2, <2>3, <2>4, <2>5, <2>6 DEF WorkerStep
<1>5. CASE OwnerStep
  <2>1. CASE StartServer BY <2>1 DEF StartServer
  <2>2. CASE StartServerFails BY <2>2 DEF StartServerFails
  <2>3. CASE Stop BY <2>3 DEF Stop
  <2>4. CASE StopAsyncJoined BY <2>4 DEF StopAsyncJoined
  <2>5. CASE StopLinkJoined BY <2>5 DEF StopLinkJoined
  <2> QED BY <1>5, <2>1, <2>2, <2>3, <2>4, <2>5 DEF OwnerStep
<1>6. CASE UNCHANGED vars
  BY <1>6 DEF vars
<1> QED
  BY <1>1, <1>2, <1>3, <1>4, <1>5, <1>6 DEF Next

LEMMA AlwaysLifecycle == SafeSpec => [](TypeInv /\ Lifecycle)
  BY AlwaysTypeInv, LifecycleInit, LifecycleNext, PTL DEF SafeSpec

\* The worker is never inside send_raw() when stop() closes the socket.
THEOREM NothingSentOnAClosedLink == Spec => []NoSendAfterClose
<1>1. TypeInv /\ Lifecycle => NoSendAfterClose
  BY DEF TypeInv, TypeOK, WorkerHolds, Lifecycle, NoSendAfterClose
<1>2. Spec => SafeSpec
  BY PTL DEF Spec, SafeSpec
<1> QED BY <1>1, <1>2, AlwaysLifecycle, PTL

\* When stop() has returned, no receive thread can call back.
THEOREM NothingReceivedAfterStop == Spec => []NoReceiveAfterStop
<1>1. Lifecycle => NoReceiveAfterStop
  BY DEF Lifecycle, NoReceiveAfterStop
<1>2. Spec => SafeSpec
  BY PTL DEF Spec, SafeSpec
<1> QED BY <1>1, <1>2, AlwaysLifecycle, PTL

-------------------------------------------------------------------------------
(***************************************************************************)
(* One frame for a job, in order.                                          *)
(***************************************************************************)

\* Every frame sent is of a job that was started; the job being run has sent
\* none while it still has one to send.
FramesBehind ==
  /\ \A i \in 1..Len(sent) : sent[i].pos < next
  /\ wpc = "run" \/ frames > 0 => \A i \in 1..Len(sent) : sent[i].pos + 1 < next
  /\ wpc \in {"idle", "run"} => frames = 0

FrameOrder == OneFramePerJobInOrder /\ FramesBehind

LEMMA FrameOrderInit == Init => FrameOrder
  BY EmptySeq DEF Init, FrameOrder, FramesBehind, OneFramePerJobInOrder

LEMMA FrameOrderWorker == TypeInv /\ FrameOrder /\ WorkerStep => FrameOrder'
<1> SUFFICES ASSUME TypeInv, FrameOrder, WorkerStep PROVE FrameOrder'
  OBVIOUS
<1> USE DEF FrameOrder, FramesBehind, OneFramePerJobInOrder
<1>0. /\ next \in Nat \ {0} /\ frames \in 0..1 /\ Len(sent) \in Nat
      /\ \A i \in 1..Len(sent) : sent[i].pos \in Nat
      /\ wpc = "port" => frames = 1
  <2>1. sent \in Seq(Frame)
    BY DEF TypeInv, TypeOK
  <2>2. \A i \in 1..Len(sent) : sent[i] \in Frame
    BY <2>1, ElementOfSeq
  <2> QED BY <2>1, <2>2, LenProperties DEF TypeInv, TypeOK, WorkerHolds, Frame
<1>1. CASE StartJob BY <1>0, <1>1 DEF StartJob
<1>2. CASE RunJob BY <1>0, <1>2 DEF RunJob, Outcomes
<1>3. CASE SendRefused BY <1>0, <1>3 DEF SendRefused
<1>4. CASE SendReadAddr BY <1>0, <1>4 DEF SendReadAddr
<1>5. CASE SendTo
  <2> DEFINE f == [job |-> current, pos |-> next - 1, sources |-> sources,
                   session |-> session, to |-> <<dest, lastPeer.port>>]
  <2>1. next' = next /\ wpc' = "send" /\ frames' = 0
    BY <1>0, <1>5 DEF SendTo
  <2>2. CASE UNCHANGED sent
    BY <1>0, <2>1, <2>2
  <2>3. CASE sent' = Append(sent, f)
    <3>1. f \in Frame
      BY <1>5 DEF SendTo, Frame, TypeInv, TypeOK, WorkerHolds
    <3>2. /\ Len(sent') = Len(sent) + 1
          /\ \A i \in 1..Len(sent) : sent'[i] = sent[i]
          /\ sent'[Len(sent) + 1].pos = next - 1
      BY <2>3, <3>1, AppendProperties DEF TypeInv, TypeOK
    <3>3. \A i \in 1..Len(sent) : sent[i].pos + 1 < next
      BY <1>0, <1>5 DEF SendTo
    <3>4. \A i \in 1..Len(sent') : sent'[i].pos < next'
      BY <1>0, <2>1, <3>2
    <3>5. ASSUME NEW i \in 1..Len(sent'), NEW k \in 1..Len(sent'), i < k
          PROVE  sent'[i].pos < sent'[k].pos
      <4>1. i \in 1..Len(sent) /\ sent'[i] = sent[i] /\ sent[i].pos \in Nat
        BY <1>0, <3>2, <3>5
      <4>2. CASE k \in 1..Len(sent)
        BY <3>2, <3>5, <4>1, <4>2
      <4>3. CASE k = Len(sent) + 1
        BY <1>0, <3>2, <3>3, <4>1, <4>3
      <4> QED BY <1>0, <3>2, <4>2, <4>3
    <3> QED BY <2>1, <3>4, <3>5
  <2> QED BY <1>5, <2>2, <2>3 DEF SendTo
<1>6. CASE FinishJob BY <1>0, <1>6 DEF FinishJob
<1> QED BY <1>1, <1>2, <1>3, <1>4, <1>5, <1>6 DEF WorkerStep

LEMMA FrameOrderNext == TypeInv /\ FrameOrder /\ [Next]_vars => FrameOrder'
<1> SUFFICES ASSUME TypeInv, FrameOrder, [Next]_vars PROVE FrameOrder'
  OBVIOUS
<1> USE DEF FrameOrder, FramesBehind, OneFramePerJobInOrder
<1>1. ASSUME NEW from, NEW class, NEW corr, RecvFrom(from, class, corr)
      PROVE  FrameOrder'
  BY <1>1 DEF RecvFrom
<1>2. CASE RecvStep
  BY <1>2 DEF RecvStep, RecvTest, RecvTimeout, Dispatch, Deliver, WritePeer
<1>3. CASE PostSample
  BY <1>3 DEF PostSample
<1>4. CASE WorkerStep
  BY <1>4, FrameOrderWorker
<1>5. CASE StartServer \/ StartServerFails \/ Stop \/ StopLinkJoined
  BY <1>5 DEF StartServer, StartServerFails, Stop, StopLinkJoined
<1>6. CASE StopAsyncJoined
  <2>1. next' = next
    <3>1. Len(accepted) \in Nat
      BY LenProperties DEF TypeInv, TypeOK
    <3> QED BY <1>6, <3>1 DEF StopAsyncJoined, TypeInv, TypeOK
  <2> QED BY <1>6, <2>1 DEF StopAsyncJoined
<1>7. CASE UNCHANGED vars
  BY <1>7 DEF vars
<1> QED
  BY <1>1, <1>2, <1>3, <1>4, <1>5, <1>6, <1>7 DEF Next, OwnerStep

\* At most one frame leaves for a job, and frames leave in the order in which
\* their jobs were accepted, over restarts too.
THEOREM OneFramePerJob == Spec => []OneFramePerJobInOrder
<1>1. SafeSpec => []FrameOrder
  BY AlwaysTypeInv, FrameOrderInit, FrameOrderNext, PTL DEF SafeSpec
<1>2. FrameOrder => OneFramePerJobInOrder
  BY DEF FrameOrder
<1>3. Spec => SafeSpec
  BY PTL DEF Spec, SafeSpec
<1> QED BY <1>1, <1>2, <1>3, PTL

-------------------------------------------------------------------------------
(***************************************************************************)
(* A UI that is alone gets its replies.  The argument: a command of this   *)
(* session was posted after its sender had become the last peer, and as    *)
(* long as nobody else sends, every later write to last_peer_ writes what  *)
(* is there already.                                                       *)
(***************************************************************************)

\* p has sent in this session; if nobody else has, it is the last peer.
PeerKnown(p) ==
  /\ p \in sources
  /\ sources = {p} => lastPeer.addr = p[1] /\ lastPeer.port = p[2]

\* The same of the fields the receive thread has assigned so far.
DatagramKnown ==
  rpc \in {"peer", "dispatch"} =>
    /\ datagram.from \in sources
    /\ sources = {datagram.from} =>
         /\ "addr" \notin unwritten => lastPeer.addr = datagram.from[1]
         /\ "port" \notin unwritten => lastPeer.port = datagram.from[2]
    /\ rpc = "dispatch" => unwritten = {}

\* A job is of an earlier session or its sender is known.
JobKnown(j) ==
  j.kind = "command" =>
    /\ j.session <= session
    /\ j.session = session => PeerKnown(j.from)

QueueKnown == \A i \in 1..Len(accepted) : JobKnown(accepted[i])
CurrentKnown == JobKnown(current)

\* What send_raw() has read is the address of the only UI.
DestKnown ==
  wpc = "port" /\ current.kind = "command" /\ current.session = session
    /\ sources = {current.from} => dest = current.from[1]

Known == DatagramKnown /\ QueueKnown /\ CurrentKnown /\ DestKnown

Replies == SinglePeerGetsItsReplies /\ Known /\ IsFiniteSet(sources)

LEMMA SampleKnown == JobKnown(SampleJob) /\ JobKnown(NoJob)
  BY DEF JobKnown, SampleJob, NoJob

LEMMA RepliesInit == Init => Replies
<1> SUFFICES ASSUME Init PROVE Replies
  OBVIOUS
<1>1. IsFiniteSet(sources)
  BY FS_EmptySet DEF Init
<1>2. SinglePeerGetsItsReplies /\ QueueKnown
  BY EmptySeq DEF Init, SinglePeerGetsItsReplies, QueueKnown
<1>3. CurrentKnown
  BY SampleKnown DEF Init, CurrentKnown
<1>4. DatagramKnown /\ DestKnown
  BY DEF Init, DatagramKnown, DestKnown
<1> QED BY <1>1, <1>2, <1>3, <1>4 DEF Replies, Known

\* Offering the job of a sender that is known, or of nobody.
LEMMA OfferKeepsKnown ==
  ASSUME TypeInv, QueueKnown, UNCHANGED <<session, sources, lastPeer>>,
         NEW j \in Job, JobKnown(j), Queue!Accept(j) \/ Queue!Refuse
  PROVE  QueueKnown'
<1>1. \A k : JobKnown(k) => JobKnown(k)'
  BY DEF JobKnown, PeerKnown
<1>2. CASE Queue!Refuse
  BY <1>1, <1>2 DEF QueueKnown
<1>3. CASE Queue!Accept(j)
  <2>1. /\ Len(accepted') = Len(accepted) + 1 /\ Len(accepted) \in Nat
        /\ \A i \in 1..Len(accepted) : accepted'[i] = accepted[i]
        /\ accepted'[Len(accepted) + 1] = j
    BY <1>3, AppendProperties, LenProperties DEF TypeInv, TypeOK
  <2>2. ASSUME NEW i \in 1..Len(accepted') PROVE JobKnown(accepted[i])'
    <3>1. CASE i \in 1..Len(accepted)
      BY <2>1, <3>1 DEF QueueKnown, JobKnown, PeerKnown
    <3>2. CASE i = Len(accepted) + 1
      BY <2>1, <3>2 DEF JobKnown, PeerKnown
    <3> QED BY <2>1, <3>1, <3>2
  <2> QED BY <2>2 DEF QueueKnown
<1> QED BY <1>2, <1>3

LEMMA ReceiveKeepsReplies ==
  ASSUME TypeInv, Replies,
         NEW from \in Peer, NEW class \in Classes, NEW corr \in Corr,
         RecvFrom(from, class, corr)
  PROVE  Replies'
<1>1. SinglePeerGetsItsReplies'
  BY DEF RecvFrom, Replies, SinglePeerGetsItsReplies
<1>2. CASE class = "short"
  BY <1>1, <1>2
  DEF RecvFrom, Replies, Known, DatagramKnown, QueueKnown, CurrentKnown, DestKnown,
      JobKnown, PeerKnown
<1>3. CASE class # "short"
  <2>1. /\ sources' = sources \cup {from} /\ datagram'.from = from
        /\ unwritten' = Fields /\ rpc' = "peer"
        /\ UNCHANGED <<accepted, current, session, lastPeer, wpc, dest, sent>>
    BY <1>3 DEF RecvFrom
  <2>2. IsFiniteSet(sources')
    BY <2>1, FS_AddElement DEF Replies
  <2>3. DatagramKnown'
    BY <2>1 DEF DatagramKnown, Fields
  <2>4. QueueKnown' /\ CurrentKnown'
    BY <2>1 DEF Replies, Known, QueueKnown, CurrentKnown, JobKnown, PeerKnown
  <2>5. DestKnown'
    BY <2>1 DEF Replies, Known, CurrentKnown, DestKnown, JobKnown, PeerKnown
  <2> QED BY <1>1, <2>2, <2>3, <2>4, <2>5 DEF Replies, Known
<1> QED BY <1>2, <1>3

LEMMA WritePeerKeepsReplies ==
  ASSUME TypeInv, Replies, NEW field \in Fields, WritePeer(field)
  PROVE  Replies'
<1>1. /\ rpc = "peer" /\ unwritten' = unwritten \ {field}
      /\ rpc' = (IF unwritten' = {} THEN "dispatch" ELSE "peer")
      /\ UNCHANGED <<accepted, current, session, sources, datagram, wpc, dest, sent>>
  BY DEF WritePeer
<1>2. /\ lastPeer'.addr = (IF field = "addr" THEN datagram.from[1] ELSE lastPeer.addr)
      /\ lastPeer'.port = (IF field = "port" THEN datagram.from[2] ELSE lastPeer.port)
  <2>1. lastPeer \in [addr : Addr, port : Port, valid : BOOLEAN]
    BY DEF TypeInv, TypeOK
  <2>2. CASE field = "addr" BY <2>1, <2>2 DEF WritePeer
  <2>3. CASE field = "port" BY <2>1, <2>3 DEF WritePeer
  <2>4. CASE field = "valid" BY <2>1, <2>4 DEF WritePeer
  <2> QED BY <2>2, <2>3, <2>4 DEF Fields
<1>3. SinglePeerGetsItsReplies'
  BY <1>1 DEF Replies, SinglePeerGetsItsReplies
<1>4. DatagramKnown'
  BY <1>1, <1>2 DEF Replies, Known, DatagramKnown
<1>5. QueueKnown' /\ CurrentKnown'
  BY <1>1, <1>2
  DEF Replies, Known, DatagramKnown, QueueKnown, CurrentKnown, JobKnown, PeerKnown
<1>6. DestKnown'
  BY <1>1 DEF Replies, Known, DestKnown
<1> QED BY <1>1, <1>3, <1>4, <1>5, <1>6 DEF Replies, Known

LEMMA DispatchKeepsReplies ==
  ASSUME TypeInv, Replies, Dispatch
  PROVE  Replies'
<1> DEFINE j == [kind |-> "command", corr |-> datagram.corr,
                 from |-> datagram.from, session |-> session]
<1>1. /\ rpc = "dispatch" /\ rpc' = "test"
      /\ UNCHANGED <<current, session, sources, lastPeer, wpc, dest, sent>>
  BY DEF Dispatch, Deliver
<1>2. j \in Job /\ JobKnown(j)
  <2>1. j \in Job
    BY <1>1 DEF Job, Command, TypeInv, TypeOK, DatagramReal
  <2>2. PeerKnown(datagram.from)
    BY <1>1 DEF Replies, Known, DatagramKnown, PeerKnown
  <2>3. session \in Nat
    BY DEF TypeInv, TypeOK
  <2> QED BY <2>1, <2>2, <2>3 DEF JobKnown
<1>3. QueueKnown'
  <2>1. CASE datagram.class = "request"
    <3>1. Queue!Accept(j) \/ Queue!Refuse
      BY <2>1 DEF Dispatch, Deliver
    <3> QED BY <1>1, <1>2, <3>1, OfferKeepsKnown DEF Replies, Known
  <2>2. CASE datagram.class # "request"
    <3>1. UNCHANGED accepted
      BY <2>2 DEF Dispatch, Deliver
    <3> QED BY <1>1, <3>1 DEF Replies, Known, QueueKnown, JobKnown, PeerKnown
  <2> QED BY <2>1, <2>2
<1>4. SinglePeerGetsItsReplies'
  BY <1>1 DEF Replies, SinglePeerGetsItsReplies
<1>5. DatagramKnown' /\ CurrentKnown' /\ DestKnown'
  BY <1>1 DEF Replies, Known, DatagramKnown, CurrentKnown, DestKnown, JobKnown, PeerKnown
<1> QED BY <1>1, <1>3, <1>4, <1>5 DEF Replies, Known

LEMMA WorkerKeepsReplies ==
  ASSUME ConstantsAssumption, TypeInv, Replies, WorkerStep
  PROVE  Replies'
<1>1. /\ UNCHANGED <<accepted, session, sources, lastPeer, rpc, datagram, unwritten>>
  BY DEF WorkerStep, StartJob, RunJob, SendRefused, SendReadAddr, SendTo, FinishJob
<1>2. QueueKnown' /\ DatagramKnown'
  BY <1>1 DEF Replies, Known, QueueKnown, DatagramKnown, JobKnown, PeerKnown
<1> SUFFICES SinglePeerGetsItsReplies' /\ CurrentKnown' /\ DestKnown'
  BY <1>1, <1>2 DEF Replies, Known
<1>3. CASE StartJob
  <2>1. next \in 1..Len(accepted)
    BY <1>3, LenProperties DEF StartJob, TypeInv, TypeOK
  <2>2. JobKnown(accepted[next])
    BY <2>1 DEF Replies, Known, QueueKnown
  <2>3. CurrentKnown'
    BY <1>1, <1>3, <2>2 DEF StartJob, CurrentKnown, JobKnown, PeerKnown
  <2> QED BY <1>3, <2>3 DEF StartJob, Replies, SinglePeerGetsItsReplies, DestKnown
<1>4. CASE RunJob \/ SendRefused
  BY <1>1, <1>4 DEF RunJob, SendRefused, Replies, Known, SinglePeerGetsItsReplies,
                    CurrentKnown, DestKnown, JobKnown, PeerKnown
<1>5. CASE SendReadAddr
  BY <1>1, <1>5 DEF SendReadAddr, Replies, Known, SinglePeerGetsItsReplies,
                    CurrentKnown, DestKnown, JobKnown, PeerKnown
<1>6. CASE FinishJob
  <2>1. CurrentKnown'
    BY <1>6 DEF FinishJob, CurrentKnown, JobKnown, NoJob
  <2> QED BY <1>6, <2>1 DEF FinishJob, Replies, SinglePeerGetsItsReplies, DestKnown
<1>7. CASE SendTo
  <2> DEFINE f == [job |-> current, pos |-> next - 1, sources |-> sources,
                   session |-> session, to |-> <<dest, lastPeer.port>>]
  <2>1. CurrentKnown' /\ DestKnown'
    BY <1>1, <1>7 DEF SendTo, Replies, Known, CurrentKnown, DestKnown, JobKnown, PeerKnown
  <2>2. CASE UNCHANGED sent
    BY <2>1, <2>2 DEF Replies, SinglePeerGetsItsReplies
  <2>3. CASE sent' = Append(sent, f)
    <3>1. f \in Frame
      BY <1>7 DEF SendTo, Frame, TypeInv, TypeOK, WorkerHolds
    <3>2. /\ Len(sent') = Len(sent) + 1 /\ Len(sent) \in Nat
          /\ \A i \in 1..Len(sent) : sent'[i] = sent[i]
          /\ sent'[Len(sent) + 1] = f
      BY <2>3, <3>1, AppendProperties, LenProperties DEF TypeInv, TypeOK
    <3>3. ASSUME current.kind = "command", current.session = session,
                 Cardinality(sources) = 1
          PROVE  <<dest, lastPeer.port>> = current.from
      <4>1. PeerKnown(current.from)
        BY <3>3 DEF Replies, Known, CurrentKnown, JobKnown
      <4>2. sources = {current.from}
        BY <3>3, <4>1, FS_Singleton DEF Replies, PeerKnown
      <4>3. dest = current.from[1] /\ lastPeer.port = current.from[2]
        BY <1>7, <3>3, <4>1, <4>2 DEF SendTo, Replies, Known, DestKnown, PeerKnown
      <4>4. current.from \in Peer
        BY <4>1 DEF PeerKnown, TypeInv, TypeOK
      <4>5. current.from = <<current.from[1], current.from[2]>>
        BY <4>4 DEF ConstantsAssumption
      <4> QED BY <4>3, <4>5
    <3>4. SinglePeerGetsItsReplies'
      <4>1. ASSUME NEW i \in 1..Len(sent'), sent'[i].job.kind = "command",
                   sent'[i].job.session = sent'[i].session,
                   Cardinality(sent'[i].sources) = 1
            PROVE  sent'[i].to = sent'[i].job.from
        <5>1. CASE i \in 1..Len(sent)
          BY <3>2, <4>1, <5>1 DEF Replies, SinglePeerGetsItsReplies
        <5>2. CASE i = Len(sent) + 1
          BY <3>2, <3>3, <4>1, <5>2
        <5> QED BY <3>2, <5>1, <5>2
      <4> QED BY <4>1 DEF SinglePeerGetsItsReplies
    <3> QED BY <2>1, <3>4
  <2> QED BY <1>7, <2>2, <2>3 DEF SendTo
<1> QED BY <1>3, <1>4, <1>5, <1>6, <1>7 DEF WorkerStep

\* A session begins: every job there is belongs to an earlier one.
LEMMA OwnerKeepsReplies ==
  ASSUME TypeInv, Lifecycle, Replies, OwnerStep
  PROVE  Replies'
<1>1. UNCHANGED <<accepted, current, dest, sent, wpc, datagram, unwritten>>
  BY DEF OwnerStep, StartServer, StartServerFails, Stop, StopAsyncJoined, StopLinkJoined
<1>2. SinglePeerGetsItsReplies'
  BY <1>1 DEF Replies, SinglePeerGetsItsReplies
<1>3. CASE StartServer \/ StartServerFails
  <2>1. session' = session + 1 /\ wpc # "port" /\ rpc' \notin {"peer", "dispatch"}
    BY <1>3 DEF StartServer, StartServerFails, Lifecycle, TypeInv, TypeOK
  <2>2. IsFiniteSet(sources')
    BY <1>3, FS_EmptySet DEF StartServer, StartServerFails, Replies
  <2>3. ASSUME NEW j \in Job, JobKnown(j) PROVE JobKnown(j)'
    <3>1. session \in Nat /\ (j.kind = "command" => j.session \in Nat)
      BY DEF TypeInv, TypeOK, Job, Command, SampleJob
    <3> QED BY <2>1, <2>3, <3>1 DEF JobKnown
  <2>4. \A i \in 1..Len(accepted) : accepted[i] \in Job
    BY ElementOfSeq DEF TypeInv, TypeOK
  <2>5. QueueKnown'
    BY <1>1, <2>3, <2>4 DEF Replies, Known, QueueKnown, JobKnown, PeerKnown
  <2>6. CurrentKnown'
    <3>1. CASE current \in Job
      BY <1>1, <2>3, <3>1 DEF Replies, Known, CurrentKnown, JobKnown, PeerKnown
    <3>2. CASE current = NoJob
      BY <1>1, <3>2 DEF CurrentKnown, JobKnown, NoJob
    <3> QED BY <3>1, <3>2 DEF TypeInv, TypeOK
  <2>7. DatagramKnown' /\ DestKnown'
    BY <1>1, <2>1 DEF DatagramKnown, DestKnown
  <2> QED BY <1>2, <2>2, <2>5, <2>6, <2>7 DEF Replies, Known
<1>4. CASE Stop \/ StopAsyncJoined \/ StopLinkJoined
  <2>1. /\ UNCHANGED <<session, sources, lastPeer>>
        /\ rpc' \in {"peer", "dispatch"} => rpc' = rpc
    BY <1>4 DEF Stop, StopAsyncJoined, StopLinkJoined
  <2> QED
    BY <1>1, <1>2, <2>1
    DEF Replies, Known, DatagramKnown, QueueKnown, CurrentKnown, DestKnown, JobKnown,
        PeerKnown
<1> QED BY <1>3, <1>4 DEF OwnerStep

LEMMA RepliesNext ==
  ConstantsAssumption /\ TypeInv /\ Lifecycle /\ Replies /\ [Next]_vars => Replies'
<1> SUFFICES ASSUME ConstantsAssumption, TypeInv, Lifecycle, Replies, [Next]_vars
             PROVE  Replies'
  OBVIOUS
<1> USE DEF Replies, Known, SinglePeerGetsItsReplies, DatagramKnown, QueueKnown,
            CurrentKnown, DestKnown, JobKnown, PeerKnown
<1>1. CASE RecvTest \/ RecvTimeout
  BY <1>1 DEF RecvTest, RecvTimeout
<1>2. CASE PostSample
  <2>1. SampleJob \in Job /\ JobKnown(SampleJob)
    BY SampleKnown DEF Job
  <2>2. QueueKnown'
    BY <1>2, <2>1, OfferKeepsKnown DEF PostSample
  <2>3. UNCHANGED <<current, session, sources, lastPeer, rpc, datagram, unwritten,
                    wpc, dest, sent>>
    BY <1>2 DEF PostSample
  <2> QED BY <2>2, <2>3
<1>3. CASE UNCHANGED vars
  BY <1>3 DEF vars
<1> QED
  BY <1>1, <1>2, <1>3, ReceiveKeepsReplies, WritePeerKeepsReplies, DispatchKeepsReplies,
     WorkerKeepsReplies, OwnerKeepsReplies
  DEF Next, RecvStep, Classes

\* While only one UI talks to a session, the reply to each of its requests is
\* sent to it, however reads and writes of last_peer_ interleave.
THEOREM LoneUIGetsItsReplies == Spec => []SinglePeerGetsItsReplies
<1>1. SafeSpec => []Replies
  BY AlwaysLifecycle, ConstantsAssumption, RepliesInit, RepliesNext, PTL DEF SafeSpec
<1>2. Replies => SinglePeerGetsItsReplies
  BY DEF Replies
<1>3. Spec => SafeSpec
  BY PTL DEF Spec, SafeSpec
<1> QED BY <1>1, <1>2, <1>3, PTL
===============================================================================

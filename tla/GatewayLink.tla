------------------------------ MODULE GatewayLink ------------------------------
(***************************************************************************)
(* GatewayApp as a server: the UDP link to the UI (DkmRtpIpc), the adapter *)
(* that turns requests into commands and results into replies (IpcAdapter) *)
(* and the order in which they are started and stopped.  The job queue is  *)
(* the one AsyncEventProcessor is shown to implement: the actions of       *)
(* JobQueue are used as they stand, and drain_stop is TRUE.                *)
(*                                                                         *)
(* Threads: the receive thread, the worker, the DDS threads that post      *)
(* sample events, and the owner of the GatewayApp.  The receive thread     *)
(* writes last_peer_ field by field while the worker reads it field by     *)
(* field: they share no lock, so the writes land in any order.             *)
(*                                                                         *)
(* UDP loses, duplicates and reorders: the next datagram is any datagram   *)
(* that a peer may ever send.  What a command does to the DDS entities is  *)
(* the subject of DdsManager; here, it is answered, refused or throws.     *)
(***************************************************************************)
EXTENDS Naturals, Sequences, FiniteSets

CONSTANTS
  Peer,          \* UI processes, as pairs of an address and a port
  Nowhere,       \* the address and the port of a Peer{} not yet written
  Corr,          \* correlation ids
  MaxQueue,      \* Config::max_queue
  MaxDatagrams,  \* bound: datagrams received
  MaxSamples,    \* bound: sample events posted
  MaxSessions    \* bound: calls of start_server()

ASSUME ConstantsAssumption ==
  /\ \A p \in Peer : p = <<p[1], p[2]>> /\ p[1] # Nowhere /\ p[2] # Nowhere
  /\ {MaxQueue, MaxDatagrams, MaxSamples, MaxSessions} \subseteq Nat

NoJob == [kind |-> "none"]
Command == [kind : {"command"}, corr : Corr, from : Peer, session : Nat]
SampleJob == [kind |-> "sample"]
Job == Command \cup {SampleJob}

VARIABLES
  accepted, next, current, lost, open, discards,  \* see JobQueue
  opc,        \* the owner: down, up, stopAsync, stopLink
  session,    \* how many times start_server() was called
  ipc,        \* ipc_ is not null
  sock,       \* sock_ is an open socket
  running,    \* running_ of DkmRtpIpc
  rpc,        \* the receive thread: none, test, select, peer, dispatch, exited
  datagram,   \* what it received last
  unwritten,  \* the fields of last_peer_ it has not assigned yet
  lastPeer,   \* last_peer_
  received,   \* how many datagrams were received
  sources,    \* history: who sent the datagrams of this session
  posted,     \* how many sample events were posted
  wpc,        \* the worker: idle, run, send, port
  frames,     \* how many frames the job still sends
  dest,       \* the address send_raw() has read
  sent        \* history: frames given to sendto()

queueVars == <<accepted, next, current, lost, open, discards>>
linkVars == <<sock, running, lastPeer>>
recvVars == <<rpc, datagram, unwritten, received, sources>>
workerVars == <<wpc, frames, dest, sent>>
ownerVars == <<opc, session, ipc>>
vars == <<queueVars, linkVars, recvVars, workerVars, ownerVars, posted>>

Queue == INSTANCE JobQueue WITH Capacity <- MaxQueue

NoDatagram == [from |-> <<Nowhere, Nowhere>>, class |-> "none", corr |-> 0]
Addr == {p[1] : p \in Peer} \cup {Nowhere}
Port == {p[2] : p \in Peer} \cup {Nowhere}
NoPeer == [addr |-> Nowhere, port |-> Nowhere, valid |-> FALSE]
Fields == {"addr", "port", "valid"}

\* The constructor of GatewayApp has started the processor.
Init ==
  /\ accepted = <<>> /\ next = 1 /\ current = NoJob /\ lost = 0
  /\ open = TRUE /\ discards = FALSE
  /\ opc = "down" /\ session = 0 /\ ipc = FALSE
  /\ sock = FALSE /\ running = FALSE /\ lastPeer = NoPeer
  /\ rpc = "none" /\ datagram = NoDatagram /\ unwritten = {}
  /\ received = 0 /\ sources = {} /\ posted = 0
  /\ wpc = "idle" /\ frames = 0 /\ dest = Nowhere /\ sent = <<>>

(***************************************************************************)
(* The receive thread.                                                     *)
(***************************************************************************)

\* running_ is looked at once in every turn of the loop: a thread that saw it
\* set takes one more datagram, whatever stop() does meanwhile.
RecvTest ==
  /\ rpc = "test"
  /\ rpc' = IF running THEN "select" ELSE "exited"
  /\ UNCHANGED <<queueVars, linkVars, datagram, unwritten, received, sources,
                 workerVars, ownerVars, posted>>

\* After one second without a datagram.
RecvTimeout ==
  /\ rpc = "select"
  /\ rpc' = "test"
  /\ UNCHANGED <<queueVars, linkVars, datagram, unwritten, received, sources,
                 workerVars, ownerVars, posted>>

\* A datagram no longer than a header is ignored; any other makes its sender
\* the last peer before its header is looked at.
RecvFrom(from, class, corr) ==
  /\ rpc = "select"
  /\ received < MaxDatagrams
  /\ received' = received + 1
  /\ IF class = "short"
       THEN rpc' = "test" /\ UNCHANGED <<datagram, unwritten, sources>>
       ELSE /\ datagram' = [from |-> from, class |-> class, corr |-> corr]
            /\ sources' = sources \cup {from}
            /\ unwritten' = Fields
            /\ rpc' = "peer"
  /\ UNCHANGED <<queueVars, linkVars, workerVars, ownerVars, posted>>

WritePeer(field) ==
  /\ rpc = "peer" /\ field \in unwritten
  /\ lastPeer' = [lastPeer EXCEPT ![field] =
       CASE field = "addr"  -> datagram.from[1]
         [] field = "port"  -> datagram.from[2]
         [] field = "valid" -> TRUE]
  /\ unwritten' = unwritten \ {field}
  /\ rpc' = IF unwritten' = {} THEN "dispatch" ELSE "peer"
  /\ UNCHANGED <<queueVars, sock, running, datagram, received, sources, workerVars,
                 ownerVars, posted>>

\* on_request posts a command; a frame of another class has no effect.
Deliver ==
  /\ IF datagram.class = "request"
       THEN \/ Queue!Accept([kind |-> "command", corr |-> datagram.corr,
                             from |-> datagram.from, session |-> session])
            \/ Queue!Refuse
       ELSE UNCHANGED queueVars
  /\ rpc' = "test"
  /\ UNCHANGED <<linkVars, datagram, unwritten, received, sources, workerVars,
                 ownerVars, posted>>

\* Mutant: the callback is called before the sender is the last peer.
DispatchBeforePeer == rpc \in {"peer", "dispatch"} /\ Deliver

Dispatch == rpc = "dispatch" /\ Deliver

\* A DDS thread posts a sample; it does so in every phase of the gateway.
PostSample ==
  /\ posted < MaxSamples
  /\ posted' = posted + 1
  /\ Queue!Accept(SampleJob) \/ Queue!Refuse
  /\ UNCHANGED <<linkVars, recvVars, workerVars, ownerVars>>

(***************************************************************************)
(* The worker: process_request() and emit_evt_from_sample().               *)
(***************************************************************************)

StartJob ==
  /\ wpc = "idle"
  /\ Queue!StartJob
  /\ wpc' = "run"
  /\ UNCHANGED <<linkVars, recvVars, frames, dest, sent, ownerVars, posted>>

Working(from, to) ==
  /\ wpc = from
  /\ wpc' = to
  /\ UNCHANGED <<linkVars, recvVars, ownerVars, posted>>

\* The frames of a job: one reply whatever becomes of the command, and one
\* event unless a sample throws when it is converted.  Before the first
\* start_server() there is nobody to process it.
Outcomes == IF ~ipc THEN {0} ELSE IF current.kind = "command" THEN {1} ELSE {0, 1}

\* Mutant: no return after the reply to a request that does not parse.
RunJobParseFallsThrough ==
  /\ Working("run", "send")
  /\ frames' \in Outcomes \cup {2}
  /\ UNCHANGED <<queueVars, dest, sent>>

RunJob ==
  /\ Working("run", "send")
  /\ frames' \in Outcomes
  /\ UNCHANGED <<queueVars, dest, sent>>

\* Mutant: send_raw() returns without releasing send_mtx_.
SendRefusedLocked ==
  /\ frames > 0 /\ (~sock \/ ~lastPeer.valid)
  /\ Working("send", "stuck")
  /\ UNCHANGED <<queueVars, frames, dest, sent>>

SendRefused ==
  /\ frames > 0 /\ (~sock \/ ~lastPeer.valid)
  /\ Working("send", "send")
  /\ frames' = frames - 1
  /\ UNCHANGED <<queueVars, dest, sent>>

SendReadAddr ==
  /\ frames > 0 /\ sock /\ lastPeer.valid
  /\ Working("send", "port")
  /\ dest' = lastPeer.addr
  /\ UNCHANGED <<queueVars, frames, sent>>

\* sendto() takes the frame or fails; nobody tries again.
SendTo ==
  /\ Working("port", "send")
  /\ frames' = frames - 1
  /\ \/ UNCHANGED sent
     \/ sent' = Append(sent, [job |-> current, pos |-> next - 1, sources |-> sources,
                              session |-> session, to |-> <<dest, lastPeer.port>>])
  /\ UNCHANGED <<queueVars, dest>>

FinishJob ==
  /\ frames = 0
  /\ Working("send", "idle")
  /\ Queue!FinishJob
  /\ UNCHANGED <<frames, dest, sent>>

(***************************************************************************)
(* The owner: start_server() and stop().                                   *)
(***************************************************************************)

Owner(from, to) ==
  /\ opc = from
  /\ opc' = to
  /\ UNCHANGED <<workerVars, received, posted, datagram, unwritten>>

\* The processor is started again if a stop() ended it.
EnsureOpen == Queue!Open \/ (open /\ UNCHANGED queueVars)

\* start_server() makes a new link, which has no peer yet.
StartServer ==
  /\ Owner("down", "up")
  /\ session < MaxSessions
  /\ session' = session + 1
  /\ ipc' = TRUE
  /\ EnsureOpen
  /\ sock' = TRUE /\ running' = TRUE /\ rpc' = "test"
  /\ lastPeer' = NoPeer /\ sources' = {}

\* The port is taken: start_server() returns false, but the adapter and the
\* processor stay.
StartServerFails ==
  /\ Owner("down", "down")
  /\ session < MaxSessions
  /\ session' = session + 1
  /\ ipc' = TRUE
  /\ EnsureOpen
  /\ UNCHANGED <<linkVars, rpc, sources>>

\* Mutant: ipc_.reset() comes first.
StopLinkFirst ==
  /\ Owner("up", "stopAsync")
  /\ running' = FALSE /\ sock' = FALSE
  /\ UNCHANGED <<queueVars, lastPeer, rpc, sources, session, ipc>>

\* stop(), of a gateway that is up or that failed to start.
Stop ==
  /\ Owner("up", "stopAsync") \/ (open /\ ipc /\ Owner("down", "stopAsync"))
  /\ UNCHANGED <<queueVars, linkVars, rpc, sources, session, ipc>>

\* The worker leaves when it has drained the queue, and is joined.
StopAsyncJoined ==
  /\ Owner("stopAsync", "stopLink")
  /\ Queue!Close
  /\ running' = FALSE /\ ipc' = FALSE
  /\ UNCHANGED <<sock, lastPeer, rpc, sources, session>>

StopLinkJoined ==
  /\ rpc \in {"none", "exited"}
  /\ Owner("stopLink", "down")
  /\ sock' = FALSE
  /\ rpc' = "none"
  /\ UNCHANGED <<queueVars, running, lastPeer, sources, session, ipc>>

RecvStep == RecvTest \/ RecvTimeout \/ Dispatch \/ \E field \in Fields : WritePeer(field)
WorkerStep == StartJob \/ RunJob \/ SendRefused \/ SendReadAddr \/ SendTo \/ FinishJob
OwnerStep == StartServer \/ StartServerFails \/ Stop \/ StopAsyncJoined \/ StopLinkJoined

Next ==
  \/ \E from \in Peer, class \in {"short", "malformed", "request"}, corr \in Corr :
       RecvFrom(from, class, corr)
  \/ RecvStep
  \/ PostSample
  \/ WorkerStep
  \/ OwnerStep

\* Threads that can run do.  Nothing makes a datagram arrive, a sample come,
\* or the owner start or stop the gateway.
Spec ==
  /\ Init /\ [][Next]_vars
  /\ WF_vars(RecvStep)
  /\ WF_vars(WorkerStep)

(***************************************************************************)
(* Properties                                                              *)
(***************************************************************************)

Frame == [job : Job, pos : Nat, sources : SUBSET Peer, session : Nat, to : Addr \X Port]

TypeOK ==
  /\ accepted \in Seq(Job) /\ next \in Nat \ {0} /\ current \in Job \cup {NoJob}
  /\ lost \in Nat /\ open \in BOOLEAN /\ discards = FALSE
  /\ opc \in {"down", "up", "stopAsync", "stopLink"} /\ session \in Nat /\ ipc \in BOOLEAN
  /\ sock \in BOOLEAN /\ running \in BOOLEAN
  /\ rpc \in {"none", "test", "select", "peer", "dispatch", "exited"}
  /\ unwritten \subseteq Fields /\ lastPeer \in [addr : Addr, port : Port, valid : BOOLEAN]
  /\ received \in Nat /\ sources \subseteq Peer /\ posted \in Nat
  /\ wpc \in {"idle", "run", "send", "port"} /\ frames \in 0..1
  /\ dest \in Addr /\ sent \in Seq(Frame)

\* At most one reply, or event, is sent for a job, and they leave in the
\* order in which their jobs were accepted, over restarts too.
OneFramePerJobInOrder ==
  \A i, j \in 1..Len(sent) : i < j => sent[i].pos < sent[j].pos

\* The worker never sends on a link that stop() has closed or destroyed:
\* send_raw() looks at sock_ once, without a lock, and then uses it.
NoSendAfterClose == wpc = "port" => sock /\ opc \in {"up", "stopAsync"}

\* When stop() has returned, the receive thread is gone: its callback uses
\* the adapter and the gateway.
NoReceiveAfterStop == opc = "down" => rpc = "none" /\ ~sock /\ ~running

\* While only one UI talks to this session, it gets the replies of all its
\* requests, however the fields of last_peer_ are written and read.
SinglePeerGetsItsReplies ==
  \A i \in 1..Len(sent) :
    LET f == sent[i]
    IN f.job.kind = "command" /\ f.job.session = f.session /\ Cardinality(f.sources) = 1
         => f.to = f.job.from

\* A command that was accepted is processed to its end, though its reply may
\* have nowhere to go, unless the gateway is stopped.
CommandsAreProcessed ==
  \A n \in 1..(MaxDatagrams + MaxSamples) :
    (n <= Len(accepted) /\ open) ~> ((next > n /\ wpc = "idle") \/ ~open)

\* dkmrtp_ipc.hpp calls sending thread-safe: a frame that is sent to somebody
\* goes to a peer that has sent a datagram, never to the address of one and
\* the port of another.
FramesGoToPeers ==
  \A i \in 1..Len(sent) :
    (\A k \in 1..2 : sent[i].to[k] # Nowhere) => sent[i].to \in sent[i].sources
===============================================================================

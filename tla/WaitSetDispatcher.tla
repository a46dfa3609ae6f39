--------------------------- MODULE WaitSetDispatcher ---------------------------
(***************************************************************************)
(* WaitSetDispatcher: two threads that wait, each on a wait set, for       *)
(* status changes of all entities (monitor) and for new data of readers    *)
(* (data), and call the handlers that DdsManager has registered.  The      *)
(* owner is the thread inside DdsManager: it holds mutex_, so that there   *)
(* is one at a time.  It creates entities, clears them all, and destroys   *)
(* the manager.  event_mode_ is WaitSet; in Listener mode nothing is ever  *)
(* registered, and the threads only wait.                                  *)
(*                                                                         *)
(* The maps hold raw pointers and the wait sets conditions of entities:    *)
(* both must be gone before the entities are.  A critical section of the   *)
(* owner is one step; a loop holds its mutex while it is in "handle".      *)
(***************************************************************************)
EXTENDS Naturals, FiniteSets

CONSTANTS
  Reader, Writer,  \* the holders that are ever created
  ReaderStatus, WriterStatus,  \* communication statuses that can change
  ReadStatus,      \* those that process_status() reads, which resets them
  Guard,           \* a guard condition
  Nobody,
  MaxClears,       \* bound: calls of clear_entities()
  MaxThrows        \* bound: exceptions out of handlers

Handler == Reader \cup Writer
Status == ReaderStatus \cup WriterStatus
StatusesOf(h) == IF h \in Reader THEN ReaderStatus ELSE WriterStatus
Loop == {"monitor", "data"}

ASSUME ConstantsAssumption ==
  /\ Reader \cap Writer = {}
  /\ Guard \notin Handler /\ Nobody \notin Handler
  /\ ReadStatus \subseteq Status
  /\ MaxClears \in Nat /\ MaxThrows \in Nat

VARIABLES
  running,   \* running_
  lpc,       \* a loop: none, test, wait, check, handle, exited
  active,    \* the conditions wait() returned that are still to be looked at
  guard,     \* trigger_value() of monitor_guard_ and data_guard_
  waitset,   \* conditions attached to the wait sets, but for the guards
  handlers,  \* the keys of monitor_handlers_ and data_handlers_
  data,      \* readers that have data nobody has taken
  changed,   \* the statuses of an entity that changed and were not read
  created, alive,  \* holders created so far; those not destroyed yet
  opc,       \* the owner: idle, monitor, data, trigger, join, detach, destroy,
             \* start, final, gone
  fresh,     \* the holder it registers
  goal,      \* what it stops the threads for: clear, shutdown, final
  clears, throws

loopVars == <<lpc, active, guard>>
mapVars == <<waitset, handlers>>
entityVars == <<data, changed, created, alive>>
ownerVars == <<opc, fresh, goal, clears>>
vars == <<running, loopVars, mapVars, entityVars, ownerVars, throws>>

\* The constructor of DdsManager has started the dispatcher.
Init ==
  /\ running = TRUE
  /\ lpc = [l \in Loop |-> "test"] /\ active = [l \in Loop |-> {}]
  /\ guard = [l \in Loop |-> FALSE]
  /\ waitset = [l \in Loop |-> {}] /\ handlers = [l \in Loop |-> {}]
  /\ data = {} /\ changed = [h \in Handler |-> {}]
  /\ created = {} /\ alive = {}
  /\ opc = "idle" /\ fresh = Nobody /\ goal = "clear"
  /\ clears = 0 /\ throws = 0

(***************************************************************************)
(* The loops.                                                              *)
(***************************************************************************)

Goto(l, from, to) ==
  /\ lpc[l] = from
  /\ lpc' = [lpc EXCEPT ![l] = to]
  /\ UNCHANGED <<running, mapVars, ownerVars, created, alive>>

\* The conditions of the wait set of l that are true; they stay so until
\* somebody takes the data, reads the status or resets the guard.
Triggered(l) ==
  { h \in waitset[l] : IF l = "data" THEN h \in data ELSE changed[h] # {} }
    \cup (IF guard[l] THEN {Guard} ELSE {})

LoopTest(l) ==
  /\ Goto(l, "test", IF running THEN "wait" ELSE "exited")
  /\ UNCHANGED <<active, guard, data, changed, throws>>

LoopWake(l) ==
  /\ Triggered(l) # {}
  /\ Goto(l, "wait", "check")
  /\ active' = [active EXCEPT ![l] = Triggered(l)]
  /\ UNCHANGED <<guard, data, changed, throws>>

\* TimeoutError, after one second.
LoopTimeout(l) ==
  /\ Triggered(l) = {}
  /\ Goto(l, "wait", "test")
  /\ UNCHANGED <<active, guard, data, changed, throws>>

LoopCheck(l) ==
  /\ Goto(l, "check", IF running THEN "handle" ELSE "exited")
  /\ active' = [active EXCEPT ![l] = IF running THEN @ ELSE {}]
  /\ UNCHANGED <<guard, data, changed, throws>>

ResetGuard(l) ==
  /\ Guard \in active[l]
  /\ Goto(l, "handle", "handle")
  /\ guard' = [guard EXCEPT ![l] = FALSE]
  /\ active' = [active EXCEPT ![l] = @ \ {Guard}]
  /\ UNCHANGED <<data, changed, throws>>

\* Mutant: no status is read.
ProcessReadsNothing(l, h) ==
  /\ data' = IF l = "data" /\ h \in handlers[l] THEN data \ {h} ELSE data
  /\ UNCHANGED changed

\* What looking at a condition does to the state of its entity: nothing, if it
\* is not in the map.
Process(l, h) ==
  /\ data' = IF l = "data" /\ h \in handlers[l] THEN data \ {h} ELSE data
  /\ changed' = IF l = "monitor" /\ h \in handlers[l]
                  THEN [changed EXCEPT ![h] = @ \ ReadStatus] ELSE changed

LookAt(l, h) ==
  /\ h \in active[l] \ {Guard}
  /\ Goto(l, "handle", "handle")
  /\ Process(l, h)
  /\ active' = [active EXCEPT ![l] = @ \ {h}]
  /\ UNCHANGED <<guard, throws>>

\* The exception, before the data or the status is read or after, ends the
\* turn: the other conditions are not looked at.
HandlerThrows(l, h) ==
  /\ h \in active[l] \cap handlers[l]
  /\ throws < MaxThrows
  /\ Goto(l, "handle", "test")
  /\ Process(l, h) \/ UNCHANGED <<data, changed>>
  /\ active' = [active EXCEPT ![l] = {}]
  /\ throws' = throws + 1
  /\ UNCHANGED guard

TurnDone(l) ==
  /\ active[l] = {}
  /\ Goto(l, "handle", "test")
  /\ UNCHANGED <<active, guard, data, changed, throws>>

\* DDS: data arrives, a status changes.
NewData(h) ==
  /\ h \in alive \cap Reader
  /\ data' = data \cup {h}
  /\ UNCHANGED <<running, loopVars, mapVars, changed, created, alive, ownerVars, throws>>

StatusChanges(h, s) ==
  /\ h \in alive /\ s \in StatusesOf(h)
  /\ changed' = [changed EXCEPT ![h] = @ \cup {s}]
  /\ UNCHANGED <<running, loopVars, mapVars, data, created, alive, ownerVars, throws>>

(***************************************************************************)
(* The owner: create_reader, create_writer.                                *)
(***************************************************************************)

Owner(from, to) ==
  /\ opc = from
  /\ opc' = to

Create(h) ==
  /\ h \notin created
  /\ Owner("idle", "monitor")
  /\ created' = created \cup {h} /\ alive' = alive \cup {h}
  /\ fresh' = h
  /\ UNCHANGED <<running, loopVars, mapVars, data, changed, goal, clears, throws>>

\* Mutant: the condition is attached, the handler is not entered.
AttachConditionOnly(l, h) ==
  /\ waitset' = [waitset EXCEPT ![l] = @ \cup {h}]
  /\ UNCHANGED handlers

\* Under the mutex of l; an exception is caught, and the holder stays.
Attach(l, h) ==
  \/ /\ waitset' = [waitset EXCEPT ![l] = @ \cup {h}]
     /\ handlers' = [handlers EXCEPT ![l] = @ \cup {h}]
  \/ UNCHANGED mapVars

\* Mutant: a writer, whose read condition is null, is registered for data.
AttachMonitorThenData ==
  /\ lpc["monitor"] # "handle"
  /\ Owner("monitor", "data")
  /\ Attach("monitor", fresh)
  /\ UNCHANGED <<running, loopVars, entityVars, fresh, goal, clears, throws>>

AttachMonitor ==
  /\ lpc["monitor"] # "handle"
  /\ Owner("monitor", IF fresh \in Reader THEN "data" ELSE "idle")
  /\ Attach("monitor", fresh)
  /\ UNCHANGED <<running, loopVars, entityVars, fresh, goal, clears, throws>>

AttachData ==
  /\ lpc["data"] # "handle"
  /\ Owner("data", "idle")
  /\ Attach("data", fresh)
  /\ UNCHANGED <<running, loopVars, entityVars, fresh, goal, clears, throws>>

(***************************************************************************)
(* The owner: clear_entities and the destructor of DdsManager.             *)
(***************************************************************************)

\* stop() begins, on behalf of a clear or of the destructor.
StopFor(what) ==
  /\ running' = FALSE
  /\ goal' = what
  /\ UNCHANGED <<loopVars, mapVars, entityVars, fresh, throws>>

Clear ==
  /\ Owner("idle", "trigger")
  /\ clears < MaxClears
  /\ clears' = clears + 1
  /\ StopFor("clear")

\* The stop() inside clear_entities() will find running_ false already.
Shutdown ==
  /\ Owner("idle", "trigger")
  /\ StopFor("shutdown")
  /\ UNCHANGED clears

\* Mutant: the data guard is forgotten.
TriggerMonitorGuard ==
  /\ Owner("trigger", "join")
  /\ guard' = [guard EXCEPT !["monitor"] = TRUE]
  /\ UNCHANGED <<running, lpc, active, mapVars, entityVars, fresh, goal, clears, throws>>

TriggerGuards ==
  /\ Owner("trigger", "join")
  /\ guard' = [l \in Loop |-> TRUE]
  /\ UNCHANGED <<running, lpc, active, mapVars, entityVars, fresh, goal, clears, throws>>

Join ==
  /\ \A l \in Loop : lpc[l] = "exited"
  /\ Owner("join", IF goal = "final" THEN "gone" ELSE "detach")
  /\ lpc' = [l \in Loop |-> "none"]
  /\ UNCHANGED <<running, active, guard, mapVars, entityVars, fresh, goal, clears, throws>>

\* Mutant: detach_all() forgets the data side.
DetachMonitor ==
  /\ Owner("detach", "destroy")
  /\ waitset' = [waitset EXCEPT !["monitor"] = {}]
  /\ handlers' = [handlers EXCEPT !["monitor"] = {}]
  /\ UNCHANGED <<running, loopVars, entityVars, fresh, goal, clears, throws>>

DetachAll ==
  /\ Owner("detach", "destroy")
  /\ waitset' = [l \in Loop |-> {}] /\ handlers' = [l \in Loop |-> {}]
  /\ UNCHANGED <<running, loopVars, entityVars, fresh, goal, clears, throws>>

\* The conditions of an entity go with it.
Destroy ==
  /\ Owner("destroy", "start")
  /\ alive' = {} /\ data' = {} /\ changed' = [h \in Handler |-> {}]
  /\ UNCHANGED <<running, loopVars, mapVars, created, fresh, goal, clears, throws>>

\* start(): nobody else writes what the new threads look at.
Restart(started) ==
  /\ Owner("start", IF goal = "shutdown" THEN "final" ELSE "idle")
  /\ running' = TRUE
  /\ lpc' = [l \in Loop |-> IF l \in started THEN "test" ELSE "none"]
  /\ UNCHANGED <<active, guard, mapVars, entityVars, fresh, goal, clears, throws>>

\* Mutant: the data thread is not started again.
StartMonitor == Restart({"monitor"})

Start == Restart(Loop)

\* The destructor of the dispatcher stops what clear_entities() restarted.
FinalStop ==
  /\ Owner("final", "trigger")
  /\ StopFor("final")
  /\ UNCHANGED clears

LoopRun(l) ==
  \/ LoopTest(l) \/ LoopWake(l) \/ LoopCheck(l) \/ ResetGuard(l) \/ TurnDone(l)
  \/ \E h \in Handler : LookAt(l, h) \/ HandlerThrows(l, h)
Environment == \E h \in Handler : NewData(h) \/ \E s \in Status : StatusChanges(h, s)
Registration == AttachMonitor \/ AttachData
Teardown == TriggerGuards \/ Join \/ DetachAll \/ Destroy \/ Start \/ FinalStop

Next ==
  \/ \E l \in Loop : LoopRun(l) \/ LoopTimeout(l)
  \/ Environment
  \/ \E h \in Handler : Create(h)
  \/ Registration
  \/ Clear \/ Shutdown
  \/ Teardown

SafeSpec == Init /\ [][Next]_vars

\* Threads that can run do.  No timeout has to come to the rescue; the mutex
\* of a loop is free again and again, and the owner gets it in the end.
Spec ==
  /\ SafeSpec
  /\ \A l \in Loop : WF_vars(LoopRun(l))
  /\ SF_vars(Registration) /\ WF_vars(Teardown)

(***************************************************************************)
(* Properties                                                              *)
(***************************************************************************)

\* A writer has no read condition.
TypeOK ==
  /\ running \in BOOLEAN
  /\ lpc \in [Loop -> {"none", "test", "wait", "check", "handle", "exited"}]
  /\ active \in [Loop -> SUBSET (Handler \cup {Guard})]
  /\ guard \in [Loop -> BOOLEAN]
  /\ waitset \in [Loop -> SUBSET Handler] /\ handlers \in [Loop -> SUBSET Handler]
  /\ handlers["data"] \subseteq Reader
  /\ data \subseteq Reader /\ changed \in [Handler -> SUBSET Status]
  /\ created \subseteq Handler /\ alive \subseteq created
  /\ opc \in {"idle", "monitor", "data", "trigger", "join", "detach", "destroy",
              "start", "final", "gone"}
  /\ fresh \in Handler \cup {Nobody} /\ goal \in {"clear", "shutdown", "final"}
  /\ clears \in Nat /\ throws \in Nat

\* No raw pointer and no condition of a destroyed entity is left where a loop
\* could use it: in a map, in a wait set, or among the conditions it was
\* handed by wait() before the entities went away.
NothingDangles ==
  \A l \in Loop :
    /\ handlers[l] \cup waitset[l] \subseteq alive
    /\ active[l] \subseteq alive \cup {Guard}

\* While the maps and entities are torn down, and when the dispatcher is gone,
\* neither thread exists.
QuietTeardown ==
  opc \in {"detach", "destroy", "start", "gone"} => \A l \in Loop : lpc[l] = "none"

\* A condition that a wait set returns is in the map when it is looked up,
\* though it may have been attached a moment ago: no event is passed over.
LookupFinds ==
  \A l \in Loop : active[l] \ {Guard} \subseteq handlers[l]

\* A clear and the destructor return, and they do so without a timeout: the
\* guard that is left set by one stop does no harm to the next.
TeardownReturns == opc = "trigger" ~> opc \in {"idle", "gone"}

\* Data of a reader that was registered is taken, unless the reader goes,
\* whatever other handlers throw and over restarts.
DataServed ==
  \A h \in Reader : h \in data /\ h \in handlers["data"] ~> h \notin data

\* The same for the status changes that handlers read.
StatusServed ==
  \A h \in Handler :
    changed[h] \cap ReadStatus # {} /\ h \in handlers["monitor"]
      ~> changed[h] \cap ReadStatus = {}
===============================================================================

----------------------- MODULE WaitSetDispatcherProofs -----------------------
(***************************************************************************)
(* Proofs about WaitSetDispatcher for any set of readers and writers, any  *)
(* number of clears and any number of exceptions.                          *)
(***************************************************************************)
EXTENDS WaitSetDispatcher, TLAPS

USE DEF loopVars, mapVars, entityVars, ownerVars, Loop, Owner, Goto

-------------------------------------------------------------------------------
(***************************************************************************)
(* Types.  What is registered is a holder, and for data a reader.          *)
(***************************************************************************)

Registering ==
  /\ opc \in {"monitor", "data"} => fresh \in alive
  /\ opc = "data" => fresh \in Reader

TypeInv == TypeOK /\ Registering

LEMMA TypeInvInit == ConstantsAssumption /\ Init => TypeInv
  BY DEF Init, TypeInv, TypeOK, Registering, Handler

LEMMA LoopKeepsTypes ==
  ASSUME ConstantsAssumption, TypeInv, NEW l \in Loop, LoopRun(l) \/ LoopTimeout(l)
  PROVE  TypeInv'
<1> USE DEF TypeInv, TypeOK, Registering
<1>1. CASE LoopTest(l) BY <1>1 DEF LoopTest
<1>2. CASE LoopWake(l)
  <2>1. Triggered(l) \subseteq Handler \cup {Guard}
    BY DEF Triggered
  <2> QED BY <1>2, <2>1 DEF LoopWake
<1>3. CASE LoopTimeout(l) BY <1>3 DEF LoopTimeout
<1>4. CASE LoopCheck(l) BY <1>4 DEF LoopCheck
<1>5. CASE ResetGuard(l) BY <1>5 DEF ResetGuard
<1>6. CASE TurnDone(l) BY <1>6 DEF TurnDone
<1>7. ASSUME NEW h \in Handler, Process(l, h) \/ UNCHANGED <<data, changed>>
      PROVE  data' \subseteq Reader /\ changed' \in [Handler -> SUBSET Status]
  BY <1>7 DEF Process
<1>8. ASSUME NEW h \in Handler, LookAt(l, h) PROVE TypeInv'
  BY <1>7, <1>8 DEF LookAt
<1>9. ASSUME NEW h \in Handler, HandlerThrows(l, h) PROVE TypeInv'
  BY <1>7, <1>9 DEF HandlerThrows
<1> QED
  BY <1>1, <1>2, <1>3, <1>4, <1>5, <1>6, <1>8, <1>9 DEF LoopRun

LEMMA TypeInvNext == ConstantsAssumption /\ TypeInv /\ [Next]_vars => TypeInv'
<1> SUFFICES ASSUME ConstantsAssumption, TypeInv, [Next]_vars PROVE TypeInv'
  OBVIOUS
<1> USE DEF TypeInv, TypeOK, Registering
<1>1. ASSUME NEW h \in Handler, NewData(h) PROVE TypeInv'
  BY <1>1 DEF NewData
<1>2. ASSUME NEW h \in Handler, NEW s \in Status, StatusChanges(h, s) PROVE TypeInv'
  BY <1>2 DEF StatusChanges
<1>3. ASSUME NEW h \in Handler, Create(h) PROVE TypeInv'
  BY <1>3 DEF Create
<1>4. CASE AttachMonitor
  BY <1>4 DEF AttachMonitor, Attach
<1>5. CASE AttachData
  BY <1>5 DEF AttachData, Attach
<1>6. CASE Clear \/ Shutdown \/ FinalStop
  <2>1. running' = FALSE /\ opc' = "trigger" /\ goal' \in {"clear", "shutdown", "final"}
    BY <1>6 DEF Clear, Shutdown, FinalStop, StopFor
  <2>2. clears' \in Nat /\ UNCHANGED <<loopVars, mapVars, entityVars, fresh, throws>>
    BY <1>6 DEF Clear, Shutdown, FinalStop, StopFor
  <2>3. running' \in BOOLEAN
    BY <2>1
  <2> QED BY <2>1, <2>2, <2>3
<1>7. CASE TriggerGuards BY <1>7 DEF TriggerGuards
<1>8. CASE Join BY <1>8 DEF Join
<1>9. CASE DetachAll BY <1>9 DEF DetachAll
<1>10. CASE Destroy BY <1>10 DEF Destroy
<1>11. CASE Start BY <1>11 DEF Start, Restart
<1>12. CASE UNCHANGED vars BY <1>12 DEF vars
<1> QED
  BY <1>1, <1>2, <1>3, <1>4, <1>5, <1>6, <1>7, <1>8, <1>9, <1>10, <1>11, <1>12,
     LoopKeepsTypes
  DEF Next, Environment, Registration, Teardown

LEMMA AlwaysTypeInv == SafeSpec => []TypeInv
  BY ConstantsAssumption, TypeInvInit, TypeInvNext, PTL DEF SafeSpec

\* Every variable of the dispatcher keeps its type; a writer is never
\* registered for data.
THEOREM DispatcherTypeCorrect == Spec => []TypeOK
<1>1. TypeInv => TypeOK
  BY DEF TypeInv
<1> QED BY <1>1, AlwaysTypeInv, PTL DEF Spec

-------------------------------------------------------------------------------
(***************************************************************************)
(* The teardown.  A condition a loop still holds is a registered one       *)
(* because nothing is taken out of the maps while a loop runs; a loop that *)
(* does not run holds none.                                                *)
(***************************************************************************)

HoldsNone == \A l \in Loop : lpc[l] \notin {"check", "handle"} => active[l] = {}
MapsAgree == \A l \in Loop : waitset[l] = handlers[l]
MapsEmpty == opc \in {"destroy", "start"} => \A l \in Loop : handlers[l] = {}

Inv == QuietTeardown /\ HoldsNone /\ MapsAgree /\ MapsEmpty /\ NothingDangles /\ LookupFinds

LEMMA InvInit == ConstantsAssumption /\ Init => Inv
  BY DEF Init, Inv, QuietTeardown, HoldsNone, MapsAgree, MapsEmpty, NothingDangles,
         LookupFinds

LEMMA LoopKeepsInv ==
  ASSUME ConstantsAssumption, TypeInv, Inv, NEW l \in Loop, LoopRun(l) \/ LoopTimeout(l)
  PROVE  Inv'
<1> USE DEF TypeInv, TypeOK, Inv, QuietTeardown, HoldsNone, MapsAgree, MapsEmpty,
            NothingDangles, LookupFinds
<1>1. CASE LoopTest(l) BY <1>1 DEF LoopTest
<1>2. CASE LoopWake(l)
  <2>1. Triggered(l) \subseteq waitset[l] \cup {Guard}
    BY DEF Triggered
  <2> QED BY <1>2, <2>1 DEF LoopWake
<1>3. CASE LoopTimeout(l) BY <1>3 DEF LoopTimeout
<1>4. CASE LoopCheck(l) BY <1>4 DEF LoopCheck
<1>5. CASE ResetGuard(l) BY <1>5 DEF ResetGuard
<1>6. CASE TurnDone(l) BY <1>6 DEF TurnDone
<1>7. ASSUME NEW h \in Handler, LookAt(l, h) PROVE Inv'
  BY <1>7 DEF LookAt
<1>8. ASSUME NEW h \in Handler, HandlerThrows(l, h) PROVE Inv'
  BY <1>8 DEF HandlerThrows
<1> QED
  BY <1>1, <1>2, <1>3, <1>4, <1>5, <1>6, <1>7, <1>8 DEF LoopRun

LEMMA InvNext == ConstantsAssumption /\ TypeInv /\ Inv /\ [Next]_vars => Inv'
<1> SUFFICES ASSUME ConstantsAssumption, TypeInv, Inv, [Next]_vars PROVE Inv'
  OBVIOUS
<1> USE DEF TypeInv, TypeOK, Registering, Inv, QuietTeardown, HoldsNone, MapsAgree,
            MapsEmpty, NothingDangles, LookupFinds
<1>1. ASSUME NEW h \in Handler, NewData(h) PROVE Inv'
  BY <1>1 DEF NewData
<1>2. ASSUME NEW h \in Handler, NEW s \in Status, StatusChanges(h, s) PROVE Inv'
  BY <1>2 DEF StatusChanges
<1>3. ASSUME NEW h \in Handler, Create(h) PROVE Inv'
  BY <1>3 DEF Create
<1>4. CASE AttachMonitor \/ AttachData
  <2>1. PICK l \in Loop : Attach(l, fresh) /\ lpc[l] # "handle"
    BY <1>4 DEF AttachMonitor, AttachData
  <2>2. /\ fresh \in alive /\ opc' \in {"data", "idle"}
        /\ UNCHANGED <<lpc, active, alive>>
    BY <1>4 DEF AttachMonitor, AttachData
  <2>3. CASE UNCHANGED mapVars
    BY <2>2, <2>3
  <2>4. CASE /\ waitset' = [waitset EXCEPT ![l] = @ \cup {fresh}]
             /\ handlers' = [handlers EXCEPT ![l] = @ \cup {fresh}]
    <3>1. ASSUME NEW k \in Loop
          PROVE  /\ waitset'[k] = handlers'[k]
                 /\ handlers'[k] \cup waitset'[k] \subseteq alive
                 /\ handlers[k] \subseteq handlers'[k]
      BY <2>2, <2>4
    <3> QED BY <2>2, <3>1
  <2> QED BY <2>1, <2>3, <2>4 DEF Attach
<1>5. CASE Clear \/ Shutdown \/ FinalStop
  BY <1>5 DEF Clear, Shutdown, FinalStop, StopFor
<1>6. CASE TriggerGuards BY <1>6 DEF TriggerGuards
<1>7. CASE Join BY <1>7 DEF Join
<1>8. CASE DetachAll BY <1>8 DEF DetachAll
<1>9. CASE Destroy BY <1>9 DEF Destroy
<1>10. CASE Start BY <1>10 DEF Start, Restart
<1>11. CASE UNCHANGED vars BY <1>11 DEF vars
<1> QED
  BY <1>1, <1>2, <1>3, <1>4, <1>5, <1>6, <1>7, <1>8, <1>9, <1>10, <1>11, LoopKeepsInv
  DEF Next, Environment, Registration, Teardown

LEMMA AlwaysInv == SafeSpec => []Inv
  BY ConstantsAssumption, AlwaysTypeInv, InvInit, InvNext, PTL DEF SafeSpec

\* No loop can reach the handler or the condition of a destroyed entity.
THEOREM NoDanglingHandlers == Spec => []NothingDangles
<1>1. Inv => NothingDangles
  BY DEF Inv
<1> QED BY <1>1, AlwaysInv, PTL DEF Spec

\* Neither thread exists while maps and entities are torn down.
THEOREM TeardownIsQuiet == Spec => []QuietTeardown
<1>1. Inv => QuietTeardown
  BY DEF Inv
<1> QED BY <1>1, AlwaysInv, PTL DEF Spec

\* Every condition a wait set returns finds its handler.
THEOREM EveryLookupFinds == Spec => []LookupFinds
<1>1. Inv => LookupFinds
  BY DEF Inv
<1> QED BY <1>1, AlwaysInv, PTL DEF Spec
===============================================================================

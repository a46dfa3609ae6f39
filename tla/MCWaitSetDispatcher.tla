-------------------------- MODULE MCWaitSetDispatcher --------------------------
(***************************************************************************)
(* A reader and a writer, both in the monitor's map, so that one handler's *)
(* exception can hide the other's event; a status that is read and one     *)
(* that is not; one clear before the destructor, so that the threads live  *)
(* three times and an entity can be created in the first two lives.        *)
(***************************************************************************)
EXTENDS WaitSetDispatcher
===============================================================================

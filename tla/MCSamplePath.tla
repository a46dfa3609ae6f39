---------------------------- MODULE MCSamplePath ----------------------------
(***************************************************************************)
(* Two readers of one type, on one thread or on two; three samples, a      *)
(* queue of two.  A thread can be in its third call while an event of its  *)
(* first is pending, and a burst of three overflows the queue.             *)
(***************************************************************************)
EXTENDS SamplePath
===============================================================================

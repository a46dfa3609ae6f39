------------------------ MODULE MCAsyncEventProcessor ------------------------
(***************************************************************************)
(* Two posting threads (one IPC, one DDS), a queue of two, three posts,    *)
(* two lives of the processor; both values of drain_stop.                  *)
(***************************************************************************)
EXTENDS AsyncEventProcessor
===============================================================================

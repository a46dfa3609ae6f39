------------------------------- MODULE JobQueue -------------------------------
(***************************************************************************)
(* What AsyncEventProcessor promises its callers, whatever its locks and   *)
(* threads do: a bounded FIFO of jobs that one executor runs in the order  *)
(* in which they were accepted, each at most once.  A job is lost only     *)
(* when it is offered to a full queue, or when the executor is closed by a *)
(* stop that was configured to discard what is pending.                    *)
(***************************************************************************)
EXTENDS Naturals, Sequences

CONSTANTS Job,        \* the jobs that can be offered
          Capacity,   \* how many accepted jobs may be pending
          NoJob       \* the executor is idle

VARIABLES
  accepted,  \* every job ever accepted, in order of acceptance
  next,      \* position in accepted of the next job to start
  current,   \* the job being executed, or NoJob
  lost,      \* number of jobs refused or discarded
  open,      \* an executor exists
  discards   \* configuration: a closing executor discards pending jobs

vars == <<accepted, next, current, lost, open, discards>>

Pending == (Len(accepted) + 1) - next

Init ==
  /\ accepted = <<>>
  /\ next = 1
  /\ current = NoJob
  /\ lost = 0
  /\ open = FALSE
  /\ discards \in BOOLEAN

Open ==
  /\ ~open
  /\ open' = TRUE
  /\ UNCHANGED <<accepted, next, current, lost, discards>>

Accept(j) ==
  /\ Pending < Capacity
  /\ accepted' = Append(accepted, j)
  /\ UNCHANGED <<next, current, lost, open, discards>>

Refuse ==
  /\ Pending >= Capacity
  /\ lost' = lost + 1
  /\ UNCHANGED <<accepted, next, current, open, discards>>

StartJob ==
  /\ open
  /\ current = NoJob
  /\ Pending > 0
  /\ current' = accepted[next]
  /\ next' = next + 1
  /\ UNCHANGED <<accepted, lost, open, discards>>

FinishJob ==
  /\ current # NoJob
  /\ current' = NoJob
  /\ UNCHANGED <<accepted, next, lost, open, discards>>

Close ==
  /\ open
  /\ current = NoJob
  /\ \/ Pending = 0
     \/ discards
  /\ open' = FALSE
  /\ next' = Len(accepted) + 1
  /\ lost' = lost + Pending
  /\ UNCHANGED <<accepted, current, discards>>

Next ==
  \/ Open
  \/ \E j \in Job : Accept(j)
  \/ Refuse
  \/ StartJob
  \/ FinishJob
  \/ Close

SafeSpec == Init /\ [][Next]_vars

\* An open executor never sits on a pending job for ever.
Spec ==
  /\ SafeSpec
  /\ WF_vars(StartJob \/ (Pending > 0 /\ Close))
  /\ WF_vars(FinishJob)
===============================================================================

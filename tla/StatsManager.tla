----------------------------- MODULE StatsManager -----------------------------
(***************************************************************************)
(* The counters of the gateway and the thread that reports them every      *)
(* minute (stats_manager.cpp).  Any thread adds to a counter; the          *)
(* scheduler moves the counters into its record one after the other, each  *)
(* under its own lock or with one atomic exchange, and logs the record.    *)
(* Entity counts are overwritten and not summed: see Counts in DdsManager. *)
(***************************************************************************)
EXTENDS Naturals, Sequences, SequencesExt

CONSTANTS
  CounterOrder,  \* the counters, in the order in which a record takes them
  MaxIncs,       \* bound: additions to each counter
  MaxRecords     \* bound: records

ASSUME StatsAssumption ==
  /\ CounterOrder \in Seq(STRING) /\ IsInjective(CounterOrder)
  /\ MaxIncs \in Nat /\ MaxRecords \in Nat

Counter == ToSet(CounterOrder)
Zero == [c \in Counter |-> 0]

VARIABLES
  counts,    \* ipc_in_, ipc_out_, writer_counts_, reader_counts_
  snap,      \* the scheduler's StatsSnapshot
  spc,       \* the scheduler: the number of counters it has taken, 0 asleep
  incs,      \* history: additions
  records    \* bound: records begun

statsVars == <<counts, snap, spc, incs, records>>

StatsInit == counts = Zero /\ snap = Zero /\ spc = 0 /\ incs = Zero /\ records = 0

\* inc_ipc_in(), inc_ipc_out(), inc_writer_count(), inc_reader_count().
Inc(c) ==
  /\ incs[c] < MaxIncs
  /\ counts' = [counts EXCEPT ![c] = @ + 1]
  /\ incs' = [incs EXCEPT ![c] = @ + 1]
  /\ UNCHANGED <<snap, spc, records>>

\* snapshot_and_reset_counts(), the first counter as soon as sleep_until() returns.
TakeInto(s, rest) ==
  /\ spc < Len(CounterOrder)
  /\ records' = IF spc = 0 THEN records + 1 ELSE records
  /\ records' <= MaxRecords
  /\ snap' = s /\ counts' = rest
  /\ spc' = spc + 1
  /\ UNCHANGED incs

\* Mutant: all counters are reset when the record is complete.
TakeResetsLater ==
  LET c == CounterOrder[spc + 1]
  IN  TakeInto([snap EXCEPT ![c] = counts[c]],
               IF spc + 1 = Len(CounterOrder) THEN Zero ELSE counts)
Take ==
  LET c == CounterOrder[spc + 1]
  IN  TakeInto([snap EXCEPT ![c] = counts[c]], [counts EXCEPT ![c] = 0])

\* output_snapshot(): the record goes to logf().
Output ==
  /\ spc = Len(CounterOrder)
  /\ snap' = Zero /\ spc' = 0
  /\ UNCHANGED <<counts, incs, records>>
===============================================================================

------------------------------ MODULE AsyncLogger ------------------------------
(***************************************************************************)
(* The logger (triad_log.cpp): a queue that any thread fills, a writer     *)
(* thread that empties it into a file, rotation of that file, and stop and *)
(* start at run time.                                                      *)
(*                                                                         *)
(* logf() asks is_running() and, if so, pushes a moment later: two         *)
(* critical sections of queue_mutex_ with the formatting of the line       *)
(* between them.  All that the writer's predicate reads is written under   *)
(* that mutex, so that its test and its block are one step, and so are a   *)
(* change and its notification.  What is printed is left out, and a file   *)
(* that does not exist is an empty one.                                    *)
(***************************************************************************)
EXTENDS Naturals, Sequences, SequencesExt

CONSTANTS
  Caller,        \* threads that log
  NoEntry,       \* no entry, no text
  MaxBackups,    \* max_backup_files; rotation treats 0 as 1
  MaxSize,       \* max_file_size_, in entries
  OldFiles,      \* files left by an earlier run, of one entry each
  MaxEntries,    \* bound: entries pushed, those of the old files included
  MaxFaults      \* bound: failures of the file system

ASSUME LoggerAssumption ==
  /\ IsFiniteSet(Caller)
  /\ MaxBackups \in Nat \ {0}
  /\ {MaxSize, MaxEntries, MaxFaults} \subseteq Nat
  /\ OldFiles \in 0..(MaxBackups + 1)

VARIABLES
  level,      \* g_current_level
  running,    \* running_
  fileOut,    \* file_output_
  queue,      \* log_queue_: [n, by, text], n counts the pushes
  pending,    \* caller -> the text it is about to push, or NoEntry
  wpc, hand,  \* the writer: none, test, blocked, write; the entry it writes
  files,      \* 0: the log, 1 .. MaxBackups: its backups, the oldest last
  pushed,     \* history: number of entries pushed
  written,    \* history: the entries appended to the log, in order
  faults      \* bound: failures so far

loggerVars == <<level, running, fileOut, queue, pending, wpc, hand, files, pushed, written, faults>>
writerVars == <<wpc, hand, files, written, faults>>

OldEntry(i) == [n |-> i, by |-> NoEntry, text |-> NoEntry]

\* main() has called init_logger(), or not, and set_level().
LoggerInit(lvl, file, console) ==
  /\ level = lvl /\ running = (file \/ console) /\ fileOut = file
  /\ queue = << >> /\ pending = [c \in Caller |-> NoEntry]
  /\ wpc = (IF file \/ console THEN "test" ELSE "none") /\ hand = NoEntry
  /\ files = [i \in 0..MaxBackups |-> IF i < OldFiles THEN <<OldEntry(OldFiles - i)>> ELSE << >>]
  /\ written = [i \in 1..OldFiles |-> OldEntry(i)]
  /\ pushed = OldFiles /\ faults = 0

-------------------------------------------------------------------------------
\* logf().  A line below the level is dropped, one that finds the logger
\* stopped goes to stderr: neither is a step.
Admits(lvl) == lvl >= level /\ running
Pending == {c \in Caller : pending[c] # NoEntry}

Enter(c, text) ==
  /\ pending[c] = NoEntry
  /\ pushed + Cardinality(Pending) < MaxEntries
  /\ pending' = [pending EXCEPT ![c] = text]
  /\ UNCHANGED <<level, running, fileOut, queue, pushed, writerVars>>

\* Mutant: push() without the question first.
LogfUnasked(c, lvl, text) == lvl >= level /\ Enter(c, text)
Logf(c, lvl, text)        == Admits(lvl) /\ Enter(c, text)

EntryOf(c) == [n |-> pushed + 1, by |-> c, text |-> pending[c]]
Wake == wpc' = IF wpc = "blocked" THEN "test" ELSE wpc

Pushed(c) ==
  /\ c \in Pending
  /\ queue' = Append(queue, EntryOf(c))
  /\ pushed' = pushed + 1
  /\ pending' = [pending EXCEPT ![c] = NoEntry]
  /\ UNCHANGED <<level, running, fileOut, hand, files, written, faults>>

\* Mutant: no notify_one().
PushSilently(c) == Pushed(c) /\ UNCHANGED wpc
Push(c)         == Pushed(c) /\ Wake

-------------------------------------------------------------------------------
\* process_queue().
WriterBlock ==
  /\ wpc = "test" /\ queue = << >> /\ running
  /\ wpc' = "blocked"
  /\ UNCHANGED <<level, running, fileOut, queue, pending, hand, files, pushed, written, faults>>

Leave ==
  /\ wpc = "test" /\ queue = << >>
  /\ wpc' = "none"
  /\ UNCHANGED <<level, running, fileOut, queue, pending, hand, files, pushed, written, faults>>

\* Mutant: an empty queue is enough.
WriterExitWhenEmpty == Leave
WriterExit          == ~running /\ Leave

WriterTake ==
  /\ wpc = "test" /\ queue # << >>
  /\ hand' = Head(queue) /\ queue' = Tail(queue)
  /\ wpc' = "write"
  /\ UNCHANGED <<level, running, fileOut, pending, files, pushed, written, faults>>

-------------------------------------------------------------------------------
(***************************************************************************)
(* write_log() and rotate_logs().  The last backup is removed, the others  *)
(* move up one by one from the oldest, and the log becomes the first.  A   *)
(* rename that throws leaves those below it where they are.                *)
(***************************************************************************)
Full == files[0] # << >> /\ Len(files[0]) >= MaxSize

\* The files when all below the last have moved up, down to the place `from'.
MovedUp(from) ==
  [i \in 0..MaxBackups |-> CASE i > from -> files[i - 1]
                             [] i = from -> << >>
                             [] OTHER    -> files[i]]

Release == hand' = NoEntry /\ wpc' = "test"

Wrote(rotated) ==
  /\ wpc = "write" /\ fileOut /\ Release
  /\ LET base == IF Full THEN rotated ELSE files
     IN  files' = [base EXCEPT ![0] = Append(@, hand)]
  /\ written' = Append(written, hand)
  /\ UNCHANGED <<level, running, fileOut, queue, pending, pushed, faults>>

\* Mutant: one file less is rotated, the oldest stays.
WriteKeepsOldest == Wrote([MovedUp(0) EXCEPT ![MaxBackups] = files[MaxBackups]])
Write            == Wrote(MovedUp(0))

WriteToConsole ==
  /\ wpc = "write" /\ ~fileOut /\ Release
  /\ UNCHANGED <<level, running, fileOut, queue, pending, files, pushed, written, faults>>

\* The log cannot be opened, the last backup not removed, or the file `i' not
\* renamed; the entry is dropped.
WriteFails ==
  /\ wpc = "write" /\ fileOut /\ Release
  /\ faults < MaxFaults /\ faults' = faults + 1
  /\ \/ files' = files
     \/ Full /\ files' = MovedUp(0)
     \/ \E i \in 0..(MaxBackups - 1) :
          Full /\ files[i] # << >> /\ files' = MovedUp(i + 1)
  /\ UNCHANGED <<level, running, fileOut, queue, pending, pushed, written>>

WriterStep == WriterBlock \/ WriterExit \/ WriterTake \/ Write \/ WriteToConsole \/ WriteFails

-------------------------------------------------------------------------------
\* init_logger() on a logger that is down, and the two halves of
\* shutdown_logger().
Start(file) ==
  /\ ~running /\ wpc = "none"
  /\ running' = TRUE /\ fileOut' = file /\ wpc' = "test"
  /\ UNCHANGED <<level, queue, pending, hand, files, pushed, written, faults>>

Stop ==
  /\ running' = FALSE /\ Wake
  /\ UNCHANGED <<level, fileOut, queue, pending, hand, files, pushed, written, faults>>

Joined == wpc = "none"

-------------------------------------------------------------------------------
LoggerTypeOK ==
  /\ {running, fileOut} \subseteq BOOLEAN
  /\ wpc \in {"none", "test", "blocked", "write"}
  /\ wpc # "write" => hand = NoEntry
  /\ running => wpc # "none"
  /\ pushed \in Nat
  /\ \A e \in ToSet(queue) : e.n \in 1..pushed
  /\ \A i \in 0..MaxBackups : Len(files[i]) <= MaxSize \/ Len(files[i]) = 1

\* The files, from the oldest backup to the log, hold the newest entries that
\* were written, in the order in which they were pushed, whatever renames and
\* removals failed on the way: nothing twice, no gap.
OnDisk == FlattenSeq([i \in 1..(MaxBackups + 1) |-> files[MaxBackups + 1 - i]])

FilesHoldNewestWritten ==
  /\ IsSuffix(OnDisk, written)
  /\ \A i, j \in DOMAIN written : i < j => written[i].n < written[j].n

\* A logger that is down keeps at most one entry of each thread: whoever asked
\* before it went down and pushes after the writer has left.  All other lines
\* are written or go to stderr.
StrandedAtMostOneEach ==
  wpc = "none" =>
    /\ \A i, j \in DOMAIN queue : i # j => queue[i].by # queue[j].by
    /\ \A i \in DOMAIN queue : queue[i].by \notin Pending
===============================================================================

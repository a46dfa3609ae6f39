------------------------------- MODULE Telemetry -------------------------------
(***************************************************************************)
(* Logger, configuration watcher and statistics together: the scheduler    *)
(* logs its records like any other thread, while the watcher restarts the  *)
(* logger and changes its level.                                           *)
(***************************************************************************)
EXTENDS AppConfig, StatsManager

CONSTANTS Scheduler,    \* the scheduler, as one of the callers
          Plain         \* what other lines say

ASSUME TelemetryAssumption ==
  /\ Scheduler \in Caller
  /\ Plain \notin [Counter -> Nat] /\ NoEntry \notin [Counter -> Nat]

VARIABLE out           \* history: the records that left the program, summed

vars == <<loggerVars, configVars, statsVars, out>>

Init == ConfigInit /\ StatsInit /\ out = Zero

Error == 4                          \* Lvl::Error
Plus(a, b) == [c \in Counter |-> a[c] + b[c]]
IsRecord(text) == text \notin {Plain, NoEntry}

-------------------------------------------------------------------------------
LogPlain ==
  /\ \E c \in Caller \ {Scheduler}, lvl \in {Info, Error} : Logf(c, lvl, Plain)
  /\ UNCHANGED <<configVars, statsVars, out>>

\* output_snapshot(): logf(), which takes the record or not.
LogRecord ==
  /\ Output
  /\ \/ Logf(Scheduler, Info, snap) /\ UNCHANGED out
     \/ ~Admits(Info) /\ out' = Plus(out, snap) /\ UNCHANGED loggerVars
  /\ UNCHANGED configVars

PushEntry ==
  /\ \E c \in Caller : Push(c)
  /\ UNCHANGED <<configVars, statsVars, out>>

Writer ==
  /\ WriterStep
  /\ out' = IF wpc = "write" /\ IsRecord(hand.text) THEN Plus(out, hand.text) ELSE out
  /\ UNCHANGED <<configVars, statsVars>>

Count ==
  /\ \E c \in Counter : Inc(c)
  /\ UNCHANGED <<loggerVars, configVars, out>>

\* The scheduler sleeps again when it has returned from logf().
Schedule ==
  /\ pending[Scheduler] = NoEntry /\ Take
  /\ UNCHANGED <<loggerVars, configVars, out>>

Watch ==
  /\ WatchStep
  /\ UNCHANGED <<statsVars, out>>

Edit ==
  /\ \E doc \in Config : EditConfig(doc)
  /\ UNCHANGED <<statsVars, out>>

Next == LogPlain \/ LogRecord \/ PushEntry \/ Writer \/ Count \/ Schedule \/ Watch \/ Edit

\* Threads that can run do, and the watcher's second ends.  Nobody has to log,
\* to count or to edit the file, and the minute need not end.
Fairness == WF_vars(PushEntry) /\ WF_vars(Writer) /\ WF_vars(Watch)

Spec == Init /\ [][Next]_vars /\ Fairness

-------------------------------------------------------------------------------
TypeOK ==
  /\ LoggerTypeOK
  /\ apc \in {"sleep", "stop", "start"}
  /\ running = (apc # "start" /\ Enabled(last))
  /\ spc \in 0..Len(CounterOrder)
  /\ \A c \in Counter : {counts[c], snap[c], out[c]} \subseteq Nat

\* Every addition is in one place: a counter, the record being taken, one that
\* is on its way through the logger, or one that has left; no record repeats
\* what an earlier one reported, and none loses what was added while it was
\* taken.
InLogger == LET texts == {<<"pending", c, pending[c]>> : c \in Caller}
                           \cup {<<"queue", i, queue[i].text>> : i \in DOMAIN queue}
                           \cup (IF wpc = "write" THEN {<<"hand", 0, hand.text>>} ELSE {})
            IN  {t \in texts : IsRecord(t[3])}

CountsConserved ==
  \A c \in Counter : incs[c] = counts[c] + snap[c] + out[c]
                                 + MapThenSumSet(LAMBDA t : t[3][c], InLogger)

\* An entry queued while the logger runs is taken by the writer, also when the
\* logger is stopped right after.
EntriesReachTheLog ==
  \A n \in (OldFiles + 1)..MaxEntries :
    (running /\ \E e \in ToSet(queue) : e.n = n) ~> ~\E e \in ToSet(queue) : e.n = n

\* Once nobody edits the file any more, and it is valid and has all keys, the
\* logger comes to run as the file says and stays so, whatever half-valid texts
\* were loaded before.  (MaxEdits is the assumption that the edits end.)
Complete(doc) == WrongAt(doc) = 0 /\ \A k \in LogKey : doc[k] # Absent
RunsAs(doc) == /\ level = doc.level
               /\ running = Enabled(doc)
               /\ running => fileOut = doc.file_output

ConvergesToFile == <>[](Complete(configFile) => RunsAs(configFile))
===============================================================================

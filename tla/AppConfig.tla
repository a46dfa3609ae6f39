------------------------------- MODULE AppConfig -------------------------------
(***************************************************************************)
(* The configuration file and the thread that watches it (app_config.cpp): *)
(* every second it loads the file and, if something about logging has      *)
(* changed, sets the level and restarts the logger.                        *)
(*                                                                         *)
(* load() assigns key by key.  A value of a wrong type ends it there, and  *)
(* what came before stays assigned; a key that is absent keeps its value.  *)
(* A file that cannot be read or parsed has a wrong first value.           *)
(***************************************************************************)
EXTENDS AsyncLogger

CONSTANTS
  Config,        \* texts of the file: key -> value, Absent or Wrong
  Absent, Wrong,
  MaxEdits       \* bound: edits of the file

ASSUME ConfigAssumption ==
  /\ MaxEdits \in Nat
  /\ \A doc \in Config : {doc.file_output, doc.console_output} \subseteq {TRUE, FALSE, Absent, Wrong}

KeyOrder == <<"file_output", "level", "console_output">>
LogKey == ToSet(KeyOrder)
Info == 1        \* Lvl::Info
Defaults == [k \in LogKey |-> IF k = "level" THEN Info ELSE TRUE]

VARIABLES
  configFile,    \* the text of the file
  settings,      \* logging_
  last,          \* last_level, last_file_output, last_console_output
  apc,           \* the watcher: sleep, stop, start
  edits          \* bound

configVars == <<configFile, settings, last, apc, edits>>

WrongAt(doc) == SelectInSeq(KeyOrder, LAMBDA k : doc[k] = Wrong)

Loaded(doc, old) ==
  LET Assigned(i) == (WrongAt(doc) = 0 \/ i < WrongAt(doc)) /\ doc[KeyOrder[i]] # Absent
      assigned == {KeyOrder[i] : i \in {j \in DOMAIN KeyOrder : Assigned(j)}}
  IN  [k \in LogKey |-> IF k \in assigned THEN doc[k] ELSE old[k]]

Enabled(s) == s.file_output \/ s.console_output
Flags(s) == <<s.file_output, s.console_output>>

\* main(): load(), init_logger(), set_level(), start_watching().
ConfigInit ==
  /\ configFile \in Config
  /\ settings = Loaded(configFile, Defaults)
  /\ last = settings
  /\ LoggerInit(settings.level, settings.file_output, settings.console_output)
  /\ apc = "sleep"
  /\ edits = 0

EditConfig(doc) ==
  /\ edits < MaxEdits /\ doc # configFile
  /\ configFile' = doc /\ edits' = edits + 1
  /\ UNCHANGED <<settings, last, apc, loggerVars>>

\* One second later: load(), and set_level() if it succeeds.
LoadAgainst(before) ==
  /\ apc = "sleep"
  /\ settings' = Loaded(configFile, settings)
  /\ IF WrongAt(configFile) # 0
     THEN UNCHANGED <<last, level, apc>>
     ELSE /\ level' = IF settings'.level # before.level THEN settings'.level ELSE level
          /\ last' = [last EXCEPT !.level = settings'.level]
          /\ apc' = IF Flags(settings') # Flags(before) THEN "stop" ELSE "sleep"
  /\ UNCHANGED <<configFile, edits, running, fileOut, queue, pending, pushed, writerVars>>

\* Mutant: compared with what was loaded before, not with what was applied.
WatchLoadComparesLoaded == LoadAgainst(settings)
WatchLoad               == LoadAgainst(last)

WatchStop ==
  /\ apc = "stop" /\ apc' = "start"
  /\ Stop
  /\ UNCHANGED <<configFile, settings, last, edits>>

\* The writer is joined, and the logger started again or not.
WatchStart ==
  /\ apc = "start" /\ Joined
  /\ IF Enabled(settings) THEN Start(settings.file_output) ELSE UNCHANGED loggerVars
  /\ last' = settings
  /\ apc' = "sleep"
  /\ UNCHANGED <<configFile, settings, edits>>

WatchStep == WatchLoad \/ WatchStop \/ WatchStart
===============================================================================

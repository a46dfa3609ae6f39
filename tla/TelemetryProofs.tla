---------------------------- MODULE TelemetryProofs ----------------------------
(***************************************************************************)
(* Proofs about Telemetry for any number of threads that log, any contents *)
(* of the configuration file and any number of restarts and failures.      *)
(***************************************************************************)
EXTENDS Telemetry, DataLemmas

-------------------------------------------------------------------------------
(***************************************************************************)
(* Types.  What the watcher has loaded or applied has switches that are on *)
(* or off.                                                                 *)
(***************************************************************************)
Text  == {Plain} \cup [Counter -> Nat]
Entry == [n : Nat, by : Caller \cup {NoEntry}, text : Text \cup {NoEntry}]

SettingsOK(s) ==
  /\ s = [k \in LogKey |-> s[k]]
  /\ s.file_output \in BOOLEAN /\ s.console_output \in BOOLEAN

LoggerTypes ==
  /\ running \in BOOLEAN /\ fileOut \in BOOLEAN
  /\ queue \in Seq(Entry) /\ pushed \in Nat
  /\ \A i \in DOMAIN queue : queue[i].n \in 1..pushed
  /\ pending \in [Caller -> Text \cup {NoEntry}]
  /\ wpc \in {"none", "test", "blocked", "write"}
  /\ IF wpc = "write" THEN hand \in Entry ELSE hand = NoEntry
  /\ running => wpc # "none"
  /\ files \in [0..MaxBackups -> Seq(Entry)]
  /\ \A i \in 0..MaxBackups : Len(files[i]) <= MaxSize \/ Len(files[i]) = 1

ConfigTypes ==
  /\ configFile \in Config /\ SettingsOK(settings) /\ SettingsOK(last)
  /\ apc \in {"sleep", "stop", "start"}
  /\ running <=> (apc # "start" /\ Enabled(last))

StatsTypes ==
  /\ counts \in [Counter -> Nat] /\ snap \in [Counter -> Nat] /\ out \in [Counter -> Nat]
  /\ spc \in 0..Len(CounterOrder)

TypeInv == LoggerTypes /\ ConfigTypes /\ StatsTypes

USE DEF loggerVars, writerVars, configVars, statsVars

LEMMA Keys == LogKey = {"file_output", "level", "console_output"}
  BY DEF LogKey, ToSet, KeyOrder

LEMMA LoadedOK ==
  ASSUME ConfigAssumption, NEW doc \in Config, NEW old, SettingsOK(old)
  PROVE  SettingsOK(Loaded(doc, old))
<1> DEFINE Bad == {i \in 1..Len(KeyOrder) : doc[KeyOrder[i]] = Wrong}
           w == WrongAt(doc)
<1>1. /\ Len(KeyOrder) = 3 /\ KeyOrder[1] = "file_output"
      /\ KeyOrder[2] = "level" /\ KeyOrder[3] = "console_output"
      /\ DOMAIN KeyOrder = 1..3
  BY DEF KeyOrder
<1>2. LogKey = {"file_output", "level", "console_output"}
  BY Keys
<1>3. \A i \in 1..3 : w = 0 \/ i < w => doc[KeyOrder[i]] # Wrong
  <2>1. w = IF Bad # {} THEN Min(Bad) ELSE 0
    BY DEF WrongAt, SelectInSeq
  <2>2. CASE Bad = {} BY <1>1, <2>1, <2>2
  <2>3. CASE Bad # {}
    <3>1. \E x \in Bad : \A y \in Bad : x =< y
      BY <1>1, <2>3
    <3>2. Min(Bad) \in Bad /\ \A y \in Bad : Min(Bad) =< y
      BY <3>1 DEF Min
    <3> QED BY <1>1, <2>1, <2>3, <3>2
  <2> QED BY <2>2, <2>3
<1>4. ASSUME NEW k \in {"file_output", "console_output"}
      PROVE  Loaded(doc, old)[k] \in BOOLEAN
  <2>1. PICK i \in 1..3 : KeyOrder[i] = k BY <1>1
  <2>2. \/ Loaded(doc, old)[k] = old[k]
        \/ Loaded(doc, old)[k] = doc[k] /\ doc[k] # Absent /\ doc[k] # Wrong
    BY <1>1, <1>2, <1>3 DEF Loaded
  <2>3. doc[k] \in {TRUE, FALSE, Absent, Wrong} BY DEF ConfigAssumption
  <2>4. old[k] \in BOOLEAN BY DEF SettingsOK
  <2> QED BY <2>2, <2>3, <2>4
<1>5. Loaded(doc, old) = [k \in LogKey |-> Loaded(doc, old)[k]]
  BY DEF Loaded
<1> QED BY <1>4, <1>5 DEF SettingsOK

LEMMA TypeInvInit ==
  ASSUME LoggerAssumption, ConfigAssumption, StatsAssumption, Init
  PROVE  TypeInv
<1> USE DEF Init, ConfigInit, LoggerInit
<1>1. SettingsOK(Defaults)
  BY Keys DEF SettingsOK, Defaults
<1>2. configFile \in Config /\ SettingsOK(settings) /\ last = settings
  BY <1>1, LoadedOK
<1>3. ConfigTypes
  BY <1>2 DEF ConfigTypes, SettingsOK, Enabled
<1>4. StatsTypes
  BY DEF StatsTypes, StatsAssumption, StatsInit, Zero
<1>5. LoggerTypes
  <2>1. ASSUME NEW i \in Nat, i \in 1..OldFiles \/ i \in 0..MaxBackups
        PROVE  i < OldFiles => OldEntry(OldFiles - i) \in Entry
    BY DEF LoggerAssumption, OldEntry, Entry
  <2>2. files \in [0..MaxBackups -> Seq(Entry)]
    BY <2>1 DEF LoggerAssumption
  <2>3. \A i \in 0..MaxBackups : Len(files[i]) <= MaxSize \/ Len(files[i]) = 1
    BY DEF LoggerAssumption
  <2>4. running \in BOOLEAN /\ fileOut \in BOOLEAN
    BY <1>2 DEF SettingsOK
  <2> QED BY <2>2, <2>3, <2>4 DEF LoggerTypes, LoggerAssumption
<1> QED BY <1>3, <1>4, <1>5 DEF TypeInv

(***************************************************************************)
(* One lemma for each thread.                                              *)
(***************************************************************************)
LEMMA LogfTypes ==
  ASSUME LoggerTypes, NEW c \in Caller, NEW lvl, NEW text \in Text, Logf(c, lvl, text)
  PROVE  LoggerTypes' /\ running' = running
  BY DEF LoggerTypes, Logf, Enter

LEMMA PushTypes ==
  ASSUME LoggerTypes, NEW c \in Caller, Push(c)
  PROVE  LoggerTypes' /\ running' = running
<1> USE DEF LoggerTypes, Push, Pushed
<1>1. EntryOf(c) \in Entry /\ EntryOf(c).n = pushed + 1
  BY DEF EntryOf, Entry, Pending
<1>2. queue' \in Seq(Entry) /\ \A i \in DOMAIN queue' : queue'[i].n \in 1..pushed'
  BY <1>1, AppendProperties
<1> QED BY <1>2 DEF Wake

LEMMA WriterTypes ==
  ASSUME LoggerAssumption, LoggerTypes, WriterStep
  PROVE  LoggerTypes' /\ running' = running
<1> USE DEF LoggerTypes
<1>1. CASE WriterBlock BY <1>1 DEF WriterBlock
<1>2. CASE WriterExit BY <1>2 DEF WriterExit, Leave
<1>3. CASE WriterTake
  <2>1. /\ Head(queue) \in Entry /\ Tail(queue) \in Seq(Entry)
        /\ \A i \in DOMAIN Tail(queue) : i + 1 \in DOMAIN queue /\ Tail(queue)[i] = queue[i + 1]
    BY <1>3, HeadTailProperties DEF WriterTake
  <2> QED BY <1>3, <2>1 DEF WriterTake
<1>4. ASSUME NEW from \in 0..MaxBackups
      PROVE  /\ MovedUp(from) \in [0..MaxBackups -> Seq(Entry)]
             /\ \A i \in 0..MaxBackups :
                  Len(MovedUp(from)[i]) <= MaxSize \/ Len(MovedUp(from)[i]) = 1
  BY DEF MovedUp, LoggerAssumption
<1>5. CASE Write
  <2> DEFINE base == IF Full THEN MovedUp(0) ELSE files
  <2>1. base \in [0..MaxBackups -> Seq(Entry)]
    BY <1>4 DEF LoggerAssumption
  <2>2. base[0] = << >> \/ Len(base[0]) < MaxSize
    BY DEF Full, MovedUp, LoggerAssumption
  <2>3. files' = [base EXCEPT ![0] = Append(@, hand)]
    BY <1>5 DEF Write, Wrote
  <2>4. hand \in Entry
    BY <1>5 DEF Write, Wrote
  <2>5. /\ files' \in [0..MaxBackups -> Seq(Entry)]
        /\ Len(files'[0]) <= MaxSize \/ Len(files'[0]) = 1
    BY <2>1, <2>2, <2>3, <2>4, AppendProperties DEF LoggerAssumption
  <2>6. \A i \in 0..MaxBackups : Len(files'[i]) <= MaxSize \/ Len(files'[i]) = 1
    <3>0. 0 \in 0..MaxBackups
      BY DEF LoggerAssumption
    <3>1. ASSUME NEW i \in 0..MaxBackups
          PROVE  Len(base[i]) <= MaxSize \/ Len(base[i]) = 1
      <4>1. CASE Full BY <1>4, <3>0, <4>1
      <4>2. CASE ~Full BY <4>2
      <4> QED BY <4>1, <4>2
    <3>2. ASSUME NEW i \in 0..MaxBackups, i # 0 PROVE files'[i] = base[i]
      BY <2>1, <2>3, <3>2
    <3> QED BY <2>5, <3>1, <3>2
  <2> QED BY <1>5, <2>5, <2>6 DEF Write, Wrote, Release
<1>6. CASE WriteToConsole BY <1>6 DEF WriteToConsole, Release
<1>7. CASE WriteFails
  <2>1. files' = files \/ \E from \in 0..MaxBackups : files' = MovedUp(from)
    BY <1>7 DEF WriteFails, LoggerAssumption
  <2>2. /\ files' \in [0..MaxBackups -> Seq(Entry)]
        /\ \A i \in 0..MaxBackups : Len(files'[i]) <= MaxSize \/ Len(files'[i]) = 1
    BY <1>4, <2>1
  <2> QED BY <1>7, <2>2 DEF WriteFails, Release
<1> QED BY <1>1, <1>2, <1>3, <1>5, <1>6, <1>7 DEF WriterStep

LEMMA WatchTypes ==
  ASSUME LoggerAssumption, ConfigAssumption, LoggerTypes, ConfigTypes, WatchStep
  PROVE  LoggerTypes' /\ ConfigTypes'
<1>1. CASE WatchLoad
  <2> USE <1>1 DEF WatchLoad, LoadAgainst, ConfigTypes
  <2>1. SettingsOK(settings')
    BY LoadedOK
  <2>2. SettingsOK(last') /\ Enabled(last') = Enabled(last)
    <3>1. last' = last \/ last' = [last EXCEPT !.level = settings'.level]
      OBVIOUS
    <3>2. ASSUME NEW x
          PROVE  LET new == [last EXCEPT !.level = x]
                 IN  SettingsOK(new) /\ Enabled(new) = Enabled(last)
      BY Keys DEF SettingsOK, Enabled
    <3> QED BY <3>1, <3>2
  <2>3. apc' \in {"sleep", "stop"} /\ running' = running /\ configFile' = configFile
    OBVIOUS
  <2>4. LoggerTypes'
    BY DEF LoggerTypes
  <2> QED BY <2>1, <2>2, <2>3, <2>4
<1>2. CASE WatchStop
  BY <1>2 DEF WatchStop, Stop, Wake, LoggerTypes, ConfigTypes
<1>3. CASE WatchStart
  <2>1. SettingsOK(last') /\ last' = settings
    BY <1>3 DEF WatchStart, ConfigTypes
  <2>2. CASE Enabled(settings)
    <3>1. Start(settings.file_output) BY <1>3, <2>2 DEF WatchStart
    <3>2. LoggerTypes' BY <3>1 DEF Start, LoggerTypes, ConfigTypes, SettingsOK
    <3> QED BY <1>3, <2>1, <2>2, <3>1, <3>2 DEF WatchStart, Start, ConfigTypes
  <2>3. CASE ~Enabled(settings)
    <3>1. UNCHANGED loggerVars BY <1>3, <2>3 DEF WatchStart
    <3>2. LoggerTypes' BY <3>1 DEF LoggerTypes
    <3> QED BY <1>3, <2>1, <2>3, <3>1, <3>2 DEF WatchStart, ConfigTypes
  <2> QED BY <2>2, <2>3
<1> QED BY <1>1, <1>2, <1>3 DEF WatchStep

LEMMA StatsStepTypes ==
  ASSUME StatsAssumption, StatsTypes,
         \/ (\E c \in Counter : Inc(c)) /\ out' = out
         \/ Take /\ out' = out
         \/ Output /\ (out' = out \/ out' = Plus(out, snap))
  PROVE  StatsTypes'
<1> USE DEF StatsTypes
<1>1. CASE (\E c \in Counter : Inc(c)) /\ out' = out
  BY <1>1 DEF Inc
<1>2. CASE Take /\ out' = out
  <2>1. CounterOrder[spc + 1] \in Counter
    BY <1>2 DEF Take, TakeInto, Counter, ToSet, StatsAssumption
  <2> QED BY <1>2, <2>1 DEF Take, TakeInto, StatsAssumption
<1>3. CASE Output /\ (out' = out \/ out' = Plus(out, snap))
  BY <1>3 DEF Output, Plus, Zero, StatsAssumption
<1> QED BY <1>1, <1>2, <1>3

LEMMA TypeInvNext ==
  ASSUME LoggerAssumption, ConfigAssumption, StatsAssumption, TelemetryAssumption,
         TypeInv, [Next]_vars
  PROVE  TypeInv'
<1> USE DEF TypeInv
<1>c. ASSUME UNCHANGED configVars, running' = running PROVE ConfigTypes'
  BY <1>c DEF ConfigTypes
<1>s. ASSUME UNCHANGED statsVars, UNCHANGED out PROVE StatsTypes'
  BY <1>s DEF StatsTypes
<1>l. ASSUME UNCHANGED loggerVars PROVE LoggerTypes' /\ running' = running
  BY <1>l DEF LoggerTypes
<1>1. CASE LogPlain
  <2>1. PICK c \in Caller, lvl \in {Info, Error} : Logf(c, lvl, Plain)
    BY <1>1 DEF LogPlain
  <2>2. LoggerTypes' /\ running' = running
    BY <2>1, LogfTypes DEF Text
  <2> QED BY <1>1, <1>c, <1>s, <2>2 DEF LogPlain
<1>2. CASE LogRecord
  <2>1. StatsTypes'
    BY <1>2, StatsStepTypes DEF LogRecord
  <2>2. LoggerTypes' /\ running' = running
    <3>1. snap \in Text BY DEF StatsTypes, Text
    <3>2. CASE Logf(Scheduler, Info, snap)
      BY <3>1, <3>2, LogfTypes DEF TelemetryAssumption
    <3>3. CASE UNCHANGED loggerVars BY <3>3, <1>l
    <3> QED BY <1>2, <3>2, <3>3 DEF LogRecord
  <2> QED BY <1>2, <1>c, <2>1, <2>2 DEF LogRecord
<1>3. CASE PushEntry
  <2>1. LoggerTypes' /\ running' = running
    BY <1>3, PushTypes DEF PushEntry
  <2> QED BY <1>3, <1>c, <1>s, <2>1 DEF PushEntry
<1>4. CASE Writer
  <2>1. LoggerTypes' /\ running' = running
    BY <1>4, WriterTypes DEF Writer
  <2>2. StatsTypes'
    <3>1. wpc = "write" /\ IsRecord(hand.text) => hand.text \in [Counter -> Nat]
      BY DEF LoggerTypes, Entry, Text, IsRecord
    <3>2. CASE wpc = "write" /\ IsRecord(hand.text)
      BY <1>4, <3>1, <3>2 DEF Writer, Plus, StatsTypes
    <3>3. CASE ~(wpc = "write" /\ IsRecord(hand.text))
      BY <1>4, <3>3 DEF Writer, StatsTypes
    <3> QED BY <3>2, <3>3
  <2> QED BY <1>4, <1>c, <2>1, <2>2 DEF Writer
<1>5. CASE Count \/ Schedule
  <2>1. StatsTypes'
    BY <1>5, StatsStepTypes DEF Count, Schedule
  <2> QED BY <1>5, <1>c, <1>l, <2>1 DEF Count, Schedule
<1>6. CASE Watch
  BY <1>6, <1>s, WatchTypes DEF Watch
<1>7. CASE Edit
  <2>1. ConfigTypes'
    BY <1>7 DEF Edit, EditConfig, ConfigTypes
  <2> QED BY <1>7, <1>s, <1>l, <2>1 DEF Edit, EditConfig
<1>8. CASE UNCHANGED vars
  BY <1>8, <1>c, <1>l, <1>s DEF vars
<1> QED BY <1>1, <1>2, <1>3, <1>4, <1>5, <1>6, <1>7, <1>8 DEF Next

THEOREM TypesInvariant == Spec => []TypeInv
<1>1. Init => TypeInv
  BY TypeInvInit, LoggerAssumption, ConfigAssumption, StatsAssumption
<1>2. TypeInv /\ [Next]_vars => TypeInv'
  BY TypeInvNext, LoggerAssumption, ConfigAssumption, StatsAssumption, TelemetryAssumption
<1> QED BY <1>1, <1>2, PTL DEF Spec

\* The type invariant that the run TelemetrySafe checks: in particular the
\* logger counts as running exactly while the watcher is not between its stop
\* and its start and the flags last applied ask for any output.
THEOREM TelemetryTypeCorrect == Spec => []TypeOK
<1>1. TypeInv => TypeOK
  BY DEF TypeInv, LoggerTypes, ConfigTypes, StatsTypes, TypeOK, LoggerTypeOK, ToSet, Enabled,
         SettingsOK
<1> QED BY <1>1, TypesInvariant, PTL

-------------------------------------------------------------------------------
(***************************************************************************)
(* A logger that is down.  While the writer is gone no thread comes to     *)
(* hold a new entry, since logf() asks first and running_ implies a        *)
(* writer; each that holds one pushes it once.                             *)
(***************************************************************************)
LEMMA StrandedNext ==
  ASSUME TelemetryAssumption, TypeInv, StrandedAtMostOneEach, [Next]_vars
  PROVE  StrandedAtMostOneEach'
<1> USE DEF TypeInv, LoggerTypes, StrandedAtMostOneEach
<1>u. ASSUME UNCHANGED <<wpc, queue, pending>> PROVE StrandedAtMostOneEach'
  BY <1>u DEF Pending
<1>e. ASSUME queue = << >>, queue' = queue PROVE StrandedAtMostOneEach'
  BY <1>e
<1>1. CASE LogPlain \/ LogRecord
  <2>1. CASE UNCHANGED loggerVars BY <2>1, <1>u
  <2>2. CASE \E c \in Caller : \E lvl, text : Logf(c, lvl, text)
    BY <2>2 DEF Logf, Admits, Enter
  <2> QED BY <1>1, <2>1, <2>2 DEF LogPlain, LogRecord, TelemetryAssumption
<1>2. CASE PushEntry
  <2>1. PICK c \in Caller : Push(c) BY <1>2 DEF PushEntry
  <2>2. CASE wpc' = "none"
    <3>1. wpc = "none" BY <2>1, <2>2 DEF Push, Pushed, Wake
    <3>2. /\ queue' = Append(queue, EntryOf(c)) /\ EntryOf(c).by = c
          /\ c \in Pending /\ Pending' = Pending \ {c}
      BY <2>1 DEF Push, Pushed, EntryOf, Pending
    <3>3. /\ DOMAIN queue' = 1..(Len(queue) + 1)
          /\ \A i \in 1..Len(queue) : queue'[i] = queue[i]
          /\ queue'[Len(queue) + 1].by = c
      BY <2>1, <3>2 DEF EntryOf
    <3>4. \A i \in 1..Len(queue) : queue[i].by # c /\ queue[i].by \notin Pending
      BY <3>1, <3>2
    <3>5. \A i, j \in 1..Len(queue) : i # j => queue[i].by # queue[j].by
      BY <3>1
    <3> QED BY <3>2, <3>3, <3>4, <3>5
  <2> QED BY <2>2
<1>3. CASE Writer
  <2>1. CASE WriterBlock BY <2>1 DEF WriterBlock
  <2>2. CASE WriterExit BY <2>2, <1>e DEF WriterExit, Leave
  <2>3. CASE WriterTake BY <2>3 DEF WriterTake
  <2>4. CASE Write \/ WriteToConsole \/ WriteFails
    BY <2>4 DEF Write, Wrote, WriteToConsole, WriteFails, Release
  <2> QED BY <1>3, <2>1, <2>2, <2>3, <2>4 DEF Writer, WriterStep
<1>4. CASE Watch
  <2>1. CASE WatchLoad BY <2>1, <1>u DEF WatchLoad, LoadAgainst
  <2>2. CASE WatchStop BY <2>2, <1>u DEF WatchStop, Stop, Wake
  <2>3. CASE WatchStart
    BY <2>3, <1>u DEF WatchStart, Start
  <2> QED BY <1>4, <2>1, <2>2, <2>3 DEF Watch, WatchStep
<1>5. CASE Count \/ Schedule \/ Edit \/ UNCHANGED vars
  BY <1>5, <1>u DEF Count, Schedule, Edit, EditConfig, vars
<1> QED BY <1>1, <1>2, <1>3, <1>4, <1>5 DEF Next

\* A stopped logger keeps at most one entry of each thread, and none of a thread
\* that is about to push another: however many threads log, at most as many
\* entries as there are threads wait for a start that may never come.
THEOREM AtMostOneStrandedEach == Spec => []StrandedAtMostOneEach
<1>1. Init => StrandedAtMostOneEach
  BY DEF Init, ConfigInit, LoggerInit, StrandedAtMostOneEach
<1>2. TypeInv /\ StrandedAtMostOneEach /\ [Next]_vars => StrandedAtMostOneEach'
  BY StrandedNext, TelemetryAssumption
<1> QED BY <1>1, <1>2, TypesInvariant, PTL DEF Spec

-------------------------------------------------------------------------------
(***************************************************************************)
(* The files.  From the log to the oldest backup they are adjacent pieces  *)
(* of what was written: cut[i] is where the piece of file i ends, and      *)
(* cut[i + 1] where it starts.  A rotation moves the cuts up with the      *)
(* files, and leaves an empty piece where it ends.                         *)
(***************************************************************************)
CutAt(fs, ws, cut) ==
  /\ cut \in [0..(MaxBackups + 1) -> 0..Len(ws)] /\ cut[0] = Len(ws)
  /\ \A i \in 0..MaxBackups :
       cut[i + 1] <= cut[i] /\ fs[i] = SubSeq(ws, cut[i + 1] + 1, cut[i])

Pieces(fs, ws) == \E cut : CutAt(fs, ws, cut)

LEMMA MovedPieces ==
  ASSUME LoggerAssumption, Pieces(files, written), Len(written) \in Nat,
         NEW from \in 0..MaxBackups
  PROVE  Pieces(MovedUp(from), written)
<1>1. PICK cut : CutAt(files, written, cut)
  BY DEF Pieces
<1> DEFINE new == [i \in 0..(MaxBackups + 1) |-> IF i > from THEN cut[i - 1] ELSE cut[i]]
<1>2. MaxBackups \in Nat
  BY DEF LoggerAssumption
<1>3. new \in [0..(MaxBackups + 1) -> 0..Len(written)] /\ new[0] = Len(written)
  BY <1>1, <1>2 DEF CutAt
<1>4. ASSUME NEW i \in 0..MaxBackups
      PROVE  /\ new[i + 1] <= new[i]
             /\ MovedUp(from)[i] = SubSeq(written, new[i + 1] + 1, new[i])
  <2>1. i \in 0..(MaxBackups + 1) /\ i + 1 \in 0..(MaxBackups + 1) /\ (i + 1) - 1 = i
    BY <1>2
  <2>2. CASE i > from
    <3>1. i - 1 \in 0..MaxBackups /\ (i - 1) + 1 = i BY <1>2, <2>2
    <3>2. new[i] = cut[i - 1] /\ new[i + 1] = cut[i]
      BY <2>1, <2>2
    <3>3. cut[i] <= cut[i - 1] /\ files[i - 1] = SubSeq(written, cut[i] + 1, cut[i - 1])
      BY <1>1, <3>1 DEF CutAt
    <3>4. MovedUp(from)[i] = files[i - 1]
      BY <2>2 DEF MovedUp
    <3> QED BY <3>2, <3>3, <3>4
  <2>3. CASE i = from
    <3>1. new[i] = cut[i] /\ new[i + 1] = cut[i]
      BY <2>1, <2>3
    <3>2. MovedUp(from)[i] = << >>
      BY <2>3 DEF MovedUp
    <3>3. cut[i] \in Nat
      BY <1>1, <2>1 DEF CutAt
    <3>4. SubSeq(written, cut[i] + 1, cut[i]) = << >>
      BY <3>3, SubSeqEmpty
    <3> QED BY <3>1, <3>2, <3>3, <3>4
  <2>4. CASE i < from
    <3>1. new[i] = cut[i] /\ new[i + 1] = cut[i + 1]
      BY <2>1, <2>4
    <3>2. MovedUp(from)[i] = files[i]
      BY <2>4 DEF MovedUp
    <3> QED BY <1>1, <3>1, <3>2 DEF CutAt
  <2>5. i > from \/ i = from \/ i < from
    BY <1>2
  <2> HIDE DEF new
  <2> QED BY <2>2, <2>3, <2>4, <2>5
<1> HIDE DEF new
<1> QED BY <1>3, <1>4 DEF CutAt, Pieces

LEMMA AppendedPieces ==
  ASSUME LoggerAssumption, NEW fs, DOMAIN fs = 0..MaxBackups, NEW ws \in Seq(Entry),
         NEW e \in Entry, Pieces(fs, ws)
  PROVE  Pieces([fs EXCEPT ![0] = Append(@, e)], Append(ws, e))
<1>1. PICK cut : CutAt(fs, ws, cut)
  BY DEF Pieces
<1> DEFINE n == Len(ws)
           ws1 == Append(ws, e)
           fs1 == [fs EXCEPT ![0] = Append(@, e)]
           new == [cut EXCEPT ![0] = n + 1]
<1>2. MaxBackups \in Nat \ {0} /\ n \in Nat
  BY DEF LoggerAssumption
<1>3. /\ ws1 \in Seq(Entry) /\ Len(ws1) = n + 1 /\ ws1[n + 1] = e
      /\ \A j \in 1..n : ws1[j] = ws[j]
  BY <1>2, AppendProperties
<1>4. new \in [0..(MaxBackups + 1) -> 0..Len(ws1)] /\ new[0] = Len(ws1)
  <2>1. cut \in [0..(MaxBackups + 1) -> 0..n]
    BY <1>1 DEF CutAt
  <2> DEFINE N == 0..(MaxBackups + 1)
             M == 0..(n + 1)
  <2>2. 0 \in N /\ (0..n) \subseteq M /\ n + 1 \in M
    BY <1>2
  <2>3. new \in [N -> M] /\ new[0] = n + 1
    <3> HIDE DEF N, M, n
    <3> QED BY <2>1, <2>2 DEF N
  <2> QED BY <1>3, <2>3
<1>5. \A a \in 0..n, b \in 0..n : SubSeq(ws1, a + 1, b) = SubSeq(ws, a + 1, b)
  <2> TAKE a \in 0..n, b \in 0..n
  <2>1. \A j \in 1..((b + 1) - (a + 1)) : ws1[(a + 1) + j - 1] = ws[(a + 1) + j - 1]
    BY <1>2, <1>3
  <2> HIDE DEF ws1
  <2> QED BY <1>2, <2>1
<1>6. ASSUME NEW i \in 0..MaxBackups
      PROVE  new[i + 1] <= new[i] /\ fs1[i] = SubSeq(ws1, new[i + 1] + 1, new[i])
  <2>1. /\ i \in 0..(MaxBackups + 1) /\ i + 1 \in 0..(MaxBackups + 1) /\ i + 1 # 0
        /\ cut[i + 1] \in 0..n /\ cut[i] \in 0..n /\ cut[i + 1] <= cut[i]
        /\ fs[i] = SubSeq(ws, cut[i + 1] + 1, cut[i])
    <3>1. i \in 0..(MaxBackups + 1) /\ i + 1 \in 0..(MaxBackups + 1) /\ i + 1 # 0
      BY <1>2
    <3>2. cut \in [0..(MaxBackups + 1) -> 0..n]
      BY <1>1 DEF CutAt
    <3>3. cut[i + 1] \in 0..n /\ cut[i] \in 0..n
      <4> HIDE DEF n
      <4> QED BY <3>1, <3>2
    <3>4. cut[i + 1] <= cut[i] /\ fs[i] = SubSeq(ws, cut[i + 1] + 1, cut[i])
      BY <1>1 DEF CutAt
    <3> QED BY <3>1, <3>3, <3>4
  <2>2. new[i + 1] = cut[i + 1]
    BY <1>1, <2>1 DEF CutAt
  <2>3. CASE i # 0
    <3>1. new[i] = cut[i] /\ fs1[i] = fs[i]
      BY <1>1, <2>1, <2>3 DEF CutAt
    <3> HIDE DEF new, fs1, ws1
    <3> QED BY <1>5, <2>1, <2>2, <3>1
  <2>4. CASE i = 0
    <3> DEFINE a == cut[i + 1]
    <3>1. new[i] = n + 1 /\ fs1[i] = Append(fs[i], e) /\ cut[i] = n
      BY <1>1, <2>1, <2>4 DEF CutAt
    <3>2. SubSeq(ws1, a + 1, n + 1) = Append(SubSeq(ws1, a + 1, n), e)
      <4>1. a + 1 \in 1..Len(ws1) /\ n + 1 \in (a + 1)..Len(ws1) /\ (n + 1) - 1 = n
        BY <1>2, <1>3, <2>1
      <4> HIDE DEF a, ws1
      <4> DEFINE m == n + 1
      <4>2. SubSeq(ws1, a + 1, m) = SubSeq(ws1, a + 1, m - 1) \o <<ws1[m]>>
        <5> HIDE DEF m
        <5> QED BY <1>3, <4>1, SubSeqRecursiveSecond DEF m
      <4>3. SubSeq(ws1, a + 1, n) \in Seq(Entry)
        <5>1. a \in 0..n BY <2>1 DEF a
        <5>2. \A j \in (a + 1)..n : ws1[j] \in Entry BY <1>2, <1>3, <5>1
        <5> QED BY <1>2, <5>1, <5>2, SubSeqProperties
      <4> QED BY <1>3, <4>1, <4>2, <4>3, AppendIsConcat
    <3>3. SubSeq(ws1, a + 1, n) = SubSeq(ws, a + 1, n)
      <4>1. a \in 0..n /\ n \in 0..n
        BY <1>2, <2>1
      <4> HIDE DEF a, ws1, n
      <4> QED BY <1>5, <4>1
    <3>4. a <= n + 1
      BY <1>2, <2>1
    <3> HIDE DEF new, fs1, ws1, n
    <3> QED BY <2>1, <2>2, <3>1, <3>2, <3>3, <3>4
  <2> QED BY <2>3, <2>4
<1> HIDE DEF new, fs1, ws1
<1>7. CutAt(fs1, ws1, new)
  BY <1>4, <1>6 DEF CutAt
<1> QED BY <1>7 DEF Pieces, fs1, ws1

(***************************************************************************)
(* The order.  An entry on its way to the file is older than those behind  *)
(* it: written, in the writer's hand, queued.                              *)
(***************************************************************************)
Rising(s) == \A i, j \in DOMAIN s : i < j => s[i].n < s[j].n

OrderInv ==
  /\ Rising(written) /\ Rising(queue)
  /\ \A i \in DOMAIN written : written[i].n <= pushed
  /\ \A i \in DOMAIN written, j \in DOMAIN queue : written[i].n < queue[j].n
  /\ wpc = "write" => /\ hand.n <= pushed
                      /\ \A i \in DOMAIN written : written[i].n < hand.n
                      /\ \A j \in DOMAIN queue : hand.n < queue[j].n

FilesInv == written \in Seq(Entry) /\ Pieces(files, written) /\ OrderInv

LEMMA FilesInvInit ==
  ASSUME LoggerAssumption, Init
  PROVE  FilesInv
<1> DEFINE cut == [i \in 0..(MaxBackups + 1) |-> IF i < OldFiles THEN OldFiles - i ELSE 0]
<1>1. /\ written = [i \in 1..OldFiles |-> OldEntry(i)] /\ pushed = OldFiles
      /\ queue = << >> /\ wpc # "write"
      /\ files = [i \in 0..MaxBackups |->
                    IF i < OldFiles THEN <<OldEntry(OldFiles - i)>> ELSE << >>]
  BY DEF Init, ConfigInit, LoggerInit
<1>2. MaxBackups \in Nat \ {0} /\ OldFiles \in Nat
  BY DEF LoggerAssumption
<1>3. \A i \in 1..OldFiles : OldEntry(i) \in Entry /\ OldEntry(i).n = i
  BY <1>2 DEF OldEntry, Entry
<1>4. written \in Seq(Entry) /\ Len(written) = OldFiles
  BY <1>1, <1>2, <1>3
<1>5. OrderInv
  BY <1>1, <1>2, <1>3 DEF OrderInv, Rising
<1>6. cut \in [0..(MaxBackups + 1) -> 0..Len(written)] /\ cut[0] = Len(written)
  BY <1>2, <1>4
<1>7. ASSUME NEW i \in 0..MaxBackups
      PROVE  /\ cut[i + 1] <= cut[i]
             /\ files[i] = SubSeq(written, cut[i + 1] + 1, cut[i])
  <2>1. i \in 0..(MaxBackups + 1) /\ i + 1 \in 0..(MaxBackups + 1) /\ i \in Nat
    BY <1>2
  <2>2. CASE i < OldFiles
    <3> DEFINE m == OldFiles - i
    <3>1. cut[i] = m /\ cut[i + 1] + 1 = m /\ m \in 1..OldFiles
      BY <1>2, <2>1, <2>2
    <3>2. files[i] = <<OldEntry(m)>> /\ written[m] = OldEntry(m)
      BY <1>1, <2>2, <3>1
    <3>3. SubSeq(written, m, m) = <<written[m]>>
      <4> DEFINE t == SubSeq(written, m, m)
      <4> HIDE DEF m
      <4>1. m \in Int /\ m <= m /\ m - m + 1 = 1 /\ m + 1 - 1 = m /\ written[m] \in Entry
        BY <1>2, <1>4, <3>1
      <4>2. t \in Seq(Entry) /\ Len(t) = 1 /\ t[1] = written[m]
        <5>1. \A j \in m..m : written[j] \in Entry BY <4>1
        <5>2. /\ t \in Seq(Entry) /\ Len(t) = IF m <= m THEN m - m + 1 ELSE 0
              /\ \A j \in 1..(m - m + 1) : t[j] = written[m + j - 1]
          BY <4>1, <5>1, SubSeqProperties
        <5> QED BY <4>1, <5>2
      <4> HIDE DEF t
      <4>3. t = <<t[1]>> BY <4>2
      <4> QED BY <4>2, <4>3 DEF t
    <3> HIDE DEF cut, m
    <3>4. cut[i + 1] <= cut[i]
      <4>1. cut[i + 1] \in Nat BY <1>2, <1>6, <2>1
      <4> QED BY <1>2, <3>1, <4>1
    <3> QED BY <3>1, <3>2, <3>3, <3>4
  <2>3. CASE ~(i < OldFiles)
    <3>1. cut[i] = 0 /\ cut[i + 1] = 0
      BY <1>2, <2>1, <2>3
    <3>2. files[i] = << >>
      BY <1>1, <2>3
    <3>3. SubSeq(written, 1, 0) = << >>
      BY SubSeqEmpty
    <3> HIDE DEF cut
    <3> QED BY <3>1, <3>2, <3>3
  <2> QED BY <2>2, <2>3
<1> HIDE DEF cut
<1>8. Pieces(files, written)
  BY <1>6, <1>7 DEF CutAt, Pieces
<1> QED BY <1>4, <1>5, <1>8 DEF FilesInv

LEMMA PushKeepsFiles ==
  ASSUME LoggerTypes, FilesInv, NEW c \in Caller, Push(c)
  PROVE  FilesInv'
<1> USE DEF FilesInv, OrderInv
<1>1. /\ queue' = Append(queue, EntryOf(c)) /\ pushed' = pushed + 1
      /\ UNCHANGED <<hand, files, written>> /\ (wpc' = "write" <=> wpc = "write")
  BY DEF Push, Pushed, Wake
<1>2. /\ DOMAIN queue = 1..Len(queue) /\ Len(queue) \in Nat /\ DOMAIN queue' = 1..(Len(queue) + 1)
      /\ \A i \in 1..Len(queue) : queue'[i] = queue[i]
      /\ queue'[Len(queue) + 1] = EntryOf(c)
  BY <1>1 DEF LoggerTypes
<1>3. EntryOf(c).n = pushed + 1 /\ pushed \in Nat /\ \A i \in DOMAIN queue : queue[i].n \in 1..pushed
  BY DEF LoggerTypes, EntryOf
<1>4. /\ \A i \in DOMAIN written : written[i].n \in Nat
      /\ wpc = "write" => hand.n \in Nat
  <2>1. \A e \in Entry : e.n \in Nat BY DEF Entry
  <2>2. \A i \in DOMAIN written : written[i] \in Entry OBVIOUS
  <2>3. wpc = "write" => hand \in Entry BY DEF LoggerTypes
  <2> QED BY <2>1, <2>2, <2>3
<1>5. Rising(queue')
  BY <1>2, <1>3 DEF Rising
<1>6. \A i \in DOMAIN written, j \in DOMAIN queue' : written[i].n < queue'[j].n
  BY <1>2, <1>3, <1>4
<1>7. wpc = "write" => \A j \in DOMAIN queue' : hand.n < queue'[j].n
  BY <1>2, <1>3, <1>4
<1>8. \A i \in DOMAIN written : written[i].n <= pushed'
  BY <1>1, <1>3, <1>4
<1>9. wpc = "write" => hand.n <= pushed'
  BY <1>1, <1>3, <1>4
<1>10. Rising(queue)' /\ Rising(written)'
  BY <1>1, <1>5 DEF Rising
<1> QED BY <1>1, <1>6, <1>7, <1>8, <1>9, <1>10

LEMMA WriterKeepsFiles ==
  ASSUME LoggerAssumption, LoggerTypes, FilesInv, WriterStep
  PROVE  FilesInv'
<1> USE DEF FilesInv, OrderInv
<1>0. written \in Seq(Entry) /\ queue \in Seq(Entry) /\ Len(written) \in Nat /\ pushed \in Nat
  BY DEF LoggerTypes
<1>n. /\ \A i \in DOMAIN written : written[i].n \in Nat
      /\ \A i \in DOMAIN queue : queue[i].n \in Nat
  <2>1. \A e \in Entry : e.n \in Nat BY DEF Entry
  <2>2. /\ \A i \in DOMAIN written : written[i] \in Entry
        /\ \A i \in DOMAIN queue : queue[i] \in Entry
    BY <1>0
  <2> QED BY <2>1, <2>2
<1>1. CASE WriterBlock BY <1>1 DEF WriterBlock, Rising
<1>2. CASE WriterExit BY <1>2 DEF WriterExit, Leave, Rising
<1>3. CASE WriterTake
  <2>1. /\ hand' = queue[1] /\ DOMAIN queue = 1..Len(queue) /\ Len(queue) \in Nat \ {0}
        /\ DOMAIN queue' = 1..(Len(queue) - 1)
        /\ \A i \in DOMAIN queue' : i + 1 \in DOMAIN queue /\ queue'[i] = queue[i + 1]
        /\ UNCHANGED <<files, written, pushed>>
    BY <1>0, <1>3, HeadTailProperties DEF WriterTake
  <2>2. /\ Rising(queue)' /\ Rising(written)'
        /\ \A j \in DOMAIN queue' : queue[1].n < queue'[j].n
    <3>1. Rising(queue)'
      BY <1>0, <1>n, <2>1 DEF Rising
    <3>2. \A j \in DOMAIN queue' : queue[1].n < queue'[j].n
      BY <1>0, <1>n, <2>1 DEF Rising
    <3>3. Rising(written)'
      BY <2>1 DEF Rising
    <3> QED BY <3>1, <3>2, <3>3
  <2>3. \A i \in DOMAIN queue : queue[i].n \in 1..pushed
    BY DEF LoggerTypes
  <2> QED BY <1>0, <2>1, <2>2, <2>3
<1>4. CASE Write
  <2> DEFINE base == IF Full THEN MovedUp(0) ELSE files
  <2>1. /\ files' = [base EXCEPT ![0] = Append(@, hand)] /\ written' = Append(written, hand)
        /\ UNCHANGED <<queue, pushed>> /\ wpc = "write" /\ wpc' = "test" /\ hand \in Entry
    BY <1>4 DEF Write, Wrote, Release, LoggerTypes
  <2>2. Pieces(base, written) /\ DOMAIN base = 0..MaxBackups
    <3>1. 0 \in 0..MaxBackups BY DEF LoggerAssumption
    <3>2. Pieces(MovedUp(0), written) BY <1>0, <3>1, MovedPieces
    <3>3. DOMAIN MovedUp(0) = 0..MaxBackups /\ DOMAIN files = 0..MaxBackups
      BY DEF MovedUp, LoggerTypes
    <3> QED BY <3>2, <3>3
  <2>3. Pieces(files, written)'
    <3> HIDE DEF base
    <3>1. Pieces([base EXCEPT ![0] = Append(@, hand)], Append(written, hand))
      BY <1>0, <2>1, <2>2, AppendedPieces
    <3> QED BY <2>1, <3>1 DEF Pieces, CutAt
  <2>4. /\ written' \in Seq(Entry) /\ DOMAIN written = 1..Len(written)
        /\ DOMAIN written' = 1..(Len(written) + 1) /\ written'[Len(written) + 1] = hand
        /\ \A i \in 1..Len(written) : written'[i] = written[i]
    BY <1>0, <2>1, AppendProperties
  <2>5. hand.n <= pushed /\ (\A i \in DOMAIN written : written[i].n < hand.n)
        /\ (\A j \in DOMAIN queue : hand.n < queue[j].n)
    BY <2>1
  <2>6. Rising(written)'
    BY <1>0, <2>4, <2>5 DEF Rising
  <2>7. /\ \A i \in DOMAIN written' : written'[i].n <= pushed
        /\ \A i \in DOMAIN written', j \in DOMAIN queue : written'[i].n < queue[j].n
    <3>1. hand.n \in Nat BY <2>1 DEF Entry
    <3>2. ASSUME NEW i \in DOMAIN written'
          PROVE  written'[i].n <= pushed /\ \A j \in DOMAIN queue : written'[i].n < queue[j].n
      <4>1. CASE i = Len(written) + 1
        BY <2>4, <2>5, <4>1
      <4>2. CASE i # Len(written) + 1
        <5>1. i \in DOMAIN written /\ written'[i] = written[i] BY <1>0, <2>4, <4>2
        <5> QED BY <5>1
      <4> QED BY <4>1, <4>2
    <3> QED BY <3>2
  <2>8. Rising(queue)'
    BY <2>1 DEF Rising
  <2> QED BY <2>1, <2>3, <2>4, <2>6, <2>7, <2>8
<1>5. CASE WriteToConsole BY <1>5 DEF WriteToConsole, Release, Rising
<1>6. CASE WriteFails
  <2>1. files' = files \/ \E from \in 0..MaxBackups : files' = MovedUp(from)
    BY <1>6 DEF WriteFails, LoggerAssumption
  <2>2. Pieces(files', written)
    BY <1>0, <2>1, MovedPieces
  <2>3. UNCHANGED <<queue, written, pushed>> /\ wpc' = "test"
    BY <1>6 DEF WriteFails, Release
  <2>4. Pieces(files, written)'
    BY <2>2, <2>3 DEF Pieces, CutAt
  <2> QED BY <2>3, <2>4 DEF Rising
<1> QED BY <1>1, <1>2, <1>3, <1>4, <1>5, <1>6 DEF WriterStep

LEMMA FilesInvNext ==
  ASSUME LoggerAssumption, TypeInv, FilesInv, [Next]_vars
  PROVE  FilesInv'
<1>u. ASSUME UNCHANGED <<queue, hand, files, written, pushed>>,
             wpc' = "write" => wpc = "write"
      PROVE  FilesInv'
  BY <1>u DEF FilesInv, OrderInv, Rising, Pieces, CutAt
<1>l. ASSUME UNCHANGED loggerVars PROVE FilesInv'
  BY <1>l, <1>u
<1>1. CASE LogPlain \/ LogRecord
  <2>1. CASE UNCHANGED loggerVars BY <2>1, <1>l
  <2>2. CASE \E c \in Caller : \E lvl, text : Logf(c, lvl, text)
    BY <2>2, <1>u DEF Logf, Enter
  <2> QED BY <1>1, <2>1, <2>2, TelemetryAssumption DEF LogPlain, LogRecord, TelemetryAssumption
<1>2. CASE PushEntry
  BY <1>2, PushKeepsFiles DEF PushEntry, TypeInv
<1>3. CASE Writer
  BY <1>3, WriterKeepsFiles DEF Writer, TypeInv
<1>4. CASE Watch
  <2>1. CASE WatchLoad BY <2>1, <1>u DEF WatchLoad, LoadAgainst
  <2>2. CASE WatchStop BY <2>2, <1>u DEF WatchStop, Stop, Wake
  <2>3. CASE WatchStart
    BY <2>3, <1>u DEF WatchStart, Start
  <2> QED BY <1>4, <2>1, <2>2, <2>3 DEF Watch, WatchStep
<1>5. CASE Count \/ Schedule \/ Edit \/ UNCHANGED vars
  BY <1>5, <1>l DEF Count, Schedule, Edit, EditConfig, vars
<1> QED BY <1>1, <1>2, <1>3, <1>4, <1>5 DEF Next

THEOREM FilesInvariant == Spec => []FilesInv
<1>1. Init => FilesInv
  BY FilesInvInit, LoggerAssumption
<1>2. TypeInv /\ FilesInv /\ [Next]_vars => FilesInv'
  BY FilesInvNext, LoggerAssumption
<1> QED BY <1>1, <1>2, TypesInvariant, PTL DEF Spec

\* The files hold the newest entries written, in the order in which they were
\* pushed, nothing twice and no gap: for any number of backups and any size of a
\* file, whatever renames and removals fail, wherever a rotation stops.
THEOREM FilesAreTheEnd == Spec => []FilesHoldNewestWritten
<1>1. ASSUME FilesInv PROVE FilesHoldNewestWritten
  <2>1. PICK cut : CutAt(files, written, cut)
    BY <1>1 DEF FilesInv, Pieces
  <2> DEFINE N == MaxBackups + 1
             up == [i \in 0..N |-> cut[N - i]]
             parts == [i \in 1..N |-> files[N - i]]
  <2>2. N \in Nat \ {0} /\ written \in Seq(Entry) /\ Len(written) \in Nat
    BY <1>1, LoggerAssumption DEF FilesInv, LoggerAssumption
  <2>3. up \in [0..N -> 0..Len(written)] /\ up[N] = Len(written)
    BY <2>1, <2>2 DEF CutAt
  <2>4. ASSUME NEW i \in 1..N
        PROVE  up[i - 1] <= up[i] /\ files[N - i] = SubSeq(written, up[i - 1] + 1, up[i])
    <3>1. N - i \in 0..MaxBackups /\ i \in 0..N /\ i - 1 \in 0..N /\ N - (i - 1) = (N - i) + 1
      BY LoggerAssumption DEF LoggerAssumption
    <3>2. up[i] = cut[N - i] /\ up[i - 1] = cut[(N - i) + 1]
      BY <3>1
    <3> HIDE DEF up, N
    <3> QED BY <2>1, <3>1, <3>2 DEF CutAt
  <2> HIDE DEF up, N
  <2>5. parts = [i \in 1..N |-> SubSeq(written, up[i - 1] + 1, up[i])]
    BY <2>4
  <2>6. FlattenSeq([i \in 1..N |-> SubSeq(written, up[i - 1] + 1, up[i])])
          = SubSeq(written, up[0] + 1, up[N])
    BY <2>2, <2>3, <2>4, FlattenPieces
  <2> HIDE DEF parts
  <2>7. OnDisk = SubSeq(written, up[0] + 1, Len(written))
    <3>1. parts = [i \in 1..(MaxBackups + 1) |-> files[MaxBackups + 1 - i]]
      <4>1. \A i \in 1..N : MaxBackups + 1 - i = N - i
        BY LoggerAssumption DEF N, LoggerAssumption
      <4> QED BY <4>1 DEF N, parts
    <3>2. OnDisk = FlattenSeq(parts)
      BY <3>1 DEF OnDisk
    <3> QED BY <2>3, <2>5, <2>6, <3>2
  <2>8. IsSuffix(OnDisk, written)
    <3>1. up[0] \in 0..Len(written) BY <2>2, <2>3
    <3> QED BY <2>2, <2>7, <3>1, EndIsSuffix
  <2> QED BY <1>1, <2>8 DEF FilesHoldNewestWritten, FilesInv, OrderInv, Rising
<1> QED BY <1>1, FilesInvariant, PTL

-------------------------------------------------------------------------------
(***************************************************************************)
(* The counts.  The sum that CountsConserved takes over the records in the *)
(* logger: what MapThenSumSet computes does not depend on the order in     *)
(* which it picks the members, which the recursion on the set needs.       *)
(***************************************************************************)
Total(c, S) == MapThenSumSet(LAMBDA t : t[3][c], S)
Some(s) == CHOOSE x \in s : TRUE
Totals(f, c, D) ==
  f = [s \in SUBSET D |-> IF s = {} THEN 0 ELSE Some(s)[3][c] + f[s \ {Some(s)}]]

LEMMA TotalIs ==
  ASSUME NEW c, NEW S
  PROVE  LET F == CHOOSE f : Totals(f, c, S) IN Total(c, S) = F[S]
  BY DEF Total, Totals, Some, MapThenSumSet, MapThenFoldSet

LEMMA TotalsOnce ==
  ASSUME NEW c, NEW D, IsFiniteSet(D), NEW f, NEW g, Totals(f, c, D), Totals(g, c, D)
  PROVE  f = g
<1> DEFINE Bad == {s \in SUBSET D : f[s] # g[s]}
<1>1. /\ f = [s \in SUBSET D |-> IF s = {} THEN 0 ELSE Some(s)[3][c] + f[s \ {Some(s)}]]
      /\ g = [s \in SUBSET D |-> IF s = {} THEN 0 ELSE Some(s)[3][c] + g[s \ {Some(s)}]]
  BY DEF Totals
<1>2. ASSUME NEW s \in Bad PROVE \E r \in Bad : r \subseteq s /\ r # s
  <2> DEFINE r == s \ {Some(s)}
  <2>1. s # {}
    BY <1>1, <1>2
  <2>2. Some(s) \in s
    BY <2>1 DEF Some
  <2>3. f[s] = Some(s)[3][c] + f[r] /\ g[s] = Some(s)[3][c] + g[r]
    BY <1>1, <2>1
  <2>4. r \in SUBSET D /\ r \subseteq s /\ r # s /\ f[s] # g[s]
    BY <2>2
  <2> HIDE DEF r
  <2>5. f[r] # g[r]
    BY <2>3, <2>4
  <2> QED BY <2>4, <2>5
<1>3. Bad = {}
  <2>1. Bad \in SUBSET (SUBSET D) OBVIOUS
  <2> HIDE DEF Bad
  <2> QED BY <1>2, <2>1, DescentOfSets
<1>4. \A s \in SUBSET D : f[s] = g[s]
  BY <1>3
<1>5. f = [s \in SUBSET D |-> f[s]] /\ g = [s \in SUBSET D |-> g[s]]
  BY <1>1
<1> QED BY <1>4, <1>5

LEMMA TotalRec ==
  ASSUME NEW c, NEW D, IsFiniteSet(D)
  PROVE  Total(c, D) = IF D = {} THEN 0 ELSE Some(D)[3][c] + Total(c, D \ {Some(D)})
<1> DEFINE Rec(s) == IF s = {} THEN 0 ELSE Some(s)[3][c] + Total(c, s \ {Some(s)})
           Bad == {s \in SUBSET D : Total(c, s) # Rec(s)}
<1>1. ASSUME NEW s \in Bad PROVE \E r \in Bad : r \subseteq s /\ r # s
  <2> SUFFICES ASSUME \A r \in SUBSET s : r # s => Total(c, r) = Rec(r)
               PROVE  FALSE
    BY <1>1
  <2> DEFINE g == [r \in SUBSET s |-> IF r = s THEN Rec(r) ELSE Total(c, r)]
             F == CHOOSE f : Totals(f, c, s)
  <2>1. ASSUME NEW r \in SUBSET s
        PROVE  g[r] = IF r = {} THEN 0 ELSE Some(r)[3][c] + g[r \ {Some(r)}]
    <3>1. g[r] = Rec(r)
      OBVIOUS
    <3>2. CASE r = {}
      BY <3>1, <3>2
    <3>3. CASE r # {}
      <4>1. Some(r) \in r
        BY <3>3 DEF Some
      <4>2. r \ {Some(r)} \in SUBSET s /\ r \ {Some(r)} # s
        BY <4>1
      <4>3. g[r \ {Some(r)}] = Total(c, r \ {Some(r)})
        BY <4>2
      <4> HIDE DEF g
      <4> QED BY <3>1, <3>3, <4>3
    <3> QED BY <3>2, <3>3
  <2>2. Totals(g, c, s)
    <3>1. g = [r \in SUBSET s |-> g[r]] OBVIOUS
    <3> HIDE DEF g
    <3> QED BY <2>1, <3>1 DEF Totals
  <2>3. Totals(F, c, s)
    <3> HIDE DEF g
    <3> QED BY <2>2
  <2>4. IsFiniteSet(s)
    BY FS_Subset
  <2>5. F = g
    <3> HIDE DEF g, F
    <3> QED BY <2>2, <2>3, <2>4, TotalsOnce
  <2>6. Total(c, s) = F[s]
    BY TotalIs
  <2>7. g[s] = Rec(s)
    OBVIOUS
  <2> HIDE DEF g, F
  <2> QED BY <1>1, <2>5, <2>6, <2>7
<1>2. Bad = {}
  <2>1. Bad \in SUBSET (SUBSET D) OBVIOUS
  <2> HIDE DEF Bad
  <2> QED BY <1>1, <2>1, DescentOfSets
<1>3. D \notin Bad
  BY <1>2
<1> QED BY <1>3

LEMMA TotalNat ==
  ASSUME NEW c, NEW D, IsFiniteSet(D), \A t \in D : t[3][c] \in Nat
  PROVE  Total(c, D) \in Nat
<1> DEFINE Bad == {s \in SUBSET D : Total(c, s) \notin Nat}
<1>1. ASSUME NEW s \in Bad PROVE \E r \in Bad : r \subseteq s /\ r # s
  <2> DEFINE r == s \ {Some(s)}
  <2>0. IsFiniteSet(s)
    BY FS_Subset
  <2>1. s # {}
    <3>1. Total(c, s) = IF s = {} THEN 0 ELSE Some(s)[3][c] + Total(c, s \ {Some(s)})
      BY <2>0, TotalRec
    <3>2. Total(c, s) \notin Nat
      BY <1>1
    <3> QED BY <3>1, <3>2
  <2>2. Some(s) \in s
    BY <2>1 DEF Some
  <2>3. Total(c, s) = Some(s)[3][c] + Total(c, r)
    BY <2>0, <2>1, TotalRec
  <2>4. r \in SUBSET D /\ r \subseteq s /\ r # s /\ Some(s)[3][c] \in Nat
    BY <2>2
  <2> HIDE DEF r
  <2>5. Total(c, r) \notin Nat
    BY <1>1, <2>3, <2>4
  <2> QED BY <2>4, <2>5
<1>2. Bad = {}
  <2>1. Bad \in SUBSET (SUBSET D) OBVIOUS
  <2> HIDE DEF Bad
  <2> QED BY <1>1, <2>1, DescentOfSets
<1>3. D \notin Bad
  BY <1>2
<1> QED BY <1>3

LEMMA TotalRemove ==
  ASSUME NEW c, NEW D, IsFiniteSet(D), \A t \in D : t[3][c] \in Nat, NEW a \in D
  PROVE  Total(c, D) = a[3][c] + Total(c, D \ {a})
<1> DEFINE Bad == {s \in SUBSET D : \E b \in s : Total(c, s) # b[3][c] + Total(c, s \ {b})}
<1>1. ASSUME NEW s \in Bad PROVE \E r \in Bad : r \subseteq s /\ r # s
  <2> SUFFICES ASSUME \A r \in SUBSET s : r # s =>
                        \A b \in r : Total(c, r) = b[3][c] + Total(c, r \ {b})
               PROVE  FALSE
    BY <1>1
  <2>1. PICK b \in s : Total(c, s) # b[3][c] + Total(c, s \ {b})
    BY <1>1
  <2> DEFINE x == Some(s)
             sx == s \ {x}
             sb == s \ {b}
             r == sx \ {b}
  <2>2. x \in s
    BY DEF Some
  <2>3. \A q \in SUBSET s : IsFiniteSet(q) /\ Total(c, q) \in Nat
    <3> TAKE q \in SUBSET s
    <3>1. IsFiniteSet(q) BY FS_Subset
    <3> QED BY <3>1, TotalNat
  <2>4. Total(c, s) = x[3][c] + Total(c, sx)
    BY <2>3, TotalRec
  <2> HIDE DEF x
  <2>5. x # b
    BY <2>1, <2>4
  <2>6. sx \in SUBSET s /\ sx # s /\ b \in sx /\ sb \in SUBSET s /\ sb # s /\ x \in sb
    BY <2>2, <2>5
  <2>7. r = sb \ {x} /\ r \in SUBSET s
    OBVIOUS
  <2> HIDE DEF sx, sb, r
  <2>8. Total(c, sx) = b[3][c] + Total(c, r)
    BY <2>6 DEF r
  <2>9. Total(c, sb) = x[3][c] + Total(c, r)
    BY <2>6, <2>7
  <2>10. x[3][c] \in Nat /\ b[3][c] \in Nat /\ Total(c, r) \in Nat
    BY <2>2, <2>3, <2>7
  <2> QED BY <2>1, <2>4, <2>8, <2>9, <2>10 DEF sb
<1>2. Bad = {}
  <2>1. Bad \in SUBSET (SUBSET D) OBVIOUS
  <2> HIDE DEF Bad
  <2> QED BY <1>1, <2>1, DescentOfSets
<1>3. D \notin Bad
  BY <1>2
<1> QED BY <1>3

\* The sum stays when members move to other places.
LEMMA TotalMoved ==
  ASSUME NEW c, NEW D, IsFiniteSet(D), \A t \in D : t[3][c] \in Nat,
         NEW f, \A t \in D : f[t][3][c] = t[3][c],
         \A t, u \in D : f[t] = f[u] => t = u
  PROVE  Total(c, {f[t] : t \in D}) = Total(c, D)
<1> DEFINE Image(s) == {f[t] : t \in s}
           Bad == {s \in SUBSET D : Total(c, Image(s)) # Total(c, s)}
<1>1. ASSUME NEW s \in Bad PROVE \E r \in Bad : r \subseteq s /\ r # s
  <2>1. IsFiniteSet(s) /\ IsFiniteSet(Image(s))
    <3>1. IsFiniteSet(s) BY FS_Subset
    <3>2. IsFiniteSet(Image(s)) 
      <4> DEFINE g == [t \in s |-> f[t]]
      <4>1. g \in Surjection(s, Image(s))
        BY DEF Surjection
      <4> HIDE DEF g, Image
      <4> QED BY <3>1, <4>1, FS_Surjection
    <3> QED BY <3>1, <3>2
  <2>2. s # {}
    <3> SUFFICES ASSUME s = {} PROVE FALSE
      OBVIOUS
    <3>1. Image(s) = s
      OBVIOUS
    <3> QED BY <3>1
  <2>3. PICK a \in s : TRUE
    BY <2>2
  <2> DEFINE r == s \ {a}
             q == Image(s)
             b == f[a]
  <2>4. r \in SUBSET D /\ r \subseteq s /\ r # s /\ a \in D
    BY <2>3
  <2>5. q \ {b} = Image(r)
    BY <2>4
  <2>6. b \in q /\ (\A t \in q : t[3][c] \in Nat) /\ b[3][c] = a[3][c]
    BY <2>4
  <2> HIDE DEF r, q, b, Image
  <2>7. Total(c, s) = a[3][c] + Total(c, r)
    BY <2>1, <2>3, TotalRemove DEF r
  <2>8. Total(c, q) = b[3][c] + Total(c, q \ {b})
    BY <2>1, <2>6, TotalRemove DEF q
  <2>9. Total(c, q) # Total(c, s)
    BY <1>1 DEF q
  <2>10. Total(c, Image(r)) # Total(c, r)
    BY <2>5, <2>6, <2>7, <2>8, <2>9
  <2> QED BY <2>4, <2>10
<1>2. Bad = {}
  <2>1. Bad \in SUBSET (SUBSET D) OBVIOUS
  <2> HIDE DEF Bad
  <2> QED BY <1>1, <2>1, DescentOfSets
<1>3. D \notin Bad
  BY <1>2
<1> QED BY <1>3

(***************************************************************************)
(* Where the records in the logger are.                                    *)
(***************************************************************************)
Places(p, q, w, h) ==
  {<<"pending", c, p[c]>> : c \in Caller} \cup {<<"queue", i, q[i].text>> : i \in DOMAIN q}
    \cup (IF w = "write" THEN {<<"hand", 0, h.text>>} ELSE {})

Records(p, q, w, h) == {t \in Places(p, q, w, h) : IsRecord(t[3])}

LEMMA InLoggerIs ==
  /\ InLogger = Records(pending, queue, wpc, hand)
  /\ InLogger' = Records(pending', queue', wpc', hand')
  BY DEF InLogger, Records, Places

LEMMA RecordsTyped ==
  ASSUME LoggerAssumption, NEW p \in [Caller -> Text \cup {NoEntry}], NEW q \in Seq(Entry),
         NEW w, NEW h, w = "write" => h \in Entry
  PROVE  /\ IsFiniteSet(Records(p, q, w, h))
         /\ \A t \in Records(p, q, w, h) : t[3] \in [Counter -> Nat]
<1> DEFINE A == {<<"pending", c, p[c]>> : c \in Caller}
           B == {<<"queue", i, q[i].text>> : i \in DOMAIN q}
           C == IF w = "write" THEN {<<"hand", 0, h.text>>} ELSE {}
<1>1. IsFiniteSet(A)
  <2> DEFINE g == [c \in Caller |-> <<"pending", c, p[c]>>]
  <2>1. g \in Surjection(Caller, A)
    BY DEF Surjection
  <2> HIDE DEF g, A
  <2> QED BY <2>1, FS_Surjection DEF LoggerAssumption
<1>2. IsFiniteSet(B)
  <2> DEFINE n == Len(q)
             g == [i \in 1..n |-> <<"queue", i, q[i].text>>]
  <2>2. n \in Nat /\ DOMAIN q = 1..n
    OBVIOUS
  <2>1. g \in Surjection(1..n, B)
    <3>1. B = {g[i] : i \in 1..n}
      <4> HIDE DEF n
      <4> QED BY <2>2
    <3> HIDE DEF n, B
    <3> QED BY <3>1 DEF Surjection
  <2> HIDE DEF g, B, n
  <2>3. IsFiniteSet(1..n)
    BY <2>2, FS_Interval
  <2> QED BY <2>1, <2>3, FS_Surjection
<1>3. IsFiniteSet(C)
  BY FS_EmptySet, FS_Singleton
<1>4. Places(p, q, w, h) = (A \cup B) \cup C
  BY DEF Places
<1>5. IsFiniteSet(Places(p, q, w, h))
  <2> HIDE DEF A, B, C
  <2>1. IsFiniteSet(A \cup B) BY <1>1, <1>2, FS_Union
  <2> DEFINE AB == A \cup B
  <2> HIDE DEF AB
  <2>2. IsFiniteSet(AB \cup C) BY <1>3, <2>1, FS_Union DEF AB
  <2> QED BY <1>4, <2>2 DEF AB
<1>6. Records(p, q, w, h) \in SUBSET Places(p, q, w, h)
  BY DEF Records
<1>7. IsFiniteSet(Records(p, q, w, h))
  <2> DEFINE X == Records(p, q, w, h)
             Y == Places(p, q, w, h)
  <2> HIDE DEF X, Y
  <2> QED BY <1>5, <1>6, FS_Subset DEF X, Y
<1>8. ASSUME NEW t \in Places(p, q, w, h) PROVE t[3] \in Text \cup {NoEntry}
  <2>1. \A e \in Entry : e.text \in Text \cup {NoEntry}
    BY DEF Entry
  <2>2. CASE t \in A BY <2>2
  <2>3. CASE t \in B
    <3>1. PICK i \in DOMAIN q : t = <<"queue", i, q[i].text>> BY <2>3
    <3>2. q[i] \in Entry OBVIOUS
    <3> QED BY <2>1, <3>1, <3>2
  <2>4. CASE t \in C BY <2>1, <2>4
  <2> QED BY <1>4, <2>2, <2>3, <2>4
<1>9. ASSUME NEW t \in Records(p, q, w, h) PROVE t[3] \in [Counter -> Nat]
  BY <1>8 DEF Records, IsRecord, Text
<1> QED BY <1>7, <1>9

LEMMA InLoggerTyped ==
  ASSUME LoggerAssumption, LoggerTypes
  PROVE  /\ IsFiniteSet(InLogger)
         /\ \A t \in InLogger, k \in Counter : t[3][k] \in Nat
         /\ \A k \in Counter : Total(k, InLogger) \in Nat
<1> DEFINE R == Records(pending, queue, wpc, hand)
<1>1. R = InLogger
  BY InLoggerIs
<1>2. IsFiniteSet(R) /\ \A t \in R : t[3] \in [Counter -> Nat]
  BY RecordsTyped DEF LoggerTypes
<1> HIDE DEF R
<1>3. \A k \in Counter : Total(k, R) \in Nat
  <2> TAKE k \in Counter
  <2>1. \A t \in R : t[3][k] \in Nat BY <1>2
  <2> QED BY <1>2, <2>1, TotalNat
<1> QED BY <1>1, <1>2, <1>3

LEMMA InLoggerTypedNext ==
  ASSUME LoggerAssumption, LoggerTypes'
  PROVE  \A k \in Counter : Total(k, InLogger') \in Nat
<1> DEFINE R == Records(pending', queue', wpc', hand')
<1>1. IsFiniteSet(R) /\ \A t \in R : t[3] \in [Counter -> Nat]
  BY RecordsTyped DEF LoggerTypes
<1>2. InLogger' = R
  BY InLoggerIs
<1> HIDE DEF R
<1>3. \A k \in Counter : Total(k, R) \in Nat
  <2> TAKE k \in Counter
  <2>1. \A t \in R : t[3][k] \in Nat BY <1>1
  <2> QED BY <1>1, <2>1, TotalNat
<1> QED BY <1>2, <1>3

LEMMA SameTotals ==
  ASSUME UNCHANGED <<pending, queue, hand>>, wpc' = "write" <=> wpc = "write"
  PROVE  InLogger' = InLogger
  BY InLoggerIs DEF Records, Places

\* A thread is about to push another text.
LEMMA LogfTotals ==
  ASSUME TelemetryAssumption, LoggerAssumption, LoggerTypes,
         NEW c \in Caller, NEW lvl, NEW text \in Text, Logf(c, lvl, text)
  PROVE  \A k \in Counter :
           Total(k, InLogger') = (IF IsRecord(text) THEN text[k] ELSE 0) + Total(k, InLogger)
<1> DEFINE a == <<"pending", c, text>>
           R == Records(pending, queue, wpc, hand)
           R1 == Records(pending', queue, wpc, hand)
<1>1. /\ pending[c] = NoEntry /\ pending' = [pending EXCEPT ![c] = text]
      /\ UNCHANGED <<queue, wpc, hand>> /\ pending \in [Caller -> Text \cup {NoEntry}]
  BY DEF Logf, Enter, LoggerTypes
<1>2. InLogger = R /\ InLogger' = R1
  BY <1>1, InLoggerIs
<1>3. R1 = IF IsRecord(text) THEN R \cup {a} ELSE R
  <2>1. ~IsRecord(NoEntry)
    BY DEF IsRecord
  <2>2. ASSUME NEW t
        PROVE  t \in R1 <=> t \in R \/ (IsRecord(text) /\ t = a)
    <3>1. (\E x \in Caller : t = <<"pending", x, pending'[x]>>)
            <=> \/ t = a
                \/ \E x \in Caller : x # c /\ t = <<"pending", x, pending[x]>>
      BY <1>1
    <3>2. IsRecord(t[3]) =>
            ((\E x \in Caller : t = <<"pending", x, pending[x]>>)
               <=> \E x \in Caller : x # c /\ t = <<"pending", x, pending[x]>>)
      BY <1>1, <2>1
    <3> QED BY <3>1, <3>2 DEF Records, Places
  <2> HIDE DEF R, R1, a
  <2> QED BY <2>2
<1>4. a \notin R
  <2>1. \A x \in Caller : a = <<"pending", x, pending[x]>> => x = c /\ text = NoEntry
    BY <1>1
  <2>2. \A i : a # <<"queue", i, queue[i].text>>
    OBVIOUS
  <2>3. a # <<"hand", 0, hand.text>>
    OBVIOUS
  <2>4. a \in R => IsRecord(text)
    BY DEF Records
  <2> HIDE DEF a
  <2> QED BY <2>1, <2>2, <2>3, <2>4 DEF Records, Places, IsRecord
<1>5. ASSUME NEW k \in Counter
      PROVE  Total(k, R1) = (IF IsRecord(text) THEN text[k] ELSE 0) + Total(k, R)
  <2>0. IsFiniteSet(R) /\ (\A t \in R : t[3][k] \in Nat) /\ Total(k, R) \in Nat
    BY <1>2, InLoggerTyped
  <2>1. CASE IsRecord(text)
    <3>1. a[3] = text /\ text[k] \in Nat
      BY <2>1 DEF Text, IsRecord
    <3> HIDE DEF R, R1, a
    <3>2. IsFiniteSet(R \cup {a})
      BY <2>0, FS_AddElement
    <3>3. R1 = R \cup {a} /\ a \in R1 /\ R1 \ {a} = R
      BY <1>3, <1>4, <2>1
    <3>4. \A t \in R1 : t[3][k] \in Nat
      BY <2>0, <3>1, <3>3
    <3>5. Total(k, R1) = a[3][k] + Total(k, R1 \ {a})
      BY <3>2, <3>3, <3>4, TotalRemove
    <3> QED BY <2>1, <3>1, <3>3, <3>5
  <2>2. CASE ~IsRecord(text)
    <3> HIDE DEF R, R1
    <3> QED BY <1>3, <2>0, <2>2
  <2> QED BY <2>1, <2>2
<1> QED BY <1>2, <1>5

\* A record that moves on, from a thread to the queue or from the queue to the
\* writer, while the others move up, is the same record.
LEMMA PushTotals ==
  ASSUME LoggerAssumption, LoggerTypes, NEW c \in Caller, Push(c)
  PROVE  \A k \in Counter : Total(k, InLogger') = Total(k, InLogger)
<1> DEFINE n == Len(queue)
           text == pending[c]
           a == <<"pending", c, text>>
           b == <<"queue", n + 1, text>>
           R == Records(pending, queue, wpc, hand)
           R1 == Records(pending', queue', wpc, hand)
           f == [t \in R |-> IF t = a THEN b ELSE t]
<1>1. /\ pending' = [pending EXCEPT ![c] = NoEntry] /\ pending \in [Caller -> Text \cup {NoEntry}]
      /\ UNCHANGED hand /\ (wpc' = "write" <=> wpc = "write")
  BY DEF Push, Pushed, Wake, LoggerTypes
<1>2. /\ n \in Nat /\ DOMAIN queue = 1..n /\ DOMAIN queue' = 1..(n + 1)
      /\ (\A i \in 1..n : queue'[i] = queue[i]) /\ queue'[n + 1].text = text
  BY DEF Push, Pushed, EntryOf, LoggerTypes
<1>3. InLogger = R /\ InLogger' = R1
  BY <1>1, InLoggerIs DEF Records, Places
<1> HIDE DEF n, text
<1>4. ASSUME NEW t
      PROVE  t \in R1 <=> (t \in R /\ t # a) \/ (a \in R /\ t = b)
  <2>1. (\E x \in Caller : t = <<"pending", x, pending'[x]>>)
          <=> \/ t = <<"pending", c, NoEntry>>
              \/ \E x \in Caller : x # c /\ t = <<"pending", x, pending[x]>>
    BY <1>1
  <2>2. (\E x \in Caller : t = <<"pending", x, pending[x]>>)
          <=> \/ t = a
              \/ \E x \in Caller : x # c /\ t = <<"pending", x, pending[x]>>
    BY DEF text
  <2>3. (\E i \in DOMAIN queue' : t = <<"queue", i, queue'[i].text>>)
          <=> \/ t = b
              \/ \E i \in DOMAIN queue : t = <<"queue", i, queue[i].text>>
    <3>1. DOMAIN queue' = DOMAIN queue \cup {n + 1} BY <1>2
    <3> QED BY <1>2, <3>1
  <2>4. ~IsRecord(NoEntry)
    BY DEF IsRecord
  <2>5. a \in R <=> IsRecord(text)
    BY DEF Records, Places, text
  <2>6. /\ \A x : x # c => <<"pending", x, pending[x]>> # a
        /\ \A i : <<"queue", i, queue[i].text>> # a
        /\ <<"hand", 0, hand.text>> # a
    OBVIOUS
  <2>7. b[3] = text /\ (t = <<"pending", c, NoEntry>> => t[3] = NoEntry)
    OBVIOUS
  <2>8. /\ t \in R1 <=> /\ IsRecord(t[3])
                        /\ \/ \E x \in Caller : t = <<"pending", x, pending'[x]>>
                           \/ \E i \in DOMAIN queue' : t = <<"queue", i, queue'[i].text>>
                           \/ wpc = "write" /\ t = <<"hand", 0, hand.text>>
        /\ t \in R <=> /\ IsRecord(t[3])
                       /\ \/ \E x \in Caller : t = <<"pending", x, pending[x]>>
                          \/ \E i \in DOMAIN queue : t = <<"queue", i, queue[i].text>>
                          \/ wpc = "write" /\ t = <<"hand", 0, hand.text>>
    BY DEF Records, Places
  <2> HIDE DEF R, R1, a, b
  <2> QED BY <2>1, <2>2, <2>3, <2>4, <2>5, <2>6, <2>7, <2>8
<1>5. b \notin R
  <2>1. ASSUME NEW i \in DOMAIN queue PROVE b # <<"queue", i, queue[i].text>>
    <3>1. i # n + 1 BY <1>2
    <3> QED BY <3>1
  <2>2. (\A x : b # <<"pending", x, pending[x]>>) /\ b # <<"hand", 0, hand.text>>
    OBVIOUS
  <2> HIDE DEF b
  <2> QED BY <2>1, <2>2 DEF Records, Places
<1>6. a[3] = b[3]
  OBVIOUS
<1> HIDE DEF R, R1, a, b
<1>7. R1 = {f[t] : t \in R}
  BY <1>4
<1>8. ASSUME NEW k \in Counter PROVE Total(k, R1) = Total(k, R)
  <2>1. IsFiniteSet(R) /\ (\A t \in R : t[3][k] \in Nat)
    BY <1>3, InLoggerTyped
  <2>2. \A t \in R : f[t][3][k] = t[3][k]
    BY <1>6
  <2>3. \A t, u \in R : f[t] = f[u] => t = u
    BY <1>5
  <2> HIDE DEF f
  <2> QED BY <1>7, <2>1, <2>2, <2>3, TotalMoved
<1> QED BY <1>3, <1>8

LEMMA TakeTotals ==
  ASSUME LoggerAssumption, LoggerTypes, WriterTake
  PROVE  \A k \in Counter : Total(k, InLogger') = Total(k, InLogger)
<1> DEFINE n == Len(queue)
           R == Records(pending, queue, wpc, hand)
           R1 == Records(pending, queue', "write", hand')
           f == [t \in R |-> IF t[1] = "queue"
                             THEN IF t[2] = 1 THEN <<"hand", 0, t[3]>>
                                              ELSE <<"queue", t[2] - 1, t[3]>>
                             ELSE t]
<1>1. UNCHANGED pending /\ wpc = "test" /\ wpc' = "write" /\ hand' = queue[1]
  BY DEF WriterTake
<1>2. /\ n \in Nat \ {0} /\ DOMAIN queue = 1..n /\ DOMAIN queue' = 1..(n - 1)
      /\ \A i \in 1..(n - 1) : queue'[i] = queue[i + 1]
  BY HeadTailProperties DEF WriterTake, LoggerTypes
<1>3. InLogger = R /\ InLogger' = R1
  BY <1>1, InLoggerIs
<1> HIDE DEF n
<1>4. ASSUME NEW t \in R
      PROVE  \/ t[1] = "pending" /\ f[t] = t
             \/ t = <<"queue", 1, queue[1].text>> /\ f[t] = <<"hand", 0, queue[1].text>>
             \/ \E i \in 1..(n - 1) : /\ t = <<"queue", i + 1, queue[i + 1].text>>
                                      /\ f[t] = <<"queue", i, queue[i + 1].text>>
  <2>1. CASE \E x \in Caller : t = <<"pending", x, pending[x]>>
    BY <2>1
  <2>2. CASE \E i \in DOMAIN queue : t = <<"queue", i, queue[i].text>>
    <3>1. PICK i \in 1..n : t = <<"queue", i, queue[i].text>> BY <1>2, <2>2
    <3>2. CASE i = 1 BY <3>1, <3>2
    <3>3. CASE i # 1
      <4> DEFINE j == i - 1
      <4>1. j \in 1..(n - 1) /\ j + 1 = i BY <1>2, <3>3
      <4>2. f[t] = <<"queue", j, queue[i].text>> BY <3>1, <3>3
      <4> HIDE DEF j, f
      <4> QED BY <3>1, <4>1, <4>2
    <3> QED BY <3>2, <3>3
  <2>3. \/ \E x \in Caller : t = <<"pending", x, pending[x]>>
        \/ \E i \in DOMAIN queue : t = <<"queue", i, queue[i].text>>
    BY <1>1 DEF Records, Places
  <2> QED BY <2>1, <2>2, <2>3
<1>5. ASSUME NEW t
      PROVE  t \in R1 <=> /\ IsRecord(t[3])
                          /\ \/ \E x \in Caller : t = <<"pending", x, pending[x]>>
                             \/ \E i \in 1..(n - 1) : t = <<"queue", i, queue[i + 1].text>>
                             \/ t = <<"hand", 0, queue[1].text>>
  BY <1>1, <1>2 DEF Records, Places
<1>6. ASSUME NEW t
      PROVE  t \in R <=> /\ IsRecord(t[3])
                         /\ \/ \E x \in Caller : t = <<"pending", x, pending[x]>>
                            \/ \E i \in 1..n : t = <<"queue", i, queue[i].text>>
  BY <1>1, <1>2 DEF Records, Places
<1>7. \A t \in R : f[t][3] = t[3] /\ f[t] \in R1
  <2> SUFFICES ASSUME NEW t \in R PROVE f[t][3] = t[3] /\ f[t] \in R1
    OBVIOUS
  <2>1. IsRecord(t[3]) BY <1>6
  <2>2. f[t][3] = t[3]
    <3> HIDE DEF f, R
    <3> QED BY <1>4
  <2>3. CASE t[1] = "pending"
    <3>1. f[t] = t BY <2>3
    <3>2. \E x \in Caller : t = <<"pending", x, pending[x]>> BY <1>6, <2>3
    <3> HIDE DEF R, R1, f
    <3> QED BY <1>5, <2>1, <2>2, <3>1, <3>2
  <2>4. CASE t[1] # "pending"
    <3> HIDE DEF R, R1, f
    <3>1. \/ f[t] = <<"hand", 0, queue[1].text>>
          \/ \E i \in 1..(n - 1) : f[t] = <<"queue", i, queue[i + 1].text>>
      BY <1>4, <2>4
    <3> QED BY <1>5, <2>1, <2>2, <3>1
  <2> QED BY <2>2, <2>3, <2>4
<1>8. \A t \in R1 : \E u \in R : t = f[u]
  <2> SUFFICES ASSUME NEW t \in R1 PROVE \E u \in R : t = f[u]
    OBVIOUS
  <2>1. CASE \E x \in Caller : t = <<"pending", x, pending[x]>>
    <3>1. t \in R BY <1>5, <1>6, <2>1
    <3>2. f[t] = t BY <2>1, <3>1
    <3> QED BY <3>1, <3>2
  <2>2. CASE \E i \in 1..(n - 1) : t = <<"queue", i, queue[i + 1].text>>
    <3>1. PICK i \in 1..(n - 1) : t = <<"queue", i, queue[i + 1].text>> BY <2>2
    <3> DEFINE u == <<"queue", i + 1, queue[i + 1].text>>
    <3>2. u[3] = t[3] /\ i + 1 \in 1..n /\ i + 1 # 1 /\ (i + 1) - 1 = i BY <1>2, <3>1
    <3>3. IsRecord(u[3]) BY <1>5, <3>2
    <3>4. u \in R
      <4> HIDE DEF R
      <4> QED BY <1>6, <3>2, <3>3
    <3>5. f[u] = t BY <3>1, <3>2, <3>4
    <3> QED BY <3>4, <3>5
  <2>3. CASE t = <<"hand", 0, queue[1].text>>
    <3> DEFINE u == <<"queue", 1, queue[1].text>>
    <3>2. u[3] = t[3] /\ 1 \in 1..n BY <1>2, <2>3
    <3>3. IsRecord(u[3]) BY <1>5, <3>2
    <3>4. u \in R
      <4> HIDE DEF R
      <4> QED BY <1>6, <3>2, <3>3
    <3>5. f[u] = t BY <2>3, <3>4
    <3> QED BY <3>4, <3>5
  <2> HIDE DEF R, R1, f
  <2> QED BY <1>5, <2>1, <2>2, <2>3
<1>9. \A t, u \in R : f[t] = f[u] => t = u
  <2> HIDE DEF R, f
  <2> SUFFICES ASSUME NEW t \in R, NEW u \in R, f[t] = f[u] PROVE t = u
    OBVIOUS
  <2> QED BY <1>4
<1>10. R1 = {f[t] : t \in R}
  <2> HIDE DEF R, R1, f
  <2> QED BY <1>7, <1>8
<1>11. ASSUME NEW k \in Counter PROVE Total(k, R1) = Total(k, R)
  <2>1. IsFiniteSet(R) /\ (\A t \in R : t[3][k] \in Nat)
    BY <1>3, InLoggerTyped
  <2>2. \A t \in R : f[t][3][k] = t[3][k]
    BY <1>7
  <2> HIDE DEF f, R, R1
  <2> QED BY <1>9, <1>10, <2>1, <2>2, TotalMoved
<1> QED BY <1>3, <1>11

\* What the writer has written, or failed to write, has left the logger.
LEMMA WriterTotals ==
  ASSUME LoggerAssumption, LoggerTypes, WriterStep
  PROVE  \A k \in Counter :
           Total(k, InLogger) =
             (IF wpc = "write" /\ IsRecord(hand.text) THEN hand.text[k] ELSE 0)
               + Total(k, InLogger')
<1>t. \A k \in Counter : Total(k, InLogger) \in Nat
  BY InLoggerTyped
<1>1. CASE WriterBlock \/ WriterExit
  <2>1. UNCHANGED <<pending, queue, hand>> /\ wpc = "test" /\ wpc' # "write"
    BY <1>1 DEF WriterBlock, WriterExit, Leave
  <2>2. InLogger' = InLogger
    BY <2>1, SameTotals
  <2> QED BY <1>t, <2>1, <2>2
<1>2. CASE WriterTake
  <2>1. \A k \in Counter : Total(k, InLogger') = Total(k, InLogger)
    BY <1>2, TakeTotals
  <2>2. wpc = "test"
    BY <1>2 DEF WriterTake
  <2> QED BY <1>t, <2>1, <2>2
<1>3. CASE Write \/ WriteToConsole \/ WriteFails
  <2>1. UNCHANGED <<pending, queue>> /\ wpc = "write" /\ wpc' = "test" /\ hand \in Entry
    BY <1>3 DEF Write, Wrote, WriteToConsole, WriteFails, Release, LoggerTypes
  <2> DEFINE a == <<"hand", 0, hand.text>>
             R == Records(pending, queue, wpc, hand)
             R1 == Records(pending, queue, wpc', hand')
  <2>2. InLogger = R /\ InLogger' = R1
    BY <2>1, InLoggerIs
  <2>3. R1 = R \ {a} /\ (a \in R <=> IsRecord(hand.text))
    <3>1. ASSUME NEW t PROVE t \in R1 <=> t \in R /\ t # a
      <4>1. /\ \A x : <<"pending", x, pending[x]>> # a
            /\ \A i : <<"queue", i, queue[i].text>> # a
        OBVIOUS
      <4> HIDE DEF a
      <4> QED BY <2>1, <4>1 DEF Records, Places, a
    <3>2. a \in R <=> IsRecord(hand.text)
      BY <2>1 DEF Records, Places
    <3> HIDE DEF a, R, R1
    <3> QED BY <3>1, <3>2
  <2>4. ASSUME NEW k \in Counter
        PROVE  Total(k, R) = (IF IsRecord(hand.text) THEN hand.text[k] ELSE 0) + Total(k, R1)
    <3>1. IsFiniteSet(R) /\ (\A t \in R : t[3][k] \in Nat) /\ Total(k, R) \in Nat
      BY <2>2, InLoggerTyped
    <3>2. a[3] = hand.text
      OBVIOUS
    <3> HIDE DEF R, R1, a
    <3>3. CASE IsRecord(hand.text)
      <4>1. Total(k, R) = a[3][k] + Total(k, R \ {a})
        BY <2>3, <3>1, <3>3, TotalRemove
      <4> QED BY <2>3, <3>2, <3>3, <4>1
    <3>4. CASE ~IsRecord(hand.text)
      <4>1. R1 = R BY <2>3, <3>4
      <4> QED BY <3>1, <3>4, <4>1
    <3> QED BY <3>3, <3>4
  <2> HIDE DEF R, R1
  <2> QED BY <2>1, <2>2, <2>4
<1> QED BY <1>1, <1>2, <1>3 DEF WriterStep

(***************************************************************************)
(* A counter that the record has not taken yet is 0 in it: taking it       *)
(* overwrites nothing.                                                     *)
(***************************************************************************)
CountsInv ==
  /\ incs \in [Counter -> Nat]
  /\ \A j \in (spc + 1)..Len(CounterOrder) : snap[CounterOrder[j]] = 0
  /\ \A k \in Counter : incs[k] = counts[k] + snap[k] + out[k] + Total(k, InLogger)

LEMMA Moved ==
  ASSUME NEW x \in Nat, NEW y \in Nat, NEW z \in Nat, NEW t \in Nat,
         NEW z1 \in Nat, NEW t1 \in Nat, z1 + t1 = z + y + t
  PROVE  x + y + z + t = x + 0 + z1 + t1
<1>1. x + 0 + z1 + t1 = x + (z1 + t1)
  OBVIOUS
<1>2. x + y + z + t = x + (z + y + t)
  OBVIOUS
<1> QED BY <1>1, <1>2

LEMMA CountsInvInit ==
  ASSUME LoggerAssumption, ConfigAssumption, StatsAssumption, Init
  PROVE  CountsInv
<1>1. incs = Zero /\ counts = Zero /\ snap = Zero /\ out = Zero /\ spc = 0
  BY DEF Init, StatsInit
<1>2. \A j \in 1..Len(CounterOrder) : CounterOrder[j] \in Counter
  BY DEF StatsAssumption, Counter, ToSet
<1>3. InLogger = {}
  <2>1. /\ pending = [c \in Caller |-> NoEntry] /\ queue = << >> /\ wpc # "write"
    BY DEF Init, ConfigInit, LoggerInit
  <2>2. ~IsRecord(NoEntry)
    BY DEF IsRecord
  <2> QED BY <2>1, <2>2, InLoggerIs DEF Records, Places
<1>4. \A k \in Counter : Total(k, InLogger) = 0
  <2>1. \A k : Total(k, {}) = 0
    <3> TAKE k
    <3> DEFINE e == {}
    <3>1. IsFiniteSet(e) BY FS_EmptySet
    <3>2. e = {} OBVIOUS
    <3> HIDE DEF e
    <3>3. Total(k, e) = IF e = {} THEN 0 ELSE Some(e)[3][k] + Total(k, e \ {Some(e)})
      BY <3>1, TotalRec
    <3> QED BY <3>2, <3>3
  <2> QED BY <1>3, <2>1
<1> QED BY <1>1, <1>2, <1>4 DEF CountsInv, Zero, StatsAssumption

LEMMA CountsInvNext ==
  ASSUME LoggerAssumption, ConfigAssumption, StatsAssumption, TelemetryAssumption,
         TypeInv, CountsInv, [Next]_vars
  PROVE  CountsInv'
<1> USE DEF CountsInv
<1>t. /\ counts \in [Counter -> Nat] /\ snap \in [Counter -> Nat] /\ out \in [Counter -> Nat]
      /\ spc \in 0..Len(CounterOrder) /\ LoggerTypes
      /\ \A k \in Counter : Total(k, InLogger) \in Nat
  BY InLoggerTyped DEF TypeInv, StatsTypes
<1>n. \A k \in Counter : Total(k, InLogger') \in Nat
  <2>1. TypeInv' BY TypeInvNext
  <2> QED BY <2>1, InLoggerTypedNext DEF TypeInv
<1>s. ASSUME UNCHANGED <<statsVars, out>>,
             \A k \in Counter : Total(k, InLogger') = Total(k, InLogger)
      PROVE  CountsInv'
  BY <1>s
<1>l. ASSUME UNCHANGED loggerVars
      PROVE  \A k \in Counter : Total(k, InLogger') = Total(k, InLogger)
  BY <1>l, SameTotals
<1>1. CASE LogPlain
  <2>1. PICK c \in Caller, lvl \in {Info, Error} : Logf(c, lvl, Plain)
    BY <1>1 DEF LogPlain
  <2>2. ~IsRecord(Plain) /\ Plain \in Text
    BY DEF IsRecord, Text
  <2>3. \A k \in Counter : Total(k, InLogger') = 0 + Total(k, InLogger)
    BY <1>t, <2>1, <2>2, LogfTotals
  <2> QED BY <1>1, <1>s, <1>t, <2>3 DEF LogPlain
<1>2. CASE LogRecord
  <2>1. /\ spc = Len(CounterOrder) /\ snap' = Zero /\ spc' = 0 /\ UNCHANGED <<counts, incs>>
    BY <1>2 DEF LogRecord, Output
  <2>2. \A j \in 1..Len(CounterOrder) : snap'[CounterOrder[j]] = 0
    BY <2>1 DEF StatsAssumption, Counter, ToSet, Zero
  <2>3. \A k \in Counter : snap'[k] = 0
    BY <2>1 DEF Zero
  <2>4. \A k \in Counter :
          out'[k] + Total(k, InLogger') = out[k] + snap[k] + Total(k, InLogger)
    <3>1. CASE Logf(Scheduler, Info, snap) /\ UNCHANGED out
      <4>1. snap \in Text /\ IsRecord(snap)
        BY <1>t DEF Text, IsRecord, TelemetryAssumption
      <4>2. \A k \in Counter : Total(k, InLogger') = snap[k] + Total(k, InLogger)
        BY <1>t, <3>1, <4>1, LogfTotals DEF TelemetryAssumption
      <4> QED BY <1>t, <3>1, <4>2
    <3>2. CASE out' = Plus(out, snap) /\ UNCHANGED loggerVars
      <4>1. \A k \in Counter : out'[k] = out[k] + snap[k]
        BY <3>2 DEF Plus
      <4>2. \A k \in Counter : Total(k, InLogger') = Total(k, InLogger)
        BY <3>2, <1>l
      <4> QED BY <1>t, <4>1, <4>2
    <3> QED BY <1>2, <3>1, <3>2 DEF LogRecord
  <2>5. \A k \in Counter : out'[k] \in Nat /\ Total(k, InLogger') \in Nat
    <3>1. TypeInv' BY TypeInvNext
    <3>2. LoggerTypes' /\ out' \in [Counter -> Nat] BY <3>1 DEF TypeInv, StatsTypes
    <3> QED BY <1>n, <3>2
  <2>6. \A k \in Counter :
          incs'[k] = counts'[k] + snap'[k] + out'[k] + Total(k, InLogger')
    <3> TAKE k \in Counter
    <3>1. counts[k] \in Nat /\ snap[k] \in Nat /\ out[k] \in Nat /\ Total(k, InLogger) \in Nat
      BY <1>t
    <3>2. incs[k] = counts[k] + snap[k] + out[k] + Total(k, InLogger)
      OBVIOUS
    <3>3. out'[k] + Total(k, InLogger') = out[k] + snap[k] + Total(k, InLogger)
      BY <2>4
    <3>4. incs'[k] = incs[k] /\ counts'[k] = counts[k] /\ snap'[k] = 0
      BY <2>1, <2>3
    <3>5. out'[k] \in Nat /\ Total(k, InLogger') \in Nat
      BY <2>5
    <3> DEFINE x == counts[k]
               y == snap[k]
               z == out[k]
               z1 == out'[k]
               T == Total(k, InLogger)
               T1 == Total(k, InLogger')
    <3>6. x \in Nat /\ y \in Nat /\ z \in Nat /\ z1 \in Nat /\ T \in Nat /\ T1 \in Nat
      BY <3>1, <3>5
    <3>7. z1 + T1 = z + y + T
      BY <3>3
    <3>8. /\ incs'[k] = x + y + z + T
          /\ counts'[k] + snap'[k] + out'[k] + Total(k, InLogger') = x + 0 + z1 + T1
      BY <3>2, <3>4
    <3> HIDE DEF x, y, z, z1, T, T1
    <3>9. x + y + z + T = x + 0 + z1 + T1
      BY <3>6, <3>7, Moved
    <3> QED BY <3>8, <3>9
  <2> QED BY <2>1, <2>2, <2>6
<1>3. CASE PushEntry
  <2>1. \A k \in Counter : Total(k, InLogger') = Total(k, InLogger)
    BY <1>3, <1>t, PushTotals DEF PushEntry
  <2> QED BY <1>3, <1>s, <2>1 DEF PushEntry
<1>4. CASE Writer
  <2>1. /\ WriterStep /\ UNCHANGED statsVars
        /\ out' = IF wpc = "write" /\ IsRecord(hand.text) THEN Plus(out, hand.text) ELSE out
    BY <1>4 DEF Writer
  <2>2. \A k \in Counter :
          Total(k, InLogger) =
            (IF wpc = "write" /\ IsRecord(hand.text) THEN hand.text[k] ELSE 0)
              + Total(k, InLogger')
    BY <1>t, <2>1, WriterTotals
  <2>3. CASE wpc = "write" /\ IsRecord(hand.text)
    <3>1. hand.text \in [Counter -> Nat]
      BY <1>t, <2>3 DEF LoggerTypes, Entry, Text, IsRecord
    <3>2. \A k \in Counter : out'[k] = out[k] + hand.text[k]
      BY <2>1, <2>3 DEF Plus
    <3>3. \A k \in Counter : Total(k, InLogger) = hand.text[k] + Total(k, InLogger')
      BY <2>2, <2>3
    <3>5. \A k \in Counter : incs[k] = counts[k] + snap[k] + out'[k] + Total(k, InLogger')
      <4> TAKE k \in Counter
      <4>1. counts[k] \in Nat /\ snap[k] \in Nat /\ out[k] \in Nat /\ hand.text[k] \in Nat
        BY <1>t, <3>1
      <4> QED BY <1>n, <3>2, <3>3, <4>1
    <3> QED BY <2>1, <3>5
  <2>4. CASE ~(wpc = "write" /\ IsRecord(hand.text))
    <3>1. \A k \in Counter : Total(k, InLogger) = 0 + Total(k, InLogger')
      BY <2>2, <2>4
    <3>2. \A k \in Counter : Total(k, InLogger) = Total(k, InLogger')
      BY <1>n, <3>1
    <3> QED BY <1>s, <2>1, <2>4, <3>2
  <2> QED BY <2>3, <2>4
<1>5. CASE Count
  <2>1. PICK c \in Counter : Inc(c)
    BY <1>5 DEF Count
  <2>2. \A k \in Counter : Total(k, InLogger') = Total(k, InLogger)
    BY <1>5, <1>l DEF Count
  <2>3. \A k \in Counter :
          incs'[k] = counts'[k] + snap'[k] + out'[k] + Total(k, InLogger')
    <3> TAKE k \in Counter
    <3>1. counts[k] \in Nat /\ snap[k] \in Nat /\ out[k] \in Nat /\ Total(k, InLogger) \in Nat
      BY <1>t
    <3>2. incs[k] = counts[k] + snap[k] + out[k] + Total(k, InLogger)
      OBVIOUS
    <3>3. UNCHANGED <<snap, out>> /\ Total(k, InLogger') = Total(k, InLogger)
      BY <1>5, <2>1, <2>2 DEF Count, Inc
    <3>4. CASE k = c
      <4>1. counts'[k] = counts[k] + 1 /\ incs'[k] = incs[k] + 1
        BY <1>t, <2>1, <3>4 DEF Inc
      <4>2. snap'[k] = snap[k] /\ out'[k] = out[k]
        BY <3>3
      <4> DEFINE x == counts[k]
                 y == snap[k]
                 z == out[k]
                 T == Total(k, InLogger)
      <4>3. x \in Nat /\ y \in Nat /\ z \in Nat /\ T \in Nat
        BY <3>1
      <4>4. /\ incs'[k] = (x + y + z + T) + 1
            /\ counts'[k] + snap'[k] + out'[k] + Total(k, InLogger') = (x + 1) + y + z + T
        BY <3>2, <3>3, <4>1, <4>2
      <4> HIDE DEF x, y, z, T
      <4>5. (x + y + z + T) + 1 = (x + 1) + y + z + T
        BY <4>3
      <4> QED BY <4>4, <4>5
    <3>5. CASE k # c
      <4>1. counts'[k] = counts[k] /\ incs'[k] = incs[k]
        BY <1>t, <2>1, <3>5 DEF Inc
      <4> QED BY <3>1, <3>2, <3>3, <4>1
    <3> QED BY <3>4, <3>5
  <2>4. incs' \in [Counter -> Nat] /\ UNCHANGED <<spc, snap>>
    BY <2>1 DEF Inc
  <2> QED BY <2>3, <2>4
<1>6. CASE Schedule
  <2> DEFINE c == CounterOrder[spc + 1]
  <2>1. /\ snap' = [snap EXCEPT ![c] = counts[c]] /\ counts' = [counts EXCEPT ![c] = 0]
        /\ spc' = spc + 1 /\ spc + 1 \in 1..Len(CounterOrder) /\ UNCHANGED <<incs, out>>
        /\ Len(CounterOrder) \in Nat
    BY <1>6, <1>t DEF Schedule, Take, TakeInto, StatsAssumption
  <2>2. c \in Counter /\ snap[c] = 0
    BY <2>1 DEF Counter, ToSet, StatsAssumption
  <2>3. \A j \in (spc' + 1)..Len(CounterOrder) : CounterOrder[j] # c /\ CounterOrder[j] \in Counter
    BY <1>t, <2>1 DEF StatsAssumption, IsInjective, Counter, ToSet
  <2>4. \A k \in Counter : Total(k, InLogger') = Total(k, InLogger)
    BY <1>6, <1>l DEF Schedule
  <2> HIDE DEF c
  <2>5. \A j \in (spc' + 1)..Len(CounterOrder) : snap'[CounterOrder[j]] = 0
    <3> TAKE j \in (spc' + 1)..Len(CounterOrder)
    <3>1. j \in (spc + 1)..Len(CounterOrder)
      BY <1>t, <2>1
    <3>2. snap[CounterOrder[j]] = 0
      BY <3>1
    <3>3. CounterOrder[j] # c /\ CounterOrder[j] \in Counter
      BY <2>3
    <3> QED BY <1>t, <2>1, <3>2, <3>3
  <2>6. \A k \in Counter : counts'[k] + snap'[k] = counts[k] + snap[k]
    BY <1>t, <2>1, <2>2
  <2> QED BY <1>t, <2>1, <2>4, <2>5, <2>6
<1>7. CASE Watch
  <2>1. UNCHANGED <<pending, queue, hand>> /\ (wpc' = "write" <=> wpc = "write")
    <3>1. CASE WatchLoad BY <3>1 DEF WatchLoad, LoadAgainst
    <3>2. CASE WatchStop BY <3>2 DEF WatchStop, Stop, Wake
    <3>3. CASE WatchStart BY <3>3 DEF WatchStart, Start
    <3> QED BY <1>7, <3>1, <3>2, <3>3 DEF Watch, WatchStep
  <2>2. InLogger' = InLogger
    BY <2>1, SameTotals
  <2> QED BY <1>7, <1>s, <2>2 DEF Watch
<1>8. CASE Edit \/ UNCHANGED vars
  BY <1>8, <1>s, <1>l DEF Edit, EditConfig, vars
<1> QED BY <1>1, <1>2, <1>3, <1>4, <1>5, <1>6, <1>7, <1>8 DEF Next

\* Every addition to a counter is in one place: the counter, the record being
\* taken, a record in the logger or one that has left it.  So for any number of
\* counters, threads and records, with any restarts of the logger.
THEOREM NoCountLost == Spec => []CountsConserved
<1>1. Init => CountsInv
  BY CountsInvInit, LoggerAssumption, ConfigAssumption, StatsAssumption
<1>2. TypeInv /\ CountsInv /\ [Next]_vars => CountsInv'
  BY CountsInvNext, LoggerAssumption, ConfigAssumption, StatsAssumption, TelemetryAssumption
<1>3. CountsInv => CountsConserved
  BY DEF CountsInv, CountsConserved, Total
<1> QED BY <1>1, <1>2, <1>3, TypesInvariant, PTL DEF Spec
===============================================================================
